\* Three deployments, a pool of three with one reserved, one deletion task, one restart.
CONSTANTS
  n1 = n1
  n2 = n2
  n3 = n3
  d1 = d1
  NoIp = NoIp
  NoNode = NoNode
  Pool <- MCPool
  Reserved = {254}
  UsePing = TRUE
  Nodes <- MCNodes
  Deletions <- MCOneDeletion
  MaxRestarts = 1
SPECIFICATION Spec
SYMMETRY NodeSymmetry
INVARIANTS TypeOK UniqueIps
CHECK_DEADLOCK FALSE
