\* Three volumes for two ports, one node and a worker that comes and goes, two failing requests.
CONSTANTS
  n1 = n1
  n2 = n2
  v1 = v1
  v2 = v2
  v3 = v3
  NoVolume = NoVolume
  NoNode = NoNode
  Nodes <- MCNodes
  InitNodes <- MCInitNodes
  Volumes <- MCVolumes
  MaxPort = 2
  MaxFaults = 2
SPECIFICATION Spec
INVARIANTS TypeOK BoundIsUsable UnboundIsDetached
SYMMETRY VolumeSymmetry
