CONSTANTS
  m = m  w1 = w1  w2 = w2  w3 = w3
  Nodes = {m, w1, w2, w3}
  Master = m
  Volumes = {data}
  NoVolume = NoVolume
  Hosts = {h1, h2}
  MasterHost = h1
  OtherNodes = {o1}
  NoNode = NoNode
  MaxScale = 3
  MaxTasks = 4
  MaxFaults = 2
SYMMETRY MCSymmetry
SPECIFICATION ScaleSpec
INVARIANTS ScaleTypeOK BindingsHold ClusterFollowsRows UpstreamFollowsRows
CHECK_DEADLOCK FALSE
