\* One rejected preparation: the other call waits for ever.
CONSTANTS
  g1 = g1
  u1 = u1
  d1 = d1
  c1 = c1
  NoFile = {none}
  Calls <- MCTwoCalls
  Op <- MCTwoOps
  MaxRejects = 1
  MaxHangs = 0
  MaxReloadFaults = 0
  MaxCrashes = 0
SPECIFICATION FairSpec
PROPERTIES WaitersMoveOn
CHECK_DEADLOCK FALSE
