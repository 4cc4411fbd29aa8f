\* One call of each operation, one rejected and one hanging preparation, two refused reloads, a crash.
CONSTANTS
  g1 = g1
  u1 = u1
  d1 = d1
  c1 = c1
  NoFile = {none}
  Calls <- MCAllCalls
  Op <- MCAllOps
  MaxRejects = 1
  MaxHangs = 1
  MaxReloadFaults = 2
  MaxCrashes = 1
SPECIFICATION FairSpec
INVARIANTS TypeOK MutualExclusion NoLostEdit FailedLeavesNothing SuccessIsLive
PROPERTY CallsEnd
CHECK_DEADLOCK FALSE
