\* Three rows, one of each kind whose handler may leave the usual course, two calls
\* in flight, one crash and one failed statement.
CONSTANTS
  r1 = r1
  r2 = r2
  NoTask = NoTask
  Runs <- MCRuns
  Tasks = {1, 2, 3}
  Deferrable = {2}
  Updates = {3}
  Volumes = {2}
  Undoing = {1}
  MaxCrashes = 1
  MaxDbErrors = 1
SPECIFICATION FairSpec
INVARIANTS TypeOK NoConcurrentExecution NoOrphanWithoutFault
PROPERTIES SettledIsFinal ImplementsLifecycle PendingIsExecuted
