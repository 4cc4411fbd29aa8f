\* Three versions, five tasks, two requests that fail.
CONSTANTS
  v1 = v1
  v2 = v2
  v3 = v3
  NoTag = NoTag
  Tags <- MCTags
  Total = 100
  Weights <- MCWeights
  MaxApps = 2
  MaxTasks = 5
  MaxFaults = 2
SPECIFICATION Spec
SYMMETRY Symmetry
INVARIANTS TypeOK WeightsAddUp RuleFollowsRows RowsMatchReleases
PROPERTY NoOutage
CHECK_DEADLOCK FALSE
