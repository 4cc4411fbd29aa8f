\* One workspace, two deletions, two failing or unanswered requests.
CONSTANTS
  w1 = w1
  d1 = d1
  d2 = d2
  NoWorkspace = NoWorkspace
  Workspaces <- MCWorkspaces
  Deletions <- MCDeletions
  MaxFaults = 2
SPECIFICATION FairSpec
INVARIANTS TypeOK NoOrphanVm
PROPERTIES OrgGoesLast OrgIsDeleted
CHECK_DEADLOCK FALSE
