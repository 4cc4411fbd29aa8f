SPECIFICATION GroupsSpec
CONSTANTS
  w1 = w1
  w2 = w2
  Workspaces = {w1, w2}
  u1 = u1
  u2 = u2
  Users = {u1, u2}
  admin = admin
  developer = developer
  Groups = {admin, developer}
  ClusterAdmin = admin
  r1 = r1
  r2 = r2
  Requests = {r1, r2}
  NoWorkspace = NoWorkspace
  MaxDeletes = 1
  MaxEvents = 2
SYMMETRY Symmetry
CHECK_DEADLOCK FALSE
INVARIANTS
  GroupsTypeOK
  GroupsFollowWorkspaces
  MembershipsFollowRequests
