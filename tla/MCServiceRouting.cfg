CONSTANTS
  db1 = db1  web1 = web1  web2 = web2
  dev = dev  dev2 = dev2  ws1 = ws1  ws2 = ws2
  Services = {db1, web1, web2}
  Streams = {db1}
  Stateful = {db1}
  Namespaces = {dev, dev2}
  Workspaces = {ws1, ws2}
  NamespaceOf <- MCNamespaceOf
  WorkspaceOf <- MCWorkspaceOf
  Prefixes <- MCPrefixes
  NamePrefixes <- MCNamePrefixes
  Ports = {1, 2}
  Domains = {shop}
  NoDomain = NoDomain
  NoService = NoService
  MaxTasks = 4
  MaxFaults = 1
SPECIFICATION Spec
INVARIANTS TypeOK  ClusterFollowsRoutes NothingLeftBehind
CHECK_DEADLOCK FALSE
