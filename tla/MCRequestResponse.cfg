\* One request of each kind (task controller, host node, collect), two hosts, one crash.
CONSTANTS
  h1 = h1
  h2 = h2
  Hosts <- MCHosts
  Requests = {"controller", "host", "collect"}
  Collect = {"collect"}
  AddressFirst = {"host"}
  ClearsTimer = {"host"}
  MaxCrashes = 1
SPECIFICATION FairSpec
INVARIANTS TypeOK
PROPERTIES ImplementsRpc RequestsSettle
CHECK_DEADLOCK FALSE
