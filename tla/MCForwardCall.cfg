SPECIFICATION CallFairSpec
CONSTANTS
  IPv6 = {"::", "::1"}
  s1 = s1
  s2 = s2
  s3 = s3
  t1 = t1
  t2 = t2
  None = None
  Sessions = {s1}
  Targets = {t1, t2}
  TargetInits <- MCTarget
  TargetNames <- MCTwoNames
  NetSets <- MCPlainNets
  UserNets <- MCNets
  Internal <- MCInternal
  IPs <- MCIPs
  Pairs <- MCPairs
  Addresses = {"127.0.0.1", "localhost", "*"}
  HelperNames = {"", "pf"}
  Ranges = {"", "r"}
  Privileged = {}
  HostIPv6 = TRUE
  ForeignSockets = {}
  AutoPorts = {1, 2}
  Requests <- CallRequests
  Allowed = {"drift", "cancel", "fault", "crash", "image", "exit", "cleanup", "slow"}
  Asks <- MCAsks
  Compose <- MCCompose
  ListOrder <- MCListOrder
  Sockets <- MCSockets
INVARIANTS CallInv DetectedIsServed ServesAsked NothingLeftBehind
PROPERTIES ProbesInCustody HelpersInCustody ImplementsStartForward CallReturns
CHECK_DEADLOCK FALSE
