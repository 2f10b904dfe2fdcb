SPECIFICATION CleanupSpec
CONSTANTS
  IPv6 = {"::", "::1"}
  s1 = s1
  s2 = s2
  s3 = s3
  t1 = t1
  t2 = t2
  None = None
  Sessions = {s1, s2}
  Targets = {t1}
  TargetInits <- MCBothNets
  TargetNames <- MCNames
  NetSets <- MCTwoNets
  UserNets <- MCNets
  Internal <- MCInternal
  IPs = {"172.17.0.2"}
  Pairs <- MCPairs
  Addresses = {"127.0.0.1", "localhost", "*"}
  HelperNames = {"", "pf"}
  Ranges = {"", "r"}
  Privileged = {}
  HostIPv6 = TRUE
  ForeignSockets = {}
  AutoPorts = {1, 2}
  Requests <- CleanupRequests
  Allowed = {"crash", "exit", "cleanup", "cfault", "network"}
  Commands <- MCCommands
SYMMETRY Symmetric
INVARIANTS CleanupInv CleanupIsComplete CountedAreGone ExitZeroMeansGone
PROPERTIES CleanupRemovesListed ReportedStaleIsSound
CHECK_DEADLOCK FALSE
