SPECIFICATION FairSpec
CONSTANTS
  IPv6 = {"::", "::1"}
  s1 = s1
  s2 = s2
  s3 = s3
  t1 = t1
  t2 = t2
  None = None
  Sessions = {s1, s2}
  Targets = {t1, t2}
  TargetInits <- MCNamed
  TargetNames <- MCThreeNames
  NetSets <- MCOneNet
  UserNets <- MCNets
  Internal <- MCInternal
  IPs <- MCIPs
  Pairs <- MCPairs
  Addresses = {"127.0.0.1", "localhost", "*"}
  HelperNames = {"", "pf"}
  Ranges = {"", "r"}
  Privileged = {}
  HostIPv6 = TRUE
  ForeignSockets = {}
  AutoPorts = {1, 2}
  Requests <- OwnerRequests
  Allowed = {"rename", "serial"}
SYMMETRY Symmetric
PROPERTIES ReusedReachesTarget
CHECK_DEADLOCK FALSE
