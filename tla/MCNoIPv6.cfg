SPECIFICATION Spec
CONSTANTS
  IPv6 = {"::", "::1"}
  s1 = s1
  s2 = s2
  s3 = s3
  t1 = t1
  t2 = t2
  None = None
  Sessions = {s1, s2}
  Targets = {t1}
  TargetInits <- MCOneTarget
  TargetNames <- MCNames
  NetSets <- MCOneNet
  UserNets <- MCNets
  Internal <- MCInternal
  IPs <- MCIPs
  Pairs <- MCPairs
  Addresses = {"127.0.0.1", "localhost", "*"}
  HelperNames = {"", "pf"}
  Ranges = {"", "r"}
  Privileged = {}
  HostIPv6 = FALSE
  ForeignSockets = {}
  AutoPorts = {1, 2}
  Requests <- DefaultRequests
  Allowed = {}
SYMMETRY Symmetric
INVARIANTS DefaultAddressesWork
CHECK_DEADLOCK FALSE
