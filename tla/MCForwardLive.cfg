SPECIFICATION FairSpec
CONSTANTS
  IPv6 = {"::", "::1"}
  s1 = s1
  s2 = s2
  s3 = s3
  t1 = t1
  t2 = t2
  None = None
  Sessions = {s1, s2}
  Targets = {t1}
  TargetInits <- MCOneTarget
  TargetNames <- MCNames
  NetSets <- MCOneNet
  UserNets <- MCNets
  Internal <- MCInternal
  IPs <- MCIPs
  Pairs <- MCPairs
  Addresses = {"127.0.0.1", "localhost", "*"}
  HelperNames = {"", "pf"}
  Ranges = {"", "r"}
  Privileged = {3}
  HostIPv6 = TRUE
  ForeignSockets <- PortSockets
  AutoPorts = {1, 2}
  Requests <- LiveRequests
  Allowed = {"cancel", "crash", "exit", "foreign", "cleanup"}
INVARIANTS PortInv NothingLeftBehind
PROPERTIES HelpersInCustody ForwardReturns CancelledHelperGoes PortErrorIsReal
CHECK_DEADLOCK FALSE
