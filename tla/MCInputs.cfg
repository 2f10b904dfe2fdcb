SPECIFICATION InputSpec
CONSTANTS
  IPv6 = {"::", "::1"}
  Options <- MCOptions
  Number <- MCNumber
  Text <- MCText
  Colons <- MCColons
  IPv4s <- MCIPv4s
  Width <- MCWidth
INVARIANTS PairsSurviveText BindingsSurviveLabel PairsAreBindable PolicyIsAsAsked
PROPERTIES RangesCompareByClients
