SPECIFICATION Spec
CONSTANTS
  Window = 6
  DiscoveryTtl = 4
  CloseMargin = 2
  Interval = 1
  MaxCall = 2
  MaxGather = 2
  MaxAct = 2
  MaxBookAge = 2
INVARIANTS ExitQuoteFresh CachedMarketOpen
