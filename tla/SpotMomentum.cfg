SPECIFICATION FairSpec
CONSTANTS
  Symbols = {"ETH", "BTC"}
  Btc = "BTC"
  SymbolOf <- EthAndBtc
  SoftTtl = 2
  MaxStale = 5
  Interval = 1
  MaxWork = 0
  MaxCall = 1
  MaxFetch = 1
  MaxAct = 1
INVARIANTS MomentumFresh OneFetchAtATime
PROPERTY SpotRecovers
