SPECIFICATION Spec
CONSTANTS
  Payout = 100
  Unit = 100
  max_levels = 1
  MIN_CONTRACT_PRICE_CENTS = 10
  MAX_CONTRACT_PRICE_CENTS = 90
  MomentumSteps = 10
  MIN_CONFIDENCE = 3
  MAX_PRICE_DEVIATION = 20
  MAX_SLIPPAGE = 20
  MIN_DEPTH <- DefaultDepth
  MIN_EDGE_PCT = 5
  MAX_EDGE_PCT = 30
  FORBIDDEN_PRICE_LOW = 35
  FORBIDDEN_PRICE_HIGH = 56
  MIN_EXPECTED_NET_PER_CONTRACT = 10
  BASE_SIZE = 1
  MAX_SIZE = 10
  KALSHI_FEE_RATE = 7
  Books <- AllBooks
  Momenta <- SelectedMomenta
  StaleQuotes <- QuotesFromBefore
  MAX_TRADE_DOLLARS = 200
  PartFills = {10, 150}
  Improvements = {0, 1, 3}
  ExitBids = {1, 41, 75}
  MaxSales = 3
INVARIANTS SignalHasEdge CapCostsRoundingOnly SignalFromBookAlone TracksAccount EntryPriceHonest BookedPnlHonest
CHECK_DEADLOCK FALSE
