SPECIFICATION FairSpec
CONSTANTS
  Markets = {m1, m2}
  LastDay = 0
  MaxRestarts = 1
  Payout = 2
  Sides = {"yes"}
  Quantities = {1, 2}
  DiskFaults = {}
  MaxFailedWrites = 0
  MAX_DAILY_TRADES = 2
  MAX_DAILY_LOSS_CENTS = 1
  MAX_OPEN_POSITIONS = 1
  MAX_TRADE_DOLLARS = 2
  MAX_TOTAL_EXPOSURE = 3
  MIN_CONTRACT_PRICE_CENTS = 1
  MAX_CONTRACT_PRICE_CENTS = 1
  Windows <- OwnSeries
  STRATEGY_MODE = "fee_aware_model"
  MAX_TRADES_PER_WINDOW = 1
  Modes = {"live"}
  SignalSizes = {2}
  Balances = {2}
  Faults = {"order", "stopWrite", "sigterm"}
  MaxManualTrades = 0
  MaxStops = 0
INVARIANTS TypeOK BooksMatchExchange OpenCountBounded
PROPERTIES StopIsObeyed SettlementBooked
CHECK_DEADLOCK FALSE
