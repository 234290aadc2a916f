SPECIFICATION Spec
CONSTANTS
  Markets = {"BTC1", "BTC2", "ETH1"}
  LastDay = 0
  MaxRestarts = 1
  Payout = 2
  Sides = {"yes"}
  Quantities = {1, 2}
  DiskFaults = {}
  MaxFailedWrites = 0
  MAX_DAILY_TRADES = 3
  MAX_DAILY_LOSS_CENTS = 3
  MAX_OPEN_POSITIONS = 2
  MAX_TRADE_DOLLARS = 2
  MAX_TOTAL_EXPOSURE = 2
  MIN_CONTRACT_PRICE_CENTS = 1
  MAX_CONTRACT_PRICE_CENTS = 1
  Windows <- TwoSeries
  STRATEGY_MODE = "reddit_time_delay"
  MAX_TRADES_PER_WINDOW = 1
  Modes = {"live"}
  SignalSizes = {2}
  Balances = {2}
  Faults = {"order", "read", "raise"}
  MaxManualTrades = 0
  MaxStops = 0
INVARIANTS WindowEntriesBounded ExposureBounded BooksMatchExchange
PROPERTY FailedExitsForbidEntries
CHECK_DEADLOCK FALSE
