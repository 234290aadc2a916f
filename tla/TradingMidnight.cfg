SPECIFICATION Spec
CONSTANTS
  Markets = {m1}
  LastDay = 1
  MaxRestarts = 1
  Payout = 3
  Sides = {"yes"}
  Quantities = {1, 2}
  DiskFaults = {}
  MaxFailedWrites = 0
  MAX_DAILY_TRADES = 1
  MAX_DAILY_LOSS_CENTS = 1
  MAX_OPEN_POSITIONS = 2
  MAX_TRADE_DOLLARS = 2
  MAX_TOTAL_EXPOSURE = 4
  MIN_CONTRACT_PRICE_CENTS = 1
  MAX_CONTRACT_PRICE_CENTS = 1
  Windows <- OwnSeries
  STRATEGY_MODE = "fee_aware_model"
  MAX_TRADES_PER_WINDOW = 1
  Modes = {"live"}
  SignalSizes = {2}
  Balances = {2}
  Faults = {"crash", "manual", "record"}
  MaxManualTrades = 1
  MaxStops = 0
PROPERTIES FollowsBooks FailedExitsForbidEntries
CHECK_DEADLOCK FALSE
