SPECIFICATION Spec
CONSTANTS
  Markets = {m1, m2}
  LastDay = 1
  MaxRestarts = 2
  Payout = 2
  Sides = {"yes"}
  Quantities = {1}
  DiskFaults = {"open"}
  MaxFailedWrites = 1
  MAX_DAILY_TRADES = 2
  MAX_DAILY_LOSS_CENTS = 1
  MAX_OPEN_POSITIONS = 2
  MAX_TRADE_DOLLARS = 2
  MAX_TOTAL_EXPOSURE = 3
  MIN_CONTRACT_PRICE_CENTS = 1
  MAX_CONTRACT_PRICE_CENTS = 1
INVARIANTS TypeOK StatsMatchLog RowsConserved DailyEntriesBounded
PROPERTY LossGate
SYMMETRY Symmetry
CHECK_DEADLOCK FALSE
