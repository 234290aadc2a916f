SPECIFICATION Spec
CONSTANTS
  Modes = {"inprocess", "subprocess"}
  Operations = {"order", "query"}
  MaxAttempts = 3
INVARIANTS TypeOK InProcessOrderSubmittedOnce NoSilentFailure UnreportedFillHalts
PROPERTY Returns
CHECK_DEADLOCK FALSE
