SPECIFICATION AnsweredSpec
CONSTANTS
  r1 = r1
  r2 = r2
  Attempts = 2
  Planned <- One
  Cap = 1
  StartTries = 2
  Confirmations = 2
  Misses = 1
  Foreign = {1}
  LateStart = TRUE
  LateRecord = TRUE
CHECK_DEADLOCK FALSE
INVARIANT CompletedBySuccess
PROPERTY BridgeReturns
