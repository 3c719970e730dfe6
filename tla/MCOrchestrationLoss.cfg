SPECIFICATION OrchestrationSpec
CONSTANTS
  r1 = r1
  r2 = r2
  Attempts = 2
  Planned <- One
  Cap = 1
  StartTries = 2
  Confirmations = 2
  Misses = 1
  Foreign = {}
  LateStart = FALSE
  LateRecord = FALSE
CHECK_DEADLOCK FALSE
PROPERTY LossCancels
