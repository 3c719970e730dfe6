SPECIFICATION OrchestrationSpec
CONSTANTS
  r1 = r1
  r2 = r2
  Attempts = 2
  Planned <- Both
  Cap = 2
  StartTries = 1
  Confirmations = 2
  Misses = 1
  Foreign = {}
  LateStart = FALSE
  LateRecord = TRUE
CHECK_DEADLOCK FALSE
SYMMETRY RenditionSymmetry
INVARIANT ChildBound
PROPERTY ImplementsSlots
