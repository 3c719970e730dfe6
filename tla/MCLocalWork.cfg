SPECIFICATION WorkSpec
CONSTANTS
  t1 = t1
  t2 = t2
  t3 = t3
  Nobody = Nobody
  Task <- MCTask
  MaxConcurrency = 3
  Disk = 5
  Temporary = 2
  SourceSize = 1
  Reserve = 1
  Rate = 2
INVARIANTS
  ReserveKept
  BudgetExact
PROPERTIES
  WorkEnds
CHECK_DEADLOCK FALSE
