SPECIFICATION FairAttemptSpec
CONSTANTS
  j1 = j1
  w1 = w1
  t1 = t1
  t2 = t2
  NoWorker = NoWorker
  Job <- MCJob
  Worker <- OneWorker
  Task <- MCTask
  Host <- SameHost
  JobOf <- MCJobOf
  Modes = {"cli"}
  LeaseTicks = 1
  MaxAttempts = 2
  CliObjects = 1
  PromptWatchdog = FALSE
PROPERTIES
  LockReleased
  DeliveryEnds
CHECK_DEADLOCK FALSE
