SPECIFICATION AttemptSpec
CONSTANTS
  j1 = j1
  w1 = w1
  t1 = t1
  t2 = t2
  NoWorker = NoWorker
  Job <- MCJob
  Worker <- OneWorker
  Task <- MCTask
  Host <- SameHost
  JobOf <- MCJobOf
  Modes = {"cli", "distributed"}
  LeaseTicks = 2
  MaxAttempts = 2
  CliObjects = 2
  PromptWatchdog = TRUE
SYMMETRY TaskSymmetry
INVARIANTS
  LocalDeadlineSound
  RunningAttemptNotEnded
  ManifestLast
  CompletedOutputStored
CHECK_DEADLOCK FALSE
