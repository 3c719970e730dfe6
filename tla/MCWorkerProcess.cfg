SPECIFICATION FairProcessSpec
CONSTANTS
  MaxConcurrency = 2
  Cloud = TRUE
  Lifetime <- MCLifetime
  MinLifetime = 20
  UpdateTimeout = 4
  GracePeriod = 5
  IdlePause = 10
  Environments <- MCEnvironments
  NoSettings = NoSettings
INVARIANTS
  TasksProtected
  SettingsRefusedFirst
  NothingReceivedBlind
  NoTaskLeftBehind
PROPERTIES
  CountedNotDropped
  ProcessStops
CHECK_DEADLOCK FALSE
