SPECIFICATION HeartbeatSpec
CONSTANTS
  NRecords = 2
  Lease = 6
  Visibility = 7
  Interval = 3
  RetryDelay = 2
  Latencies = {1, 7}
INVARIANTS
  BeliefSound
  EndCostsNobody
  
PROPERTIES
  RetryScheduleKept
CHECK_DEADLOCK FALSE
