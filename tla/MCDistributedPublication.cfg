SPECIFICATION PublicationSpec
CONSTANTS
  j1 = j1
  w1 = w1
  w2 = w2
  NoWorker = NoWorker
  Job <- MCJob
  TheJob = j1
  Worker <- MCWorker
  LeaseTicks = 2
  MaxAttempts = 2
  NRenditions = 2
  NSegments = 1
SYMMETRY WorkersEqual
INVARIANTS
  PublicationTypeOK
  PlaybackResolvable
  PublishedPlayable
PROPERTIES
  LapsedLeaseNeverRevived
  LiveLeaseNotStolen
  MasterImmutable
  ImplementsLifecycle
  ImplementsPublication
CHECK_DEADLOCK FALSE
