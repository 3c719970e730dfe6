SPECIFICATION FairDeliverySpec
CONSTANTS
  j1 = j1
  j2 = j2
  w1 = w1
  w2 = w2
  m1 = m1
  m2 = m2
  s1 = s1
  s2 = s2
  NoWorker = NoWorker
  Malformed = Malformed
  Job <- MCJob
  Worker <- MCWorker
  Message <- MCMessage
  Contents <- MCContents
  Slot <- MCSlot
  SlotWorker <- MCSlotWorker
  ModeOf <- MixedModes
  LeaseTicks = 1
  MaxAttempts = 2
  MaxReceives = 2
INVARIANTS
  DeletedMeansCompleted
  DelayOnlyWhenReleased
PROPERTIES
  MessageSettles
CHECK_DEADLOCK FALSE
