SPECIFICATION FairSpec
CONSTANTS
  t1 = t1  t2 = t2  t3 = t3  NoThread = NoThread
  Threads <- ThreeThreads
  TIMESTAMP_BITS = 1
  MACHINE_ID_BITS = 1
  SEQUENCE_BITS = 1
  MachineId = 1
  Seeds <- NewAndResumed
  MaxMillis = 2
  ParkingLot = FALSE
  DebugAssertions = TRUE
PROPERTIES IssuerSpec PoisonIsFinal Progress WaitersAreReleased
CHECK_DEADLOCK FALSE
