SPECIFICATION FairSpec
CONSTANTS
  t1 = t1  t2 = t2  t3 = t3
  Threads <- TwoThreads
  TIMESTAMP_BITS = 1
  MACHINE_ID_BITS = 1
  SEQUENCE_BITS = 2
  MachineId = 0
  Seeds <- NewOnly
  MaxMillis = 1
  Monotonic = FALSE
  DebugAssertions = TRUE
PROPERTIES IssuerSpec Progress
CHECK_DEADLOCK FALSE
