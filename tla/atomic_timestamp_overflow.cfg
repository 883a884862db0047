SPECIFICATION Spec
CONSTANTS
  t1 = t1  t2 = t2  t3 = t3
  Threads <- TwoThreads
  TIMESTAMP_BITS = 1
  MACHINE_ID_BITS = 1
  SEQUENCE_BITS = 1
  MachineId = 1
  Seeds <- NewOnly
  MaxMillis = 2
  Monotonic = TRUE
  DebugAssertions = FALSE
INVARIANTS StrictlyIncreasing
