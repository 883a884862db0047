SPECIFICATION Spec
CONSTANTS
  t1 = t1  t2 = t2  t3 = t3
  Threads <- ThreeThreads
  TIMESTAMP_BITS = 2
  MACHINE_ID_BITS = 1
  SEQUENCE_BITS = 1
  MachineId = 1
  Seeds <- NewAndResumed
  MaxMillis = 2
  Monotonic = TRUE
  DebugAssertions = FALSE
SYMMETRY ThreadSymmetry
INVARIANTS StrictlyIncreasing NoSequenceGaps NoFutureTimestamp BackoffBounded
