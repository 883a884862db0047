SPECIFICATION FairSpec
CONSTANTS
  t1 = t1
  Readers <- OneTask
  MachineId = 1
  Providers <- BothProviders
  Epochs <- PastAndFuture
  WallOffsets <- Adjusted
  N = 2
  UnitsPerMs = 2
  MaxTime = 6
  U64_MAX = 3
  MaxRestarts = 1
  TIMESTAMP_BITS = 3
  MACHINE_ID_BITS = 1
  SEQUENCE_BITS = 1
INVARIANTS LeadKept NoRepeatAcrossRestarts
PROPERTIES NeverBack SleepSuffices TasksFinish
