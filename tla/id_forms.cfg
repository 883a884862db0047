SPECIFICATION Spec
CONSTANTS
  USIZE_BITS = 16
  TIMESTAMP_BITS = 4
  RANDOM_BITS = 4
  SIZE <- SmallSizes
  RESERVED_BITS <- OneReserved
  Texts <- SomeTexts
  Raws <- SomeRaws
  Messages <- SomeMessages
  Times <- SomeTimes
  PgTimes <- AllPgTimes
  PgRange <- FinitePgTimes
  Junk <- SomeJunk
  Randoms <- WideRandoms
  MICROS_PER_MS = 4
  PG_EPOCH_OFFSET_MICROS = 19
  I64_MAX = 100
INVARIANTS ErrorsAreRight BufferIsText OneCanonicalText OrderPreserved
INVARIANTS PgMeaningKept ScanExact
CHECK_DEADLOCK FALSE
