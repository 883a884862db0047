SPECIFICATION Spec
CONSTANTS
  s1 = s1  s2 = s2  NoStream = NoStream
  Streams <- TwoStreams
  Counts <- AllKinds
  MaxAllowedIds = 3
  NumWorkers = 2
  ShardOffset = 1
  MachineIds = 2
  IdsPerChunk = 2
  StreamBufferSize = 1
SYMMETRY StreamSymmetry
INVARIANTS TypeOK BufferEmptyBetweenRequests WorkerNeverBlocked
INVARIANTS InflightExact NoDuplicateIds CompleteUnlessShutdown
