SPECIFICATION Spec
CONSTANTS
  s1 = s1  s2 = s2  NoStream = NoStream
  Streams <- OneStream
  Counts <- SingleIds
  MaxAllowedIds = 1
  NumWorkers = 1
  ShardOffset = 1
  MachineIds = 2
  IdsPerChunk = 1
  StreamBufferSize = 1
INVARIANTS NoSilentTruncation
