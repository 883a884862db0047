SPECIFICATION FairSpec
CONSTANTS
  s1 = s1  s2 = s2  NoStream = NoStream
  Streams <- TwoStreams
  Counts <- LongAndShort
  MaxAllowedIds = 2
  NumWorkers = 1
  ShardOffset = 1
  MachineIds = 2
  IdsPerChunk = 1
  StreamBufferSize = 1
PROPERTIES ShutdownCompletes StreamsAdvance
