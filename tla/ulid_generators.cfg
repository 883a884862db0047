SPECIFICATION FairSpec
CONSTANTS
  t1 = t1  t2 = t2  Shared = Shared  NoThread = NoThread
  Threads <- TwoThreads
  Kinds <- AllKinds
  TIMESTAMP_BITS = 2
  RANDOM_BITS = 1
  Seeds <- NewAndResumed
  Randoms <- WideRandoms
  RngPanics = TRUE
  MaxMillis = 2
INVARIANTS StateWasIssued
PROPERTIES IssuerSpec TimeOrdered Progress
CHECK_DEADLOCK FALSE
