SPECIFICATION FairSpec
CONSTANTS
  p1 = p1  p2 = p2  s1 = s1  NoProcess = NoProcess
  Processes <- TwoProcesses
  Built <- ThreeBuilds
  Streams <- OneStream
  MaxCrashes = 1
  MaxExits = 1
INVARIANTS ReachableWhileListening FileOnlyAfterCrash HealthFirst 
PROPERTIES SignalEndsProcess ServiceReturns
