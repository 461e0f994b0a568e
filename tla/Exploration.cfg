SPECIFICATION Spec
CONSTANTS
  f1 = f1
  f2 = f2
  f3 = f3
  s1 = s1
  s2 = s2
  Files <- MCFiles
  Symbols <- MCSymbols
  Outline <- MCOutline
  Discoveries <- MCDiscoveries
  Expansions <- MCExpansions
  MaxSteps = 3
  MaxBacktracks = 1
  MaxRefines = 2
  MaxDepth = 1
  MaxItems = 2
  FirstLimit = 2
  NextLimit = 1
INVARIANTS TypeOK QueueFresh AnalysedReported CompleteIsGrounded
PROPERTIES ExplorationEnds
CHECK_DEADLOCK FALSE
