SPECIFICATION Spec
CONSTANTS
  t1 = t1
  t2 = t2
  k1 = k1
  k2 = k2
  k3 = k3
  k4 = k4
  Threads <- MCThreads
  Keys <- MCKeys
  Batches <- MCBatches
  Capacity = 2
  MinCandidates = 2
  MaxSlots = 2
  MaxBatches = 3
INVARIANTS TypeOK FailsOnlyUnderPressure LoadedOnce
PROPERTIES RequestAnswered
CHECK_DEADLOCK FALSE
