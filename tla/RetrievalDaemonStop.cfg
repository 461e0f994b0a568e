SPECIFICATION Spec
CONSTANTS
  p1 = p1
  p2 = p2
  p3 = p3
  a1 = a1
  a2 = a2
  Procs <- MCProcs
  Agents <- MCAgents
  Lazy = TRUE
  MaxPolls = 2
  PipeSize = 2
INVARIANTS StopFindsServer
CHECK_DEADLOCK FALSE
