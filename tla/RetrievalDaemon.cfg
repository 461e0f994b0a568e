SPECIFICATION Spec
CONSTANTS
  p1 = p1
  p2 = p2
  p3 = p3
  a1 = a1
  a2 = a2
  Procs <- MCProcs
  Agents <- MCAgents
  Lazy = TRUE
  MaxPolls = 1
  PipeSize = 1
INVARIANTS OneDaemon PidIsHolderOrDead
PROPERTIES GivesWayToTheLiving StartupReturns
CHECK_DEADLOCK FALSE
