SPECIFICATION Spec
CONSTANTS
  Files <- MCFiles
  Python <- MCPython
  Refused <- MCRefused
  Outside <- MCOutside
  Plans <- MCPlans
  InitialDisks <- OneDisk
  MaxFiles = 2
  Sandbox = FALSE
  Faults = FALSE
  MaxEdits = 1
INVARIANTS FailedEditRestores
CHECK_DEADLOCK FALSE
