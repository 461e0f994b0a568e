SPECIFICATION Spec
CONSTANTS
  Files <- MCFiles
  Python <- MCPython
  Refused <- MCRefused
  Outside <- MCOutside
  Plans <- MCPlans
  InitialDisks <- OneDisk
  MaxFiles = 2
  Sandbox = TRUE
  Faults = FALSE
  MaxEdits = 1
PROPERTIES NoHostModification
CHECK_DEADLOCK FALSE
