SPECIFICATION Spec
CONSTANTS
  Files <- MCFiles
  Python <- MCPython
  Refused <- MCRefused
  Outside <- MCOutside
  Plans <- MCPlans
  InitialDisks <- MCDisks
  MaxFiles = 2
  Sandbox = TRUE
  Faults = TRUE
  MaxEdits = 2
INVARIANTS TypeOK
PROPERTIES SandboxIsolation EditEnds ImplementsAtomicEdit
CHECK_DEADLOCK FALSE
