SPECIFICATION Spec
CONSTANTS
  StepIds <- MCStepIds
  PlanBodies <- MCPlanBodies
  MaxAttempts = 2
  MaxDispatches = 2
  FinishDispatchable = TRUE
  CallBound = 3
  MaxRuns = 2
INVARIANTS SuccessIsComplete NoStarvation
PROPERTIES LoopsOnlyByRetrying ImplementsTaskGraph
CHECK_DEADLOCK FALSE
