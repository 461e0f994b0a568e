SPECIFICATION Spec
CONSTANTS
  StepIds <- MCStepIds
  PlanBodies <- MCPlanBodies
  MaxAttempts = 2
  MaxDispatches = 2
  FinishDispatchable = TRUE
  CallBound = 3
  MaxRuns = 2
CHECK_DEADLOCK FALSE
INVARIANT DispatchCap
