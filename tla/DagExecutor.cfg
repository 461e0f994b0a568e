SPECIFICATION Spec
CONSTANTS
  StepIds <- MCStepIds
  PlanBodies <- MCPlanBodies
  MaxAttempts = 2
  MaxDispatches = 3
  LegacyTable = {TRUE, FALSE}
  MaxPlans = 3
  MaxRuns = 2
INVARIANTS TypeOK NonIdempotentOnce DispatchBudget ProgressExact OutcomeTrue
PROPERTIES CompletedNeverRedone CallReturns ImplementsTaskGraph
