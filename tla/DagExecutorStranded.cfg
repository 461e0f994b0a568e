SPECIFICATION Spec
CONSTANTS
  StepIds <- MCStepIds
  PlanBodies <- MCAsIsPlanBodies
  MaxAttempts = 2
  MaxDispatches = 3
  LegacyTable = {FALSE}
  MaxPlans = 3
  MaxRuns = 2
INVARIANT NoStrandedTask
