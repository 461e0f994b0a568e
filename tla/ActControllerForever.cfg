SPECIFICATION CSpec
CONSTANTS
  StepIds <- MCStepIds
  PlanBodies <- NoBodies
  MaxAttempts = 2
  MaxDispatches = 3
  LegacyTable = {TRUE}
  MaxPlans = 0
  MaxRuns = 1
  PlannerTools = {"search", "edit"}
  Queries = {"instruction", "followup"}
  Instruction = "instruction"
  MaxPlannerCalls = 3
  MaxSubExplorations = 1
  MaxIterations = 8
  MaxRounds = 2
  Authoritative = TRUE
  AnswersValidated = TRUE

PROPERTIES LoopEnds
CHECK_DEADLOCK FALSE
