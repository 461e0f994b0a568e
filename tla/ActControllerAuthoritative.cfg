SPECIFICATION CSpec
CONSTANTS
  StepIds <- MCStepIds
  PlanBodies <- NoBodies
  MaxAttempts = 2
  MaxDispatches = 3
  LegacyTable = {FALSE}
  MaxPlans = 0
  MaxRuns = 2
  PlannerTools = {"shell", "edit"}
  Queries = {"instruction", "followup"}
  Instruction = "instruction"
  MaxPlannerCalls = 3
  MaxSubExplorations = 1
  MaxIterations = 8
  MaxRounds = 2
  Authoritative = TRUE
  AnswersValidated = TRUE
INVARIANTS RejectedAnswerNeverStops
PROPERTIES NoBlindResynthesis
CHECK_DEADLOCK FALSE
