SPECIFICATION CSpec
CONSTANTS
  StepIds <- MCStepIds
  PlanBodies <- NoBodies
  MaxAttempts = 2
  MaxDispatches = 3
  LegacyTable = {FALSE}
  MaxPlans = 0
  MaxRuns = 1
  PlannerTools = {"shell"}
  Queries = {"instruction", "followup"}
  Instruction = "instruction"
  MaxPlannerCalls = 3
  MaxSubExplorations = 1
  MaxIterations = 1
  MaxRounds = 1
  Authoritative = FALSE
  AnswersValidated = TRUE
INVARIANTS CorrectiveWorkKept

CHECK_DEADLOCK FALSE
