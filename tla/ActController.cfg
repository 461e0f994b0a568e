SPECIFICATION CSpec
CONSTANTS
  StepIds <- MCStepIds
  PlanBodies <- NoBodies
  MaxAttempts = 2
  MaxDispatches = 3
  LegacyTable = {TRUE}
  MaxPlans = 0
  MaxRuns = 2
  PlannerTools = {"search", "edit"}
  Queries = {"instruction", "followup"}
  Instruction = "instruction"
  MaxPlannerCalls = 3
  MaxSubExplorations = 1
  MaxIterations = 1
  MaxRounds = 1
  Authoritative = FALSE
  AnswersValidated = TRUE
INVARIANTS CTypeOK ExecutorFollowsPlan WorkBounded StepReachesToolOnce
PROPERTIES CompletedKept LoopEnds
CHECK_DEADLOCK FALSE
