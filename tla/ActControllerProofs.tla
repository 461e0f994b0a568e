------------------------ MODULE ActControllerProofs ------------------------
(* What the loop promises together with its executor, for every budget, every *)
(* set of tools, both kinds of decision and any number of runs.               *)
EXTENDS ActController, DagExecutorProofs

USE DEF NoStep, NoPlan

\* The part of CInv that the plan, the executor and the observer have in common.
Core ==
  /\ ctl \in {"bootstrap", "decide", "act", "ended"}
  /\ plan \in PlanDocument
  /\ plannerCalls \in 0 .. MaxPlannerCalls
  /\ ending \in Ending
  /\ ExecutorFollowsPlan /\ WorkBounded /\ StepReachesToolOnce
  /\ WorkPaid /\ PlanWellFormed /\ LoadedPlan /\ SendsCounted
  /\ ending # "none" => ctl = "ended"

\* The rest: what concerns explorations and answers.
Answers ==
  /\ subs \in 0 .. MaxSubExplorations
  /\ iter \in 0 .. MaxIterations + 1
  /\ gates \in BOOLEAN
  /\ lastQuery \in Queries
  /\ lastOutcome \in LoopOutcome
  /\ blocked \in BOOLEAN
  /\ rounds \in 0 .. MaxRounds
  /\ RejectedAnswerNeverStops
  /\ blocked => Authoritative /\ AnswersValidated
  /\ blocked => lastOutcome \notin {"synthesize_completed", "validation_complete"}

LEMMA Parts == CInv <=> IInv /\ Core /\ Answers /\ RejectedOnLess
  BY DEF CInv, Core, Answers, CTypeOK, AnswersKnown

\* Outside a call the executor's invariant only needs its own variables.
LEMMA ExecutorIdle ==
  ASSUME IInv, UNCHANGED executorVars, nextPlan' \in Nat, nextPlan' >= nextPlan
  PROVE  IInv'
  BY DEF executorVars, objectVars, stateVars, callVars, IInv, TypeOK, TaskLifecycle,
         DispatchBudget, ProgressExact, HistoryOnce, Completed

\* What one more planner call pays for.
LEMMA OneMore ==
  ASSUME NEW a \in Nat, NEW b \in Nat, b = a + 1, NEW m \in Nat, NEW c \in Nat, c <= a * m
  PROVE  c <= b * m /\ c <= (b - 1) * m
  BY SMT

------------------------------------------------------------------------------
\* Plans.

\* What the planner's plan looks like: all of it is new, and it has at most one
\* step that is not a finish.
NewPlan(new) ==
  /\ new \in PlanDocument
  /\ new.pid = nextPlan
  /\ new.steps \subseteq 1 .. 2 * (plannerCalls + 1)
  /\ \A s \in StepIds : new.from[s] = nextPlan
  /\ \A s, t \in new.steps : new.tool[s] # "finish" /\ new.tool[t] # "finish" => s = t

LEMMA PlannerPlansNew ==
  ASSUME IInv, Core, plannerCalls < MaxPlannerCalls,
         NEW prior \in SUBSET (1 .. 2 * plannerCalls), NEW new \in PlannerPlans(prior)
  PROVE  NewPlan(new)
  <1>1. nextPlan \in Nat /\ plannerCalls \in Nat
    BY DEF IInv, TypeOK, Core
  <1>2. AllowedTools \subseteq Tools
    BY ControllerAssumption DEF AllowedTools
  <1>3. ASSUME NEW base \in LargestId(prior)
        PROVE  /\ base \in Nat
               /\ base + 1 \in 1 .. 2 * (plannerCalls + 1)
               /\ base + 2 \in 1 .. 2 * (plannerCalls + 1)
    BY <1>1 DEF LargestId
  <1>4. 1 .. 2 * (plannerCalls + 1) \subseteq StepIds
    BY <1>1, EnoughIdsAssumption, ControllerAssumption
  <1>5. "finish" \in Tools
    BY DEF Tools
  <1>6. CASE \E base \in LargestId(prior), t \in AllowedTools : new = ActPlan(base, t)
    <2>1. PICK base \in LargestId(prior), t \in AllowedTools : new = ActPlan(base, t)
      BY <1>6
    <2>2. t \in Tools /\ Instruction \in Queries
      BY <1>2, ControllerAssumption
    <2>3. new \in PlanDocument
      BY <1>1, <1>3, <1>4, <1>5, <2>1, <2>2 DEF ActPlan, PlanDocument
    <2>4. base + 1 \in StepIds /\ base + 2 \in StepIds /\ base + 1 # base + 2
      BY <1>3, <1>4
    <2>5. /\ new.pid = nextPlan /\ new.steps = {base + 1, base + 2}
          /\ new.tool[base + 2] = "finish"
          /\ \A s \in StepIds : new.from[s] = nextPlan
      BY <2>1, <2>4 DEF ActPlan
    <2> QED
      BY <1>3, <2>3, <2>5 DEF NewPlan
  <1>7. CASE \E base \in LargestId(prior), d \in {"explore", "replan", "stop"}, q \in Queries :
               new = OtherPlan(base, d, q)
    <2>1. PICK base \in LargestId(prior), d \in {"explore", "replan", "stop"}, q \in Queries :
            new = OtherPlan(base, d, q)
      BY <1>7
    <2>2. new \in PlanDocument
      BY <1>1, <1>3, <1>4, <1>5, <2>1 DEF OtherPlan, PlanDocument
    <2> QED
      BY <1>3, <2>1, <2>2 DEF OtherPlan, NewPlan
  <1> QED
    BY <1>6, <1>7, ControllerAssumption DEF PlannerPlans

\* Merging keeps the completed steps of the old plan as they are, and every
\* other step of the result is new.
MergedPlan(p) ==
  /\ p \in PlanDocument
  /\ p.pid = nextPlan
  /\ p.steps \subseteq 1 .. 2 * (plannerCalls + 1)
  /\ \A s \in p.steps \ persistent : p.from[s] = nextPlan
  /\ \A s, t \in p.steps \ persistent :
       p.tool[s] # "finish" /\ p.tool[t] # "finish" => s = t

LEMMA MergeNew ==
  ASSUME IInv, Core, NEW new, NewPlan(new)
  PROVE  /\ MergedPlan(Merge(plan, new))
         /\ \A s \in plan.steps \cap persistent :
              /\ s \in Merge(plan, new).steps
              /\ Merge(plan, new).tool[s] = plan.tool[s]
              /\ Merge(plan, new).from[s] = plan.from[s]
  <1> DEFINE kept == plan.steps \cap persistent
             m == Merge(plan, new)
  <1>1. plan \in PlanDocument /\ new \in PlanDocument /\ plannerCalls \in Nat
    BY DEF Core, NewPlan
  <1>2. /\ m.pid = new.pid /\ m.steps = new.steps \cup kept
        /\ m.decision = new.decision /\ m.query = new.query
        /\ m.tool = [s \in StepIds |-> IF s \in kept THEN plan.tool[s] ELSE new.tool[s]]
        /\ m.deps = [s \in StepIds |-> IF s \in kept THEN plan.deps[s] ELSE new.deps[s]]
        /\ m.from = [s \in StepIds |-> IF s \in kept THEN plan.from[s] ELSE new.from[s]]
    BY <1>1 DEF Merge, WithKept, PlanDocument
  <1>3. m \in PlanDocument
    BY <1>1 DEF Merge, WithKept, PlanDocument
  <1>4. plan.steps \subseteq StepIds /\ new.steps \subseteq StepIds
    BY <1>1 DEF PlanDocument
  <1>5. m.steps \subseteq 1 .. 2 * (plannerCalls + 1)
    BY <1>1, <1>2 DEF Core, PlanWellFormed, NewPlan
  <1> HIDE DEF m
  <1>6. MergedPlan(m)
    BY <1>2, <1>3, <1>4, <1>5 DEF MergedPlan, NewPlan
  <1>7. \A s \in kept : s \in m.steps /\ m.tool[s] = plan.tool[s] /\ m.from[s] = plan.from[s]
    BY <1>2, <1>4
  <1> QED
    BY <1>6, <1>7 DEF m

\* A first plan is a plan like any other.
LEMMA NewIsMerged ==
  ASSUME NEW new, NewPlan(new)
  PROVE  MergedPlan(new)
  BY DEF NewPlan, MergedPlan, PlanDocument

------------------------------------------------------------------------------
\* The core of the invariant, for each way in which a step can change it.

\* The run ends; the planner may have been asked in vain.
LEMMA EndCore ==
  ASSUME IInv, Core, phase = "idle", NEW how \in Ending \ {"none"}, End(how),
         UNCHANGED <<executorVars, nextPlan, reached>>,
         plannerCalls' = plannerCalls \/ CountPlannerCall
  PROVE  Core'
  <1> USE DEF executorVars, objectVars, stateVars, callVars
  <1>1. /\ ctl' = "ended" /\ ending' = how /\ plan' = plan
        /\ plannerCalls \in Nat /\ plannerCalls' \in Nat /\ plannerCalls <= plannerCalls'
        /\ plannerCalls' <= MaxPlannerCalls /\ MaxPlannerCalls \in Nat
    BY ControllerAssumption DEF End, Core, CountPlannerCall
  <1>2. calls \in Nat /\ MaxAttempts \in Nat
    BY BoundsAssumption DEF IInv, TypeOK
  <1>3. calls <= plannerCalls * MaxAttempts
    BY DEF Core, WorkBounded
  <1>4. WorkBounded'
    <2>1. CASE plannerCalls' = plannerCalls
      BY <1>1, <1>3, <2>1 DEF WorkBounded
    <2>2. CASE plannerCalls' = plannerCalls + 1
      <3>1. calls <= plannerCalls' * MaxAttempts
        BY <1>1, <1>2, <1>3, <2>2, OneMore
      <3> QED
        BY <1>1, <3>1 DEF WorkBounded
    <2> QED
      BY <2>1, <2>2 DEF CountPlannerCall
  <1>5. PlanWellFormed'
    BY <1>1 DEF Core, PlanWellFormed
  <1>6. WorkPaid' /\ LoadedPlan' /\ SendsCounted' /\ ExecutorFollowsPlan' /\ StepReachesToolOnce'
    BY <1>1 DEF Core, WorkPaid, LoadedPlan, SendsCounted, ExecutorFollowsPlan, StepReachesToolOnce, Doc
  <1> QED
    BY <1>1, <1>4, <1>5, <1>6 DEF Core

\* A new plan is taken over.
LEMMA PlanCore ==
  ASSUME IInv, Core, phase = "idle", CountPlannerCall, MergedPlan(plan'), ctl' = "decide",
         ctl # "ended", nextPlan' = nextPlan + 1,
         UNCHANGED <<executorVars, ending, reached>>
  PROVE  Core'
  <1> USE DEF executorVars, objectVars, stateVars, callVars
  <1>1. /\ plannerCalls \in Nat /\ plannerCalls' = plannerCalls + 1 /\ plannerCalls' <= MaxPlannerCalls
        /\ calls \in Nat /\ MaxAttempts \in Nat /\ nextPlan \in Nat \ {0} /\ doc.pid < nextPlan
        /\ doc.pid \in Nat /\ MaxPlannerCalls \in Nat
    BY BoundsAssumption, ControllerAssumption DEF CountPlannerCall, Core, IInv, TypeOK
  <1>2. WorkBounded' /\ WorkPaid'
    <2>1. calls <= plannerCalls * MaxAttempts
      BY DEF Core, WorkBounded
    <2>2. calls <= plannerCalls' * MaxAttempts /\ calls <= (plannerCalls' - 1) * MaxAttempts
      BY <1>1, <2>1, OneMore
    <2>3. /\ calls' = calls /\ phase' = "idle" /\ plannerCalls' > 0 /\ ctl' = "decide"
      BY <1>1
    <2> QED
      BY <1>1, <2>2, <2>3 DEF WorkBounded, WorkPaid
  <1>3. PlanWellFormed'
    BY <1>1 DEF MergedPlan, PlanWellFormed, PlanDocument
  <1>4. LoadedPlan' /\ ExecutorFollowsPlan'
    BY <1>1 DEF LoadedPlan, MergedPlan, ExecutorFollowsPlan
  <1>5. SendsCounted'
    BY <1>1 DEF Core, SendsCounted, MergedPlan
  <1>6. StepReachesToolOnce'
    BY DEF Core, StepReachesToolOnce
  <1> QED
    BY <1>1, <1>2, <1>3, <1>4, <1>5, <1>6 DEF Core, MergedPlan

\* The decision changes nothing but what concerns explorations and answers.
LEMMA SameCore ==
  ASSUME Core, UNCHANGED <<executorVars, nextPlan, ctl, plan, ending, plannerCalls, reached>>
  PROVE  Core'
  BY DEF Core, executorVars, objectVars, stateVars, callVars, WorkBounded, WorkPaid,
         PlanWellFormed, LoadedPlan, SendsCounted, ExecutorFollowsPlan, StepReachesToolOnce, Doc

\* Replan, with or without the current plan as the prior one.
LEMMA ReplanCore ==
  ASSUME IInv, Core, phase = "idle", ctl # "ended", NEW prior \in {{}, plan.steps}, Replan(prior),
         UNCHANGED <<executorVars, reached>>
  PROVE  Core' /\ nextPlan' \in Nat /\ nextPlan' >= nextPlan
  <1>1. nextPlan \in Nat /\ plannerCalls \in 0 .. MaxPlannerCalls /\ MaxPlannerCalls \in Nat
    BY ControllerAssumption DEF IInv, TypeOK, Core
  <1>2. CASE \E how \in {"failed", "raised"} :
               End(how) /\ UNCHANGED nextPlan /\ (plannerCalls' = plannerCalls \/ CountPlannerCall)
    BY <1>1, <1>2, EndCore DEF Ending
  <1>3. CASE /\ CountPlannerCall
             /\ \E new \in PlannerPlans(prior) : plan' = Merge(plan, new)
             /\ nextPlan' = nextPlan + 1
             /\ ctl' = "decide"
             /\ UNCHANGED ending
    <2>1. PICK new \in PlannerPlans(prior) : plan' = Merge(plan, new)
      BY <1>3
    <2>2. prior \in SUBSET (1 .. 2 * plannerCalls)
      BY DEF Core, PlanWellFormed
    <2>3. NewPlan(new)
      BY <1>3, <2>2, PlannerPlansNew DEF CountPlannerCall
    <2>4. MergedPlan(plan')
      BY <2>1, <2>3, MergeNew DEF MergedPlan
    <2> QED
      BY <1>1, <1>3, <2>4, PlanCore
  <1> QED
    BY <1>1, <1>2, <1>3 DEF Replan, CountPlannerCall

------------------------------------------------------------------------------
\* The executor's part of the core.

\* The call hands the plan over; its tasks are compiled, since its plan_id is
\* fresh, and none of them has been sent.
LEMMA CallCore ==
  ASSUME IInv, Core, CallExecutor
  PROVE  IInv' /\ Core'
  <1>1. /\ ctl = "decide" /\ ctl' = "act" /\ EnsureTasks(Doc(plan))
        /\ UNCHANGED <<nextPlan, plan, plannerCalls, ending, reached>>
    BY DEF CallExecutor, Decide
  <1>2. /\ plan.pid # doc.pid /\ Doc(plan).pid = plan.pid /\ plan.pid < nextPlan
        /\ nextPlan \in Nat \ {0}
        /\ Doc(plan) \in [pid : Nat, steps : SUBSET StepIds, tool : [StepIds -> Tools],
                          deps : [StepIds -> SUBSET StepIds]]
    BY <1>1 DEF Core, LoadedPlan, PlanWellFormed, PlanDocument, Doc, IInv, TypeOK
  <1>3. IInv'
    BY <1>1, <1>2, EnsureTasksInv
  <1>4. /\ doc' = Doc(plan) /\ phase' = "select" /\ UNCHANGED <<persistent, calls>>
    BY <1>1, <1>2 DEF EnsureTasks
  <1>5. WorkBounded' /\ WorkPaid'
    BY <1>1, <1>4 DEF Core, WorkBounded, WorkPaid
  <1>6. PlanWellFormed' /\ LoadedPlan' /\ ExecutorFollowsPlan' /\ StepReachesToolOnce'
    BY <1>1, <1>4 DEF Core, PlanWellFormed, LoadedPlan, ExecutorFollowsPlan, StepReachesToolOnce, Doc
  <1>7. SendsCounted'
    BY <1>1, <1>2, <1>4 DEF Core, SendsCounted
  <1> QED
    BY <1>1, <1>3, <1>5, <1>6, <1>7 DEF Core

\* A step of the executor preserves its own invariant and leaves the document,
\* the plan ids and the runs alone.
LEMMA ExecuteInv ==
  ASSUME IInv, ExecutorStep
  PROVE  IInv' /\ UNCHANGED <<doc, nextPlan, runs, planSafe>> /\ phase # "idle"
  <1>1. CASE NothingReady \/ ArgumentsRaise
    BY <1>1, LeaveCallInv
    DEF NothingReady, ArgumentsRaise, objectVars, stateVars, ghostVars
  <1>2. CASE StartTask
    BY <1>2, StartTaskInv DEF StartTask, stateVars, ghostVars
  <1>3. CASE DispatchCapReached \/ FinishTask \/ GuardBlocks \/ TableLookupRaises \/ Dispatch
    BY <1>3, LoopStep, LoopInv
  <1> QED
    BY <1>1, <1>2, <1>3 DEF ExecutorStep

\* A tool call is paid for by an attempt, and an attempt by the planner call.
LEMMA ExecutePaid ==
  ASSUME IInv, Core, Execute
  PROVE  WorkBounded' /\ WorkPaid'
  <1> DEFINE spent == (plannerCalls - 1) * MaxAttempts
  <1>1. /\ ctl = "act" /\ ctl' = "act" /\ plannerCalls' = plannerCalls /\ plannerCalls \in Nat
        /\ MaxAttempts \in Nat \ {0} /\ calls \in Nat
    BY BoundsAssumption DEF Execute, loopVars, Core, IInv, TypeOK
  <1>2. phase \in {"select", "attempt"} /\ plannerCalls > 0
    BY ExecuteInv DEF Execute, Core, WorkPaid, IInv, TypeOK
  <1>3. spent \in Nat /\ plannerCalls * MaxAttempts = spent + MaxAttempts
    <2>1. PICK k \in Nat : plannerCalls = k + 1
      BY <1>1, <1>2
    <2> QED
      BY <1>1, <2>1
  <1> HIDE DEF spent
  <1>4. CASE NothingReady \/ ArgumentsRaise
    <2>1. calls' = calls /\ phase' = "idle"
      BY <1>4 DEF NothingReady, ArgumentsRaise, Return, ghostVars
    <2> QED
      BY <1>1, <2>1 DEF Core, WorkBounded, WorkPaid
  <1>5. CASE StartTask
    <2>1. PICK s \in Ready(doc, status) : cur' = s
      BY <1>5 DEF StartTask
    <2>2. s \in StepIds /\ attempts[s] = 0
      BY <2>1 DEF Ready, IInv, TypeOK, TaskLifecycle
    <2>3. calls' = calls /\ phase' = "attempt" /\ phase = "select" /\ attempts'[cur'] = 0
      BY <1>5, <2>1, <2>2 DEF StartTask, ghostVars
    <2>4. calls <= spent
      BY <2>3 DEF Core, WorkPaid, spent
    <2>5. calls' <= spent + attempts'[cur'] /\ calls' <= spent + MaxAttempts
      BY <1>1, <1>3, <2>3, <2>4
    <2> QED
      BY <1>1, <1>2, <1>3, <2>3, <2>5 DEF Core, WorkBounded, WorkPaid, spent
  <1>6. CASE DispatchCapReached \/ FinishTask \/ GuardBlocks \/ TableLookupRaises \/ Dispatch
    <2>1. phase = "attempt" /\ AttemptCounts /\ AttemptEnds
      BY <1>6, LoopStep
    <2>2. /\ cur \in StepIds /\ attempts[cur] \in Nat /\ attempts[cur] + 1 <= MaxAttempts
          /\ attempts'[cur] = attempts[cur] + 1
      BY <1>1, <2>1 DEF AttemptCounts, CountAttempt, IInv, TypeOK, TaskLifecycle
    <2>3. calls' \in {calls, calls + 1}
      BY <2>1 DEF AttemptCounts
    <2>4. calls <= spent + attempts[cur]
      BY <2>1 DEF Core, WorkPaid, spent
    <2>5. calls' <= spent + attempts'[cur] /\ calls' <= spent + MaxAttempts
      BY <1>1, <1>3, <2>2, <2>3, <2>4
    <2>6. phase' = "idle" \/ (phase' = "attempt" /\ cur' = cur)
      BY <2>1 DEF AttemptEnds, CompleteTask, FailTask, AfterFailure, Raise, Return
    <2> QED
      BY <1>1, <1>2, <1>3, <2>5, <2>6 DEF Core, WorkBounded, WorkPaid, spent
  <1> QED
    BY <1>4, <1>5, <1>6 DEF Execute, ExecutorStep

\* Only the running task is sent; completions are only added.
LEMMA ExecuteSends ==
  ASSUME IInv, Core, Execute
  PROVE  /\ persistent \subseteq persistent'
         /\ \/ UNCHANGED <<sent, reached>>
            \/ /\ cur \in doc.steps \ persistent
               /\ sent' = [sent EXCEPT ![cur] = @ + 1]
               /\ attempts[cur] \in Nat
               /\ doc.tool[cur] \in NonRetryable => sent[cur] = 0
               /\ reached' = IF doc.tool[cur] \in NonRetryable
                             THEN Count(reached, plan.from[cur]) ELSE reached
  <1>1. CASE NothingReady \/ ArgumentsRaise \/ StartTask
    BY <1>1 DEF Execute, NothingReady, ArgumentsRaise, StartTask, objectVars, ghostVars
  <1>2. CASE DispatchCapReached \/ FinishTask \/ GuardBlocks \/ TableLookupRaises \/ Dispatch
    <2>1. phase = "attempt" /\ AttemptCounts /\ AttemptEnds
      BY <1>2, LoopStep
    <2>2. /\ cur \in StepIds /\ cur \in doc.steps \ persistent
          /\ attempts[cur] \in Nat /\ sent[cur] \in Nat
          /\ doc.tool[cur] \in NonRetryable => sent[cur] = 0
      BY <2>1, BoundsAssumption DEF IInv, TypeOK, TaskLifecycle
    <2>3. persistent \subseteq persistent'
      BY <2>1 DEF AttemptEnds, CompleteTask, FailTask, AfterFailure, Raise
    <2>4. CASE UNCHANGED sent
      BY <2>3, <2>4 DEF Execute
    <2>5. CASE sent' = [sent EXCEPT ![cur] = @ + 1]
      <3>1. sent' # sent
        BY <2>2, <2>5 DEF IInv, TypeOK
      <3> QED
        BY <2>2, <2>3, <2>5, <3>1 DEF Execute
    <2> QED
      BY <2>1, <2>4, <2>5 DEF AttemptCounts
  <1> QED
    BY <1>1, <1>2 DEF Execute, ExecutorStep

LEMMA ExecuteCore ==
  ASSUME IInv, Core, Execute
  PROVE  IInv' /\ Core'
  <1>1. IInv' /\ UNCHANGED <<doc, nextPlan, runs, planSafe>> /\ phase # "idle"
    BY ExecuteInv DEF Execute
  <1>2. ctl = "act" /\ UNCHANGED <<ctl, plan, plannerCalls, ending>>
    BY DEF Execute, loopVars
  <1>3. WorkBounded' /\ WorkPaid'
    BY ExecutePaid
  <1>4. persistent \subseteq persistent'
    BY ExecuteSends
  <1>5. doc = Doc(plan) /\ doc.steps = plan.steps /\ doc.tool = plan.tool
    BY <1>2 DEF Core, ExecutorFollowsPlan, Doc
  <1>6. PlanWellFormed' /\ LoadedPlan' /\ ExecutorFollowsPlan'
    BY <1>1, <1>2, <1>4, <1>5 DEF Core, PlanWellFormed, LoadedPlan, ExecutorFollowsPlan, Doc
  <1>7. SendsCounted' /\ StepReachesToolOnce'
    <2>1. CASE UNCHANGED <<sent, reached>>
      BY <1>1, <1>2, <1>4, <2>1 DEF Core, SendsCounted, StepReachesToolOnce, Doc
    <2>2. CASE /\ cur \in doc.steps \ persistent
               /\ sent' = [sent EXCEPT ![cur] = @ + 1]
               /\ doc.tool[cur] \in NonRetryable => sent[cur] = 0
               /\ reached' = IF doc.tool[cur] \in NonRetryable
                             THEN Count(reached, plan.from[cur]) ELSE reached
      <3>1. /\ cur \in StepIds /\ sent \in [StepIds -> Nat] /\ plan.steps \subseteq StepIds
            /\ \A s \in StepIds : sent'[s] >= sent[s]
            /\ sent'[cur] >= 1
        BY <1>5, <2>2 DEF IInv, TypeOK, Core, PlanDocument
      <3>2. CASE doc.tool[cur] \notin NonRetryable
        <4>1. reached' = reached
          BY <2>2, <3>2
        <4>2. StepReachesToolOnce'
          BY <4>1 DEF Core, StepReachesToolOnce
        <4>3. SendsCounted'
          BY <1>1, <1>2, <1>4, <3>1, <4>1 DEF Core, SendsCounted, Doc, IInv, TypeOK
        <4> QED
          BY <4>2, <4>3
      <3>3. CASE doc.tool[cur] \in NonRetryable
        <4>1. plan.from[cur] = plan.pid
          BY <1>5, <2>2 DEF Core, PlanWellFormed
        <4>2. plan.pid \notin DOMAIN reached
          BY <1>5, <2>2, <3>1, <3>3 DEF Core, SendsCounted
        <4>3. /\ DOMAIN reached' = DOMAIN reached \cup {plan.pid}
              /\ reached'[plan.pid] = 1
              /\ \A p \in DOMAIN reached : reached'[p] = reached[p]
          BY <2>2, <3>3, <4>1, <4>2 DEF Count
        <4>4. StepReachesToolOnce'
          BY <4>3 DEF Core, StepReachesToolOnce
        <4>5. \A s \in plan.steps \ persistent' : plan.tool[s] \in NonRetryable => s = cur
          BY <1>4, <1>5, <2>2, <3>3 DEF Core, PlanWellFormed, NonRetryable
        <4>6. plan.pid \in Nat /\ plan.pid < nextPlan
          BY DEF Core, PlanWellFormed, PlanDocument
        <4>7. SendsCounted'
          BY <1>1, <1>2, <1>5, <3>1, <4>3, <4>5, <4>6 DEF Core, SendsCounted, Doc
        <4> QED
          BY <4>4, <4>7
      <3> QED
        BY <3>2, <3>3
    <2> QED
      BY <2>1, <2>2, ExecuteSends
  <1> QED
    BY <1>1, <1>2, <1>3, <1>6, <1>7 DEF Core

------------------------------------------------------------------------------
\* Explorations and answers.

\* A decision moves the iteration count and the last outcome.
LEMMA DecideAnswers ==
  ASSUME Answers, NEW d, NEW o \in LoopOutcome, Decide(d, o)
  PROVE  iter' \in 0 .. MaxIterations + 1 /\ lastOutcome' \in LoopOutcome /\ lastOutcome' = o
  BY ControllerAssumption DEF Answers, Decide

\* Without the rules only the planner decides, and it never says synthesize.
LEMMA WhoDecides ==
  ASSUME Core, NEW d \in Decisions
  PROVE  /\ d.type = "synthesize" => Authoritative /\ ~blocked
         /\ d.type = "stop" /\ Authoritative =>
              lastOutcome \in {"synthesize_completed", "validation_complete"}
         /\ d.type = "explore" => d.query \in Queries
  <1> USE DEF Plain, Explorations
  <1>1. CASE blocked /\ \E e \in Resolved : e.type = "synthesize"
    BY <1>1 DEF Decisions
  <1>2. CASE ~(blocked /\ \E e \in Resolved : e.type = "synthesize")
    <2>1. d \in Resolved /\ (d.type = "synthesize" => ~blocked)
      BY <1>2 DEF Decisions
    <2>2. CASE ~Authoritative
      BY <2>1, <2>2, ControllerAssumption DEF Resolved, Core, PlanDocument
    <2>3. CASE Authoritative
      <3>1. d \in RuleDecisions
        BY <2>1, <2>3 DEF Resolved
      <3>2. CASE lastOutcome \in {"synthesize_completed", "validation_complete"}
        <4>1. d \in Plain("stop")
          BY <3>1, <3>2 DEF RuleDecisions
        <4> QED
          BY <2>1, <2>3, <3>2, <4>1
      <3>3. CASE lastOutcome \notin {"synthesize_completed", "validation_complete"}
        <4>1. d \in Plain("act") \cup Explorations(Queries) \cup Plain("synthesize")
          BY <3>1, <3>3, ControllerAssumption DEF RuleDecisions
        <4> QED
          BY <2>1, <2>3, <4>1
      <3> QED
        BY <3>2, <3>3
    <2> QED
      BY <2>2, <2>3
  <1> QED
    BY <1>1, <1>2

------------------------------------------------------------------------------
\* The invariant, action by action.

LEMMA CInitInv == CInit => IInv /\ Core /\ Answers
  <1> SUFFICES ASSUME CInit PROVE IInv /\ Core /\ Answers
    OBVIOUS
  <1>1. IInv
    BY InitInv DEF CInit
  <1>2. plan \in PlanDocument /\ plan.steps = {} /\ plan.pid = 0
    BY ControllerAssumption DEF CInit, EmptyPlan, PlanDocument, Tools
  <1>3. Core
    <2>1. /\ ctl = "bootstrap" /\ plannerCalls = 0 /\ ending = "none" /\ reached = [p \in {} |-> 0]
          /\ phase = "idle" /\ calls = 0 /\ doc.pid = 0 /\ nextPlan = 1
      BY DEF CInit, Init, EmptyDoc
    <2>2. WorkBounded /\ WorkPaid
      BY <2>1, ControllerAssumption, BoundsAssumption DEF WorkBounded, WorkPaid
    <2>3. PlanWellFormed /\ LoadedPlan /\ ExecutorFollowsPlan
      BY <1>2, <2>1 DEF PlanWellFormed, LoadedPlan, ExecutorFollowsPlan
    <2>4. SendsCounted /\ StepReachesToolOnce
      BY <1>2, <2>1 DEF SendsCounted, StepReachesToolOnce
    <2> QED
      BY <1>2, <2>1, <2>2, <2>3, <2>4, ControllerAssumption DEF Core, Ending
  <1>4. Answers
    <2>1. ~blocked /\ blocked \in BOOLEAN /\ ending # "stopped" /\ gates \in BOOLEAN
      BY DEF CInit
    <2>2. subs = 0 /\ iter = 0 /\ rounds = 0
      BY DEF CInit
    <2>3. lastQuery = Instruction /\ lastOutcome = ""
      BY DEF CInit
    <2>4. MaxSubExplorations \in Nat /\ MaxIterations \in Nat /\ MaxRounds \in Nat
      BY ControllerAssumption
    <2>5. /\ subs \in 0 .. MaxSubExplorations
          /\ iter \in 0 .. MaxIterations + 1
          /\ rounds \in 0 .. MaxRounds
      BY <2>2, <2>4
    <2>6. lastQuery \in Queries
      BY <2>3, ControllerAssumption
    <2>7. lastOutcome \in LoopOutcome
      BY <2>3 DEF LoopOutcome
    <2>8. RejectedAnswerNeverStops
      BY <2>1 DEF RejectedAnswerNeverStops
    <2> QED
      BY <2>1, <2>5, <2>6, <2>7, <2>8 DEF Answers
  <1> QED
    BY <1>1, <1>3, <1>4

\* The next run starts from nothing but the executor object.
LEMMA NewTurnInv ==
  ASSUME IInv, Core, Answers, NEW safe \in BOOLEAN, NewTurn(safe)
  PROVE  IInv' /\ Core' /\ Answers'
  <1>1. IInv'
    BY NewRunInv DEF NewTurn
  <1>2. plan' \in PlanDocument /\ plan'.steps = {} /\ plan'.pid = 0
    BY ControllerAssumption DEF NewTurn, EmptyPlan, PlanDocument, Tools
  <1>3. /\ phase' = "idle" /\ calls' = 0 /\ ctl' = "bootstrap" /\ plannerCalls' = 0
        /\ ending' = "none" /\ nextPlan' = nextPlan /\ nextPlan \in Nat \ {0} /\ reached' = reached
    BY DEF NewTurn, NewRun, IInv, TypeOK
  <1>4. Core'
    BY <1>2, <1>3, ControllerAssumption, BoundsAssumption
    DEF Core, Ending, ExecutorFollowsPlan, WorkBounded, StepReachesToolOnce, WorkPaid,
        PlanWellFormed, LoadedPlan, SendsCounted
  <1>5. Answers'
    <2>1. ~blocked' /\ blocked' \in BOOLEAN /\ ending' # "stopped" /\ gates' \in BOOLEAN
      BY DEF NewTurn
    <2>2. subs' = 0 /\ iter' = 0 /\ rounds' = 0
      BY DEF NewTurn
    <2>3. lastQuery' = Instruction /\ lastOutcome' = ""
      BY DEF NewTurn
    <2>4. MaxSubExplorations \in Nat /\ MaxIterations \in Nat /\ MaxRounds \in Nat
      BY ControllerAssumption
    <2>5. /\ subs' \in 0 .. MaxSubExplorations
          /\ iter' \in 0 .. MaxIterations + 1
          /\ rounds' \in 0 .. MaxRounds
      BY <2>2, <2>4
    <2>6. lastQuery' \in Queries
      BY <2>3, ControllerAssumption
    <2>7. lastOutcome' \in LoopOutcome
      BY <2>3 DEF LoopOutcome
    <2>8. RejectedAnswerNeverStops'
      BY <2>1 DEF RejectedAnswerNeverStops
    <2> QED
      BY <2>1, <2>5, <2>6, <2>7, <2>8 DEF Answers
  <1> QED
    BY <1>1, <1>4, <1>5

\* The first plan, or an exception before there is one.
LEMMA BootstrapCore ==
  ASSUME IInv, Core, Bootstrap
  PROVE  IInv' /\ Core'
  <1>1. ctl = "bootstrap" /\ phase = "idle" /\ nextPlan \in Nat
    BY DEF Bootstrap, Core, LoadedPlan, IInv, TypeOK
  <1>2. CASE End("raised") /\ UNCHANGED nextPlan /\ (plannerCalls' = plannerCalls \/ CountPlannerCall)
    BY <1>1, <1>2, EndCore, ExecutorIdle DEF Bootstrap, Ending
  <1>3. CASE /\ CountPlannerCall
             /\ plan' \in PlannerPlans({})
             /\ nextPlan' = nextPlan + 1
             /\ ctl' = "decide"
             /\ UNCHANGED ending
    <2>1. MergedPlan(plan')
      BY <1>3, PlannerPlansNew, NewIsMerged DEF CountPlannerCall
    <2>2. Core'
      BY <1>1, <1>3, <2>1, PlanCore DEF Bootstrap
    <2> QED
      BY <1>1, <1>3, <2>2, ExecutorIdle DEF Bootstrap
  <1> QED
    BY <1>2, <1>3 DEF Bootstrap

\* Every other step outside the executor ends the run, takes a new plan over or
\* changes only what concerns explorations and answers.
LEMMA IdleCore ==
  ASSUME IInv, Core,
         \/ Stop \/ SynthesizeAnswer \/ RefuseExploration \/ Explore \/ ReplanDecided
         \/ AfterFailedTask \/ AfterProgress \/ AfterLastTask
  PROVE  IInv' /\ Core'
  <1>1. /\ phase = "idle" /\ ctl # "ended" /\ nextPlan \in Nat
        /\ UNCHANGED <<executorVars, reached>>
    BY DEF Stop, SynthesizeAnswer, RefuseExploration, Explore, ReplanDecided, AfterFailedTask,
           AfterProgress, AfterLastTask, Decide, Returned, Core, LoadedPlan, IInv, TypeOK
  <1>2. CASE Stop \/ AfterLastTask \/ (Explore /\ ~ Replan(plan.steps))
    <2>1. \E how \in Ending \ {"none"} : End(how)
      BY <1>2 DEF Stop, AfterLastTask, Explore, Ending
    <2>2. UNCHANGED <<nextPlan, plannerCalls>>
      BY <1>2 DEF Stop, AfterLastTask, Explore
    <2> QED
      BY <1>1, <2>1, <2>2, EndCore, ExecutorIdle
  <1>3. CASE SynthesizeAnswer \/ (RefuseExploration /\ ~ Replan({}))
    <2>1. UNCHANGED <<nextPlan, ctl, plan, ending, plannerCalls>>
      BY <1>3 DEF SynthesizeAnswer, RefuseExploration
    <2> QED
      BY <1>1, <2>1, SameCore, ExecutorIdle
  <1>4. CASE \E prior \in {{}, plan.steps} : Replan(prior)
    BY <1>1, <1>4, ReplanCore, ExecutorIdle
  <1>5. Explore \/ RefuseExploration \/ Stop \/ AfterLastTask \/ SynthesizeAnswer \/ Replan({}) \/ Replan(plan.steps)
    BY DEF ReplanDecided, AfterFailedTask, AfterProgress
  <1> QED
    BY <1>2, <1>3, <1>4, <1>5

\* Explorations and answers stay as they should through every step of the loop.
LEMMA AnswersStep ==
  ASSUME IInv, Core, Answers, ControllerStep
  PROVE  Answers'
  <1>0. MaxSubExplorations \in Nat /\ MaxRounds \in Nat
    BY ControllerAssumption
  <1>1. "" \in LoopOutcome /\ "explore_blocked" \in LoopOutcome
    BY DEF LoopOutcome
  <1>2. ending = "stopped" => ctl = "ended"
    BY DEF Core
  <1>3. CASE Bootstrap
    BY <1>3 DEF Bootstrap, Answers, End, RejectedAnswerNeverStops
  <1>4. CASE Stop
    <2>1. PICK d \in Decisions : d.type = "stop" /\ Decide(d, "")
      BY <1>4 DEF Stop
    <2>2. ~blocked
      BY <2>1, WhoDecides DEF Answers
    <2> QED
      BY <1>1, <1>4, <2>1, <2>2, DecideAnswers DEF Stop, Answers, RejectedAnswerNeverStops
  <1>5. CASE SynthesizeAnswer
    <2>1. PICK d \in Decisions, o \in LoopOutcome :
             /\ d.type = "synthesize"
             /\ Decide(d, o)
             /\ IF ~AnswersValidated
                THEN /\ o = "synthesize_completed"
                     /\ UNCHANGED <<blocked, rounds>>
                ELSE IF rounds >= MaxRounds
                THEN /\ o = "synthesize_completed"
                     /\ blocked' = FALSE
                     /\ UNCHANGED rounds
                ELSE /\ \/ o = "validation_complete" /\ blocked' = FALSE
                        \/ o = "validation_incomplete" /\ blocked' = TRUE
                     /\ rounds' = rounds + 1
      BY <1>5 DEF SynthesizeAnswer
    <2>2. /\ Authoritative /\ ~blocked /\ ending # "stopped" /\ ending' = ending
          /\ UNCHANGED <<subs, gates, lastQuery>>
          /\ iter' \in 0 .. MaxIterations + 1 /\ lastOutcome' = o
      BY <1>2, <1>5, <2>1, WhoDecides, DecideAnswers DEF SynthesizeAnswer, Decide
    <2>3. blocked' \in BOOLEAN
      BY <2>1 DEF Answers
    <2>R1. rounds \in 0 .. MaxRounds /\ (rounds' = rounds \/ (~(rounds >= MaxRounds) /\ rounds' = rounds + 1))
      BY <2>1 DEF Answers
    <2>R2. rounds' \in 0 .. MaxRounds
      BY <1>0, <2>R1
    <2>4. blocked' => AnswersValidated /\ o = "validation_incomplete"
      BY <2>1, <2>2
    <2> QED
      BY <2>2, <2>3, <2>R2, <2>4 DEF Answers, RejectedAnswerNeverStops
  <1>6. CASE RefuseExploration
    <2>1. PICK d \in Decisions : Decide(d, "explore_blocked")
      BY <1>6 DEF RefuseExploration
    <2>2. ending' # "stopped"
      BY <1>2, <1>6, <2>1 DEF RefuseExploration, Decide, Replan, End
    <2>3. UNCHANGED <<subs, gates, lastQuery, blocked, rounds>>
      BY <1>6 DEF RefuseExploration
    <2> QED
      BY <1>1, <2>1, <2>2, <2>3, DecideAnswers DEF Answers, RejectedAnswerNeverStops
  <1>7. CASE Explore
    <2>1. PICK d \in Decisions :
            /\ d.type = "explore"
            /\ ~ExploreBlocked(d.query)
            /\ Decide(d, "")
            /\ blocked' = FALSE
            /\ \/ UNCHANGED <<subs, gates, lastQuery>>
               \/ gates' \in BOOLEAN /\ lastQuery' = d.query /\ subs' = subs + 1
      BY <1>7 DEF Explore
    <2>2. d.query \in Queries
      BY <2>1, WhoDecides
    <2>3. ~ (subs >= MaxSubExplorations)
      BY <2>1 DEF ExploreBlocked
    <2>4. /\ subs \in 0 .. MaxSubExplorations /\ subs' \in {subs, subs + 1}
          /\ gates' \in BOOLEAN /\ lastQuery' \in Queries
      BY <2>1, <2>2 DEF Answers
    <2>5. subs' \in 0 .. MaxSubExplorations
      BY <1>0, <2>3, <2>4
    <2>6. rounds' = rounds
      BY <1>7 DEF Explore
    <2> QED
      BY <1>1, <2>1, <2>4, <2>5, <2>6, DecideAnswers DEF Answers, RejectedAnswerNeverStops
  <1>8. CASE ReplanDecided
    <2>1. PICK d \in Decisions : Decide(d, "")
      BY <1>8 DEF ReplanDecided
    <2>2. ending' # "stopped"
      BY <1>2, <1>8, <2>1 DEF ReplanDecided, Decide, Replan, End
    <2>3. UNCHANGED <<subs, gates, lastQuery, blocked, rounds>>
      BY <1>8 DEF ReplanDecided
    <2> QED
      BY <1>1, <2>1, <2>2, <2>3, DecideAnswers DEF Answers, RejectedAnswerNeverStops
  <1>9. CASE CallExecutor
    <2>1. PICK d \in Decisions : Decide(d, "")
      BY <1>9 DEF CallExecutor
    <2>2. ending' # "stopped" /\ UNCHANGED <<subs, gates, lastQuery, blocked, rounds>>
      BY <1>2, <1>9, <2>1 DEF CallExecutor, Decide
    <2> QED
      BY <1>1, <2>1, <2>2, DecideAnswers DEF Answers, RejectedAnswerNeverStops
  <1>10. CASE Execute
    BY <1>10 DEF Execute, loopVars, Answers, RejectedAnswerNeverStops
  <1>11. CASE AfterFailedTask \/ AfterProgress \/ AfterLastTask
    <2>1. UNCHANGED <<subs, iter, gates, lastQuery, lastOutcome, rounds>>
      BY <1>11 DEF AfterFailedTask, AfterProgress, AfterLastTask
    <2>2. blocked' \in BOOLEAN /\ (blocked' => blocked)
      BY <1>11 DEF AfterFailedTask, AfterProgress, AfterLastTask, Answers
    <2>3. ending' # "stopped"
      BY <1>2, <1>11 DEF AfterFailedTask, AfterProgress, AfterLastTask, Returned, Replan, End
    <2> QED
      BY <2>1, <2>2, <2>3 DEF Answers, RejectedAnswerNeverStops
  <1> QED
    BY <1>3, <1>4, <1>5, <1>6, <1>7, <1>8, <1>9, <1>10, <1>11 DEF ControllerStep

------------------------------------------------------------------------------
\* What rejected answers rested on.

\* An exploration or a completed task is more than any of them rested on.
LEMMA MoreEvidence ==
  ASSUME RejectedOnLess, subs \in Nat, UNCHANGED rejected,
         \/ subs' = subs + 1 /\ UNCHANGED persistent
         \/ UNCHANGED subs /\ \E s : s \notin persistent /\ persistent' = persistent \cup {s}
  PROVE  RejectedOnLess'
  <1>1. ASSUME NEW e \in rejected
        PROVE  e.subs \in 0 .. subs' /\ e.done \subseteq persistent' /\ e # Evidence'
    <2>1. e.subs \in 0 .. subs /\ e.done \subseteq persistent
      BY DEF RejectedOnLess
    <2>2. Evidence'.subs = subs' /\ Evidence'.done = persistent'
      BY DEF Evidence
    <2>3. CASE subs' = subs + 1 /\ UNCHANGED persistent
      BY <2>1, <2>2, <2>3
    <2>4. CASE UNCHANGED subs /\ \E s : s \notin persistent /\ persistent' = persistent \cup {s}
      BY <2>1, <2>2, <2>4
    <2> QED
      BY <2>3, <2>4
  <1> QED
    BY <1>1 DEF RejectedOnLess

\* A step that brings no evidence must not clear the flag of a run that goes on,
\* unless its call made progress.
LEMMA SameEvidence ==
  ASSUME RejectedOnLess, UNCHANGED <<subs, persistent, rejected>>, ctl # "ended",
         \/ ctl' = "ended"
         \/ blocked' = blocked
         \/ ctl = "act" /\ outcome = "progress",
         ctl' = "act" => outcome' # "progress" \/ (ctl = "act" /\ outcome = "progress")
  PROVE  RejectedOnLess'
  <1>1. Evidence' = Evidence
    BY DEF Evidence
  <1> QED
    BY <1>1 DEF RejectedOnLess

\* In a call of the executor only a completed task makes progress, and it is one
\* that was not completed before.
LEMMA ExecuteEvidence ==
  ASSUME IInv, Answers, RejectedOnLess, Execute
  PROVE  RejectedOnLess'
  <1>1. ctl = "act" /\ UNCHANGED <<ctl, subs, blocked, rejected>> /\ subs \in Nat
    BY DEF Execute, loopVars, Answers
  <1>2. CASE NothingReady \/ ArgumentsRaise \/ StartTask
    <2>1. UNCHANGED persistent /\ (outcome' # "progress" \/ outcome' = outcome)
      BY <1>2
      DEF NothingReady, ArgumentsRaise, StartTask, StarvedOutcome, Return, objectVars
    <2> QED
      BY <1>1, <2>1, SameEvidence
  <1>3. CASE DispatchCapReached \/ FinishTask \/ GuardBlocks \/ TableLookupRaises \/ Dispatch
    <2>1. phase = "attempt" /\ AttemptEnds
      BY <1>3, LoopStep
    <2>2. cur \notin persistent
      BY <2>1 DEF IInv, TypeOK, TaskLifecycle
    <2>3. CASE CompleteTask
      BY <1>1, <2>2, <2>3, MoreEvidence DEF CompleteTask
    <2>4. CASE FailTask \/ Raise \/ \E e \in ErrorType : AfterFailure(e)
      <3>1. UNCHANGED persistent /\ (outcome' # "progress" \/ outcome' = outcome)
        BY <2>4 DEF FailTask, Raise, AfterFailure, Return
      <3> QED
        BY <1>1, <3>1, SameEvidence
    <2> QED
      BY <2>1, <2>3, <2>4 DEF AttemptEnds
  <1> QED
    BY <1>2, <1>3 DEF Execute, ExecutorStep

\* The steps of the loop outside the executor.
LEMMA LoopEvidence ==
  ASSUME Core, Answers, RejectedOnLess, ControllerStep, ~Execute
  PROVE  RejectedOnLess'
  <1> USE DEF executorVars, objectVars
  <1>1. subs \in Nat
    BY DEF Answers
  <1>2. CASE Bootstrap \/ Stop \/ RefuseExploration \/ ReplanDecided \/ AfterFailedTask
    <2>1. /\ ctl # "ended" /\ ctl' # "act" /\ UNCHANGED <<subs, persistent, rejected, blocked>>
      BY <1>2
      DEF Bootstrap, Stop, RefuseExploration, ReplanDecided, AfterFailedTask, Decide, Returned,
          Replan, End
    <2> QED
      BY <2>1, SameEvidence
  <1>3. CASE SynthesizeAnswer
    <2>1. PICK d \in Decisions, o \in LoopOutcome :
            /\ d.type = "synthesize"
            /\ rejected' = IF o = "validation_incomplete"
                           THEN rejected \cup {Evidence} ELSE rejected
            /\ o = "validation_incomplete" => blocked'
            /\ o # "validation_incomplete" => rejected' = rejected
      BY <1>3 DEF SynthesizeAnswer
    <2>2. /\ ctl = "decide" /\ ctl' = "decide" /\ UNCHANGED <<subs, persistent>>
      BY <1>3 DEF SynthesizeAnswer, Decide
    <2>3. Evidence \notin rejected /\ Evidence' = Evidence
      BY <2>1, <2>2, WhoDecides DEF RejectedOnLess, Evidence
    <2>4. Evidence.subs \in 0 .. subs /\ Evidence.done \subseteq persistent
      BY <1>1 DEF Evidence
    <2> QED
      BY <2>1, <2>2, <2>3, <2>4 DEF RejectedOnLess
  <1>4. CASE Explore
    <2>1. /\ ctl = "decide" /\ ctl' # "act" /\ UNCHANGED <<persistent, rejected>>
          /\ (ctl' = "ended" /\ UNCHANGED subs) \/ subs' = subs + 1
      BY <1>4 DEF Explore, Decide, Replan, End
    <2> QED
      BY <1>1, <2>1, SameEvidence, MoreEvidence
  <1>5. CASE CallExecutor
    <2>1. /\ ctl = "decide" /\ outcome' = "none"
          /\ UNCHANGED <<subs, persistent, rejected, blocked>>
      BY <1>5 DEF CallExecutor, Decide, EnsureTasks
    <2> QED
      BY <2>1, SameEvidence
  <1>6. CASE AfterProgress \/ AfterLastTask
    <2>1. /\ ctl = "act" /\ ctl' # "act" /\ UNCHANGED <<subs, persistent, rejected>>
          /\ ctl' = "ended" \/ outcome = "progress"
      BY <1>6 DEF AfterProgress, AfterLastTask, Returned, Replan, End
    <2> QED
      BY <2>1, SameEvidence
  <1> QED
    BY <1>2, <1>3, <1>4, <1>5, <1>6 DEF ControllerStep

LEMMA RejectedStep ==
  ASSUME IInv, Core, Answers, RejectedOnLess, [CNext]_cvars
  PROVE  RejectedOnLess'
  <1>1. CASE ControllerStep
    BY <1>1, ExecuteEvidence, LoopEvidence
  <1>2. CASE \E safe \in BOOLEAN : NewTurn(safe)
    BY <1>2 DEF NewTurn, RejectedOnLess
  <1>3. CASE UNCHANGED cvars
    BY <1>3 DEF cvars, vars, objectVars, callVars, loopVars, RejectedOnLess, Evidence
  <1> QED
    BY <1>1, <1>2, <1>3 DEF CNext

\* Every step of the composition preserves the rest of the invariant.
LEMMA CNextInv ==
  ASSUME IInv, Core, Answers, [CNext]_cvars
  PROVE  IInv' /\ Core' /\ Answers'
  <1>1. CASE \E safe \in BOOLEAN : NewTurn(safe)
    BY <1>1, NewTurnInv
  <1>2. CASE ControllerStep
    <2>1. IInv' /\ Core'
      BY <1>2, BootstrapCore, IdleCore, CallCore, ExecuteCore DEF ControllerStep
    <2> QED
      BY <1>2, <2>1, AnswersStep
  <1>3. CASE UNCHANGED cvars
    <2>1. UNCHANGED executorVars /\ nextPlan' = nextPlan /\ UNCHANGED loopVars /\ reached' = reached
      BY <1>3 DEF cvars, vars, executorVars, ghostVars
    <2>2. nextPlan \in Nat
      BY DEF IInv, TypeOK
    <2>3. IInv' /\ Core'
      BY <2>1, <2>2, ExecutorIdle, SameCore DEF loopVars
    <2> QED
      BY <2>1, <2>3 DEF loopVars, Answers, RejectedAnswerNeverStops
  <1> QED
    BY <1>1, <1>2, <1>3 DEF CNext

\* The invariant of the composition holds in every reachable state.
THEOREM ControllerInvariant == CSpec => []CInv
  <1>1. CInit => CInv
    BY CInitInv, Parts DEF CInit, RejectedOnLess
  <1>2. CInv /\ [CNext]_cvars => CInv'
    <2>1. CInv' <=> IInv' /\ Core' /\ Answers' /\ RejectedOnLess'
      BY Parts, PTL
    <2> QED
      BY <2>1, Parts, CNextInv, RejectedStep
  <1> QED
    BY <1>1, <1>2, PTL DEF CSpec

\* The loop's counters stay within their limits: the rounds of validation, the
\* explorations and the planner calls of a run.
THEOREM ControllerTypeCorrect == CSpec => []CTypeOK
  <1>1. CInv => CTypeOK
    BY DEF CInv
  <1> QED
    BY <1>1, ControllerInvariant, PTL

\* While run_one_step is in progress it works on the plan the loop holds.
THEOREM ExecutorOnCurrentPlan == CSpec => []ExecutorFollowsPlan
  <1>1. CInv => ExecutorFollowsPlan
    BY DEF CInv
  <1> QED
    BY <1>1, ControllerInvariant, PTL

\* The tool calls of a run are paid for by its planner calls.
THEOREM WorkIsBounded == CSpec => []WorkBounded
  <1>1. CInv => WorkBounded
    BY DEF CInv
  <1> QED
    BY <1>1, ControllerInvariant, PTL

\* No edit or shell step reaches its tool a second time, whatever plan carries it.
THEOREM EditsReachToolOnce == CSpec => []StepReachesToolOnce
  <1>1. CInv => StepReachesToolOnce
    BY DEF CInv
  <1> QED
    BY <1>1, ControllerInvariant, PTL

\* A run that stops has no answer that stands rejected.
THEOREM StopsOnlyOnAcceptedAnswer == CSpec => []RejectedAnswerNeverStops
  <1>1. CInv => RejectedAnswerNeverStops
    BY DEF CInv
  <1> QED
    BY <1>1, ControllerInvariant, PTL

------------------------------------------------------------------------------
\* What a step may never do.

\* Asking the planner again keeps the completed steps of the plan.
LEMMA ReplanKeeps ==
  ASSUME IInv, Core, NEW prior \in {{}, plan.steps}, Replan(prior),
         NEW s \in plan.steps \cap persistent
  PROVE  s \in plan'.steps /\ plan'.tool[s] = plan.tool[s] /\ plan'.from[s] = plan.from[s]
  <1>1. CASE UNCHANGED plan
    BY <1>1
  <1>2. CASE CountPlannerCall /\ \E new \in PlannerPlans(prior) : plan' = Merge(plan, new)
    <2>1. PICK new \in PlannerPlans(prior) : plan' = Merge(plan, new)
      BY <1>2
    <2>2. prior \in SUBSET (1 .. 2 * plannerCalls)
      BY DEF Core, PlanWellFormed
    <2>3. NewPlan(new)
      BY <1>2, <2>2, PlannerPlansNew DEF CountPlannerCall
    <2> QED
      BY <2>1, <2>3, MergeNew
  <1> QED
    BY <1>1, <1>2 DEF Replan, End

\* Completed steps stay in the plan as they were, through every replan of a run.
THEOREM CompletedStepsKept == CSpec => CompletedKept
  <1> DEFINE Kept == ctl' # "bootstrap" /\ ctl # "bootstrap" =>
                       \A s \in plan.steps \cap persistent :
                         /\ s \in plan'.steps
                         /\ plan'.tool[s] = plan.tool[s]
                         /\ plan'.from[s] = plan.from[s]
  <1>1. ASSUME CInv, CNext PROVE Kept
    <2>1. CASE Bootstrap \/ \E safe \in BOOLEAN : NewTurn(safe)
      BY <2>1 DEF Bootstrap, NewTurn
    <2>2. CASE UNCHANGED plan
      BY <2>2
    <2>3. CASE \E prior \in {{}, plan.steps} : Replan(prior)
      BY <1>1, <2>3, Parts, ReplanKeeps
    <2>4. CASE Stop \/ SynthesizeAnswer \/ CallExecutor \/ Execute \/ AfterLastTask
      BY <2>2, <2>4 DEF Stop, SynthesizeAnswer, CallExecutor, Execute, AfterLastTask, End, loopVars
    <2>5. CASE RefuseExploration \/ Explore \/ ReplanDecided \/ AfterFailedTask \/ AfterProgress
      BY <2>2, <2>3, <2>5
      DEF RefuseExploration, Explore, ReplanDecided, AfterFailedTask, AfterProgress, End
    <2> QED
      BY <1>1, <2>1, <2>4, <2>5 DEF CNext, ControllerStep
  <1>2. CInv /\ [CNext]_cvars => [Kept]_cvars
    BY <1>1
  <1> QED
    BY <1>2, ControllerInvariant, PTL DEF CSpec, CompletedKept

\* No answer is synthesized from what a rejected one rested on: since then an
\* exploration has come back or a task has been completed.
THEOREM NoResynthesis == CSpec => NoBlindResynthesis
  <1>1. ASSUME CInv, SynthesizeAnswer PROVE Evidence \notin rejected
    <2>1. PICK d \in Decisions : d.type = "synthesize"
      BY <1>1 DEF SynthesizeAnswer
    <2>2. ~blocked /\ ctl = "decide"
      BY <1>1, <2>1, WhoDecides, Parts DEF SynthesizeAnswer, Decide
    <2> QED
      BY <1>1, <2>2 DEF CInv, RejectedOnLess
  <1>2. CInv /\ [CNext]_cvars => [SynthesizeAnswer => Evidence \notin rejected]_cvars
    BY <1>1
  <1> QED
    BY <1>2, ControllerInvariant, PTL DEF CSpec, NoBlindResynthesis

------------------------------------------------------------------------------
\* Refinement.

\* The loop starts tasks only through the executor: over all plans of all runs
\* the composition still implements the graph of tasks.
THEOREM ControllerRefinesTaskGraph == CSpec => ImplementsTaskGraph
  <1>1. CInit => Graph!Init
    <2>1. Init => Graph!Init
      BY DEF Init, EmptyDoc, Graph!Init
    <2> QED
      BY <2>1 DEF CInit
  <1>2. ASSUME CInv, [CNext]_cvars PROVE [Graph!Next]_(Graph!tgVars)
    <2>1. IInv /\ Core
      BY <1>2, Parts
    <2>2. CASE UNCHANGED executorVars
      BY <2>2 DEF executorVars, objectVars, Graph!tgVars
    <2>3. CASE CallExecutor
      <3>1. EnsureTasks(Doc(plan)) /\ ctl = "decide"
        BY <2>3 DEF CallExecutor, Decide
      <3>2. /\ Doc(plan).steps \in SUBSET StepIds
            /\ Doc(plan).deps \in [StepIds -> SUBSET StepIds]
            /\ Doc(plan).pid # doc.pid
        BY <2>1, <3>1 DEF Core, PlanDocument, LoadedPlan, Doc
      <3> QED
        BY <2>1, <3>1, <3>2, EnsureTasksRefines
    <2>4. CASE Execute \/ \E safe \in BOOLEAN : NewTurn(safe)
      BY <2>1, <2>4, StepRefines DEF Execute, NewTurn, Next
    <2>5. CASE ControllerStep /\ ~CallExecutor /\ ~Execute
      BY <2>2, <2>5
      DEF ControllerStep, Bootstrap, Stop, SynthesizeAnswer, RefuseExploration, Explore,
          ReplanDecided, AfterFailedTask, AfterProgress, AfterLastTask
    <2>6. CASE UNCHANGED cvars
      BY <2>2, <2>6 DEF cvars, vars, executorVars, ghostVars
    <2> QED
      BY <1>2, <2>3, <2>4, <2>5, <2>6 DEF CNext
  <1>3. CInv /\ [CNext]_cvars => [Graph!Next]_(Graph!tgVars)
    BY <1>2
  <1> QED
    BY <1>1, <1>3, ControllerInvariant, PTL DEF CSpec, ImplementsTaskGraph, Graph!Spec

------------------------------------------------------------------------------
\* How long a run can go on.

\* What a run with the planner's own decisions has left: for each planner call the
\* decision, a call of the executor and the step after it.
RunLeft ==
  (MaxPlannerCalls - plannerCalls) * (MaxAttempts + 3)
    + (CASE ctl = "decide" -> MaxAttempts + 3
         [] ctl = "act"    -> CallLeft + 1
         [] ctl = "bootstrap" -> 1
         [] OTHER -> 0)

\* Each step of a run, of the loop or of its executor, uses up some of that: every
\* way back to the head of the loop is paid for with a call of the planner.
RunShrinks == {RunLeft, RunLeft'} \subseteq Nat /\ RunLeft' < RunLeft
RunCounts == [][ctl # "ended" => RunShrinks]_cvars

LEMMA RunLeftIsNat ==
  ASSUME CInv
  PROVE  RunLeft \in Nat /\ (MaxPlannerCalls - plannerCalls) * (MaxAttempts + 3) \in Nat
  <1>1. /\ MaxPlannerCalls - plannerCalls \in Nat /\ MaxAttempts + 3 \in Nat
    BY ControllerAssumption, BoundsAssumption DEF CInv, CTypeOK
  <1>2. (MaxPlannerCalls - plannerCalls) * (MaxAttempts + 3) \in Nat
    BY <1>1
  <1>3. CallLeft \in Nat
    BY CallLeftIsNat DEF CInv
  <1>4. (CASE ctl = "decide" -> MaxAttempts + 3
           [] ctl = "act"    -> CallLeft + 1
           [] ctl = "bootstrap" -> 1
           [] OTHER -> 0) \in Nat
    BY <1>1, <1>3
  <1> QED
    BY <1>2, <1>4 DEF RunLeft

\* The planner is called, or the run ends.
LEMMA ReplanCounts ==
  ASSUME CInv, ctl' \in {"decide", "ended"},
         ctl' = "decide" => plannerCalls < MaxPlannerCalls /\ plannerCalls' = plannerCalls + 1,
         plannerCalls' \in {plannerCalls, plannerCalls + 1}, ctl # "ended"
  PROVE  RunLeft' < RunLeft
  <1> DEFINE w == MaxAttempts + 3
             c == MaxPlannerCalls - plannerCalls
             rest == CASE ctl = "decide" -> MaxAttempts + 3
                       [] ctl = "act"    -> CallLeft + 1
                       [] ctl = "bootstrap" -> 1
                       [] OTHER -> 0
  <1>1. /\ MaxPlannerCalls \in Nat /\ plannerCalls \in Nat /\ c \in Nat /\ w \in Nat
        /\ ctl \in {"decide", "act", "bootstrap"} /\ CallLeft \in Nat
    BY ControllerAssumption, BoundsAssumption, CallLeftIsNat DEF CInv, CTypeOK
  <1>2. RunLeft = c * w + rest /\ rest \in Nat /\ rest > 0
    <2>1. RunLeft = c * w + rest
      BY DEF RunLeft
    <2>2. rest \in {w, CallLeft + 1, 1}
      BY <1>1
    <2>3. w > 0 /\ CallLeft + 1 > 0 /\ CallLeft + 1 \in Nat
      BY <1>1, BoundsAssumption
    <2> HIDE DEF c, w, rest
    <2> QED
      BY <1>1, <2>1, <2>2, <2>3
  <1>3. /\ (c - 1) * w = c * w - w /\ c * w \in Nat
    BY <1>1
  <1>4. CASE ctl' = "decide"
    <2>1. RunLeft' = (MaxPlannerCalls - (plannerCalls + 1)) * w + w
      BY <1>4 DEF RunLeft
    <2>2. MaxPlannerCalls - (plannerCalls + 1) = c - 1
      BY <1>1
    <2>3. RunLeft' = c * w
      <3> HIDE DEF c, w
      <3> QED
        BY <1>1, <1>3, <2>1, <2>2
    <2> HIDE DEF c, w, rest
    <2> QED
      BY <1>2, <1>3, <2>3
  <1>5. CASE ctl' = "ended"
    <2>1. RunLeft' = (MaxPlannerCalls - plannerCalls') * w + 0
      BY <1>5 DEF RunLeft
    <2>2. MaxPlannerCalls - plannerCalls' \in {c, c - 1}
      <3>1. CASE plannerCalls' = plannerCalls
        BY <3>1
      <3>2. CASE plannerCalls' = plannerCalls + 1
        BY <1>1, <3>2
      <3> QED
        BY <3>1, <3>2
    <2>3. RunLeft' \in {c * w, c * w - w}
      <3>1. CASE MaxPlannerCalls - plannerCalls' = c
        <4> HIDE DEF c, w
        <4> QED
          BY <1>3, <2>1, <3>1
      <3>2. CASE MaxPlannerCalls - plannerCalls' = c - 1
        <4>1. RunLeft' = (c - 1) * w + 0
          BY <2>1, <3>2
        <4> HIDE DEF c, w
        <4> QED
          BY <1>1, <1>3, <4>1
      <3> QED
        BY <2>2, <3>1, <3>2
    <2> HIDE DEF c, w, rest
    <2> QED
      BY <1>1, <1>2, <1>3, <2>3
  <1> QED
    BY <1>4, <1>5

LEMMA RunStepCounts ==
  ASSUME CInv, CNext, ctl # "ended", ~Authoritative, CallLeft' \in Nat
  PROVE  RunLeft' < RunLeft
  <1> DEFINE spent == (MaxPlannerCalls - plannerCalls) * (MaxAttempts + 3)
  <1>1. spent \in Nat /\ MaxAttempts \in Nat /\ IInv /\ CallLeft \in Nat /\ CallLeft' \in Nat
    BY RunLeftIsNat, BoundsAssumption, CallLeftIsNat DEF CInv
  <1>2. \A d \in Decisions : d.type = plan.decision /\ d.type # "synthesize"
    <2>1. Resolved = {[type |-> plan.decision, query |-> plan.query]}
      BY DEF Resolved
    <2>2. plan.decision \in {"act", "explore", "replan", "stop"}
      BY DEF CInv, CTypeOK, PlanDocument
    <2> QED
      BY <2>1, <2>2 DEF Decisions
  <1>3. ~SynthesizeAnswer /\ ~(\E safe \in BOOLEAN : NewTurn(safe))
    BY <1>2 DEF SynthesizeAnswer, NewTurn
  <1>4. ASSUME NEW prior, Replan(prior)
        PROVE  RunLeft' < RunLeft
    BY <1>4, ReplanCounts DEF Replan, CountPlannerCall, End
  <1>5. CASE Bootstrap
    BY <1>5, ReplanCounts DEF Bootstrap, CountPlannerCall, End
  <1>6. CASE Stop \/ AfterLastTask
    BY <1>6, ReplanCounts DEF Stop, AfterLastTask, End
  <1>7. CASE RefuseExploration \/ ReplanDecided \/ AfterFailedTask \/ AfterProgress
    BY <1>4, <1>7 DEF RefuseExploration, ReplanDecided, AfterFailedTask, AfterProgress
  <1>8. CASE Explore
    BY <1>4, <1>8, ReplanCounts DEF Explore, End
  <1>9. CASE CallExecutor
    <2>1. ctl = "decide" /\ ctl' = "act" /\ phase' = "select" /\ plannerCalls' = plannerCalls
      BY <1>9 DEF CallExecutor, Decide, EnsureTasks
    <2>2. RunLeft = spent + (MaxAttempts + 3) /\ CallLeft' = MaxAttempts + 1
      BY <2>1 DEF RunLeft, CallLeft
    <2>3. RunLeft' = spent + (CallLeft' + 1)
      BY <2>1 DEF RunLeft
    <2> HIDE DEF spent
    <2> QED
      BY <1>1, <2>2, <2>3
  <1>10. CASE Execute
    <2>1. ctl = "act" /\ ctl' = "act" /\ plannerCalls' = plannerCalls /\ ExecutorStep
      BY <1>10 DEF Execute, loopVars
    <2>2. phase # "idle" /\ Next
      BY <2>1 DEF Next, ExecutorStep, NothingReady, StartTask, ArgumentsRaise,
                  DispatchCapReached, FinishTask, GuardBlocks, TableLookupRaises, Dispatch
    <2>3. CallLeft' < CallLeft
      BY <1>1, <2>2, CallShrinks
    <2>4. RunLeft = spent + (CallLeft + 1) /\ RunLeft' = spent + (CallLeft' + 1)
      BY <2>1 DEF RunLeft
    <2>5. \A m, n, k \in Nat : m < n => k + (m + 1) < k + (n + 1)
      OBVIOUS
    <2> HIDE DEF spent
    <2> QED
      BY <1>1, <2>3, <2>4, <2>5
  <1> QED
    BY <1>3, <1>5, <1>6, <1>7, <1>8, <1>9, <1>10 DEF CNext, ControllerStep

\* With the planner's own decisions, a run takes no more steps than its budget of
\* planner calls pays for, MaxAttempts + 3 for each: no answer of the planner and
\* no failure of a tool keeps it going.  (With rule-based decisions it is not so:
\* a rejected answer can send the loop round without a planner call.)
THEOREM RunIsBounded == ~Authoritative => (CSpec => RunCounts)
  <1> SUFFICES ASSUME ~Authoritative PROVE CSpec => RunCounts
    OBVIOUS
  <1> DEFINE Bounded == RunLeft \in Nat
             CallBounded == CallLeft \in Nat
  <1>1. CInv => Bounded /\ CallBounded
    BY RunLeftIsNat, CallLeftIsNat DEF CInv
  <1>2. CInv /\ Bounded /\ Bounded' /\ CallBounded' /\ [CNext]_cvars
          => [ctl # "ended" => RunShrinks]_cvars
    BY RunStepCounts DEF RunShrinks
  <1> HIDE DEF Bounded, CallBounded
  <1> QED
    BY <1>1, <1>2, ControllerInvariant, PTL DEF CSpec, RunCounts

------------------------------------------------------------------------------
\* The promises of the executor hold under this caller too.

\* Through all the plans, corrective plans and runs of the loop: edits and shell
\* commands reach their tool once per document, no run exceeds its dispatches, the
\* planner is told the truth, and the history has a step once.
THEOREM ExecutorPromisesHold ==
  CSpec => [](NonIdempotentOnce /\ DispatchBudget /\ ProgressExact /\ HistoryOnce)
  <1>1. CInv => NonIdempotentOnce /\ DispatchBudget /\ ProgressExact /\ HistoryOnce
    BY DEF CInv, IInv, TypeOK, TaskLifecycle, NonIdempotentOnce
  <1> QED
    BY <1>1, ControllerInvariant, PTL

\* A step that is remembered as completed is not given to a tool by any later plan
\* of any run.
THEOREM ControllerNeverRedoes == CSpec => [][\A s \in persistent : sent'[s] <= sent[s]]_cvars
  <1>1. ASSUME CInv, [CNext]_cvars, NEW s \in persistent PROVE sent'[s] <= sent[s]
    <2>1. IInv /\ s \in StepIds /\ sent[s] \in Nat
      BY <1>1 DEF CInv, IInv, TypeOK
    <2>2. CASE UNCHANGED executorVars
      BY <2>1, <2>2 DEF executorVars
    <2>3. CASE CallExecutor
      <3>1. sent' \in {sent, Zero}
        BY <2>3 DEF CallExecutor, EnsureTasks
      <3> QED
        BY <2>1, <3>1 DEF Zero
    <2>4. CASE Execute \/ \E safe \in BOOLEAN : NewTurn(safe)
      BY <2>1, <2>4, SentStep DEF Execute, NewTurn, Next
    <2>5. CASE ControllerStep /\ ~CallExecutor /\ ~Execute
      BY <2>2, <2>5
      DEF ControllerStep, Bootstrap, Stop, SynthesizeAnswer, RefuseExploration, Explore,
          ReplanDecided, AfterFailedTask, AfterProgress, AfterLastTask
    <2>6. CASE UNCHANGED cvars
      BY <2>2, <2>6 DEF cvars, vars, executorVars, ghostVars
    <2> QED
      BY <1>1, <2>3, <2>4, <2>5, <2>6 DEF CNext
  <1>2. CInv /\ [CNext]_cvars => [\A s \in persistent : sent'[s] <= sent[s]]_cvars
    BY <1>1
  <1> QED
    BY <1>2, ControllerInvariant, PTL DEF CSpec

------------------------------------------------------------------------------
\* A run that reports success has completed its plan.

\* Of the steps that are not remembered one can be started, unless there are none.
Startable(steps, deps) ==
  \/ steps \subseteq persistent
  \/ \E s \in steps \ persistent : deps[s] \subseteq steps \cap persistent

\* What the loop hands over can be started, however it was merged with what was
\* completed before, and no task of it has begun when a call chooses one.
CanStart ==
  /\ ctl = "decide" => Startable(plan.steps, plan.deps)
  /\ phase = "select" =>
       /\ Startable(doc.steps, doc.deps)
       /\ \A s \in StepIds : status[s] \notin {"running", "failed"}
  /\ phase # "idle" => outcome = "none"

\* No call of the loop finds its tasks stuck; a call and a run that report success
\* have a plan all of whose steps are remembered as completed.
SuccessIsEarned ==
  /\ outcome # "failed"
  /\ outcome = "success" => doc.steps \subseteq persistent
  /\ ending = "success" => plan.steps \subseteq persistent

\* A plan of the planner has a first step, and every other one waits for it alone.
HasFirst(new) ==
  \E first \in new.steps :
    /\ new.deps[first] = {}
    /\ \A s \in new.steps : new.deps[s] \subseteq {first}

LEMMA PlannerPlansHaveFirst ==
  ASSUME IInv, Core, plannerCalls < MaxPlannerCalls,
         NEW prior \in SUBSET (1 .. 2 * plannerCalls), NEW new \in PlannerPlans(prior)
  PROVE  HasFirst(new)
  <1>1. plannerCalls \in Nat
    BY DEF Core
  <1>2. new.steps \subseteq StepIds
    BY PlannerPlansNew DEF NewPlan, PlanDocument
  <1>3. ASSUME NEW base \in LargestId(prior)
        PROVE  base \in Nat /\ base + 1 # base + 2
    BY <1>1 DEF LargestId
  <1>4. CASE \E base \in LargestId(prior), t \in AllowedTools : new = ActPlan(base, t)
    <2>1. PICK base \in LargestId(prior), t \in AllowedTools : new = ActPlan(base, t)
      BY <1>4
    <2>2. /\ new.steps = {base + 1, base + 2}
          /\ new.deps = [s \in StepIds |-> IF s = base + 2 THEN {base + 1} ELSE {}]
      BY <2>1 DEF ActPlan
    <2>3. new.deps[base + 1] = {} /\ new.deps[base + 2] = {base + 1}
      BY <1>2, <1>3, <2>2
    <2> QED
      BY <2>2, <2>3 DEF HasFirst
  <1>5. CASE \E base \in LargestId(prior), d \in {"explore", "replan", "stop"}, q \in Queries :
               new = OtherPlan(base, d, q)
    <2>1. PICK base \in LargestId(prior), d \in {"explore", "replan", "stop"}, q \in Queries :
            new = OtherPlan(base, d, q)
      BY <1>5
    <2>2. new.steps = {base + 1} /\ new.deps = [s \in StepIds |-> {}]
      BY <2>1 DEF OtherPlan
    <2> QED
      BY <1>2, <2>2 DEF HasFirst
  <1> QED
    BY <1>4, <1>5, ControllerAssumption DEF PlannerPlans

\* A new plan can be started whatever is remembered, and so can the merge of the
\* current plan with it: the steps that were kept are remembered ones.
LEMMA NewCanStart ==
  ASSUME NEW new, HasFirst(new)
  PROVE  Startable(new.steps, new.deps)
  BY DEF HasFirst, Startable

LEMMA MergeCanStart ==
  ASSUME Core, NEW new, NewPlan(new), HasFirst(new)
  PROVE  Startable(Merge(plan, new).steps, Merge(plan, new).deps)
  <1> DEFINE kept == plan.steps \cap persistent
             m == Merge(plan, new)
  <1>1. plan \in PlanDocument /\ new \in PlanDocument
    BY DEF Core, NewPlan
  <1>2. /\ m.steps = new.steps \cup kept
        /\ \A s \in StepIds \ kept : m.deps[s] = new.deps[s]
    BY <1>1 DEF Merge, WithKept, PlanDocument
  <1>3. new.steps \subseteq StepIds
    BY <1>1 DEF PlanDocument
  <1> HIDE DEF m
  <1>4. PICK first \in new.steps :
          new.deps[first] = {} /\ \A s \in new.steps : new.deps[s] \subseteq {first}
    BY DEF HasFirst
  <1>5. \A s \in m.steps \ persistent : s \in new.steps /\ m.deps[s] = new.deps[s]
    BY <1>2, <1>3
  <1>6. first \in m.steps
    BY <1>2
  <1>7. Startable(m.steps, m.deps)
    BY <1>4, <1>5, <1>6 DEF Startable
  <1> QED
    BY <1>7 DEF m

\* After a replan the run has ended, not with success, or a plan that can be
\* started is to be decided about.
LEMMA ReplanCanStart ==
  ASSUME IInv, Core, ctl # "ended", NEW prior \in {{}, plan.steps}, Replan(prior),
         UNCHANGED persistent
  PROVE  /\ ctl' = "decide" => Startable(plan.steps, plan.deps)'
         /\ ending' # "success"
  <1>1. ending = "none"
    BY DEF Core
  <1>2. CASE End("failed") \/ End("raised")
    BY <1>2 DEF End
  <1>3. CASE /\ CountPlannerCall
             /\ \E new \in PlannerPlans(prior) : plan' = Merge(plan, new)
             /\ UNCHANGED ending
    <2>1. PICK new \in PlannerPlans(prior) : plan' = Merge(plan, new)
      BY <1>3
    <2>2. prior \in SUBSET (1 .. 2 * plannerCalls) /\ plannerCalls < MaxPlannerCalls
      BY <1>3 DEF Core, PlanWellFormed, CountPlannerCall
    <2>3. NewPlan(new) /\ HasFirst(new)
      BY <2>2, PlannerPlansNew, PlannerPlansHaveFirst
    <2>4. Startable(plan'.steps, plan'.deps)
      BY <2>1, <2>3, MergeCanStart
    <2>5. Startable(plan.steps, plan.deps)'
      BY <2>4 DEF Startable
    <2> QED
      BY <1>1, <1>3, <2>5
  <1> QED
    BY <1>2, <1>3 DEF Replan

\* The call compiles the plan: none of its tasks has begun.
LEMMA CallCanStart ==
  ASSUME IInv, Core, CanStart, SuccessIsEarned, CallExecutor
  PROVE  CanStart' /\ SuccessIsEarned'
  <1>1. /\ ctl = "decide" /\ ctl' = "act" /\ EnsureTasks(Doc(plan))
        /\ UNCHANGED <<plan, ending>> /\ doc.pid # plan.pid /\ ending = "none"
    BY DEF CallExecutor, Decide, Core, LoadedPlan
  <1>2. /\ doc' = Doc(plan) /\ status' = Compile(Doc(plan)) /\ outcome' = "none"
        /\ phase' = "select" /\ persistent' = persistent
    BY <1>1 DEF EnsureTasks, Doc
  <1>3. doc'.steps = plan.steps /\ doc'.deps = plan.deps
    BY <1>2 DEF Doc
  <1>4. Startable(plan.steps, plan.deps)
    BY <1>1 DEF CanStart
  <1>5. \A s \in StepIds : status'[s] \notin {"running", "failed"}
    BY <1>2 DEF Compile
  <1>6. Startable(doc.steps, doc.deps)'
    BY <1>2, <1>3, <1>4 DEF Startable
  <1>7. CanStart'
    BY <1>1, <1>2, <1>5, <1>6 DEF CanStart
  <1> QED
    BY <1>1, <1>2, <1>7 DEF SuccessIsEarned

\* When no task is ready every one is completed.
LEMMA NothingReadyIsSuccess ==
  ASSUME IInv, CanStart, NothingReady
  PROVE  outcome' = "success" /\ doc.steps \subseteq persistent
  <1>1. /\ phase = "select" /\ Ready(doc, status) = {} /\ outcome' = StarvedOutcome
        /\ status \in [StepIds -> TaskStatus] /\ doc.steps \subseteq StepIds
    BY DEF NothingReady, Return, IInv, TypeOK
  <1>2. \A s \in StepIds :
          /\ s \in doc.steps /\ s \in persistent <=> status[s] = "completed"
          /\ s \in doc.steps /\ s \notin persistent => status[s] = "pending"
    BY <1>1 DEF IInv, TaskLifecycle, CanStart, TaskStatus
  <1>3. Completed(status) = doc.steps \cap persistent
    BY <1>1, <1>2 DEF Completed
  <1>4. doc.steps \subseteq persistent
    <2>1. ASSUME NEW s \in doc.steps \ persistent, doc.deps[s] \subseteq doc.steps \cap persistent
          PROVE  FALSE
      BY <1>1, <1>2, <1>3, <2>1 DEF Ready
    <2>2. Startable(doc.steps, doc.deps)
      BY <1>1 DEF CanStart
    <2> QED
      BY <2>1, <2>2 DEF Startable
  <1> QED
    BY <1>1, <1>3, <1>4 DEF StarvedOutcome

\* What the call reports of its end.
LEMMA ExecuteEarned ==
  ASSUME IInv, Core, CanStart, SuccessIsEarned, Execute
  PROVE  CanStart' /\ SuccessIsEarned'
  <1>1. /\ ctl = "act" /\ ctl' = "act" /\ UNCHANGED <<plan, ending>> /\ ExecutorStep /\ ending = "none"
    BY DEF Execute, loopVars, Core
  <1>2. doc' = doc /\ phase # "idle"
    BY <1>1, ExecuteInv
  <1>3. outcome = "none"
    BY <1>2 DEF CanStart
  <1>4. SUFFICES /\ phase' # "select"
                 /\ phase' # "idle" => outcome' = "none"
                 /\ outcome' # "failed"
                 /\ outcome' = "success" => doc.steps \subseteq persistent'
    BY <1>1, <1>2 DEF CanStart, SuccessIsEarned
  <1>5. CASE NothingReady
    <2>1. phase' = "idle" /\ persistent' = persistent
      BY <1>5 DEF NothingReady, Return, objectVars
    <2> QED
      BY <1>5, <2>1, NothingReadyIsSuccess
  <1>6. CASE ArgumentsRaise
    BY <1>6 DEF ArgumentsRaise, Return
  <1>7. CASE StartTask
    BY <1>3, <1>7 DEF StartTask
  <1>8. CASE DispatchCapReached \/ FinishTask \/ GuardBlocks \/ TableLookupRaises \/ Dispatch
    <2>1. phase = "attempt" /\ AttemptEnds
      BY <1>8, LoopStep
    <2>2. OutcomeTrue' /\ (phase' # "idle" => outcome' = "none")
      BY <1>2, <1>3, <2>1, LoopTells
    <2>3. outcome' # "failed" /\ phase' # "select"
      BY <1>3, <2>1 DEF AttemptEnds, AfterFailure, CompleteTask, FailTask, Raise, Return
    <2> QED
      BY <1>2, <2>2, <2>3 DEF OutcomeTrue
  <1> QED
    BY <1>1, <1>5, <1>6, <1>7, <1>8 DEF ExecutorStep

\* The steps of the loop outside the call.
LEMMA IdleEarned ==
  ASSUME IInv, Core, CanStart, SuccessIsEarned, ControllerStep, ~CallExecutor, ~Execute
  PROVE  CanStart' /\ SuccessIsEarned'
  <1>1. ctl # "ended" /\ phase = "idle" /\ UNCHANGED executorVars
    BY DEF ControllerStep, Bootstrap, Stop, SynthesizeAnswer, RefuseExploration, Explore,
           ReplanDecided, AfterFailedTask, AfterProgress, AfterLastTask, Returned, Decide,
           Core, LoadedPlan
  <1>2. /\ UNCHANGED <<doc, status, persistent, phase, outcome>> /\ ending = "none"
    BY <1>1 DEF executorVars, objectVars, callVars, Core
  <1>3. SUFFICES /\ ctl' = "decide" => Startable(plan.steps, plan.deps)'
                 /\ ending' = "success" => plan'.steps \subseteq persistent
    BY <1>1, <1>2 DEF CanStart, SuccessIsEarned
  <1>4. ASSUME NEW prior \in {{}, plan.steps}, Replan(prior)
        PROVE  /\ ctl' = "decide" => Startable(plan.steps, plan.deps)'
               /\ ending' # "success"
    BY <1>1, <1>2, <1>4, ReplanCanStart
  <1>5. CASE Bootstrap
    <2>1. CASE End("raised")
      BY <2>1 DEF End
    <2>2. CASE CountPlannerCall /\ plan' \in PlannerPlans({}) /\ UNCHANGED ending
      <3>1. HasFirst(plan')
        BY <2>2, PlannerPlansHaveFirst DEF CountPlannerCall
      <3>2. Startable(plan'.steps, plan'.deps)
        BY <3>1, NewCanStart
      <3>3. Startable(plan.steps, plan.deps)'
        BY <1>2, <3>2 DEF Startable
      <3> QED
        BY <1>2, <2>2, <3>3
    <2> QED
      BY <1>5, <2>1, <2>2 DEF Bootstrap
  <1>6. CASE Stop
    BY <1>6 DEF Stop, End
  <1>7. CASE UNCHANGED <<ctl, plan, ending>>
    BY <1>2, <1>7 DEF CanStart, Startable
  <1>8. CASE AfterLastTask
    <2>1. ctl = "act" /\ ctl' = "ended" /\ ending' = outcome /\ plan' = plan /\ doc = Doc(plan)
      BY <1>8 DEF AfterLastTask, Returned, End, Core, ExecutorFollowsPlan
    <2>2. outcome = "success" => plan.steps \subseteq persistent
      BY <2>1 DEF SuccessIsEarned, Doc
    <2> QED
      BY <2>1, <2>2
  <1>9. CASE RefuseExploration \/ Explore \/ ReplanDecided \/ AfterFailedTask \/ AfterProgress
    <2>1. \/ Replan({}) \/ Replan(plan.steps) \/ End("raised")
          \/ UNCHANGED <<ctl, plan, ending>>
      BY <1>9 DEF RefuseExploration, Explore, ReplanDecided, AfterFailedTask, AfterProgress
    <2> QED
      BY <1>4, <1>7, <2>1 DEF End
  <1> QED
    BY <1>5, <1>6, <1>7, <1>8, <1>9 DEF ControllerStep, SynthesizeAnswer

\* Success is earned: what was merged, kept from earlier plans and numbered anew
\* can always be executed to its end, a call never finds its tasks stuck, and a
\* run ends with "success" only if every step of its plan is completed.
THEOREM RunSuccessTrue == CSpec => []SuccessIsEarned
  <1>1. CInit => CanStart /\ SuccessIsEarned
    BY DEF CInit, Init, CanStart, SuccessIsEarned
  <1>2. ASSUME IInv, Core, CanStart, SuccessIsEarned, [CNext]_cvars
        PROVE  CanStart' /\ SuccessIsEarned'
    <2>1. CASE \E safe \in BOOLEAN : NewTurn(safe)
      BY <2>1 DEF NewTurn, NewRun, objectVars, CanStart, SuccessIsEarned
    <2>2. CASE UNCHANGED cvars
      <3>1. UNCHANGED <<doc, status, persistent, phase, outcome, ctl, plan, ending>>
        BY <2>2 DEF cvars, vars, objectVars, callVars, loopVars
      <3> QED
        BY <1>2, <3>1 DEF CanStart, SuccessIsEarned, Startable
    <2> QED
      BY <1>2, <2>1, <2>2, CallCanStart, ExecuteEarned, IdleEarned DEF CNext
  <1>3. CInv => IInv /\ Core
    BY Parts
  <1> QED
    BY <1>1, <1>2, <1>3, ControllerInvariant, PTL DEF CSpec
==============================================================================
