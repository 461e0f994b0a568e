-------------------------- MODULE DagExecutorProofs --------------------------
(* What DagExecutor promises for every set of step ids, every set of plans,   *)
(* every policy and any number of runs and documents.                         *)
EXTENDS DagExecutor, TLAPS

USE DEF NoStep, NoPlan

\* 0, the id that stands for "no task", is not the id of a step.
LEMMA NoStepFact == NoStep \notin StepIds
  BY StepIdsAssumption

\* The state a new DagExecutor is in satisfies the inductive invariant.
LEMMA InitInv == Init => IInv
  <1> SUFFICES ASSUME Init PROVE IInv
    OBVIOUS
  <1>1. TypeOK
    BY BoundsAssumption, TableAssumption
    DEF Init, TypeOK, EmptyDoc, NoProgress, Zero, Tools, TaskStatus, Outcome
  <1>2. TaskLifecycle
    BY DEF Init, TaskLifecycle, EmptyDoc, Zero, NonRetryable
  <1>3. DispatchBudget /\ ProgressExact /\ HistoryOnce /\ doc.pid < nextPlan
    BY BoundsAssumption
    DEF Init, DispatchBudget, ProgressExact, HistoryOnce, NoProgress, Zero, EmptyDoc
  <1> QED
    BY <1>1, <1>2, <1>3 DEF IInv

\* A new run only replaces the AgentState.
LEMMA NewRunInv ==
  ASSUME IInv, NEW safe \in BOOLEAN, NewRun(safe)
  PROVE  IInv'
  <1> USE DEF IInv, NewRun, objectVars
  <1>1. TypeOK'
    BY BoundsAssumption DEF TypeOK, NoProgress, Zero, Outcome
  <1>2. TaskLifecycle'
    BY DEF TaskLifecycle, Zero
  <1>3. DispatchBudget' /\ ProgressExact' /\ HistoryOnce'
    BY BoundsAssumption DEF DispatchBudget, ProgressExact, HistoryOnce, NoProgress, Zero
  <1> QED
    BY <1>1, <1>2, <1>3

\* A document is compiled, or kept if it is the one that is loaded.
LEMMA EnsureTasksInv ==
  ASSUME IInv, NEW d, EnsureTasks(d),
         d \in [pid : Nat, steps : SUBSET StepIds, tool : [StepIds -> Tools],
                deps : [StepIds -> SUBSET StepIds]],
         nextPlan' \in Nat \ {0}, d.pid < nextPlan',
         d.pid = doc.pid => d = doc
  PROVE  IInv'
  <1> DEFINE kept == d.pid = doc.pid /\ doc.steps # {}
  <1>1. doc' = d
    BY DEF EnsureTasks
  <1>2. status' = IF kept THEN status ELSE Compile(d)
    BY DEF EnsureTasks
  <1>3. attempts' = (IF kept THEN attempts ELSE Zero) /\ sent' = (IF kept THEN sent ELSE Zero)
    BY DEF EnsureTasks
  <1>4. progress' = Published(d, status')
    BY DEF EnsureTasks
  <1>5. phase' = "select" /\ outcome' = "none"
    BY DEF EnsureTasks
  <1>6. UNCHANGED <<persistent, tableBound, planSafe, dispatches, history, cur, lastError,
                  calls, runs>>
    BY DEF EnsureTasks
  <1>7. status' \in [StepIds -> TaskStatus]
    BY <1>2 DEF IInv, TypeOK, Compile, TaskStatus
  <1>8. TypeOK'
    BY <1>1, <1>3, <1>4, <1>5, <1>6, <1>7, BoundsAssumption
    DEF IInv, TypeOK, Published, Completed, Zero, Outcome
  <1>9. TaskLifecycle'
    <2>1. CASE kept
      BY <2>1, <1>1, <1>2, <1>3, <1>5, <1>6 DEF IInv, TaskLifecycle
    <2>2. CASE ~kept
      BY <2>2, <1>1, <1>2, <1>3, <1>5, <1>6 DEF TaskLifecycle, Compile, Zero
    <2> QED
      BY <2>1, <2>2
  <1>10. DispatchBudget' /\ HistoryOnce'
    BY <1>6 DEF IInv, DispatchBudget, HistoryOnce
  <1>11. ProgressExact'
    BY <1>1, <1>4 DEF ProgressExact, Published, Completed
  <1> QED
    BY <1>1, <1>8, <1>9, <1>10, <1>11 DEF IInv

\* The call ends without touching a task: nothing is ready, or the argument
\* model raises.
LEMMA LeaveCallInv ==
  ASSUME IInv, NothingReady \/ ArgumentsRaise
  PROVE  IInv'
  <1>1. /\ phase' = "idle" /\ cur' = NoStep /\ lastError' = "none" /\ outcome' \in Outcome
        /\ UNCHANGED <<objectVars, stateVars, ghostVars>>
    BY DEF NothingReady, ArgumentsRaise, Return, StarvedOutcome, Outcome
  <1> USE <1>1 DEF IInv, objectVars, stateVars, ghostVars
  <1>2. TypeOK'
    BY DEF TypeOK
  <1>3. TaskLifecycle'
    BY DEF TaskLifecycle
  <1>4. DispatchBudget' /\ ProgressExact' /\ HistoryOnce'
    BY DEF DispatchBudget, ProgressExact, HistoryOnce, Completed
  <1> QED
    BY <1>2, <1>3, <1>4

\* A pending task becomes the running one; it has had no attempt.
LEMMA StartTaskInv ==
  ASSUME IInv, StartTask
  PROVE  IInv'
  <1>1. PICK s \in Ready(doc, status) : cur' = s /\ status' = [status EXCEPT ![s] = "running"]
    BY DEF StartTask
  <1>2. s \in StepIds /\ s \in doc.steps /\ status[s] = "pending"
    BY <1>1 DEF Ready, IInv, TypeOK
  <1>3. /\ phase' = "attempt"
        /\ UNCHANGED <<doc, tableBound, attempts, persistent, stateVars, lastError, outcome,
                      ghostVars>>
    BY DEF StartTask
  <1> USE <1>1, <1>2, <1>3 DEF IInv, stateVars, ghostVars
  <1>4. TypeOK'
    BY DEF TypeOK, TaskStatus
  <1>5. TaskLifecycle'
    BY BoundsAssumption DEF TaskLifecycle, TypeOK, TaskStatus
  <1>6. Completed(status') = Completed(status)
    BY DEF Completed, TypeOK
  <1>7. DispatchBudget' /\ ProgressExact' /\ HistoryOnce'
    BY <1>6 DEF DispatchBudget, ProgressExact, HistoryOnce, Completed
  <1> QED
    BY <1>4, <1>5, <1>7

\* What an iteration of the loop can do to the tasks, the metadata and the
\* history, apart from its counters: the task completes, fails, is repeated or
\* is left running.
AttemptEnds ==
  \/ CompleteTask
  \/ FailTask
  \/ \E e \in ErrorType : AfterFailure(e)
  \/ Raise

\* The counters of an iteration: one attempt, at most one dispatch within the
\* budget, and a tool call only with a dispatch.
AttemptCounts ==
  /\ CountAttempt
  /\ \/ UNCHANGED <<dispatches, sent, calls>>
     \/ CountDispatch /\ UNCHANGED <<sent, calls>>
     \/ CountDispatch /\ sent' = [sent EXCEPT ![cur] = @ + 1] /\ calls' = calls + 1

\* Every step of the loop is an attempt with its counters and its end.
LEMMA LoopStep ==
  ASSUME DispatchCapReached \/ FinishTask \/ GuardBlocks \/ TableLookupRaises \/ Dispatch
  PROVE  /\ phase = "attempt" /\ AttemptCounts /\ AttemptEnds
         /\ UNCHANGED <<doc, tableBound, planSafe, nextPlan, runs>>
  <1> USE DEF AttemptCounts, AttemptEnds, ghostVars
  <1>1. CASE DispatchCapReached
    BY <1>1 DEF DispatchCapReached
  <1>2. CASE FinishTask
    BY <1>2 DEF FinishTask
  <1>3. CASE GuardBlocks
    BY <1>3 DEF GuardBlocks, ErrorType
  <1>4. CASE TableLookupRaises
    BY <1>4 DEF TableLookupRaises
  <1>5. CASE Dispatch
    BY <1>5 DEF Dispatch
  <1> QED
    BY <1>1, <1>2, <1>3, <1>4, <1>5

\* An iteration of the loop preserves the inductive invariant.
LEMMA LoopInv ==
  ASSUME IInv, phase = "attempt", AttemptCounts, AttemptEnds,
         UNCHANGED <<doc, tableBound, planSafe, nextPlan, runs>>
  PROVE  IInv'
  <1> DEFINE Repeat == /\ attempts[cur] + 1 < MaxAttempts
                       /\ doc.tool[cur] \notin NonRetryable
                       /\ lastError' \in ErrorType
                       /\ UNCHANGED <<status, persistent, history, progress, phase, cur, outcome>>
  <1>1. CompleteTask \/ FailTask \/ Repeat \/ Raise
    BY DEF AttemptEnds, AfterFailure, ShouldRetry
  <1>2. /\ cur \in StepIds /\ cur \in doc.steps /\ status[cur] = "running"
        /\ cur \notin persistent /\ attempts[cur] \in Nat /\ attempts[cur] < MaxAttempts
        /\ history[cur] = 0
    BY BoundsAssumption DEF IInv, TypeOK, TaskLifecycle, HistoryOnce
  <1>3. attempts' = [attempts EXCEPT ![cur] = @ + 1]
    BY DEF AttemptCounts, CountAttempt
  <1>4. /\ dispatches' \in Nat /\ calls' \in Nat /\ DispatchBudget'
        /\ sent' \in [StepIds -> Nat]
        /\ \A s \in StepIds : sent'[s] <= attempts'[s]
    BY <1>2, <1>3, BoundsAssumption
    DEF AttemptCounts, CountDispatch, DispatchBudget, IInv, TypeOK, TaskLifecycle
  <1>5. /\ attempts' \in [StepIds -> 0 .. MaxAttempts]
        /\ doc.tool[cur] \in NonRetryable => attempts'[cur] = 1
        /\ \A s \in StepIds : s # cur => attempts'[s] = attempts[s]
        /\ attempts'[cur] = attempts[cur] + 1
    BY <1>2, <1>3, BoundsAssumption DEF IInv, TypeOK, TaskLifecycle
  <1>6. TypeOK'
    <2> USE <1>2, <1>4, <1>5 DEF IInv, TypeOK, Outcome, TaskStatus, Return, Published, Completed
    <2>1. CASE CompleteTask
      BY <2>1 DEF CompleteTask
    <2>2. CASE FailTask
      BY <2>2 DEF FailTask
    <2>3. CASE Repeat
      BY <2>3
    <2>4. CASE Raise
      BY <2>4 DEF Raise
    <2> QED
      BY <1>1, <2>1, <2>2, <2>3, <2>4
  <1>7. TaskLifecycle'
    <2> USE <1>2, <1>4, <1>5 DEF IInv, TypeOK, TaskLifecycle, TaskStatus, Return
    <2>1. CASE CompleteTask
      BY <2>1 DEF CompleteTask
    <2>2. CASE FailTask
      BY <2>2 DEF FailTask
    <2>3. CASE Repeat
      BY <2>3
    <2>4. CASE Raise
      BY <2>4 DEF Raise
    <2> QED
      BY <1>1, <2>1, <2>2, <2>3, <2>4
  <1>8. ProgressExact'
    <2>1. CASE CompleteTask
      BY <2>1 DEF CompleteTask, ProgressExact, Published, Completed
    <2>2. CASE FailTask
      BY <2>2 DEF FailTask, ProgressExact, Published, Completed
    <2>3. CASE Repeat \/ Raise
      BY <2>3 DEF Raise, IInv, ProgressExact, Completed
    <2> QED
      BY <1>1, <2>1, <2>2, <2>3
  <1>9. HistoryOnce'
    BY <1>1, <1>2 DEF IInv, TypeOK, HistoryOnce, CompleteTask, FailTask, Raise
  <1> QED
    BY <1>4, <1>6, <1>7, <1>8, <1>9 DEF IInv

\* The document a caller hands over has the type of a document.
LEMMA CallInv ==
  ASSUME IInv, CallWithNewPlan \/ CallAgain
  PROVE  IInv'
  <1>1. CASE CallWithNewPlan
    <2>1. PICK b \in PlanBodies :
            EnsureTasks([pid |-> nextPlan, steps |-> b.steps, tool |-> b.tool, deps |-> b.deps])
      BY <1>1 DEF CallWithNewPlan
    <2> DEFINE d == [pid |-> nextPlan, steps |-> b.steps, tool |-> b.tool, deps |-> b.deps]
    <2>2. /\ d \in [pid : Nat, steps : SUBSET StepIds, tool : [StepIds -> Tools],
                    deps : [StepIds -> SUBSET StepIds]]
          /\ nextPlan' \in Nat \ {0} /\ d.pid < nextPlan'
      BY <1>1, PlanBodiesAssumption DEF CallWithNewPlan, IInv, TypeOK, PlanBody
    <2>3. d.pid # doc.pid
      BY DEF IInv, TypeOK
    <2> QED
      BY <2>1, <2>2, <2>3, EnsureTasksInv
  <1>2. CASE CallAgain
    BY <1>2, EnsureTasksInv DEF CallAgain, IInv, TypeOK
  <1> QED
    BY <1>1, <1>2

\* Every step preserves the inductive invariant.
LEMMA NextInv ==
  ASSUME IInv, [Next]_vars
  PROVE  IInv'
  <1>1. CASE \E safe \in BOOLEAN : NewRun(safe)
    BY <1>1, NewRunInv
  <1>2. CASE CallWithNewPlan \/ CallAgain
    BY <1>2, CallInv
  <1>3. CASE NothingReady \/ ArgumentsRaise
    BY <1>3, LeaveCallInv
  <1>4. CASE StartTask
    BY <1>4, StartTaskInv
  <1>5. CASE DispatchCapReached \/ FinishTask \/ GuardBlocks \/ TableLookupRaises \/ Dispatch
    BY <1>5, LoopStep, LoopInv
  <1>6. CASE UNCHANGED vars
    BY <1>6 DEF vars, objectVars, stateVars, callVars, ghostVars, IInv, TypeOK, TaskLifecycle,
                DispatchBudget, ProgressExact, HistoryOnce, Completed
  <1> QED
    BY <1>1, <1>2, <1>3, <1>4, <1>5, <1>6 DEF Next, ExecutorStep

\* The inductive invariant holds in every reachable state, whatever the plans,
\* the policy, and the number of documents and runs.
THEOREM ExecutorInvariant == Spec => []IInv
  <1>1. Init => IInv
    BY InitInv
  <1>2. IInv /\ [Next]_vars => IInv'
    BY NextInv
  <1> QED
    BY <1>1, <1>2, PTL DEF Spec

\* Every variable keeps its type.
THEOREM TypeCorrect == Spec => []TypeOK
  <1>1. IInv => TypeOK
    BY DEF IInv
  <1> QED
    BY <1>1, ExecutorInvariant, PTL

\* An edit or a shell command reaches its tool at most once per document.
THEOREM NonIdempotentAtMostOnce == Spec => []NonIdempotentOnce
  <1>1. IInv => NonIdempotentOnce
    BY DEF IInv, TypeOK, TaskLifecycle, NonIdempotentOnce
  <1> QED
    BY <1>1, ExecutorInvariant, PTL

\* A run never calls more tools than its budget.
THEOREM BudgetKept == Spec => []DispatchBudget
  <1>1. IInv => DispatchBudget
    BY DEF IInv
  <1> QED
    BY <1>1, ExecutorInvariant, PTL

\* The published progress is the progress.
THEOREM ProgressTrue == Spec => []ProgressExact
  <1>1. IInv => ProgressExact
    BY DEF IInv
  <1> QED
    BY <1>1, ExecutorInvariant, PTL

\* Only an iteration of the loop gives a task to a tool, and only the current
\* one, which is not remembered as completed.
LEMMA SentStep ==
  ASSUME IInv, [Next]_vars, NEW s \in persistent
  PROVE  sent'[s] <= sent[s]
  <1> USE DEF IInv, TypeOK
  <1>1. CASE UNCHANGED sent
    BY <1>1
  <1>2. CASE \E d : EnsureTasks(d)
    BY <1>2 DEF EnsureTasks, Zero
  <1>3. CASE phase = "attempt" /\ AttemptCounts
    BY <1>3 DEF AttemptCounts, TaskLifecycle
  <1>4. CASE NothingReady \/ StartTask \/ ArgumentsRaise \/ UNCHANGED vars
             \/ \E safe \in BOOLEAN : NewRun(safe)
    BY <1>1, <1>4 DEF NothingReady, StartTask, ArgumentsRaise, NewRun, vars, ghostVars
  <1>5. CASE CallWithNewPlan \/ CallAgain
    BY <1>2, <1>5 DEF CallWithNewPlan, CallAgain
  <1>6. CASE DispatchCapReached \/ FinishTask \/ GuardBlocks \/ TableLookupRaises \/ Dispatch
    BY <1>3, <1>6, LoopStep
  <1> QED
    BY <1>4, <1>5, <1>6 DEF Next, ExecutorStep

\* What is remembered as completed is never given to a tool again.
THEOREM NeverRedone == Spec => CompletedNeverRedone
  <1>1. IInv /\ [Next]_vars => [\A s \in persistent : sent'[s] <= sent[s]]_vars
    BY SentStep
  <1> QED
    BY <1>1, ExecutorInvariant, PTL DEF Spec, CompletedNeverRedone

------------------------------------------------------------------------------
\* What a call reports.

\* The loaded document is one that was handed over, its dependencies are among
\* its steps and have no cycle, and a call that is running has no outcome yet.
Reporting ==
  /\ Acyclic(doc) /\ \A s \in doc.steps : doc.deps[s] \subseteq doc.steps
  /\ phase # "idle" => outcome = "none"

\* When nothing can be started, a task that is not completed has failed or is
\* still marked as running: of the tasks that are not completed one waits for
\* completed ones only.
LEMMA StarvedMeansStuck ==
  ASSUME IInv, Reporting, Ready(doc, status) = {}, Completed(status) # doc.steps
  PROVE  \E s \in doc.steps : status[s] \in {"failed", "running"}
  <1> DEFINE open == {s \in doc.steps : status[s] # "completed"}
  <1>1. Completed(status) \subseteq doc.steps /\ doc.steps \subseteq StepIds
    BY DEF Completed, IInv, TypeOK, TaskLifecycle
  <1>2. open # {}
    BY <1>1 DEF Completed
  <1>3. PICK s \in open : doc.deps[s] \cap open = {}
    BY <1>2 DEF Reporting, Acyclic
  <1>4. doc.deps[s] \subseteq Completed(status)
    BY <1>1, <1>3 DEF Reporting, Completed
  <1>5. status[s] # "pending"
    BY <1>3, <1>4 DEF Ready
  <1>6. status[s] \in TaskStatus /\ status[s] # "absent"
    BY <1>1, <1>3 DEF IInv, TypeOK, TaskLifecycle
  <1> QED
    BY <1>3, <1>5, <1>6 DEF TaskStatus

\* A call that finds nothing to start says so truly.
LEMMA StarvedTells ==
  ASSUME IInv, Reporting, NothingReady
  PROVE  OutcomeTrue'
  <1>1. Ready(doc, status) = {} /\ outcome' = StarvedOutcome /\ UNCHANGED <<doc, status, persistent>>
    BY DEF NothingReady, Return, objectVars
  <1>2. CASE Completed(status) = doc.steps
    <2>1. doc.steps \subseteq persistent
      BY <1>2 DEF Completed, IInv, TypeOK, TaskLifecycle
    <2> QED
      BY <1>1, <1>2, <2>1 DEF StarvedOutcome, OutcomeTrue
  <1>3. CASE Completed(status) # doc.steps
    <2>1. \E s \in doc.steps : status[s] \in {"failed", "running"}
      BY <1>1, <1>3, StarvedMeansStuck
    <2> QED
      BY <1>1, <1>3, <2>1 DEF StarvedOutcome, OutcomeTrue
  <1> QED
    BY <1>2, <1>3

\* An iteration of the loop that ends the call says truly how.
LEMMA LoopTells ==
  ASSUME IInv, phase = "attempt", outcome = "none", AttemptEnds, UNCHANGED doc
  PROVE  OutcomeTrue' /\ (phase' # "idle" => outcome' = "none")
  <1>1. cur \in StepIds /\ cur \in doc.steps /\ status \in [StepIds -> TaskStatus]
    BY DEF IInv, TypeOK, TaskLifecycle
  <1>2. CASE CompleteTask
    <2>1. ASSUME Completed([status EXCEPT ![cur] = "completed"]) = doc.steps, NEW s \in doc.steps
          PROVE  s \in persistent'
      <3>1. s \in StepIds /\ (s = cur \/ status[s] = "completed")
        BY <1>1, <2>1 DEF Completed
      <3> QED
        BY <1>2, <3>1 DEF CompleteTask, IInv, TaskLifecycle
    <2> QED
      BY <1>2, <2>1 DEF CompleteTask, Return, OutcomeTrue
  <1>3. CASE FailTask
    BY <1>1, <1>3 DEF FailTask, Return, OutcomeTrue
  <1>4. CASE Raise
    BY <1>4 DEF Raise, Return, OutcomeTrue
  <1>5. CASE UNCHANGED <<status, persistent, phase, outcome>>
    BY <1>5 DEF OutcomeTrue
  <1> QED
    BY <1>2, <1>3, <1>4, <1>5 DEF AttemptEnds, AfterFailure

LEMMA ReportingStep ==
  ASSUME IInv, Reporting, OutcomeTrue, [Next]_vars
  PROVE  Reporting' /\ OutcomeTrue'
  <1>1. CASE \E safe \in BOOLEAN : NewRun(safe)
    BY <1>1 DEF NewRun, objectVars, Reporting, Acyclic, OutcomeTrue
  <1>2. CASE CallWithNewPlan
    <2>1. PICK b \in PlanBodies :
            EnsureTasks([pid |-> nextPlan, steps |-> b.steps, tool |-> b.tool, deps |-> b.deps])
      BY <1>2 DEF CallWithNewPlan
    <2>2. /\ Acyclic(b) /\ b.steps \subseteq StepIds
          /\ \A s \in StepIds : b.deps[s] \subseteq b.steps
      BY PlanBodiesAssumption DEF PlanBody
    <2>3. /\ doc' = [pid |-> nextPlan, steps |-> b.steps, tool |-> b.tool, deps |-> b.deps]
          /\ outcome' = "none"
      BY <2>1 DEF EnsureTasks, IInv, TypeOK
    <2> QED
      BY <2>2, <2>3 DEF Reporting, Acyclic, OutcomeTrue
  <1>3. CASE CallAgain
    BY <1>3 DEF CallAgain, EnsureTasks, Reporting, Acyclic, OutcomeTrue
  <1>4. CASE NothingReady
    <2>1. Reporting'
      BY <1>4 DEF NothingReady, Return, objectVars, Reporting, Acyclic
    <2> QED
      BY <1>4, <2>1, StarvedTells
  <1>5. CASE ArgumentsRaise
    BY <1>5 DEF ArgumentsRaise, Return, objectVars, Reporting, Acyclic, OutcomeTrue
  <1>6. CASE StartTask
    BY <1>6 DEF StartTask, Reporting, Acyclic, OutcomeTrue
  <1>7. CASE DispatchCapReached \/ FinishTask \/ GuardBlocks \/ TableLookupRaises \/ Dispatch
    <2>1. phase = "attempt" /\ AttemptEnds /\ UNCHANGED doc
      BY <1>7, LoopStep
    <2>2. OutcomeTrue' /\ (phase' # "idle" => outcome' = "none")
      BY <2>1, LoopTells DEF Reporting
    <2> QED
      BY <2>1, <2>2 DEF Reporting, Acyclic
  <1>8. CASE UNCHANGED vars
    BY <1>8 DEF vars, objectVars, callVars, Reporting, Acyclic, OutcomeTrue
  <1> QED
    BY <1>1, <1>2, <1>3, <1>4, <1>5, <1>6, <1>7, <1>8 DEF Next, ExecutorStep

\* What a call reports is so: success means that every task is remembered as
\* completed, and a plan without cycles is stuck without a failure only when an
\* earlier call was left by an exception in the middle of a task.
THEOREM OutcomesTrue == Spec => []OutcomeTrue
  <1>1. Init => Reporting /\ OutcomeTrue
    BY DEF Init, Reporting, Acyclic, OutcomeTrue, EmptyDoc
  <1>2. IInv /\ Reporting /\ OutcomeTrue /\ [Next]_vars => Reporting' /\ OutcomeTrue'
    BY ReportingStep
  <1> QED
    BY <1>1, <1>2, ExecutorInvariant, PTL DEF Spec

------------------------------------------------------------------------------
\* Refinement.

\* Loading a document is loading its graph, or nothing if it is loaded already.
LEMMA EnsureTasksRefines ==
  ASSUME IInv, NEW d, EnsureTasks(d),
         d.steps \in SUBSET StepIds, d.deps \in [StepIds -> SUBSET StepIds],
         d.pid = doc.pid => d = doc
  PROVE  [Graph!Next]_(Graph!tgVars)
  <1>1. CASE d.pid = doc.pid /\ doc.steps # {}
    BY <1>1 DEF EnsureTasks, Graph!tgVars
  <1>2. CASE ~(d.pid = doc.pid /\ doc.steps # {})
    <2>1. Graph!Load(d.steps, d.deps)
      BY <1>2 DEF EnsureTasks, Compile, Graph!Load
    <2> QED
      BY <2>1 DEF Graph!Next
  <1> QED
    BY <1>1, <1>2

\* Starting a ready task is starting a task of the graph.
LEMMA StartTaskRefines ==
  ASSUME IInv, StartTask
  PROVE  Graph!Next
  <1>1. PICK s \in Ready(doc, status) : cur' = s /\ status' = [status EXCEPT ![s] = "running"]
    BY DEF StartTask
  <1>2. s \in StepIds /\ status[s] = "pending" /\ \A e \in doc.deps[s] : status[e] = "completed"
    BY <1>1 DEF Ready, Completed, IInv, TypeOK
  <1>3. Graph!Start(s)
    BY <1>1, <1>2 DEF StartTask, Graph!Start
  <1> QED
    BY <1>2, <1>3 DEF Graph!Next

\* An iteration of the loop completes the task, fails it, or leaves the graph
\* alone (a repeated attempt, an exception).
LEMMA LoopRefines ==
  ASSUME IInv, phase = "attempt", AttemptEnds, UNCHANGED doc
  PROVE  [Graph!Next]_(Graph!tgVars)
  <1>1. cur \in StepIds /\ status[cur] = "running"
    BY DEF IInv, TypeOK, TaskLifecycle
  <1>2. CASE CompleteTask
    BY <1>1, <1>2 DEF CompleteTask, Graph!Complete, Graph!Next
  <1>3. CASE FailTask
    BY <1>1, <1>3 DEF FailTask, Graph!Fail, Graph!Next
  <1>4. CASE UNCHANGED <<status, persistent>>
    BY <1>4 DEF Graph!tgVars
  <1> QED
    BY <1>2, <1>3, <1>4 DEF AttemptEnds, AfterFailure, Raise

\* Every step of the executor is a step of the graph or leaves it alone.
LEMMA StepRefines ==
  ASSUME IInv, [Next]_vars
  PROVE  [Graph!Next]_(Graph!tgVars)
  <1>1. CASE (\E safe \in BOOLEAN : NewRun(safe)) \/ NothingReady \/ ArgumentsRaise \/ UNCHANGED vars
    BY <1>1 DEF NewRun, NothingReady, ArgumentsRaise, vars, objectVars, Graph!tgVars
  <1>2. CASE CallWithNewPlan
    <2>1. PICK b \in PlanBodies :
            EnsureTasks([pid |-> nextPlan, steps |-> b.steps, tool |-> b.tool, deps |-> b.deps])
      BY <1>2 DEF CallWithNewPlan
    <2> DEFINE d == [pid |-> nextPlan, steps |-> b.steps, tool |-> b.tool, deps |-> b.deps]
    <2>2. d.steps \in SUBSET StepIds /\ d.deps \in [StepIds -> SUBSET StepIds] /\ d.pid # doc.pid
      BY PlanBodiesAssumption DEF IInv, TypeOK, PlanBody
    <2> QED
      BY <2>1, <2>2, EnsureTasksRefines
  <1>3. CASE CallAgain
    BY <1>3, EnsureTasksRefines DEF CallAgain, IInv, TypeOK
  <1>4. CASE StartTask
    BY <1>4, StartTaskRefines
  <1>5. CASE DispatchCapReached \/ FinishTask \/ GuardBlocks \/ TableLookupRaises \/ Dispatch
    BY <1>5, LoopStep, LoopRefines
  <1> QED
    BY <1>1, <1>2, <1>3, <1>4, <1>5 DEF Next, ExecutorStep

\* The executor implements the graph of tasks with remembered completions: a
\* task is started only after everything it depends on, only a started task
\* ends, and a remembered one is not started again.
THEOREM RefinesTaskGraph == Spec => ImplementsTaskGraph
  <1>1. Init => Graph!Init
    BY DEF Init, EmptyDoc, Graph!Init
  <1>2. IInv /\ [Next]_vars => [Graph!Next]_(Graph!tgVars)
    BY StepRefines
  <1> QED
    BY <1>1, <1>2, ExecutorInvariant, PTL DEF Spec, ImplementsTaskGraph, Graph!Spec

------------------------------------------------------------------------------
\* How long a call can go on.

\* The attempts the call has left, and the step that chooses the task.
CallLeft ==
  CASE phase = "select"  -> MaxAttempts + 1
    [] phase = "attempt" -> MaxAttempts - attempts[cur]
    [] OTHER             -> 0

\* Each step of a call uses up one of those it has left: max_attempts bounds the
\* loop of _execute_task_with_retries, whatever the tools answer.
Counts == {CallLeft, CallLeft'} \subseteq Nat /\ CallLeft' < CallLeft
CallCounts == [][phase # "idle" => Counts]_vars

LEMMA CallLeftIsNat ==
  ASSUME IInv
  PROVE  CallLeft \in Nat /\ (phase # "idle" => CallLeft > 0)
  <1>1. /\ MaxAttempts \in Nat \ {0} /\ phase \in {"idle", "select", "attempt"}
        /\ phase = "attempt" => attempts[cur] \in Nat /\ attempts[cur] < MaxAttempts
    BY BoundsAssumption, NoStepFact DEF IInv, TypeOK, TaskLifecycle
  <1> QED
    BY <1>1 DEF CallLeft

LEMMA CallShrinks ==
  ASSUME IInv, phase # "idle", Next
  PROVE  CallLeft' < CallLeft
  <1>1. CallLeft \in Nat /\ CallLeft > 0 /\ MaxAttempts \in Nat \ {0}
    BY CallLeftIsNat, BoundsAssumption
  <1>2. ~((\E safe \in BOOLEAN : NewRun(safe)) \/ CallWithNewPlan \/ CallAgain)
    BY DEF NewRun, CallWithNewPlan, CallAgain, EnsureTasks
  <1>3. CASE phase' = "idle"
    BY <1>1, <1>3 DEF CallLeft
  <1>4. CASE NothingReady \/ ArgumentsRaise
    BY <1>3, <1>4 DEF NothingReady, ArgumentsRaise, Return
  <1>5. CASE StartTask
    <2>1. PICK s \in Ready(doc, status) : cur' = s
      BY <1>5 DEF StartTask
    <2>2. attempts'[s] = 0 /\ phase = "select" /\ phase' = "attempt"
      BY <1>5, <2>1 DEF StartTask, Ready, IInv, TypeOK, TaskLifecycle
    <2> QED
      BY <1>1, <2>1, <2>2 DEF CallLeft
  <1>6. CASE DispatchCapReached \/ FinishTask \/ GuardBlocks \/ TableLookupRaises \/ Dispatch
    <2>1. phase = "attempt" /\ AttemptEnds /\ CountAttempt
      BY <1>6, LoopStep DEF AttemptCounts
    <2>2. CASE phase' = phase /\ cur' = cur
      <3>1. /\ cur \in StepIds /\ attempts \in [StepIds -> 0 .. MaxAttempts]
        BY <2>1 DEF IInv, TypeOK, TaskLifecycle
      <3>2. attempts'[cur] = attempts[cur] + 1 /\ attempts[cur] \in Nat
        BY <2>1, <3>1 DEF CountAttempt
      <3> QED
        BY <1>1, <2>1, <2>2, <3>2 DEF CallLeft
    <2> QED
      BY <1>3, <2>1, <2>2 DEF AttemptEnds, CompleteTask, FailTask, AfterFailure, Raise, Return
  <1> QED
    BY <1>2, <1>4, <1>5, <1>6 DEF Next, ExecutorStep

\* A call of run_one_step has at most MaxAttempts + 1 steps.
THEOREM CallIsBounded == Spec => CallCounts
  <1> DEFINE Bounded == CallLeft \in Nat
  <1>1. IInv => Bounded
    BY CallLeftIsNat
  <1>2. IInv /\ Bounded /\ Bounded' /\ [Next]_vars => [phase # "idle" => Counts]_vars
    BY CallShrinks DEF Counts
  <1> HIDE DEF Bounded
  <1> QED
    BY <1>1, <1>2, ExecutorInvariant, PTL DEF Spec, CallCounts
==============================================================================
