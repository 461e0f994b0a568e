-------------------------- MODULE DagSchedulerProofs --------------------------
(* What the whole-plan path promises for every plan, any number of attempts,   *)
(* whatever the tools answer, and any number of runs on one object.            *)
EXTENDS DagScheduler, TLAPS

USE DEF NoStep

LEMMA NoStepIsNoStepId == NoStep \notin StepIds
  BY StepIdsAssumption

\* The tasks are those of the document from compilation on, none has begun when
\* the scheduler starts, its set of ids and the statuses agree while it works,
\* and a completed task was dispatched.
Agreement ==
  /\ phase = "compile" => \A s \in StepIds : status[s] = "absent"
  /\ phase \in {"publish", "loop", "dispatch", "returned"} =>
       \A s \in StepIds : status[s] # "absent" <=> s \in doc.steps
  /\ phase = "publish" => \A s \in StepIds : status[s] \in {"absent", "pending"}
  /\ phase \in {"loop", "dispatch", "returned"} =>
       /\ completed = {s \in StepIds : status[s] = "completed"}
       /\ \A s \in StepIds : status[s] = "completed" => calls[s] >= 1
  /\ phase = "dispatch" => cur \in doc.steps
  /\ doc.steps \subseteq StepIds

\* There is a result only after the scheduler has returned.
ResultLate == result # "none" => phase \in {"returned", "idle"}

SInv == TypeOK /\ Agreement /\ ResultLate /\ SuccessIsComplete

LEMMA InitSInv == Init => SInv
  <1> SUFFICES ASSUME Init PROVE SInv
    OBVIOUS
  <1>1. TypeOK
    <2>1. doc \in PlanBody
      BY DEF Init, PlanBody, EmptyDoc, Tools
    <2>2. /\ status \in [StepIds -> TaskStatus] /\ attempts \in [StepIds -> Nat]
          /\ calls \in [StepIds -> 0 .. CallBound] /\ runs \in 0 .. MaxRuns
      BY BoundsAssumption DEF Init, Zero, Absent, TaskStatus
    <2> QED
      BY <2>1, <2>2 DEF Init, TypeOK, Phase
  <1> QED
    BY <1>1 DEF Init, SInv, Agreement, ResultLate, SuccessIsComplete, EmptyDoc

LEMMA RunKeeps ==
  ASSUME SInv, NEW b \in PlanBodies, Run(b)
  PROVE  SInv'
  <1> USE DEF SInv, Run
  <1>1. b \in PlanBody
    BY PlanBodiesAssumption
  <1>2. TypeOK'
    BY <1>1, BoundsAssumption DEF TypeOK, Absent, Zero, TaskStatus, Phase
  <1>3. Agreement'
    BY <1>1 DEF Agreement, Absent, PlanBody
  <1> QED
    BY <1>2, <1>3 DEF ResultLate, SuccessIsComplete

\* Before the loop, or past it: no task changes but by compilation.
LEMMA AroundKeeps ==
  ASSUME SInv, EnsureTasks \/ PublishRaises \/ ArgumentsRaise \/ StartScheduler
               \/ SchedulerReturns \/ AfterScheduler
  PROVE  SInv'
  <1> USE DEF SInv
  <1>1. CASE EnsureTasks
    <2>1. status' \in [StepIds -> TaskStatus] /\ attempts' \in [StepIds -> Nat]
      BY <1>1 DEF EnsureTasks, Zero, TaskStatus
    <2>2. TypeOK'
      BY <1>1, <2>1 DEF EnsureTasks, TypeOK, Phase
    <2>3. Agreement'
      BY <1>1 DEF EnsureTasks, Agreement
    <2> QED
      BY <1>1, <2>2, <2>3 DEF EnsureTasks, ResultLate, SuccessIsComplete
  <1>2. CASE PublishRaises \/ ArgumentsRaise
    BY <1>2 DEF PublishRaises, ArgumentsRaise, Raise, TypeOK, Phase, Agreement, ResultLate,
                SuccessIsComplete
  <1>3. CASE StartScheduler
    <2>1. phase = "publish" /\ \A s \in StepIds : status[s] \in {"absent", "pending"}
      BY <1>3 DEF StartScheduler, Agreement
    <2>2. TypeOK'
      BY <1>3, <2>1 DEF StartScheduler, TypeOK, Phase
    <2>3. Agreement'
      BY <1>3, <2>1 DEF StartScheduler, Agreement
    <2> QED
      BY <1>3, <2>2, <2>3 DEF StartScheduler, ResultLate, SuccessIsComplete
  <1>4. CASE SchedulerReturns
    <2>1. TypeOK'
      BY <1>4 DEF SchedulerReturns, StarvedResult, TypeOK, Phase
    <2>2. Agreement' /\ ResultLate'
      BY <1>4 DEF SchedulerReturns, Agreement, ResultLate
    <2>3. SuccessIsComplete'
      <3>1. SUFFICES ASSUME result' = "success", NEW s \in doc.steps
                     PROVE  status[s] = "completed" /\ calls[s] >= 1
        BY <1>4 DEF SchedulerReturns, SuccessIsComplete
      <3>2. s \in completed /\ s \in StepIds
        BY <1>4, <3>1 DEF SchedulerReturns, StarvedResult, Agreement
      <3> QED
        BY <1>4, <3>2 DEF SchedulerReturns, Agreement
    <2> QED
      BY <2>1, <2>2, <2>3
  <1>5. CASE AfterScheduler
    <2>1. persistent' \in SUBSET StepIds
      BY <1>5 DEF AfterScheduler, TypeOK
    <2>2. TypeOK'
      BY <1>5, <2>1 DEF AfterScheduler, Raise, TypeOK, Phase
    <2> QED
      BY <1>5, <2>2 DEF AfterScheduler, Raise, Agreement, ResultLate, SuccessIsComplete
  <1> QED
    BY <1>1, <1>2, <1>3, <1>4, <1>5

\* A task is taken.
LEMMA TakeKeeps ==
  ASSUME SInv, TakeTask
  PROVE  SInv'
  <1> USE DEF SInv
  <1>1. PICK s \in Ready : cur' = s /\ status' = [status EXCEPT ![s] = "running"]
    BY DEF TakeTask
  <1>2. s \in doc.steps /\ s \in StepIds /\ status[s] = "pending"
    BY <1>1 DEF Ready, Agreement
  <1>3. TypeOK'
    BY <1>1, <1>2 DEF TakeTask, TypeOK, Phase, TaskStatus
  <1>4. Agreement'
    BY <1>1, <1>2 DEF TakeTask, TypeOK, Agreement
  <1> QED
    BY <1>3, <1>4 DEF TakeTask, ResultLate, SuccessIsComplete

\* A call is counted.
LEMMA CallCounted ==
  ASSUME TypeOK, cur \in StepIds, CountCall
  PROVE  /\ calls' \in [StepIds -> 0 .. CallBound]
         /\ calls'[cur] >= 1
         /\ \A s \in StepIds : calls[s] >= 1 => calls'[s] >= 1
  BY BoundsAssumption DEF TypeOK, CountCall

\* A task ends, is put back, or the dispatcher raises.
LEMMA DispatchKeeps ==
  ASSUME SInv, DispatchSucceeds \/ DispatchFails \/ ShellRefused \/ DispatchRaises
  PROVE  SInv'
  <1> USE DEF SInv
  <1>1. phase = "dispatch" /\ cur \in doc.steps /\ cur \in StepIds /\ result = "none"
    BY DEF DispatchSucceeds, DispatchFails, ShellRefused, DispatchRaises, Agreement, ResultLate,
           TypeOK
  <1>2. CASE DispatchSucceeds
    <2>1. /\ calls' \in [StepIds -> 0 .. CallBound] /\ calls'[cur] >= 1
          /\ \A s \in StepIds : calls[s] >= 1 => calls'[s] >= 1
      BY <1>1, <1>2, CallCounted DEF DispatchSucceeds
    <2>2. TypeOK'
      BY <1>1, <1>2, <2>1, NoStepIsNoStepId DEF DispatchSucceeds, TypeOK, Phase, TaskStatus
    <2>3. Agreement'
      BY <1>1, <1>2, <2>1 DEF DispatchSucceeds, Agreement, TypeOK
    <2> QED
      BY <1>1, <1>2, <2>2, <2>3 DEF DispatchSucceeds, ResultLate, SuccessIsComplete
  <1>3. CASE DispatchFails
    <2>1. /\ calls' \in [StepIds -> 0 .. CallBound] /\ calls'[cur] >= 1
          /\ \A s \in StepIds : calls[s] >= 1 => calls'[s] >= 1
      BY <1>1, <1>3, CallCounted DEF DispatchFails
    <2>2. \/ phase' = "loop" /\ result' = result /\ status' = [status EXCEPT ![cur] = "pending"]
          \/ phase' = "returned" /\ result' = "failed" /\ status' = [status EXCEPT ![cur] = "failed"]
      BY <1>3 DEF DispatchFails
    <2>3. TypeOK'
      BY <1>1, <1>3, <2>1, <2>2, NoStepIsNoStepId DEF DispatchFails, TypeOK, Phase, TaskStatus
    <2>4. status[cur] = "running"
      BY <1>1 DEF TypeOK
    <2>5. Agreement'
      BY <1>1, <1>3, <2>1, <2>2, <2>4 DEF DispatchFails, Agreement, TypeOK
    <2> QED
      BY <1>1, <2>2, <2>3, <2>5 DEF ResultLate, SuccessIsComplete
  <1>4. CASE ShellRefused
    BY <1>1, <1>4 DEF ShellRefused, Raise, TypeOK, Phase, Agreement, ResultLate, SuccessIsComplete
  <1>5. CASE DispatchRaises
    <2>1. calls' \in [StepIds -> 0 .. CallBound]
      BY <1>1, <1>5, CallCounted DEF DispatchRaises
    <2> QED
      BY <1>1, <1>5, <2>1
      DEF DispatchRaises, Raise, TypeOK, Phase, Agreement, ResultLate, SuccessIsComplete
  <1> QED
    BY <1>2, <1>3, <1>4, <1>5

\* The inductive invariant of the scheduler.
THEOREM SchedulerInvariant == Spec => []SInv
  <1>1. SInv /\ [Next]_vars => SInv'
    <2> SUFFICES ASSUME SInv, [Next]_vars PROVE SInv'
      OBVIOUS
    <2>1. CASE UNCHANGED vars
      BY <2>1 DEF vars, SInv, TypeOK, Agreement, ResultLate, SuccessIsComplete
    <2> QED
      BY <2>1, RunKeeps, AroundKeeps, TakeKeeps, DispatchKeeps DEF Next, SchedulerStep
  <1> QED
    BY <1>1, InitSInv, PTL DEF Spec

\* Types, and while the scheduler works only the dispatched task is running.
THEOREM SchedulerTypeCorrect == Spec => []TypeOK
  <1>1. SInv => TypeOK
    BY DEF SInv
  <1> QED
    BY <1>1, SchedulerInvariant, PTL

\* Success is reported only when every task was dispatched and has completed.
THEOREM SuccessTrue == Spec => []SuccessIsComplete
  <1>1. SInv => SuccessIsComplete
    BY DEF SInv
  <1> QED
    BY <1>1, SchedulerInvariant, PTL

------------------------------------------------------------------------------
\* Starvation.

\* The plan that was handed over has no cycle, and nothing has failed while the
\* scheduler goes on: it returns with the first failure.
Unfailed ==
  /\ Acyclic(doc) /\ \A s \in StepIds : doc.deps[s] \subseteq doc.steps
  /\ phase \in {"publish", "loop", "dispatch"} => \A s \in StepIds : status[s] # "failed"

\* As long as a task is not completed, one is ready: of the tasks that are not
\* completed one waits for completed ones only.
LEMMA SomethingReady ==
  ASSUME SInv, Unfailed, phase = "loop", completed # doc.steps
  PROVE  Ready # {}
  <1> DEFINE open == {s \in doc.steps : status[s] # "completed"}
  <1>1. doc.steps \subseteq StepIds /\ completed = {s \in StepIds : status[s] = "completed"}
    BY DEF SInv, Agreement
  <1>2. completed \subseteq doc.steps
    BY <1>1 DEF SInv, Agreement
  <1>3. open # {}
    BY <1>1, <1>2
  <1>4. PICK s \in open : doc.deps[s] \cap open = {}
    BY <1>3 DEF Unfailed, Acyclic
  <1>5. doc.deps[s] \subseteq completed
    BY <1>1, <1>4 DEF Unfailed
  <1>6. status[s] = "pending"
    BY <1>1, <1>4 DEF SInv, Agreement, TypeOK, TaskStatus, Unfailed
  <1> QED
    BY <1>4, <1>5, <1>6 DEF Ready

LEMMA UnfailedStep ==
  ASSUME SInv, Unfailed, [Next]_vars
  PROVE  Unfailed'
  <1>1. CASE \E b \in PlanBodies : Run(b)
    BY <1>1, PlanBodiesAssumption DEF Run, Unfailed
  <1>2. CASE EnsureTasks
    BY <1>2 DEF EnsureTasks, Unfailed, Acyclic
  <1>3. CASE PublishRaises \/ ArgumentsRaise \/ StartScheduler \/ SchedulerReturns \/ AfterScheduler
             \/ ShellRefused \/ DispatchRaises \/ UNCHANGED vars
    BY <1>3 DEF PublishRaises, ArgumentsRaise, StartScheduler, SchedulerReturns, AfterScheduler,
                ShellRefused, DispatchRaises, Raise, vars, Unfailed, Acyclic
  <1>4. CASE TakeTask
    BY <1>4 DEF TakeTask, SInv, TypeOK, Unfailed, Acyclic
  <1>5. CASE DispatchSucceeds
    BY <1>5 DEF DispatchSucceeds, SInv, TypeOK, Unfailed, Acyclic
  <1>6. CASE DispatchFails
    BY <1>6 DEF DispatchFails, SInv, TypeOK, Unfailed, Acyclic
  <1> QED
    BY <1>1, <1>2, <1>3, <1>4, <1>5, <1>6 DEF Next, SchedulerStep

LEMMA NoStarvationStep ==
  ASSUME SInv, Unfailed, NoStarvation, [Next]_vars
  PROVE  NoStarvation'
  <1>1. CASE SchedulerReturns
    <2>1. completed = doc.steps
      BY <1>1, SomethingReady DEF SchedulerReturns
    <2> QED
      BY <1>1, <2>1 DEF SchedulerReturns, StarvedResult, NoStarvation
  <1>2. CASE ~SchedulerReturns
    BY <1>2 DEF Next, SchedulerStep, Run, EnsureTasks, PublishRaises, ArgumentsRaise,
                StartScheduler, TakeTask, DispatchSucceeds, DispatchFails, ShellRefused,
                DispatchRaises, AfterScheduler, vars, NoStarvation
  <1> QED
    BY <1>1, <1>2

\* A plan without cycles never ends in "deadlock": whatever fails and is put back,
\* some task is ready until all are completed.
THEOREM NeverStarved == Spec => []NoStarvation
  <1>1. Init => Unfailed /\ NoStarvation
    BY DEF Init, Unfailed, Acyclic, NoStarvation, EmptyDoc, Absent
  <1>2. SInv /\ Unfailed /\ NoStarvation /\ [Next]_vars => Unfailed' /\ NoStarvation'
    BY UnfailedStep, NoStarvationStep
  <1> QED
    BY <1>1, <1>2, SchedulerInvariant, PTL DEF Spec

------------------------------------------------------------------------------
\* Refinement.


LEMMA SameGraph ==
  ASSUME UNCHANGED <<doc, status>>
  PROVE  UNCHANGED Graph!tgVars
  BY DEF Graph!tgVars

LEMMA RunResets ==
  ASSUME SInv, NEW b \in PlanBodies, Run(b)
  PROVE  Graph!Reset
  BY DEF Run, Absent, Graph!Reset

LEMMA CompilationLoads ==
  ASSUME SInv, EnsureTasks
  PROVE  Graph!Next
  <1> DEFINE D == [s \in StepIds |-> IF s \in doc.steps THEN doc.deps[s] ELSE {}]
  <1>1. doc.steps \in SUBSET StepIds /\ D \in [StepIds -> SUBSET StepIds]
    BY DEF SInv, TypeOK, PlanBody
  <1>2. \A s \in StepIds : status[s] = "absent"
    BY DEF EnsureTasks, SInv, Agreement
  <1>3. /\ {s \in StepIds : status'[s] # "absent"} = doc.steps
        /\ [s \in StepIds |-> IF status'[s] = "absent" THEN {} ELSE doc'.deps[s]] = D
        /\ {s \in StepIds : status'[s] = "completed"} = {}
        /\ {s \in StepIds : status[s] = "completed"} = {}
    BY <1>1, <1>2 DEF EnsureTasks
  <1> HIDE DEF D
  <1>4. PICK S \in SUBSET StepIds, E \in [StepIds -> SUBSET StepIds] : S = doc.steps /\ E = D
    BY <1>1
  <1>5. Graph!Load(S, E)
    BY <1>2, <1>3, <1>4 DEF Graph!Load, EnsureTasks
  <1> QED
    BY <1>5 DEF Graph!Next

\* The task s changes from one status to another, neither of them absent.
LEMMA OneTask ==
  ASSUME SInv, NEW s \in StepIds, status[s] # "absent", NEW n, n # "absent",
         status' = [status EXCEPT ![s] = n], doc' = doc
  PROVE  /\ {r \in StepIds : status'[r] # "absent"} = {r \in StepIds : status[r] # "absent"}
         /\ [r \in StepIds |-> IF status'[r] = "absent" THEN {} ELSE doc'.deps[r]]
              = [r \in StepIds |-> IF status[r] = "absent" THEN {} ELSE doc.deps[r]]
         /\ {r \in StepIds : status'[r] = "completed"}
              = IF n = "completed" THEN {r \in StepIds : status[r] = "completed"} \cup {s}
                ELSE {r \in StepIds : status[r] = "completed"} \ {s}
  BY DEF SInv, TypeOK

LEMMA TakeStarts ==
  ASSUME SInv, TakeTask
  PROVE  Graph!Next
  <1>1. PICK s \in Ready : cur' = s /\ status' = [status EXCEPT ![s] = "running"]
    BY DEF TakeTask
  <1>2. s \in StepIds /\ status[s] = "pending" /\ \A d \in doc.deps[s] : status[d] = "completed"
    BY <1>1 DEF Ready, TakeTask, SInv, Agreement
  <1>3. Graph!Start(s)
    BY <1>1, <1>2, OneTask DEF TakeTask, Graph!Start
  <1> QED
    BY <1>2, <1>3 DEF Graph!Next

LEMMA DispatchEnds ==
  ASSUME SInv, DispatchSucceeds \/ DispatchFails
  PROVE  Graph!Next
  <1>1. cur \in StepIds /\ status[cur] = "running"
    BY DEF DispatchSucceeds, DispatchFails, SInv, Agreement, TypeOK
  <1>2. CASE DispatchSucceeds
    <2>1. PICK s \in StepIds : s = cur
      BY <1>1
    <2>2. Graph!Complete(s)
      BY <1>1, <1>2, <2>1, OneTask DEF DispatchSucceeds, Graph!Complete
    <2> QED
      BY <2>2 DEF Graph!Next
  <1>3. CASE DispatchFails
    <2>1. CASE attempts[cur] < MaxAttempts
      <3>1. status' = [status EXCEPT ![cur] = "pending"] /\ doc' = doc
        BY <1>3, <2>1 DEF DispatchFails
      <3>2. Graph!PutBack(cur)
        BY <1>1, <3>1, OneTask DEF Graph!PutBack
      <3> QED
        BY <1>1, <3>2, Zenon DEF Graph!Next
    <2>2. CASE ~(attempts[cur] < MaxAttempts)
      <3>1. status' = [status EXCEPT ![cur] = "failed"] /\ doc' = doc
        BY <1>3, <2>2 DEF DispatchFails
      <3>2. Graph!Fail(cur)
        BY <1>1, <3>1, OneTask DEF Graph!Fail
      <3> QED
        BY <1>1, <3>2, Zenon DEF Graph!Next
    <2> QED
      BY <2>1, <2>2
  <1> QED
    BY <1>2, <1>3

LEMMA SchedulerStepRefines ==
  ASSUME SInv, [Next]_vars
  PROVE  [Graph!Next]_(Graph!tgVars)
  <1>1. CASE \E b \in PlanBodies : Run(b)
    BY <1>1, RunResets DEF Graph!Next
  <1>2. CASE EnsureTasks
    BY <1>2, CompilationLoads
  <1>3. CASE TakeTask
    BY <1>3, TakeStarts
  <1>4. CASE DispatchSucceeds \/ DispatchFails
    BY <1>4, DispatchEnds
  <1>5. CASE PublishRaises \/ ArgumentsRaise \/ StartScheduler \/ ShellRefused \/ DispatchRaises
             \/ SchedulerReturns \/ AfterScheduler \/ UNCHANGED vars
    <2>1. UNCHANGED <<doc, status>>
      BY <1>5 DEF PublishRaises, ArgumentsRaise, StartScheduler, ShellRefused, DispatchRaises,
                  SchedulerReturns, AfterScheduler, vars
    <2> QED
      BY <2>1, SameGraph
  <1> QED
    BY <1>1, <1>2, <1>3, <1>4, <1>5 DEF Next, SchedulerStep

\* The whole-plan path implements the graph of tasks: each run forgets
\* everything, and a task is started only after what it depends on.
THEOREM SchedulerRefinesTaskGraph == Spec => ImplementsTaskGraph
  <1>1. Init => Graph!Init
    BY DEF Init, EmptyDoc, Absent, Graph!Init
  <1>2. SInv /\ [Next]_vars => [Graph!Next]_(Graph!tgVars)
    BY SchedulerStepRefines
  <1> QED
    BY <1>1, <1>2, SchedulerInvariant, PTL DEF Spec, ImplementsTaskGraph, Graph!Spec

------------------------------------------------------------------------------
\* What the scheduler never does.

\* Attempts are never counted on this path, and so no task ever fails for good:
\* "failed" is no result of the scheduler, and a failed task is put back each time.
NoAttempts == \A s \in StepIds : attempts[s] = 0
NeverGivesUp ==
  /\ result # "failed"
  /\ phase \in {"loop", "dispatch", "returned"} => \A s \in StepIds : status[s] # "failed"

LEMMA GivesUpStep ==
  ASSUME SInv, NoAttempts, NeverGivesUp, [Next]_vars
  PROVE  NoAttempts' /\ NeverGivesUp'
  <1>1. CASE \E b \in PlanBodies : Run(b)
    BY <1>1 DEF Run, NoAttempts, NeverGivesUp
  <1>2. CASE EnsureTasks
    BY <1>2 DEF EnsureTasks, NoAttempts, NeverGivesUp, Zero
  <1>3. CASE StartScheduler
    BY <1>3 DEF StartScheduler, NoAttempts, NeverGivesUp, SInv, Agreement
  <1>4. CASE PublishRaises \/ ArgumentsRaise \/ ShellRefused \/ DispatchRaises \/ AfterScheduler
    BY <1>4 DEF PublishRaises, ArgumentsRaise, ShellRefused, DispatchRaises, AfterScheduler,
                Raise, NoAttempts, NeverGivesUp
  <1>5. CASE TakeTask
    BY <1>5 DEF TakeTask, NoAttempts, NeverGivesUp, SInv, TypeOK
  <1>6. CASE DispatchSucceeds
    BY <1>6 DEF DispatchSucceeds, NoAttempts, NeverGivesUp, SInv, TypeOK
  <1>7. CASE DispatchFails
    <2>1. cur \in StepIds /\ attempts[cur] < MaxAttempts
      BY <1>7, BoundsAssumption DEF DispatchFails, NoAttempts, SInv, Agreement
    <2>2. /\ status' = [status EXCEPT ![cur] = "pending"] /\ UNCHANGED <<attempts, result>>
          /\ phase = "dispatch"
      BY <1>7, <2>1 DEF DispatchFails
    <2> QED
      BY <2>2 DEF NoAttempts, NeverGivesUp, SInv, TypeOK
  <1>8. CASE SchedulerReturns
    <2>1. StarvedResult # "failed"
      BY <1>8 DEF SchedulerReturns, StarvedResult, NeverGivesUp, SInv, Agreement
    <2> QED
      BY <1>8, <2>1 DEF SchedulerReturns, NoAttempts, NeverGivesUp
  <1>9. CASE UNCHANGED vars
    BY <1>9 DEF vars, NoAttempts, NeverGivesUp
  <1> QED
    BY <1>1, <1>2, <1>3, <1>4, <1>5, <1>6, <1>7, <1>8, <1>9 DEF Next, SchedulerStep

\* For every max_attempts: the limit is tested after each failure and never reached,
\* so that run_scheduler succeeds, raises or goes on (a valid plan never starves).
THEOREM SchedulerNeverGivesUp == Spec => []NeverGivesUp
  <1>1. Init => NoAttempts /\ NeverGivesUp
    BY DEF Init, NoAttempts, NeverGivesUp, Zero
  <1>2. SInv /\ NoAttempts /\ NeverGivesUp /\ [Next]_vars => NoAttempts' /\ NeverGivesUp'
    BY GivesUpStep
  <1> QED
    BY <1>1, <1>2, SchedulerInvariant, PTL DEF Spec
==============================================================================
