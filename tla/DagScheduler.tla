----------------------------- MODULE DagScheduler -----------------------------
(***************************************************************************)
(* The whole-plan path of the executor: DagExecutor.run clears the object, *)
(* compiles the plan, freezes all arguments and hands the tasks to         *)
(* DagScheduler.run_scheduler, which picks, dispatches and puts back tasks *)
(* until nothing is left to pick.  It is the path of the runtime when its  *)
(* controller loop is switched off (planner_task_runtime.py, 633 and 737). *)
(*                                                                         *)
(* The replanning loop of run is not modelled: run is left by an exception *)
(* as soon as the scheduler returns (see AfterScheduler), so the loop is   *)
(* never reached.  The trace and the progress metadata are left out.       *)
(***************************************************************************)
EXTENDS Naturals

LOCAL INSTANCE Functions

CONSTANTS
  StepIds,            \* the numbers n of the step ids "s<n>"
  PlanBodies,         \* the plans run is called with
  MaxAttempts,        \* ExecutionTask.max_attempts
  MaxDispatches,      \* ExecutionPolicy.max_executor_dispatches
  FinishDispatchable, \* does the dispatcher know "finish"?  FALSE is the
                      \* dispatcher of bootstrap.py; TRUE, the mocks of the tests,
                      \* allows all that FALSE does and a success of finish
  CallBound,          \* bound: tool calls are counted up to this number
  MaxRuns             \* bound: calls of run on one object

Tools == {"search", "open_file", "edit", "run_tests", "shell", "finish"}

PlanBody == [steps : SUBSET StepIds,
             tool  : [StepIds -> Tools],
             deps  : [StepIds -> SUBSET StepIds]]

\* No cycle among the dependencies (PlanValidator): among any steps of the plan is
\* one that depends on none of them.
Acyclic(b) == \A S \in SUBSET b.steps : S # {} => \E s \in S : b.deps[s] \cap S = {}

ASSUME StepIdsAssumption == StepIds \subseteq Nat \ {0}
ASSUME PlanBodiesAssumption ==
  /\ PlanBodies \subseteq PlanBody
  /\ \A b \in PlanBodies :
       b.steps # {} /\ (\A s \in StepIds : b.deps[s] \subseteq b.steps) /\ Acyclic(b)
ASSUME BoundsAssumption ==
  /\ MaxAttempts \in Nat \ {0}
  /\ MaxDispatches \in Nat
  /\ CallBound \in Nat \ {0}
  /\ MaxRuns \in Nat
ASSUME FinishAssumption == FinishDispatchable \in BOOLEAN

VARIABLES
  doc,        \* the plan of the current run
  status,     \* status of each task
  attempts,   \* ExecutionTask.attempts
  completed,  \* DagScheduler._completed_ids
  persistent, \* DagExecutor._persistent_completed_ids
  shadowed,   \* has the attribute _completed_ids of DagExecutor been assigned,
              \* so that it hides the method of that name?
  phase,      \* where run is
  cur,        \* the task being dispatched
  result,     \* status of the SchedulerResult; "none" before there is one
  outcome,    \* how the last call of run ended
  calls,      \* observer: dispatches of each task in this run
  runs        \* observer: calls of run

vars == <<doc, status, attempts, completed, persistent, shadowed, phase, cur,
          result, outcome, calls, runs>>

Phase == {"idle", "compile", "publish", "loop", "dispatch", "returned"}
TaskStatus == {"absent", "pending", "running", "completed", "failed"}

NoStep == 0
Zero == [s \in StepIds |-> 0]
Absent == [s \in StepIds |-> "absent"]
EmptyDoc == [steps |-> {}, tool |-> [s \in StepIds |-> "finish"],
             deps |-> [s \in StepIds |-> {}]]

Init ==
  /\ doc = EmptyDoc
  /\ status = Absent
  /\ attempts = Zero
  /\ completed = {}
  /\ persistent = {}
  /\ shadowed = FALSE
  /\ phase = "idle"
  /\ cur = NoStep
  /\ result = "none"
  /\ outcome = "none"
  /\ calls = Zero
  /\ runs = 0

\* TaskScheduler.ready_tasks
Ready_NoDependencies == {s \in doc.steps : status[s] = "pending"}

Ready == {s \in doc.steps : status[s] = "pending" /\ doc.deps[s] \subseteq completed}

\* run is called: everything the executor remembers is forgotten.  (The
\* scheduler's own set is replaced when run_scheduler begins.)
Run(b) ==
  /\ phase = "idle"
  /\ runs < MaxRuns
  /\ runs' = runs + 1
  /\ doc' = b
  /\ status' = Absent
  /\ persistent' = {}
  /\ phase' = "compile"
  /\ result' = "none"
  /\ outcome' = "none"
  /\ calls' = Zero
  /\ UNCHANGED <<attempts, completed, shadowed, cur>>

\* _ensure_tasks; nothing is remembered, so every task is pending.
EnsureTasks ==
  /\ phase = "compile"
  /\ status' = [s \in StepIds |-> IF s \in doc.steps THEN "pending" ELSE "absent"]
  /\ attempts' = Zero
  /\ phase' = "publish"
  /\ UNCHANGED <<doc, completed, persistent, shadowed, cur, result, outcome, calls, runs>>

\* An exception leaves run; the tasks stay as they are.
Raise ==
  /\ phase' = "idle"
  /\ cur' = NoStep
  /\ outcome' = "raised"

\* _publish_progress_metadata calls self._completed_ids(): a TypeError once the
\* attribute is a set.
PublishRaises ==
  /\ phase = "publish"
  /\ shadowed
  /\ Raise
  /\ UNCHANGED <<doc, status, attempts, completed, persistent, shadowed, result, calls, runs>>

\* _snapshot_all_arguments: the argument model may raise.
ArgumentsRaise ==
  /\ phase = "publish"
  /\ ~shadowed
  /\ \E s \in doc.steps : doc.tool[s] # "finish"
  /\ Raise
  /\ UNCHANGED <<doc, status, attempts, completed, persistent, shadowed, result, calls, runs>>

StartScheduler ==
  /\ phase = "publish"
  /\ ~shadowed
  /\ completed' = {}
  /\ phase' = "loop"
  /\ UNCHANGED <<doc, status, attempts, persistent, shadowed, cur, result, outcome, calls, runs>>

\* _execute_one_task, first half: ready[0] becomes the running task.
TakeTask ==
  /\ phase = "loop"
  /\ completed # doc.steps
  /\ \E s \in Ready :
       /\ \A r \in Ready : s <= r
       /\ cur' = s
       /\ status' = [status EXCEPT ![s] = "running"]
  /\ phase' = "dispatch"
  /\ UNCHANGED <<doc, attempts, completed, persistent, shadowed, result, outcome, calls, runs>>

CountCall ==
  calls' = [calls EXCEPT ![cur] = IF @ < CallBound THEN @ + 1 ELSE @]

\* The dispatcher has no handler for finish and answers with a tool_error.
CanSucceed == doc.tool[cur] = "finish" => FinishDispatchable

DispatchSucceeds_NotRecorded ==
  /\ phase = "dispatch"
  /\ doc.tool[cur] # "shell"
  /\ CanSucceed
  /\ CountCall
  /\ status' = [status EXCEPT ![cur] = "completed"]
  /\ phase' = "loop"
  /\ cur' = NoStep
  /\ UNCHANGED <<doc, attempts, completed, persistent, shadowed, result, outcome, runs>>

DispatchSucceeds ==
  /\ phase = "dispatch"
  /\ doc.tool[cur] # "shell"
  /\ CanSucceed
  /\ CountCall
  /\ status' = [status EXCEPT ![cur] = "completed"]
  /\ completed' = completed \cup {cur}
  /\ phase' = "loop"
  /\ cur' = NoStep
  /\ UNCHANGED <<doc, attempts, persistent, shadowed, result, outcome, runs>>

DispatchFails_RecordsId ==
  /\ phase = "dispatch"
  /\ doc.tool[cur] # "shell"
  /\ CountCall
  /\ status' = [status EXCEPT
       ![cur] = IF attempts[cur] < MaxAttempts THEN "pending" ELSE "failed"]
  /\ completed' = completed \cup {cur}
  /\ IF attempts[cur] < MaxAttempts
     THEN phase' = "loop" /\ UNCHANGED result
     ELSE phase' = "returned" /\ result' = "failed"
  /\ cur' = NoStep
  /\ UNCHANGED <<doc, attempts, persistent, shadowed, outcome, runs>>

\* A failed task is put back as long as it has attempts left.  Its attempts are
\* never counted on this path: "the executor increments", but it is not asked.
DispatchFails ==
  /\ phase = "dispatch"
  /\ doc.tool[cur] # "shell"
  /\ CountCall
  /\ status' = [status EXCEPT
       ![cur] = IF attempts[cur] < MaxAttempts THEN "pending" ELSE "failed"]
  /\ IF attempts[cur] < MaxAttempts
     THEN phase' = "loop" /\ UNCHANGED result
     ELSE phase' = "returned" /\ result' = "failed"
  /\ cur' = NoStep
  /\ UNCHANGED <<doc, attempts, completed, persistent, shadowed, outcome, runs>>

ShellRefused_PutsBack ==
  /\ phase = "dispatch"
  /\ doc.tool[cur] = "shell"
  /\ status' = [status EXCEPT ![cur] = "pending"]
  /\ phase' = "loop"
  /\ cur' = NoStep
  /\ UNCHANGED <<doc, attempts, completed, persistent, shadowed, result, outcome, calls, runs>>

\* _to_dispatch_step refuses shell with a ValueError, before any call.
ShellRefused ==
  /\ phase = "dispatch"
  /\ doc.tool[cur] = "shell"
  /\ Raise
  /\ UNCHANGED <<doc, status, attempts, completed, persistent, shadowed, result, calls, runs>>

\* A tool handler raises.
DispatchRaises ==
  /\ phase = "dispatch"
  /\ doc.tool[cur] \notin {"shell", "finish"}
  /\ CountCall
  /\ Raise
  /\ UNCHANGED <<doc, status, attempts, completed, persistent, shadowed, result, runs>>

\* All completed, or _handle_starvation.
StarvedResult ==
  IF completed = doc.steps THEN "success"
  ELSE IF \E s \in doc.steps : status[s] = "failed" THEN "failed" ELSE "deadlock"

SchedulerReturns ==
  /\ phase = "loop"
  /\ completed = doc.steps \/ Ready = {}
  /\ result' = StarvedResult
  /\ phase' = "returned"
  /\ UNCHANGED <<doc, status, attempts, completed, persistent, shadowed, cur, outcome, calls, runs>>

\* _run_graph_to_event after run_scheduler: the method _completed_ids is hidden
\* by the scheduler's set, and the next line calls it.
AfterScheduler ==
  /\ phase = "returned"
  /\ shadowed' = TRUE
  /\ persistent' = persistent \cup completed
  /\ Raise
  /\ UNCHANGED <<doc, status, attempts, completed, result, calls, runs>>

SchedulerStep ==
  \/ EnsureTasks \/ PublishRaises \/ ArgumentsRaise \/ StartScheduler
  \/ TakeTask \/ DispatchSucceeds \/ DispatchFails \/ ShellRefused \/ DispatchRaises
  \/ SchedulerReturns \/ AfterScheduler

Next == (\E b \in PlanBodies : Run(b)) \/ SchedulerStep

\* The loop keeps running; nothing obliges the caller to call.
Spec == Init /\ [][Next]_vars /\ WF_vars(SchedulerStep)

------------------------------------------------------------------------------
\* Properties.

\* Every variable has its type, and while the scheduler works, a task is running
\* exactly if it is the one being dispatched: no task is left behind as running.
TypeOK ==
  /\ doc \in PlanBody
  /\ status \in [StepIds -> TaskStatus]
  /\ attempts \in [StepIds -> Nat]
  /\ completed \in SUBSET StepIds
  /\ persistent \in SUBSET StepIds
  /\ shadowed \in BOOLEAN
  /\ phase \in Phase
  /\ cur \in StepIds \cup {NoStep}
  /\ result \in {"none", "success", "failed", "deadlock"}
  /\ outcome \in {"none", "raised"}
  /\ calls \in [StepIds -> 0 .. CallBound]
  /\ runs \in 0 .. MaxRuns
  /\ phase \in {"loop", "dispatch", "returned"} =>
       \A s \in StepIds : status[s] = "running" <=> phase = "dispatch" /\ s = cur

\* run_scheduler reports success only after every task of the plan has been
\* dispatched and its status says completed.
SuccessIsComplete ==
  result = "success" =>
    \A s \in doc.steps : status[s] = "completed" /\ calls[s] >= 1

\* A validated plan (its dependencies are acyclic) never starves: whatever
\* fails and is put back, some task is ready until all are completed.
NoStarvation == result # "deadlock"

\* A call of run ends, unless tools go on failing for ever: the scheduler repeats
\* only calls that were made and failed, it neither repeats a step that it refuses
\* nor waits for a task that nobody starts.
LoopsOnlyByRetrying ==
  (phase # "idle" ~> phase = "idle") \/ []<><<DispatchFails>>_vars

\* The scheduler implements the graph of tasks; each run begins by a reset.
Graph == INSTANCE TaskGraph
           WITH steps <- {s \in StepIds : status[s] # "absent"},
                deps  <- [s \in StepIds |-> IF status[s] = "absent" THEN {} ELSE doc.deps[s]],
                st    <- status,
                done  <- {s \in StepIds : status[s] = "completed"}
ImplementsTaskGraph == Graph!Spec

------------------------------------------------------------------------------
\* What the documentation says of the program and the code does not keep.

\* test_scheduler_stops_on_final_failure: "Scheduler stops and returns failed when
\* task exhausts max_attempts", after "Only 2 calls (max_attempts)".
StopsAtMaxAttempts == \A s \in StepIds : calls[s] <= MaxAttempts

\* "hard cap on tool dispatches per PlanExecutor.run".
DispatchCap == FoldFunction(+, 0, calls) <= MaxDispatches

\* A run whose scheduler reported success returns, it does not raise.
SuccessReturned == phase = "idle" /\ result = "success" => outcome # "raised"
==============================================================================
