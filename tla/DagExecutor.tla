----------------------------- MODULE DagExecutor -----------------------------
(***************************************************************************)
(* agent_v2/runtime/dag_executor.py, the single-step path: run_one_step    *)
(* compiles the plan document it is given into tasks, picks one ready task *)
(* and runs it with retries.  One DagExecutor object lives as long as its  *)
(* AgentRuntime and serves many runs (AgentRuntime.run), each of which has *)
(* a fresh AgentState; the attributes of the object survive between runs,  *)
(* the metadata of the state does not.                                     *)
(*                                                                         *)
(* One step of the module is one iteration of the retry loop: nothing else *)
(* touches the executor while a call is running.  A call can be left by an *)
(* exception at every point where foreign code runs; nothing catches it    *)
(* below the process, and the REPL or an API caller may call again.        *)
(***************************************************************************)
EXTENDS Naturals, FiniteSets

CONSTANTS
  StepIds,            \* the numbers n of the step ids "s<n>" (at most 9: the
                      \* code sorts ids as strings)
  PlanBodies,         \* the plans that can be handed over, without plan_id
  MaxAttempts,        \* ExecutionTask.max_attempts, from the policy
  MaxDispatches,      \* ExecutionPolicy.max_executor_dispatches
  LegacyTable,        \* may _to_dispatch_step find its tool table?  {FALSE} is
                      \* this commit: the module never imports the name
  MaxPlans,           \* bound: documents (fresh plan ids) handed over
  MaxRuns             \* bound: AgentRuntime.run calls on this executor

Tools == {"search", "open_file", "edit", "run_tests", "shell", "finish"}

\* _NON_RETRYABLE_TOOLS; "write" is not the action of any plan step.
NonRetryable == {"edit", "shell"}

ErrorType == {"tool_error", "validation_error", "not_found", "timeout",
              "tests_failed", "permission_error", "unknown"}

PlanBody == [steps : SUBSET StepIds,
             tool  : [StepIds -> Tools],
             deps  : [StepIds -> SUBSET StepIds]]

\* PlanValidator lets no plan pass whose dependencies have a cycle: among any of
\* its steps is one that depends on none of them.
Acyclic(b) == \A S \in SUBSET b.steps : S # {} => \E s \in S : b.deps[s] \cap S = {}

ASSUME StepIdsAssumption == StepIds \subseteq Nat \ {0}
ASSUME PlanBodiesAssumption ==
  /\ PlanBodies \subseteq PlanBody
  /\ \A b \in PlanBodies :
       /\ b.steps # {}
       /\ \A s \in StepIds : b.deps[s] \subseteq b.steps
       /\ Acyclic(b)
ASSUME BoundsAssumption ==
  /\ MaxAttempts \in Nat \ {0}
  /\ MaxDispatches \in Nat
  /\ MaxPlans \in Nat
  /\ MaxRuns \in Nat
ASSUME TableAssumption == LegacyTable \subseteq BOOLEAN

NoStep == 0
NoPlan == 0

VARIABLES
  \* attributes of the DagExecutor object
  doc,          \* the compiled document: plan_id, and its steps
  status,       \* status of each task; "absent" if not in _tasks_by_id
  attempts,     \* ExecutionTask.attempts
  persistent,   \* _persistent_completed_ids
  tableBound,   \* is PLAN_STEP_TO_LEGACY_REACT_ACTION a name of the module?
  \* the AgentState of the current run
  planSafe,     \* does _plan_safe_execution_active hold?
  dispatches,   \* metadata["executor_dispatch_count"]
  progress,     \* metadata["executor_dag_*"]: plan id, task ids, completed ids
  history,      \* number of entries state.history has for each step id
  \* the call in progress
  phase,        \* "idle", "select" (tasks compiled), "attempt" (loop head)
  cur,          \* the task being run
  lastError,    \* error type of the previous attempt of this call
  outcome,      \* how the last call of this run ended; "none" before one
  \* observers
  sent,         \* tool calls made for each task of the loaded document
  calls,        \* tool calls made in the current run
  nextPlan,     \* plan_ids come from uuid4: always fresh
  runs          \* runs begun

objectVars == <<doc, status, attempts, persistent, tableBound>>
stateVars  == <<planSafe, dispatches, progress, history>>
callVars   == <<phase, cur, lastError, outcome>>
ghostVars  == <<sent, calls, nextPlan, runs>>
vars == <<objectVars, stateVars, callVars, ghostVars>>

\* "progress": one task completed, more to do; "failed_step": a task failed;
\* "failed": nothing can be started and nothing has failed.
Outcome == {"none", "progress", "success", "failed_step", "failed", "raised"}
TaskStatus == {"absent", "pending", "running", "completed", "failed"}

EmptyDoc == [pid   |-> NoPlan, steps |-> {},
             tool  |-> [s \in StepIds |-> "finish"],
             deps  |-> [s \in StepIds |-> {}]]
NoProgress == [pid |-> NoPlan, total |-> {}, done |-> {}]
Zero == [s \in StepIds |-> 0]

Completed(stat) == {s \in StepIds : stat[s] = "completed"}

\* The operators named ..._No, ..._Any and the like are variants with a fault:
\* they are used nowhere, and show which property notices the fault.
Compile_NoCarryOver(d) ==
  [s \in StepIds |-> IF s \in d.steps THEN "pending" ELSE "absent"]

\* compile_plan, then the tasks whose ids completed before are marked completed.
Compile(d) ==
  [s \in StepIds |-> IF s \notin d.steps THEN "absent"
                     ELSE IF s \in persistent THEN "completed" ELSE "pending"]

Ready_NoDependencies(d, stat) == {s \in d.steps : stat[s] = "pending"}

\* TaskScheduler.ready_tasks
Ready(d, stat) ==
  {s \in d.steps : stat[s] = "pending" /\ d.deps[s] \subseteq Completed(stat)}

Published_AllRemembered(d, stat) ==
  [pid |-> d.pid, total |-> d.steps, done |-> persistent]

\* _publish_progress_metadata
Published(d, stat) ==
  [pid |-> d.pid, total |-> d.steps, done |-> Completed(stat)]

\* _should_retry, asked after the attempt that makes n attempts.  Among the
\* tool tables only "search" can be reached: edit and shell are refused
\* before, and no plan step has the action "read".
RetryableError(tool, e) ==
  IF tool = "search"
  THEN e \notin {"permission_error", "not_found", "validation_error", "tests_failed"}
  ELSE e \notin {"validation_error", "tests_failed"}

ShouldRetry_AnyTool(tool, e, n) == n < MaxAttempts /\ RetryableError(tool, e)

ShouldRetry_NoLimit(tool, e, n) == tool \notin NonRetryable /\ RetryableError(tool, e)

ShouldRetry(tool, e, n) ==
  /\ tool \notin NonRetryable
  /\ n < MaxAttempts
  /\ RetryableError(tool, e)

Init ==
  /\ doc = EmptyDoc
  /\ status = [s \in StepIds |-> "absent"]
  /\ attempts = Zero
  /\ persistent = {}
  /\ tableBound \in LegacyTable
  /\ planSafe \in BOOLEAN
  /\ dispatches = 0
  /\ progress = NoProgress
  /\ history = Zero
  /\ phase = "idle"
  /\ cur = NoStep
  /\ lastError = "none"
  /\ outcome = "none"
  /\ sent = Zero
  /\ calls = 0
  /\ nextPlan = 1
  /\ runs = 1

\* AgentRuntime.run: a new AgentState, the same executor object.
NewRun(safe) ==
  /\ phase = "idle"
  /\ runs < MaxRuns
  /\ runs' = runs + 1
  /\ planSafe' = safe
  /\ dispatches' = 0
  /\ progress' = NoProgress
  /\ history' = Zero
  /\ outcome' = "none"
  /\ calls' = 0
  /\ UNCHANGED <<objectVars, phase, cur, lastError, sent, nextPlan>>

\* The head of run_one_step: _ensure_tasks keeps the tasks of a document it
\* has already compiled and compiles any other.
EnsureTasks(d) ==
  LET kept == d.pid = doc.pid /\ doc.steps # {}
      stat == IF kept THEN status ELSE Compile(d)
  IN /\ phase = "idle"
     /\ doc' = IF kept THEN doc ELSE d
     /\ status' = stat
     /\ attempts' = IF kept THEN attempts ELSE Zero
     /\ sent' = IF kept THEN sent ELSE Zero
     /\ progress' = Published(d, stat)
     /\ phase' = "select"
     /\ outcome' = "none"
     /\ UNCHANGED <<persistent, tableBound, planSafe, dispatches, history, cur, lastError,
                   calls, runs>>

\* run_one_step returns, or is left by an exception.
Return(result) ==
  /\ phase' = "idle"
  /\ cur' = NoStep
  /\ lastError' = "none"
  /\ outcome' = result

StarvedOutcome_IgnoresFailure ==
  IF Completed(status) = doc.steps THEN "success" ELSE "failed"

\* All tasks are completed, one has failed, or the rest waits.
StarvedOutcome ==
  IF Completed(status) = doc.steps THEN "success"
  ELSE IF \E s \in doc.steps : status[s] = "failed" THEN "failed_step"
  ELSE "failed"

NothingReady_WaitsForRunning ==
  /\ phase = "select"
  /\ Ready(doc, status) = {}
  /\ IF StarvedOutcome = "failed" THEN UNCHANGED callVars ELSE Return(StarvedOutcome)
  /\ UNCHANGED <<objectVars, stateVars, ghostVars>>

\* Nothing is ready: _failure_or_deadlock_when_starved.
NothingReady ==
  /\ phase = "select"
  /\ Ready(doc, status) = {}
  /\ Return(StarvedOutcome)
  /\ UNCHANGED <<objectVars, stateVars, ghostVars>>

\* ready[0] becomes the running task.
StartTask ==
  /\ phase = "select"
  /\ \E s \in Ready(doc, status) :
       /\ \A r \in Ready(doc, status) : s <= r
       /\ cur' = s
       /\ status' = [status EXCEPT ![s] = "running"]
  /\ phase' = "attempt"
  /\ UNCHANGED <<doc, tableBound, attempts, persistent, stateVars, lastError, outcome,
                 ghostVars>>

\* _snapshot_arguments calls the argument model, which may raise; the task is
\* still pending then.  finish has no arguments.
ArgumentsRaise ==
  /\ phase = "select"
  /\ \E s \in Ready(doc, status) :
       /\ \A r \in Ready(doc, status) : s <= r
       /\ doc.tool[s] # "finish"
  /\ Return("raised")
  /\ UNCHANGED <<objectVars, stateVars, ghostVars>>

------------------------------------------------------------------------------
\* One iteration of the while loop of _execute_task_with_retries.

CountAttempt == attempts' = [attempts EXCEPT ![cur] = @ + 1]

CountDispatch_OneTooMany ==
  /\ dispatches <= MaxDispatches
  /\ dispatches' = dispatches + 1

CountDispatch ==
  /\ dispatches < MaxDispatches
  /\ dispatches' = dispatches + 1

\* The current task completes and run_one_step publishes and returns.
CompleteTask ==
  LET stat == [status EXCEPT ![cur] = "completed"]
  IN /\ status' = stat
     /\ persistent' = persistent \cup {cur}
     /\ history' = [history EXCEPT ![cur] = @ + 1]
     /\ progress' = Published(doc, stat)
     /\ Return(IF Completed(stat) = doc.steps THEN "success" ELSE "progress")

\* The current task fails and run_one_step publishes and returns.
FailTask ==
  /\ status' = [status EXCEPT ![cur] = "failed"]
  /\ progress' = Published(doc, [status EXCEPT ![cur] = "failed"])
  /\ Return("failed_step")
  /\ UNCHANGED <<persistent, history>>

\* A failed attempt is repeated or it fails the task.
AfterFailure(e) ==
  IF ShouldRetry(doc.tool[cur], e, attempts[cur] + 1)
  THEN /\ lastError' = e
       /\ UNCHANGED <<status, persistent, history, progress, phase, cur, outcome>>
  ELSE FailTask

\* An exception leaves the call; the task stays as it is.
Raise ==
  /\ Return("raised")
  /\ UNCHANGED <<status, persistent, history, progress>>

\* _guard_limits comes first, and applies to finish as well.
DispatchCapReached ==
  /\ phase = "attempt"
  /\ dispatches >= MaxDispatches
  /\ CountAttempt
  /\ FailTask
  /\ UNCHANGED <<doc, tableBound, planSafe, dispatches, ghostVars>>

FinishTask ==
  /\ phase = "attempt"
  /\ dispatches < MaxDispatches
  /\ doc.tool[cur] = "finish"
  /\ CountAttempt
  /\ CompleteTask
  /\ UNCHANGED <<doc, tableBound, planSafe, dispatches, ghostVars>>

\* _plan_safe_guard: any edit, and a shell command the policy refuses.
GuardBlocks ==
  /\ phase = "attempt"
  /\ planSafe
  /\ doc.tool[cur] \in {"edit", "shell"}
  /\ CountDispatch
  /\ CountAttempt
  /\ AfterFailure("unknown")
  /\ UNCHANGED <<doc, tableBound, planSafe, ghostVars>>

\* The guard lets the call through: not plan-safe, no edit, an allowed command.
GuardPasses == ~planSafe \/ doc.tool[cur] # "edit"

\* _to_dispatch_step: every tool but shell needs the table.
TableLookupRaises ==
  /\ phase = "attempt"
  /\ doc.tool[cur] \notin {"shell", "finish"}
  /\ GuardPasses
  /\ ~tableBound
  /\ CountDispatch
  /\ CountAttempt
  /\ Raise
  /\ UNCHANGED <<doc, tableBound, planSafe, ghostVars>>

\* The tool answers, or its handler raises.
Dispatch ==
  /\ phase = "attempt"
  /\ doc.tool[cur] # "finish"
  /\ GuardPasses
  /\ tableBound \/ doc.tool[cur] = "shell"
  /\ CountDispatch
  /\ CountAttempt
  /\ sent' = [sent EXCEPT ![cur] = @ + 1]
  /\ calls' = calls + 1
  /\ \/ CompleteTask
     \/ \E e \in ErrorType : AfterFailure(e)
     \/ Raise
  /\ UNCHANGED <<doc, tableBound, planSafe, nextPlan, runs>>

ExecutorStep ==
  \/ NothingReady \/ StartTask \/ ArgumentsRaise
  \/ DispatchCapReached \/ FinishTask
  \/ GuardBlocks \/ TableLookupRaises \/ Dispatch

------------------------------------------------------------------------------
\* The caller: a new document or, again, the one handed over last.

CallWithNewPlan ==
  /\ nextPlan <= MaxPlans
  /\ \E b \in PlanBodies :
       EnsureTasks([pid |-> nextPlan, steps |-> b.steps, tool |-> b.tool, deps |-> b.deps])
  /\ nextPlan' = nextPlan + 1

CallAgain ==
  /\ doc.pid # NoPlan
  /\ EnsureTasks(doc)
  /\ UNCHANGED nextPlan

Next ==
  \/ \E safe \in BOOLEAN : NewRun(safe)
  \/ CallWithNewPlan
  \/ CallAgain
  \/ ExecutorStep

\* Weak fairness of the executor's own steps: a Python loop keeps running.
\* Nothing obliges the caller to call.
Spec == Init /\ [][Next]_vars /\ WF_vars(ExecutorStep)

------------------------------------------------------------------------------
\* Properties.

\* Every variable has its type.  attempts never passes max_attempts (the loop
\* of _execute_task_with_retries and _should_retry both stop there), and a
\* task is current exactly while its loop runs.
TypeOK ==
  /\ doc \in [pid : Nat, steps : SUBSET StepIds, tool : [StepIds -> Tools],
              deps : [StepIds -> SUBSET StepIds]]
  /\ status \in [StepIds -> TaskStatus]
  /\ attempts \in [StepIds -> 0 .. MaxAttempts]
  /\ persistent \in SUBSET StepIds
  /\ tableBound \in BOOLEAN
  /\ planSafe \in BOOLEAN
  /\ dispatches \in Nat
  /\ progress \in [pid : Nat, total : SUBSET StepIds, done : SUBSET StepIds]
  /\ history \in [StepIds -> Nat]
  /\ phase \in {"idle", "select", "attempt"}
  /\ cur \in StepIds \cup {NoStep}
  /\ lastError \in ErrorType \cup {"none"}
  /\ outcome \in Outcome
  /\ sent \in [StepIds -> Nat]
  /\ calls \in Nat
  /\ nextPlan \in Nat \ {0}
  /\ runs \in Nat

\* An edit or a shell command reaches its tool at most once per document, over
\* retries, repeated calls with the same document, later runs and calls that
\* were left by an exception (_NON_RETRYABLE_TOOLS: "MUST NOT be retried").
NonIdempotentOnce ==
  \A s \in StepIds : doc.tool[s] \in NonRetryable => sent[s] <= 1

\* Within one run no more tools are called than the policy's budget, and every
\* call is paid for, whether the task succeeds, fails, is repeated or raises.
DispatchBudget == calls <= dispatches /\ dispatches <= MaxDispatches

\* What the planner is told about the loaded document is the truth: the
\* completed ids in the metadata are those of the tasks that are completed.
ProgressExact ==
  progress.pid # NoPlan =>
    /\ progress.pid = doc.pid
    /\ progress.total = doc.steps
    /\ progress.done = Completed(status)

\* state.history has an entry for a step at most once per run, however often
\* the plan is replaced, and only if the step is remembered as completed.
HistoryOnce ==
  \A s \in StepIds : history[s] <= (IF s \in persistent THEN 1 ELSE 0)

\* How a task, its attempts and the memory of completions hang together.  A
\* task is started once per document; the ids of a document that are completed
\* are exactly those that are remembered; the loop runs for a started task that
\* has an attempt left, and for a non-retryable one that had none.
TaskLifecycle ==
  /\ \A s \in StepIds :
       /\ status[s] = "absent" <=> s \notin doc.steps
       /\ status[s] = "completed" <=> s \in persistent /\ s \in doc.steps
       /\ status[s] = "pending" => attempts[s] = 0
       /\ sent[s] <= attempts[s]
       /\ doc.tool[s] \in NonRetryable => attempts[s] <= 1
  /\ phase = "attempt" =>
       /\ cur \in doc.steps
       /\ status[cur] = "running"
       /\ attempts[cur] < MaxAttempts
       /\ doc.tool[cur] \in NonRetryable => attempts[cur] = 0

\* The inductive invariant: NonIdempotentOnce and CompletedNeverRedone follow
\* from TaskLifecycle, and every conjunct is preserved only with its help.
IInv ==
  /\ TypeOK /\ TaskLifecycle /\ DispatchBudget /\ ProgressExact /\ HistoryOnce
  /\ doc.pid < nextPlan

\* A call reports the end of the plan as it is: success only if every task is
\* remembered as completed, and "failed" (no task is ready, none has failed)
\* only if an earlier call was left by an exception in the middle of a task.
OutcomeTrue ==
  /\ outcome = "success" => doc.steps \subseteq persistent
  /\ outcome = "failed_step" => \E s \in doc.steps : status[s] = "failed"
  /\ outcome = "failed" => \E s \in doc.steps : status[s] = "running"

\* A step that is remembered as completed is never given to a tool again,
\* whatever documents and runs follow.
CompletedNeverRedone ==
  [][\A s \in persistent : sent'[s] <= sent[s]]_vars

\* Every call returns: retries, the budget and starvation always end it.
CallReturns == phase # "idle" ~> phase = "idle"

\* The executor implements a graph of tasks with remembered completions.
Graph == INSTANCE TaskGraph
           WITH steps <- doc.steps, deps <- doc.deps, st <- status, done <- persistent
ImplementsTaskGraph == Graph!Spec

------------------------------------------------------------------------------
\* What the documentation says of the program and the code does not keep.

\* "Execute: DagExecutor runs one task via Dispatcher, handles retries per
\* ExecutionPolicy": when no call is running no task is left in "running".
NoStrandedTask == phase = "idle" => \A s \in StepIds : status[s] # "running"

\* "controller uses success (done)": a run that reports success has executed
\* every step of its plan.
SuccessMeansExecuted ==
  outcome = "success" => \A s \in doc.steps : history[s] >= 1
==============================================================================
