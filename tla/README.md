# AutoStudio, formally

AutoStudio is a coding agent. A user gives an instruction; the program explores
the repository, lets a planner model write a small plan, executes its steps
with tools (search, open_file, edit, run_tests, shell), asks the planner again
after every step, and answers. This directory holds TLA+ models of the parts of
the program that decide *what is executed, how often, and when it is over*: the
executors and the controller loop, the exploration engine, the edit step with
its rollback, the searches in threads, and the daemon that serves the models;
the TLC runs that check them on small instances, and TLAPS proofs of what
matters most for all instances.

All paths below are relative to `src/`; line numbers refer to this commit.

## 1. The system

### 1.1 The pipeline of agent_v2

    session.py ──> AgentRuntime.run ──> ModeManager ──> PlannerTaskRuntime
                                                         │   │   │
                      exploration runner  <──────────────┘   │   │
                      TaskPlanner, PlannerV2, Replanner <────┘   │
                      PlanExecutor = DagExecutor <───────────────┘
                          ├─ single step:  run_one_step (retry loop)
                          └─ whole plan:   run ──> DagScheduler
                                 │
                             Dispatcher ──> agent/execution/step_dispatcher.py ──> tools

| Component | State it keeps | Operations | Hard behaviour |
|---|---|---|---|
| **AgentRuntime, chat session** (`agent_v2/runtime/runtime.py`, `agent/cli/session.py`) | one `DagExecutor`, `Dispatcher`, planner and runner for the life of the process; a new `AgentState` for each run | `run`, `explore` | what survives a run and what does not; an exception in a run leaves the object in the middle of a step |
| **PlannerTaskRuntime** (`planner_task_runtime.py`) | the plan document; in `state.metadata`: planner calls, sub-explorations, iterations, last exploration hash and gates, last outcome, rejected-answer flag, validation rounds | the ACT controller loop: decide, explore, replan, act, synthesize, stop; merging of plans | budgets, replans that must not lose or repeat work, decisions made from metadata of an earlier iteration |
| **TaskPlanner, outcome policy, snapshot** (`agent_v2/planning/`) | none; reads the metadata | `decide`, `plan_document_has_runnable_work`, `sub_exploration_allowed` | decides from what the executor published about a plan that may have been replaced |
| **PlannerV2** (`planner/planner_v2.py`) | none between calls | `plan`: prompt, JSON repair, normalisation, step ids | fresh ids that must not collide with those of the plan it continues |
| **DagExecutor** (`dag_executor.py`, `plan_compiler.py`, `schemas/execution_task.py`) | compiled tasks (status, attempts, frozen arguments), the plan id they belong to, the ids completed so far; in metadata: dispatch count and progress | `run_one_step`, `run` | retries of steps that are not idempotent, a dispatch budget, exceptions in foreign code between two writes, ids reused by another plan |
| **DagScheduler** (`dag_scheduler.py`) | the ids it completed | `run_scheduler` | picks, dispatches, puts back; starvation, endless retries |
| **Dispatcher** (`dispatcher.py`) | the table of tools | `execute`, `search_batch` (a thread pool) | exceptions of tools, order of results of parallel searches |
| **PlanValidator** (`validation/plan_validator.py`) | none | `validate_plan`, `validate_completed_steps_immutable` | cycles, unknown dependencies, exactly one finish step |
| **Exploration engine** (`agent_v2/exploration/`) | working memory, budgets, queues of candidates, seen symbols | `explore` | termination by several budgets at once, stagnation, duplicates |
| **Answer synthesis and validation** (`exploration/answer_synthesizer.py`, `validation/answer_validator.py`) | none | `synthesize`, `validate` | model output parsed into a verdict |
| **Memory, observability** | append-only records | record, trace | none for control, except the gate on explorations |

### 1.2 Around it

| Component | What it does | Hard behaviour |
|---|---|---|
| **Edit step** (`agent/execution/step_dispatcher.py`, `agent/runtime/execution_loop.py`, `editing/patch_executor.py`) | snapshot, patches of several files in memory, writes, syntax check, tests, rollback; optionally in a copy of the project | one write of several fails; a rollback must restore what was read; an interrupt between two writes |
| **Rerank endpoint** (`agent/retrieval/reranker/`, `scripts/retrieval_daemon.py`) | scores of pairs, a least-recently-used cache and a lazily loaded model, shared by threads | evictions between two passes over a request; two threads load at once; a load fails |
| **Retrieval daemon and supervision** (`scripts/retrieval_daemon.py`, `config/startup.py`, `agent/retrieval/daemon_*.py`) | one server process, found by port and lock file, started by agents | two starts at once, a crash between any two steps, a wait that times out, a pipe that fills |
| **Discovery searches** (`dispatcher.py`, `exploration_engine_v2.py`, `tool_mapper.py`) | a pool of channels, each with a pool of searches on copies of one state | a copy made while another thread adds keys; results that arrive in any order |
| **Retrieval pipeline** (`agent/retrieval/`) | search, ranking, fusion | – |
| **Legacy loops** (`agent/orchestrator`, `agent/autonomous`, `agent/execution`, `agent/meta`) | what agent_v2 replaced; the step dispatcher is still in use | – |
| **Model client** (`agent/models`) | HTTP calls, retries | a timeout racing an answer |
| **Index and symbol graph** (`repo_index`, `repo_graph`) | parsing, SQLite | incremental updates |
| **Prompt system, failure mining, evaluation, UI** | templates, offline analysis, presentation | – |

### 1.3 What makes it correct

* *Executor.* An edit or a shell command is not repeated. A completed step is
  not done again. The budget on tool calls holds and every call is counted.
  What the planner is told about progress is the truth. A reported outcome is
  the truth. Every call returns. No task is left half done.
* *Whole plan.* Success means every task ran; a valid plan does not starve;
  attempts and dispatches are limited; `run` ends and returns.
* *Controller loop.* The executor works on the plan the loop holds. Replanning
  loses no completed step and no new one. Work is bounded by the budgets. A
  rejected answer does not end the run, nor is one made again of the same
  evidence. The
  loop ends.
* *Edit step.* All changes of a plan are made, or none; a failed step restores
  what it found; in the sandbox nothing reaches the project.
* *Rerank endpoint.* A request is answered; it fails only when other requests
  really crowd the cache; the model is loaded once.
* *Daemon.* At most one serves; a start serves or ends unless its pipe is full; an agent's startup
  returns; whatever crashed before, the next start is not kept out: a start gives
  way to the living only.
* *Discovery searches.* Each result is that of its query; no search outlives the
  discovery that began it; a search fails only if it had to.
* *Exploration.* It ends; a place is not read twice; what was analysed is
  reported; "complete" is said only of what was read.

`PROJECT.json` lists each hazard at its line, with the properties about it.

## 2. The modules

    TaskGraph  <── refined by ──  DagExecutor  <── EXTENDS ──  ActController
        ^                              ^                            ^
        └── refined by ── DagScheduler │                            │
                             ^     DagExecutorProofs  <── ActControllerProofs
                     DagSchedulerProofs

    EditPlans <── EXTENDS ── AtomicEdit  <── refined by ──  EditStep <── EditStepProofs

    RerankCache <── RerankCacheProofs          RetrievalDaemon <── RetrievalDaemonProofs
    SearchBatch <── SearchBatchProofs          Exploration <── ExplorationProofs

The modules `MC…` only give TLC values for the constants. Operators whose name
has a suffix such as `_NoLimit`, `_Always`, `_Shared` are variants with a
plausible fault. No specification uses them; putting one in place of the
operator it varies must break the property named for it in `PROJECT.json`,
"mutants".

The four groups meet at narrow places. The executor's `Dispatch` stands for
every tool, so an edit step is one step of it: what happens inside is `EditStep`,
and what the executor needs to know of it (it succeeded, failed or raised, and
must not be repeated) is in both. `Exploration` takes the results of its
discovery as arbitrary; how the threads obtain them is `SearchBatch`. The model
endpoint of the daemon is `RerankCache`, its life is `RetrievalDaemon`; either way
a client falls back to the models of its own process when the daemon fails.

### 2.1 TaskGraph: what an executor promises

A graph of tasks is loaded; a task is started only when its dependencies are
completed; it completes, fails or is put back; what has completed once is
remembered and comes up completed in every later graph. No attempts, budgets,
error types or plan ids. Both executors and the whole controller implement it.

### 2.2 DagExecutor: one step of a plan, with retries

| Variable | Code |
|---|---|
| `doc` | `_current_plan_id` and the step data of `_tasks` |
| `status`, `attempts` | the fields of `ExecutionTask` |
| `persistent` | `_persistent_completed_ids` |
| `tableBound` | is the table of `_to_dispatch_step` a name of the module? |
| `planSafe` | `_plan_safe_execution_active` of the run's state |
| `dispatches` | `metadata["executor_dispatch_count"]` |
| `progress` | `metadata["executor_dag_*"]` |
| `history` | entries of `state.history` for each step |
| `phase`, `cur`, `lastError`, `outcome` | the position in `run_one_step`, its locals and its result |
| `sent`, `calls`, `nextPlan`, `runs` | observers: tool calls for each task and in the run; fresh plan ids; runs |

`CallWithNewPlan` and `CallAgain` are the calls of `run_one_step`, with a document
it has not seen or has compiled already (`EnsureTasks` is `_ensure_tasks`).
`NothingReady`, `StartTask`, `ArgumentsRaise` are its selection. One iteration of
`_execute_task_with_retries` is one of `DispatchCapReached`, `FinishTask`,
`GuardBlocks`, `TableLookupRaises` and `Dispatch`: the code is sequential and
nothing else touches the object meanwhile, so an iteration is atomic. Everything
it calls is in the action: counters, status, history, published progress.
Wherever foreign code runs (the argument model, the tool) the call may be left
by an exception, with exactly what was written before it; the next call starts
from there. `NewRun` is `AgentRuntime.run`: a new state, the same object.

`tableBound` says whether the name `PLAN_STEP_TO_LEGACY_REACT_ACTION`, which
`_to_dispatch_step` uses, is bound; it is chosen once, among `LegacyTable`. In this
commit it is not bound (divergence a below); where it is, the module describes the
executor as soon as the import is there, as the rest of the code means it. `executor`
checks both, `controller` the second, `controller_rules` and `controller_stale` the
first; the proofs hold for both.

### 2.3 DagScheduler: the whole plan

`DagExecutor.run` and `DagScheduler.run_scheduler`. `phase` is the position in
`run`: `compile`, `publish` (progress and arguments), `loop` and `dispatch` (the
scheduler), `returned`. `shadowed` is a fact about the Python object: once
`_run_graph_to_event` has assigned the attribute `_completed_ids`, the method of
that name is hidden. `FinishDispatchable` tells the dispatcher of `bootstrap.py`
(which has no handler for `finish`) from the mocks of the tests (which answer
everything, and whose runs therefore can succeed). With the former the
scheduler dispatches `finish` (`dag_scheduler.py:154`) although it is documented as
never dispatched (`agent/tools/react_registry.py:12`), and no plan can succeed;
`DagSchedulerAttempts.cfg` has it. The replanning loop of `run` (275–314) is
not modelled because it cannot be reached: the exception of divergence d comes
before.

### 2.4 ActController: the loop

`_run_act_controller_loop`, composed with the executor: when the decision is
`act`, `CallExecutor` enters `run_one_step` (`ctl = "act"`), `Execute` takes the
executor's steps until it is idle again, and `AfterFailedTask`, `AfterProgress`
or `AfterLastTask` handle its result.

| Variable | Code |
|---|---|
| `ctl` | the position: `bootstrap`, `decide` (loop head), `act`, `ended` |
| `plan` | `plan_doc`; `plan.from[s]` is the plan id under which step `s` was written |
| `plannerCalls`, `subs`, `iter`, `rounds` | the counters in the metadata |
| `gates`, `lastQuery` | what `sub_exploration_allowed` reads: did the last exploration leave gaps, and the hash of its query |
| `lastOutcome`, `blocked` | `task_planner_last_loop_outcome`, `post_validation_synthesize_blocked` |
| `ending` | how the run ended |
| `reached` | observer: tool calls for each edit or shell step ever written |
| `rejected` | observer: for each rejected answer of the run what it rested on, the explorations that had come back and the tasks completed (`Evidence`) |

The planner answers with any plan that `_build_plan_from_engine_json` can build:
nothing but `finish`, or one work step and `finish`, with ids continued after the
prior plan if it was passed and from `s1` otherwise; any of the four decisions,
any query. `Merge` is `_merge` (849) with `merge_preserved_completed_steps`. `Replan` is
every place that calls the planner: budget check, call, merge. `Authoritative`
chooses the rule-based decisions (`RuleDecisions`) in place of the planner's.

### 2.5 EditPlans, AtomicEdit, EditStep: an edit and its rollback

`EditPlans` says what a plan of changes is: for each change the file and, of what
the model wants there, only what the code tells apart (it applies, empties the
file, does not find its place, raises, is refused, is too large). The text of a
file is the sequence of marks of the changes it holds, so that a change that is
lost, made twice or made to an old text shows. `Outside` are the files that a plan
names by a path which does not lead into a copy of the project: an absolute one,
or one that leaves the root. `AtomicEdit` is the promise: all changes or none, with
four named exceptions. `EditStep` is the code.

| Variable | Code |
|---|---|
| `disk`, `copy`, `inCopy` | files under `project_root`, or under the temporary root of `_run_in_sandbox` |
| `plan`, `next` | `patch_plan["changes"]` and the loop over them (`patch_executor.py:207`) |
| `originals`, `patched`, `order` | `originals`, `patched_content` and the order of its keys |
| `snapshot`, `todo` | `_snapshot_files`, and the files `_rollback_snapshot` has not come to |
| `phase` | `patch` (execute_patch in memory), `write` (519–521), `check`, `test`, `restore` |
| `result` | what `_edit_react` or one attempt of `run_edit_test_fix_loop` returns |
| `faulted`, `before`, `edits` | observers: a fault met this step; the files when it began; steps |

A write (`WriteFile`), a restored file (`RestoreFile`) and a write-back during
patching (part of `ChangeRaises`) are single steps. With `Faults` a write or a
restore can fail and `Interrupt` (a `KeyboardInterrupt`, which no handler in this
code catches) can come between any two of them. Verdicts of the syntax check and
the tests are arbitrary. `ChooseRoot` is the sandbox, with the case that the copy
cannot be made and the step works on the project itself. In the sandbox
`execute_patch` refuses the files of `Outside` (`RefusedUnread`), but the snapshot and
the rollback resolve paths with `_resolve_path` of `execution_loop.py`, which tests
nothing: `OnHost` says which files a step reaches in the project itself, and `Work`
and `SetWork` read and write there. So `SandboxIsolation` says that the project
changes in the rollback only, and only in files of the plan that are in `Outside`;
that it does change there is finding 3.

What the model keeps of the code's oddities: rollback and rewrites turn CRLF into
LF; a plan whose changes are all passed over succeeds; a success in the sandbox
reports files that are never copied back; a `text_sub` on a file that an earlier
one emptied starts from the original (`or originals`, line 307).

### 2.6 RerankCache: the model endpoint under threads

`cached`, `order` are `_cache`, `_order` of `reranker/cache.py`; `model`, `loader` are
`_reranker_model`, `_reranker_lock` of the daemon; `pc[t]` is the place of thread `t` in
`POST /rerank/batch` and `rerank_batch`: `ensure`, `lock`, `load` (the model), `lookup`
(first pass), `score`, `store`, `collect` (second pass). A cache operation holds
the lock of the cache and is one action; nothing holds it across them. `held` and
`touched` observe which pairs a request has seen and which anyone has used since
it began.

### 2.7 RetrievalDaemon: its life, and the agents that start it

| Variable | Code |
|---|---|
| `proc[p]` | place in `main`: `born`, `opened` (437), `locked` (438), `loading`, `serving`, `stopping`, `dead` |
| `lockFile`, `holder` | content of the lock file; who has the `flock` |
| `loaded`, `failed` | processes with a model; processes that ended in an error |
| `starter`, `log`, `blocked` | the agent at the other end of the pipe of standard error, lines in that pipe, processes with a thread that blocks on it |
| `agent[a]`, `child`, `polls` | place in `_start_daemon_background` and what follows |
| `route` | the agent's cached view of `/health` |

A daemon may be killed at every step (`Kill`), stopped by the pid in the file
(`Stop`), started by an agent (`Spawn`) or by an operator (`StartByHand`). The
operating system (locks fall with their holder, pipes are finite) and uvicorn
are external. Whoever writes a line of log to a full pipe waits: a daemon that
loads (`LoadLogs` is any number of lines before the last one, which `Load` writes),
one that shuts down (`Exit`), and a thread that serves a request (`Embed`,
`EmbedBlocks`). The pipe is empty for good when the agent or the daemon has ended
(`ClosePipes`).

What the model keeps: with lazy loading `/health` never says "ready" before
someone asked for an embedding, so the first agent polls until its time is up;
a start during a shutdown ends with "already running" and is lost; an agent's
route stays "daemon" after the daemon died.

### 2.8 Exploration: the engine's queue, budgets and memory

`_explore_inner` as a whole. `phase` is the position: `start`, `bootstrap` (search
passes before there is anything to read), `loop` (budgets, pop, read: `Inspect`),
`analyze`, `decide` (`Control` is `decision_mapper.py`; then `Stop`, `Expand`, `GoOn` or
`Refine`), `done`. `definition` is whether the intent or the instruction asks for a
definition, which is enough for `Complete` without relations or a body. `pending`, `explored`, `seenFiles`, `seenSymbols` and the counters
carry the names of the code; `memory` holds the evidence rows of the working
memory with their tier (0 for an analysis, the highest), and `Reported` is the
selection of `EXPLORATION_MAX_ITEMS` of them for the result. What searches, graph
and models answer is arbitrary.

Branches that cannot be reached in this commit and are not modelled: the pops of
a place already read, the analysis skipped as not meaningful, excluded paths and
a wrong scope (`to_exploration_decision` never sets it), a second budget test after
the analysis, the termination "unknown", expansion below the first level (the
depth limit is 1). What the last read of `MAX_STEPS` brings is never analysed;
`AnalysedReported` says so in its premise.

### 2.9 SearchBatch: two pools of threads and one dictionary

The three channels of `_discovery` in one pool (`chan`), each with the searches of
`search_batch` in another (`job`, `seen`, `out`), and the keys of the context of the
shared state (`keys`). A deep copy is two steps, `BeginCopy` and `EndCopy`: if a
key is added between them, Python raises. `Multi` is `search_multi` with the
normalisation of divergence j below.

## 3. The runs

| Run | Question | Answer |
|---|---|---|
| `executor` | all properties of the executor, with and without the missing import, the refinement, every call returns | hold |
| `scheduler` | reported success is true, no starvation, refinement; a run that does not end is one whose tools fail again and again | hold |
| `controller` | plan and executor agree, work is bounded, steps reach tools once, completed steps are kept, every run ends | hold |
| `controller_rules` | rejected answers with the rule-based decisions | never end a run, and none is synthesized again from the same evidence |
| `controller_stale` | does success mean that something was executed? | no (finding 1) |
| `edit` | all or nothing, sandbox, every step ends, with faults and interrupts at any point | hold |
| `edit_deleted` | does a failed edit restore every file? | no (finding 2) |
| `edit_sandbox` | does a step in the sandbox leave the project as it is? | no (finding 3) |
| `rerank` | requests of two threads that overflow the cache, a model that fails to load | answered; fail only under pressure; loaded once |
| `daemon` | three daemons, two agents, an operator, kills and stops | one daemon; pids true; starts give way to the living only; startup returns |
| `exploration` | queue, result and end of an exploration | hold |
| `search` | order, end and loss of the searches of a discovery | hold |

**Bounds.**

* *Executor:* three ids, three documents, two runs. Three ids give a chain
  and a fork; three documents a replan of a replan (a carried-over completion
  carried over again); two runs what survives a run. `MaxAttempts = 2` is the
  least with a retry; `MaxDispatches = 3` is less than a document's attempts and
  more than a task's, so the cap is met at the first attempt and in a retry. The
  plans have each kind of step the retry policy tells apart.
* *Scheduler:* the count of calls is cut at 3, one more than every limit it is
  compared with. `scheduler` runs with a dispatcher that answers `finish`: it can do
  all that the one of the program can (a dispatched `finish` may fail), and succeed
  besides, so what holds there holds with both.
* *Controller:* three planner calls are the first plan, a replan and a replan of
  it, and six ids is what they can write. One sub-exploration reaches both
  "allowed" and "used up". With the planner's decisions the iteration limit is
  read by nothing, so `MaxIterations = 1` loses nothing; the rules' run uses 8,
  larger than the number of iterations that change anything else. `MaxRounds`
  is 1 and 2.
* *Edit:* two edit steps, so that one starts from what another left; five files
  (two Python files, one that is not, a forbidden one, one outside the copy); plans of up to three
  changes in every order of the kinds that interact; disks with CRLF, an
  undecodable file, a missing one, a directory. `MaxFiles = 2` is met and
  exceeded.
* *Rerank:* two threads, four pairs, a cache of two, three requests: a request
  that fits, two that overflow it together, one that overflows it alone, empty and
  oversized ones.
* *Daemon:* three processes are one that serves, one that loses the race and one
  that comes after a crash; each process and agent lives once. One poll, and a
  pipe that holds one line (`PipeSize = 1`), reach every branch that more would: a
  daemon can stop in the middle of loading, serve with a full pipe and serve with
  an empty one. The least a pipe holds is the one line of a start that gives way;
  real pipes hold some hundreds of lines.
* *Exploration:* three steps, three files, two symbols: more places than steps,
  and two items reported, as many as can be analysed; one backtrack, two
  refinements, so that a budget ends the loop while another is left.
* *Search:* three channels (as in the code) with up to three queries, a pool of
  three and a pool of two, so that a search waits for a thread.

The counters that the code does not bound (planner calls over several runs, plan
ids, tool calls, edit steps, requests, processes) are bounded by those above; all
sets and limits are arbitrary in the proofs.

**Deadlock** is checked for the executor (a call with the same document is always
possible) and for the searches, where only a discovery that has ended may stop
(`Over`): whatever the pools do, a discovery can end. The other systems stop when
the bound on runs, edits or requests is reached, when every process and agent
has lived, or when the exploration is over (`CHECK_DEADLOCK FALSE`); that they do
not stop earlier is `LoopsOnlyByRetrying`, `LoopEnds`, `EditEnds`, `RequestAnswered`,
`StartupReturns` and `ExplorationEnds`.

**Fairness.** Weak fairness of the steps of each program, thread or process: a
Python loop that can go on does, and the operating system runs each runnable
thread. None for the caller, the operator, kills, faults and interrupts: nobody
has to type, and nothing has to break. It does assume that a model or tool call
returns or raises; the code gives the clients timeouts. Nothing is assumed of what
the tools answer: `LoopsOnlyByRetrying` says that a run ends or `DispatchFails` is
taken infinitely often, because on that path a failing task is tried for ever
(divergence b).

## 4. What the runs found

1. `dag_executor.py:216`: the second turn on the same executor finds `s1`, `s2`
   "completed" and reports success without executing. (`SuccessMeansExecuted`,
   run `controller_stale`)
2. `execution_loop.py:58`: the snapshot holds None for a file that cannot be
   decoded as for one that is new, and the rollback deletes what is None: a
   failed edit can delete an undecodable file. (`FailedEditRestores`, run
   `edit_deleted`)
3. `execution_loop.py:27`: `_resolve_path` tests no containment. In the sandbox
   `execute_patch` refuses a path outside the copy, and the rollback then follows it
   to the file of the project, which it rewrites (CRLF becomes LF) or, if it cannot
   be decoded, deletes. (`NoHostModification`, run `edit_sandbox`)

Ten more divergences are stated in the modules and reproduced by a configuration
that is not among the runs; `tlc -config <cfg> MC<module>` shows each (what holds in
spite of (a) is part of the run `executor`):

| | Where | What | Property, configuration |
|---|---|---|---|
| a | `dag_executor.py:105` | a name that the module does not import is used; every tool but `shell` ends in a `NameError` after its task was marked running, and nothing puts it back | `NoStrandedTask`, `DagExecutorStranded.cfg` |
| b | `dag_scheduler.py:109` | a failed task is put back while its attempts are fewer than `max_attempts`, but nothing counts them on this path: it is dispatched without limit (`tests/test_dag_scheduler.py:344` says "Only 2 calls (max_attempts)"). With the dispatcher of `bootstrap.py` that is the end of every plan, since its `finish` always fails | `StopsAtMaxAttempts`, `DagSchedulerAttempts.cfg` |
| c | `dag_executor.py:359` | the whole-plan path never looks at the dispatch budget | `DispatchCap`, `DagSchedulerCap.cfg` |
| d | `dag_executor.py:364` | assigns an attribute over the method `_completed_ids` and calls it: `run` never returns | `SuccessReturned`, `DagSchedulerReturn.cfg` |
| e | `planner_task_runtime.py:1029` | with rule-based decisions, a rejected answer and no exploration left, the loop spins; no limit counts | `LoopEnds`, `ActControllerForever.cfg` |
| f | `planner_task_runtime.py:1189` | after a failed step the planner is asked without the prior plan, numbers its steps from `s1`, and the merge puts the completed `s1` in place of the corrective step | `CorrectiveWorkKept`, `ActControllerCorrective.cfg` |
| g | `retrieval_daemon.py:437` | a start that loses the race empties the lock file first: `--stop` finds no pid although a daemon serves | `StopFindsServer`, `RetrievalDaemonStop.cfg` |
| h | `startup.py:87` | the standard error of the daemon is a pipe that nobody reads; when it is full, a daemon that loads stops and the threads that log block | `StaysUp`, `RetrievalDaemonPipe.cfg` |
| i | `exploration_engine_v2.py:1938` | `selection_none` is false although nothing was enqueued, when every target is refused | `SelectionNoneTrue`, `ExplorationSelection.cfg` |
| j | `tool_mapper.py:205` | the list that `search_multi` returns is normalised to one failed result, so its queries are always searched again one by one (`tests/retrieval/test_retrieve_v2_multi.py:236` asserts a list of this very path) | `AtOnceSuffices`, `SearchBatchMulti.cfg` |

Smaller divergences, met while reading and modelled as the code has them: the
controller's result of a decision `stop` is reported as `unknown`, since the
executor's output is dropped (`planner_task_runtime.py:655-657`); the retry table
has a key `read`, which no plan step uses; `max_runtime_seconds` is enforced
nowhere; `replan_no_progress` compares fingerprints that contain a fresh plan id
and so never fires; from `s10` on ids sort as strings; `_is_daemon_running` is used
only on systems without `fcntl`; a bounded read that fails still counts as
evidence of the first tier; the coverage that decides on an expansion or a
refinement is that of the batch from which the place just analysed was selected;
the fallback of `run_tests`
compiles a directory and always fails.

## 5. What is proved

Eight modules of proofs prove for every set of ids, plans, files, threads,
processes and queries, every limit and any number of runs what TLC checks on the
instances above: every invariant, every action property and every refinement of
the passing runs is stated by a theorem. The assumptions are the named ones of
the modules: ids are positive numbers, limits are natural numbers, plans have at
least one step, dependencies inside the plan and no cycle among them (which
`PlanValidator` establishes; `Acyclic` is `_dependency_graph_has_cycle`), there are
enough ids for what the planner may write, files of a project are of the four
kinds and have a text if and only if they are text files, the plan without
changes is among the plans (a step that only checks, `BeginCheck`, has it), and the
names used for "nobody" are nobody's.

*Executor.* `IInv` is inductive. What is wanted (`NonIdempotentOnce`,
`DispatchBudget`, `ProgressExact`) is not inductive by itself: that
an edit is sent once rests on a pending task having no attempts, on the loop
running only for a task that is `running`, and on a non-retryable task in the
loop having none yet. That is `TaskLifecycle`, which also ties the completed
tasks of the loaded document to the remembered ids; `HistoryOnce` adds that a
step enters the history of a run at most once and only if it is remembered. From it follow
`CompletedNeverRedone` (a remembered task is not the current one) and the steps of
`RefinesTaskGraph`, a mapping that is direct: a document loaded is `Load`, a
retry and all bookkeeping stutter. `OutcomesTrue` needs one fact more: when
nothing is ready and something is not completed, the set of the uncompleted
tasks has, the plan being acyclic, a member that waits for completed ones only;
it is not pending, so it has failed or an exception left it running.

*Scheduler.* `SInv`: the set of completed ids and the statuses agree while the
scheduler works, a completed task was dispatched, and a result exists only after
the scheduler has returned. `SuccessIsComplete` and the refinement follow. That a
valid plan never starves (`NeverStarved`) is the same argument about the
uncompleted tasks: here a failed one is put back, so one of them is ready.
`SchedulerNeverGivesUp` says what divergence (b) means for every limit: no attempt
is ever counted, no task fails for good, and `run_scheduler` never reports "failed".

*Controller.* `CInv` adds six facts to `IInv` and the properties. `WorkPaid`: while a
decision is pending, nothing has been spent on the last planner call, since a
plan is executed at most once before the next call. `PlanWellFormed`: the ids of
a plan are those its planner calls could write, and every uncompleted step of
it was written by the last one. `LoadedPlan`: the executor's document is the
loop's plan or an older one. `SendsCounted`: no uncompleted edit of the current
plan has been sent unless it is the one loaded. `AnswersKnown` ties the
rejected-answer flag to the last outcome, and `RejectedOnLess` the flag to what
rejected answers rested on: evidence only grows, and whenever the flag allows an
answer there is more of it than there was at each rejection, because the paths
that clear the flag are those where an exploration has come back or a task has
been completed. `NoResynthesis` is that with the guard of the loop. The proof has a
step for each action; those of the executor inside `Execute` cite the executor's
lemma, and the rest is split in two lemmas, about plans and work and about answers.
The executor's own promises are proved again for this caller
(`ExecutorPromisesHold`, `ControllerNeverRedoes`), whose plans no validator has seen
since they were merged. That such a merge can nevertheless always be executed to its
end is `RunSuccessTrue`: each plan of the planner has a first step that every other
one waits for, what a merge keeps is remembered as completed, so among the rest one
step waits for remembered ones only (`CanStart`, inductive together with
`SuccessIsEarned`). No call finds its tasks stuck, and a run that ends with
"success" has every step of its plan among the remembered ones; the run
`controller_stale` shows that this is as much as "success" says.

*Edit.* `EInv` follows the texts: what was read is what the file had (`ReadTrue`),
only text files are written (`WritesText`), the snapshot is that of the files when
the step began, and what the rollback has passed is restored (`SnapshotTrue`,
`RestoredFile`). So a failed step without a fault leaves every file as it was, but
for the undecodable ones of finding 2, and files that the plan does not name are
never touched, whatever fails. In the sandbox the files outside the copy are
followed through the refusal: none is read or patched, because `execute_patch`
refuses it first, so `SandboxKept` leaves the project to the rollback alone, and to
the files of the plan outside the copy. That a *successful* step has made exactly the
changes of its plan is `CommitsThePlan`: for the changes done so far, the text of
each patched file is what they compose to, change by change (`Composed` is a
relation between the texts before and after the first n changes, so that one
change more is one step and no induction over plans is needed), and the disk
holds what has been written of it. With `EInv` this gives
`EditRefinesAtomicEdit`, the refinement: the last step of an edit is the commit,
the failure, the rehearsal or the break of `AtomicEdit`, and all others stutter.

*Rerank.* That a request fails only under pressure is an argument about the order
of the cache: `Sound` says of each request that the pairs it holds are still
cached or more pairs than the capacity have been used since it began, because
what it holds comes, in the order of eviction, after everything nobody used
since. Lemmas about removing and appending in a list carry it.

*Daemon.* `OneDaemon` is not inductive; that the lock is held exactly by the
process past it (`HolderIsPastLock`) is; from it follows also that a start is kept
out only by a living process (`NothingDeadKeepsOut`). *Searches.* `SBInv`: a job that is done has
stored its own query at its own place, and a copy can differ from what its
thread saw only if another channel searches all at once. `NeverStuck`: for any sizes of the two
pools some channel can go on until all have ended, because a channel is busy with a
search, has one to give to a free worker, or has none left.

*Exploration.* The queue is built by filters over sequences. Instead of induction
over them the proofs describe what a filter returns by positions: the rank of a
kept position among the kept ones is a bijection onto the places of the result
(`Ranks`, with the library's facts about finite cardinalities), so elements are
kept, in order, once each. `ExplorationInv` ties the queue to the sets that guard
it (`seenFiles`, `seenSymbols`, `explored`) and the memory to what was read;
`QueueAlwaysFresh`, `AnalysesReported` and `HighConfidenceGrounded` follow.

*How long anything can take.* Five theorems bound the number of steps by a measure
that every step decreases: `CallIsBounded` (a call of the executor has at most
`MaxAttempts + 1` steps), `RunIsBounded` (a run of the loop has at most
`MaxAttempts + 3` for each planner call it may make, if the planner decides),
`EditIsBounded` (`3n + 5` parts for n changes), `ExplorationIsBounded`
(`MaxRefines + 3 MaxSteps + 3`) and `StartupIsBounded` (an agent is up after at most
`MaxPolls + 4` steps of its own, and a daemon serves or has ended after at most
`PipeSize + 4`, the lines that it logs while loading counted, whatever the other
processes do; nothing but a full pipe keeps it from its next step). They need no fairness, and say of the
corresponding liveness properties the half that does not: what can keep a call,
a run, an edit, an exploration or a startup from its end is only that it takes no step at
all. With the rule-based decisions there is no such bound: a
rejected answer can send the loop round without a call, for ever (divergence e).

| Module | Theorems |
|---|---|
| `DagExecutorProofs` | `ExecutorInvariant`, `TypeCorrect`, `NonIdempotentAtMostOnce`, `BudgetKept`, `ProgressTrue` (`Spec => []…`), `NeverRedone`, `OutcomesTrue`, `RefinesTaskGraph`, `CallIsBounded` |
| `DagSchedulerProofs` | `SchedulerInvariant`, `SchedulerTypeCorrect`, `SuccessTrue`, `NeverStarved`, `SchedulerRefinesTaskGraph`, `SchedulerNeverGivesUp` |
| `ActControllerProofs` | `ControllerInvariant`, `ControllerTypeCorrect`, `ExecutorOnCurrentPlan`, `WorkIsBounded`, `EditsReachToolOnce`, `StopsOnlyOnAcceptedAnswer`, `CompletedStepsKept`, `NoResynthesis`, `ControllerRefinesTaskGraph` (the composition implements the graph of tasks), `RunIsBounded`, `ExecutorPromisesHold`, `ControllerNeverRedoes`, `RunSuccessTrue` |
| `EditStepProofs` | `EditInvariant`, `EditTypeCorrect`, `OthersUntouched`, `FailureIsHarmless`, `SandboxKept`, `CommitsThePlan`, `EditRefinesAtomicEdit`, `EditIsBounded` |
| `RerankCacheProofs` | `CacheInvariant`, `CacheTypeCorrect`, `OnlyPressureFails`, `ModelLoadedOnce` |
| `RetrievalDaemonProofs` | `DaemonInvariant`, `DaemonTypeCorrect`, `AtMostOneDaemon`, `PidTrue`, `NothingDeadKeepsOut`, `StartupIsBounded` |
| `SearchBatchProofs` | `SearchInvariant`, `SearchTypeCorrect`, `InOrder`, `NothingOutlives`, `LostOnlyBesideMulti`, `NeverStuck` |
| `ExplorationProofs` | `ExplorationInvariant`, `ExplorationTypeCorrect`, `QueueAlwaysFresh`, `AnalysesReported`, `HighConfidenceGrounded`, `ExplorationIsBounded` |

*Only model-checked:* liveness (`CallReturns`, `LoopsOnlyByRetrying`, `LoopEnds`, `EditEnds`,
`RequestAnswered`, `StartupReturns`, `ExplorationEnds`), because
liveness under fairness and `ENABLED` are out of the prover's reach. So are
induction over data, which the arguments above avoid, and `RECURSIVE` operators,
which no module here uses.

## 6. What is not modelled

In modelled components:

* *Executors:* the replanning loop of `run`, which is not reached; traces, warnings.
* *Controller:* the legacy planner format with many steps (only the engine's JSON
  is); the task planner's shadow mode, which only records; the decision `plan`,
  which nothing emits; an empty instruction (the rules stop at once);
  `run_plan_only` and plan-body-only turns; skipping answer synthesis for a turn;
  session memory and the conversation store.
* *Edit:* how the text of a patch is found and replaced; a write-back during
  patching that itself raises (461, 481, 501); a text with lone surrogates, which
  raises at the write and leaves the file cut; `run_with_repair`, which is only
  exported.
* *Daemon:* the vector endpoints, the warm-up of BM25 and of the graph, systems
  without `fcntl`; `ensure_retrieval_daemon`, which nothing calls.
* *Exploration:* relations and gaps in the memory, scores, prompts, trimming of
  context, and the unreachable branches named in 2.8.
* *Rerank:* the counters of hits and misses. *Searches:* validation of inputs,
  shaping of results, `execute` for tools other than search.

Components left out are listed in `PROJECT.json` with the reason. In short: the
plan validator, the patch generator, ranking and fusion of results, indexing and
the symbol graph are data processing with little control, of which the models
take an arbitrary result; model client and answer synthesis are calls of
services with text around them; the legacy loops are replaced; prompts, mining,
evaluation and the user interface decide nothing about execution. These are
most of the lines of the repository, which is why the map covers the smaller
part of it although it covers the control of agent_v2.

## 7. What could follow

1. The pure part of planner and validator (numbering, normalisation, the cycle
   check) against reference definitions.
2. The composition of `Exploration` with `SearchBatch`, in place of an arbitrary
   result of the discovery.
3. Incremental updates of the symbol graph, with a crash between its writes.
4. The retries of the model client, as the environment of the controller.
