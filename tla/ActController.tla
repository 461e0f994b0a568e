---------------------------- MODULE ActController ----------------------------
(***************************************************************************)
(* agent_v2/runtime/planner_task_runtime.py, _run_act_controller_loop: the  *)
(* loop of a run in the modes act, plan and deep_plan.  It asks for a       *)
(* decision, and explores, replans, executes one task, synthesizes an       *)
(* answer or stops accordingly; every new plan of the planner is merged     *)
(* with the completed steps of the plan before.                             *)
(*                                                                         *)
(* The module composes the loop with the executor of DagExecutor: while     *)
(* control is in run_one_step (ctl = "act") the executor's steps are taken. *)
(* The planner, the exploration and the answer validation are model calls:  *)
(* they answer anything that the code behind them lets through, or raise.   *)
(***************************************************************************)
EXTENDS DagExecutor

CONSTANTS
  PlannerTools,     \* the tools the planner uses in a step to act
  Queries,          \* the explore queries; one is the instruction itself
  Instruction,
  MaxPlannerCalls,  \* max_planner_controller_calls
  MaxSubExplorations,  \* max_sub_explorations_per_task
  MaxIterations,    \* max_act_controller_iterations
  MaxRounds,        \* max_answer_validation_rounds_per_task
  Authoritative,    \* task_planner_authoritative_loop; default FALSE
  AnswersValidated  \* answers are synthesized and validation is enabled

ASSUME ControllerAssumption ==
  /\ PlannerTools \subseteq Tools \ {"finish"}
  /\ Instruction \in Queries
  /\ MaxPlannerCalls \in Nat \ {0}
  /\ MaxSubExplorations \in Nat
  /\ MaxIterations \in Nat \ {0}
  /\ MaxRounds \in Nat \ {0}
  /\ Authoritative \in BOOLEAN
  /\ AnswersValidated \in BOOLEAN
\* A planner call adds at most two steps.
ASSUME EnoughIdsAssumption == 1 .. 2 * MaxPlannerCalls \subseteq StepIds

VARIABLES
  ctl,           \* "bootstrap", "decide", "act" (in run_one_step), "ended"
  plan,          \* plan_doc; from[s] is the plan_id under which s was written
  plannerCalls,  \* metadata["planner_controller_calls"]
  subs,          \* metadata["sub_explorations_used"]
  iter,          \* metadata["act_controller_iteration_count"]; past the limit it
                 \* alternates, since only reaching the limit matters
  gates,         \* does sub_exploration_allowed hold of the last exploration?
  lastQuery,     \* the query whose hash is last_exploration_query_hash
  lastOutcome,   \* metadata["task_planner_last_loop_outcome"]
  blocked,       \* metadata["post_validation_synthesize_blocked"]
  rounds,        \* metadata["answer_validation_rounds"]
  ending,        \* how the run ended
  reached,       \* observer: how often the edit or shell step written under a
                 \* plan_id has been given to its tool
  rejected       \* observer: what the rejected answers of this run rested on

loopVars == <<ctl, plan, plannerCalls, subs, iter, gates, lastQuery, lastOutcome,
              blocked, rounds, ending>>
executorVars == <<objectVars, stateVars, callVars, sent, calls, runs>>
cvars == <<vars, loopVars, reached, rejected>>

Ending == {"none", "success", "failed", "stopped", "raised"}
LoopOutcome == {"", "synthesize_completed", "validation_complete",
                "validation_incomplete", "explore_blocked"}

PlanDocument ==
  [pid  : Nat,
   steps: SUBSET StepIds,
   tool : [StepIds -> Tools],
   deps : [StepIds -> SUBSET StepIds],
   from : [StepIds -> Nat],
   decision : {"act", "explore", "replan", "stop"},
   query : Queries]

EmptyPlan ==
  [pid |-> NoPlan, steps |-> {},
   tool |-> [s \in StepIds |-> "finish"],
   deps |-> [s \in StepIds |-> {}],
   from |-> [s \in StepIds |-> NoPlan],
   decision |-> "stop", query |-> Instruction]

\* The part of a plan that compile_plan reads.
Doc(p) == [pid |-> p.pid, steps |-> p.steps, tool |-> p.tool, deps |-> p.deps]

------------------------------------------------------------------------------
\* The planner's plans.

\* _allocate_engine_step_slots: ids continue after the largest of the prior plan,
\* if the caller gives one; otherwise they begin with s1 again.
LargestId(prior) == {n \in prior \cup {0} : \A m \in prior : m <= n}

\* _synthesize_steps_from_engine: a work step and a finish that depends on it.
ActPlan(base, t) ==
  [pid   |-> nextPlan,
   steps |-> {base + 1, base + 2},
   tool  |-> [s \in StepIds |-> IF s = base + 1 THEN t ELSE "finish"],
   deps  |-> [s \in StepIds |-> IF s = base + 2 THEN {base + 1} ELSE {}],
   from  |-> [s \in StepIds |-> nextPlan],
   decision |-> "act", query |-> Instruction]

\* explore, replan and stop come with a single finish step.
OtherPlan(base, d, q) ==
  [pid   |-> nextPlan,
   steps |-> {base + 1},
   tool  |-> [s \in StepIds |-> "finish"],
   deps  |-> [s \in StepIds |-> {}],
   from  |-> [s \in StepIds |-> nextPlan],
   decision |-> d, query |-> q]

\* PLAN_MODE_TOOL_POLICY and ACT_MODE_TOOL_POLICY
AllowedTools == IF planSafe THEN PlannerTools \ {"edit"} ELSE PlannerTools

\* A call of the planner; prior is the set of steps of the prior_plan_document.
PlannerPlans(prior) ==
  {ActPlan(base, t) : base \in LargestId(prior), t \in AllowedTools}
  \cup {OtherPlan(base, "explore", q) : base \in LargestId(prior), q \in Queries}
  \cup {OtherPlan(base, d, Instruction) : base \in LargestId(prior), d \in {"replan", "stop"}}

\* new with the steps kept of old, in place of its own or in addition.
WithKept(old, new, kept) ==
  [new EXCEPT !.steps = @ \cup kept,
              !.tool = [s \in StepIds |-> IF s \in kept THEN old.tool[s] ELSE @[s]],
              !.deps = [s \in StepIds |-> IF s \in kept THEN old.deps[s] ELSE @[s]],
              !.from = [s \in StepIds |-> IF s \in kept THEN old.from[s] ELSE @[s]]]

Merge_NoPrefix(old, new) == WithKept(old, new, old.steps \cap persistent \cap new.steps)

Merge_KeepsPlanId(old, new) ==
  [WithKept(old, new, old.steps \cap persistent) EXCEPT !.pid = old.pid]

\* merge_preserved_completed_steps with the executor's completed ids: completed
\* steps of the old plan replace those with the same id, or are put in front.
Merge(old, new) == WithKept(old, new, old.steps \cap persistent)

\* The run ends.
End(how) ==
  /\ ctl' = "ended"
  /\ ending' = how
  /\ UNCHANGED plan

CountPlannerCall_Uncounted ==
  /\ plannerCalls < MaxPlannerCalls
  /\ UNCHANGED plannerCalls

\* _budget_planner
CountPlannerCall ==
  /\ plannerCalls < MaxPlannerCalls
  /\ plannerCalls' = plannerCalls + 1

Replan_GoesOn(prior) ==
  \/ /\ plannerCalls >= MaxPlannerCalls
     /\ ctl' = "decide"
     /\ UNCHANGED <<plan, ending, plannerCalls, nextPlan>>
  \/ /\ CountPlannerCall
     /\ \E new \in PlannerPlans(prior) : plan' = Merge(plan, new)
     /\ nextPlan' = nextPlan + 1
     /\ ctl' = "decide"
     /\ UNCHANGED ending

\* The planner is asked again and its plan is merged with the current one; the
\* run ends if the budget is used up (finalize_run with "failed") or if the
\* planner raises.
Replan(prior) ==
  \/ /\ plannerCalls >= MaxPlannerCalls
     /\ End("failed")
     /\ UNCHANGED <<plannerCalls, nextPlan>>
  \/ /\ CountPlannerCall
     /\ End("raised")
     /\ UNCHANGED nextPlan
  \/ /\ CountPlannerCall
     /\ \E new \in PlannerPlans(prior) : plan' = Merge(plan, new)
     /\ nextPlan' = nextPlan + 1
     /\ ctl' = "decide"
     /\ UNCHANGED ending

------------------------------------------------------------------------------
\* The run, from the exploration before the loop to the first plan.

CInit ==
  /\ Init
  /\ ctl = "bootstrap"
  /\ plan = EmptyPlan
  /\ plannerCalls = 0
  /\ subs = 0
  /\ iter = 0
  /\ gates = FALSE
  /\ lastQuery = Instruction
  /\ lastOutcome = ""
  /\ blocked = FALSE
  /\ rounds = 0
  /\ ending = "none"
  /\ reached = [p \in {} |-> 0]
  /\ rejected = {}

\* The next AgentRuntime.run, whatever the last one ended with.
NewTurn(safe) ==
  /\ ctl = "ended"
  /\ NewRun(safe)
  /\ ctl' = "bootstrap"
  /\ plan' = EmptyPlan
  /\ plannerCalls' = 0
  /\ subs' = 0
  /\ iter' = 0
  /\ gates' = FALSE
  /\ lastQuery' = Instruction
  /\ lastOutcome' = ""
  /\ blocked' = FALSE
  /\ rounds' = 0
  /\ ending' = "none"
  /\ rejected' = {}
  /\ UNCHANGED reached

\* The exploration of the instruction and the first plan, which is not merged.
Bootstrap ==
  /\ ctl = "bootstrap"
  /\ gates' \in BOOLEAN
  /\ \/ End("raised") /\ UNCHANGED <<plannerCalls, nextPlan>>
     \/ CountPlannerCall /\ End("raised") /\ UNCHANGED nextPlan
     \/ /\ CountPlannerCall
        /\ plan' \in PlannerPlans({})
        /\ nextPlan' = nextPlan + 1
        /\ ctl' = "decide"
        /\ UNCHANGED ending
  /\ UNCHANGED <<executorVars, subs, iter, lastQuery, lastOutcome, blocked, rounds, reached,
                 rejected>>

------------------------------------------------------------------------------
\* The decision at the head of the loop.

\* plan_document_has_runnable_work
PendingWork == ~ (progress.pid = plan.pid /\ progress.total # {}
                  /\ progress.done = progress.total)

Explorations(queries) == {[type |-> "explore", query |-> q] : q \in queries}
Plain(type) == {[type |-> type, query |-> Instruction]}

RuleDecisions_StopsOnIncomplete ==
  IF lastOutcome \in {"synthesize_completed", "validation_complete", "validation_incomplete"}
  THEN Plain("stop")
  ELSE IF lastOutcome = "explore_blocked" \/ iter + 1 >= MaxIterations THEN Plain("synthesize")
  ELSE Explorations({Instruction})

\* RuleBasedTaskPlannerService.decide, for an instruction that is not empty.
\* After a rejected answer the query is the context that the validation misses.
RuleDecisions ==
  IF lastOutcome \in {"synthesize_completed", "validation_complete"} THEN Plain("stop")
  ELSE IF lastOutcome = "validation_incomplete"
  THEN IF PendingWork THEN Plain("act") ELSE Explorations(Queries)
  ELSE IF lastOutcome = "explore_blocked" \/ iter + 1 >= MaxIterations THEN Plain("synthesize")
  ELSE Explorations({Instruction})

\* _resolve_decision: the planner's own decision, or the rules'.
Resolved ==
  IF Authoritative THEN RuleDecisions
  ELSE {[type |-> plan.decision, query |-> plan.query]}

\* While the last answer stands rejected, synthesize becomes explore.
Decisions ==
  IF blocked /\ \E d \in Resolved : d.type = "synthesize"
  THEN Explorations(Queries)
  ELSE Resolved

\* The head of an iteration: reading the last outcome deletes it.
Decide(d, outcomeAfter) ==
  /\ ctl = "decide"
  /\ d \in Decisions
  /\ iter' = IF iter <= MaxIterations THEN iter + 1 ELSE MaxIterations
  /\ lastOutcome' = outcomeAfter

Stop ==
  /\ \E d \in Decisions : d.type = "stop" /\ Decide(d, "")
  /\ End("stopped")
  /\ UNCHANGED <<executorVars, nextPlan, plannerCalls, subs, gates, lastQuery, blocked, rounds,
                 reached, rejected>>

\* What an answer can rest on: the explorations of the run and the completed tasks.
Evidence == [subs |-> subs, done |-> persistent]

\* Synthesize an answer and have it validated, unless MaxRounds have been spent.
SynthesizeAnswer ==
  /\ \E d \in Decisions, o \in LoopOutcome :
       /\ d.type = "synthesize"
       /\ Decide(d, o)
       /\ IF ~AnswersValidated
          THEN /\ o = "synthesize_completed"
               /\ UNCHANGED <<blocked, rounds>>
          ELSE IF rounds >= MaxRounds
          THEN /\ o = "synthesize_completed"
               /\ blocked' = FALSE
               /\ UNCHANGED rounds
          ELSE /\ \/ o = "validation_complete" /\ blocked' = FALSE
                  \/ o = "validation_incomplete" /\ blocked' = TRUE
               /\ rounds' = rounds + 1
       /\ rejected' = IF o = "validation_incomplete" THEN rejected \cup {Evidence} ELSE rejected
  /\ UNCHANGED <<executorVars, nextPlan, ctl, plan, plannerCalls, subs, gates, lastQuery,
                 ending, reached>>

ExploreBlocked_NoLimit(q) == ~gates \/ q = lastQuery

\* The three tests, in the order of the code; all end the same way.
ExploreBlocked(q) == subs >= MaxSubExplorations \/ ~gates \/ q = lastQuery

\* An exploration that is not allowed: the planner is asked for something else,
\* without the current plan; in the authoritative loop the rules decide.
RefuseExploration ==
  /\ \E d \in Decisions :
       d.type = "explore" /\ ExploreBlocked(d.query) /\ Decide(d, "explore_blocked")
  /\ IF Authoritative
     THEN UNCHANGED <<ctl, plan, ending, plannerCalls, nextPlan>>
     ELSE Replan({})
  /\ UNCHANGED <<executorVars, subs, gates, lastQuery, blocked, rounds, reached, rejected>>

\* Explore, then plan with what was found.  The exploration may raise.
Explore ==
  \E d \in Decisions :
    /\ d.type = "explore"
    /\ ~ExploreBlocked(d.query)
    /\ Decide(d, "")
    /\ blocked' = FALSE
    /\ \/ /\ End("raised")
          /\ UNCHANGED <<plannerCalls, nextPlan, subs, gates, lastQuery>>
       \/ /\ gates' \in BOOLEAN
          /\ lastQuery' = d.query
          /\ subs' = subs + 1
          /\ Replan(plan.steps)
    /\ UNCHANGED <<executorVars, rounds, reached, rejected>>

\* The planner asked to be asked again.  The fingerprint of the merged plan
\* covers its fresh plan_id, so "replan_no_progress" is never noticed.
ReplanDecided ==
  /\ \E d \in Decisions : d.type = "replan" /\ Decide(d, "")
  /\ Replan({})
  /\ UNCHANGED <<executorVars, subs, gates, lastQuery, blocked, rounds, reached, rejected>>

\* act: the call of run_one_step.
CallExecutor ==
  /\ \E d \in Decisions : d.type = "act" /\ Decide(d, "")
  /\ EnsureTasks(Doc(plan))
  /\ ctl' = "act"
  /\ UNCHANGED <<nextPlan, plan, plannerCalls, subs, gates, lastQuery, blocked, rounds,
                 ending, reached, rejected>>

------------------------------------------------------------------------------
\* While and after the call.

Count(f, p) ==
  [q \in DOMAIN f \cup {p} |-> IF q \notin DOMAIN f THEN 1 ELSE IF q = p THEN f[q] + 1 ELSE f[q]]

Execute ==
  /\ ctl = "act"
  /\ ExecutorStep
  /\ reached' = IF sent' # sent /\ doc.tool[cur] \in NonRetryable
                THEN Count(reached, plan.from[cur]) ELSE reached
  /\ UNCHANGED <<loopVars, rejected>>

Returned == ctl = "act" /\ phase = "idle"

AfterFailedTask_Unblocks ==
  /\ Returned
  /\ outcome = "failed_step"
  /\ blocked' = FALSE
  /\ Replan({})
  /\ UNCHANGED <<executorVars, subs, iter, gates, lastQuery, lastOutcome, rounds,
                 reached, rejected>>

\* A failed task: a corrective plan is asked for without the current plan.
AfterFailedTask ==
  /\ Returned
  /\ outcome = "failed_step"
  /\ Replan({})
  /\ UNCHANGED <<executorVars, subs, iter, gates, lastQuery, lastOutcome, blocked, rounds,
                 reached, rejected>>

\* A completed task, and more to do: the plan is refreshed.
AfterProgress ==
  /\ Returned
  /\ outcome = "progress"
  /\ blocked' = FALSE
  /\ Replan(plan.steps)
  /\ UNCHANGED <<executorVars, subs, iter, gates, lastQuery, lastOutcome, rounds,
                 reached, rejected>>

\* All tasks completed, no task can be started, or an exception.
AfterLastTask ==
  /\ Returned
  /\ outcome \in {"success", "failed", "raised"}
  /\ End(outcome)
  /\ blocked' = IF outcome = "success" THEN FALSE ELSE blocked
  /\ UNCHANGED <<executorVars, nextPlan, plannerCalls, subs, iter, gates, lastQuery,
                 lastOutcome, rounds, reached, rejected>>

ControllerStep ==
  \/ Bootstrap
  \/ Stop \/ SynthesizeAnswer \/ RefuseExploration \/ Explore \/ ReplanDecided \/ CallExecutor
  \/ Execute
  \/ AfterFailedTask \/ AfterProgress \/ AfterLastTask

CNext ==
  \/ ControllerStep
  \/ \E safe \in BOOLEAN : NewTurn(safe)

\* Weak fairness of the loop, a Python loop that keeps running; a user need not
\* give another instruction.
CSpec == CInit /\ [][CNext]_cvars /\ WF_cvars(ControllerStep)

------------------------------------------------------------------------------
\* Properties.

\* The variables of the loop have their types, and the answer is validated at
\* most MaxRounds times in a run.
CTypeOK ==
  /\ ctl \in {"bootstrap", "decide", "act", "ended"}
  /\ plan \in PlanDocument
  /\ plannerCalls \in 0 .. MaxPlannerCalls
  /\ subs \in 0 .. MaxSubExplorations
  /\ iter \in 0 .. MaxIterations + 1
  /\ gates \in BOOLEAN
  /\ lastQuery \in Queries
  /\ lastOutcome \in LoopOutcome
  /\ blocked \in BOOLEAN
  /\ rounds \in 0 .. MaxRounds
  /\ ending \in Ending

\* The executor runs the plan the loop holds, never tasks compiled from a plan
\* that has been replaced: _ensure_tasks compares plan ids, so this rests on
\* every merged plan keeping the fresh id of the new plan.
ExecutorFollowsPlan ==
  ctl = "act" => doc = Doc(plan)

\* In a run the planner is never called more often than its budget, and the
\* tools never more often than the planner's plans pay for: one task, with its
\* retries, per plan.
WorkBounded ==
  /\ plannerCalls <= MaxPlannerCalls
  /\ calls <= plannerCalls * MaxAttempts

\* An edit or a shell step is given to its tool at most once, over all plans it
\* is carried through, replans after failures and later runs.
StepReachesToolOnce == \A p \in DOMAIN reached : reached[p] <= 1

\* A rejected answer does not end the run as "stopped".
RejectedAnswerNeverStops == ending = "stopped" => ~blocked

\* However often the plan is replaced in a run, the steps of it that were
\* completed stay in it as they were (validate_completed_steps_immutable).
CompletedKept ==
  [][ctl' # "bootstrap" /\ ctl # "bootstrap" =>
       \A s \in plan.steps \cap persistent :
         /\ s \in plan'.steps
         /\ plan'.tool[s] = plan.tool[s]
         /\ plan'.from[s] = plan.from[s]]_cvars

\* No answer is synthesized from what a rejected answer of the same run rested on:
\* an exploration has come back or a task has been completed since.  The loop knows
\* only its flag, which it sets and clears on several paths.
NoBlindResynthesis == [][SynthesizeAnswer => Evidence \notin rejected]_cvars

\* Every run ends, however tools fail and whatever the planner answers.
LoopEnds == ctl # "ended" ~> ctl = "ended"

\* The inductive invariant.  A plan is executed at most once, so that while a
\* decision is pending nothing has been spent on the last planner call, and a
\* step that is not completed is one that call wrote; the plan_id under which
\* an edit or shell step was sent is that of an earlier plan, or the step is
\* the one the executor has loaded and sent.
WorkPaid ==
  /\ ctl = "bootstrap" => calls = 0
  /\ ctl = "decide" => plannerCalls > 0 /\ calls <= (plannerCalls - 1) * MaxAttempts
  /\ phase = "select" => plannerCalls > 0 /\ calls <= (plannerCalls - 1) * MaxAttempts
  /\ phase = "attempt" =>
       plannerCalls > 0 /\ calls <= (plannerCalls - 1) * MaxAttempts + attempts[cur]

PlanWellFormed ==
  /\ plan.pid < nextPlan
  /\ plan.steps \subseteq 1 .. 2 * plannerCalls
  /\ \A s \in plan.steps \ persistent : plan.from[s] = plan.pid
  /\ \A s, t \in plan.steps \ persistent :
       plan.tool[s] # "finish" /\ plan.tool[t] # "finish" => s = t

LoadedPlan ==
  /\ phase # "idle" => ctl = "act"
  /\ doc.pid # NoPlan /\ doc.pid = plan.pid => doc = Doc(plan)
  /\ ctl = "decide" => doc.pid # plan.pid /\ plan.pid # NoPlan

SendsCounted ==
  /\ \A p \in DOMAIN reached : p \in Nat /\ p < nextPlan
  /\ \A s \in plan.steps \ persistent :
       plan.tool[s] \in NonRetryable /\ plan.pid \in DOMAIN reached =>
         doc = Doc(plan) /\ sent[s] >= 1

AnswersKnown ==
  /\ blocked => Authoritative /\ AnswersValidated
  /\ blocked => lastOutcome \notin {"synthesize_completed", "validation_complete"}
  /\ ending # "none" => ctl = "ended"

\* What rejected answers rested on is never more than there is, and it is less
\* whenever the flag allows an answer.
RejectedOnLess ==
  /\ \A e \in rejected : e.subs \in 0 .. subs /\ e.done \subseteq persistent
  /\ ctl # "ended" /\ ~blocked => Evidence \notin rejected
  /\ ctl = "act" /\ outcome = "progress" => Evidence \notin rejected

CInv ==
  /\ IInv /\ CTypeOK /\ ExecutorFollowsPlan /\ WorkBounded /\ StepReachesToolOnce
  /\ RejectedAnswerNeverStops
  /\ WorkPaid /\ PlanWellFormed /\ LoadedPlan /\ SendsCounted /\ AnswersKnown
  /\ RejectedOnLess

------------------------------------------------------------------------------
\* What tests or documents say of the program and the code does not keep.

\* "new work steps must not reuse completed step_ids": a plan to act contains
\* the work step that the planner wrote for it.
CorrectiveWorkKept ==
  ctl = "decide" /\ plan.decision = "act" =>
    \E s \in plan.steps : plan.from[s] = plan.pid /\ plan.tool[s] # "finish"
==============================================================================
