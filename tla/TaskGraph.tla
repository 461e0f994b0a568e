------------------------------ MODULE TaskGraph ------------------------------
(***************************************************************************)
(* What the step executor of agent_v2 promises to whoever hands it plans:  *)
(* a graph of tasks is loaded, a task is started only when everything it   *)
(* depends on is completed, a started task completes, fails or is put back *)
(* for another try, and what has completed once is never started again as  *)
(* long as the executor remembers it, whatever graphs are loaded later.    *)
(*                                                                         *)
(* The module is the abstract side of a refinement: it has no attempts, no *)
(* dispatch budget, no error types and no plan identities.                 *)
(***************************************************************************)
EXTENDS Naturals

CONSTANT StepIds          \* every task id a graph can use

VARIABLES
  steps,                  \* the ids of the loaded graph
  deps,                   \* the dependencies of each of them
  st,                     \* the state of each task
  done                    \* the ids that are remembered as completed

tgVars == <<steps, deps, st, done>>

TaskState == {"absent", "pending", "running", "completed", "failed"}

Init ==
  /\ steps = {}
  /\ deps = [s \in StepIds |-> {}]
  /\ st = [s \in StepIds |-> "absent"]
  /\ done = {}

\* A new graph replaces the old one; remembered completions carry over.
Load(S, D) ==
  /\ steps' = S
  /\ deps' = D
  /\ st' = [s \in StepIds |-> IF s \notin S THEN "absent"
                              ELSE IF s \in done THEN "completed" ELSE "pending"]
  /\ UNCHANGED done

\* Everything is forgotten, completions included.
Reset ==
  /\ steps' = {}
  /\ deps' = [s \in StepIds |-> {}]
  /\ st' = [s \in StepIds |-> "absent"]
  /\ done' = {}

Start(s) ==
  /\ st[s] = "pending"
  /\ \A d \in deps[s] : st[d] = "completed"
  /\ st' = [st EXCEPT ![s] = "running"]
  /\ UNCHANGED <<steps, deps, done>>

Complete(s) ==
  /\ st[s] = "running"
  /\ st' = [st EXCEPT ![s] = "completed"]
  /\ done' = done \cup {s}
  /\ UNCHANGED <<steps, deps>>

Fail(s) ==
  /\ st[s] = "running"
  /\ st' = [st EXCEPT ![s] = "failed"]
  /\ UNCHANGED <<steps, deps, done>>

PutBack(s) ==
  /\ st[s] = "running"
  /\ st' = [st EXCEPT ![s] = "pending"]
  /\ UNCHANGED <<steps, deps, done>>

Next ==
  \/ \E S \in SUBSET StepIds, D \in [StepIds -> SUBSET StepIds] : Load(S, D)
  \/ Reset
  \/ \E s \in StepIds : Start(s) \/ Complete(s) \/ Fail(s) \/ PutBack(s)

Spec == Init /\ [][Next]_tgVars
==============================================================================
