---------------------------- MODULE MCDagScheduler ----------------------------
(* Plans for TLC: a chain, one whose ids do not follow the dependencies, and  *)
(* one with a shell step, which this path cannot run.                         *)
EXTENDS DagScheduler

MCStepIds == 1 .. 3

Body(tools, deps) ==
  [steps |-> DOMAIN tools,
   tool  |-> [s \in MCStepIds |-> IF s \in DOMAIN tools THEN tools[s] ELSE "finish"],
   deps  |-> [s \in MCStepIds |-> IF s \in DOMAIN tools THEN deps[s] ELSE {}]]

Chain == <<{}, {1}, {2}>>
\* s1 waits for s2, s3 for both: dependencies need not follow the ids
Inverted == <<{2}, {}, {1, 2}>>

MCPlanBodies ==
  {Body(<<"search", "finish">>, Chain),
   Body(<<"open_file", "edit", "finish">>, Inverted),
   Body(<<"search", "shell", "finish">>, Chain)}
==============================================================================
