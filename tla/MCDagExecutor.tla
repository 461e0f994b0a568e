---------------------------- MODULE MCDagExecutor ----------------------------
(* Small plans for TLC: three step ids, plans with a chain, with a fork, with *)
(* a step of each kind the retry policy tells apart, and a corrective plan    *)
(* that reuses the id of an earlier step.                                     *)
EXTENDS DagExecutor

MCStepIds == 1 .. 3

Body(tools, deps) ==
  [steps |-> DOMAIN tools,
   tool  |-> [s \in MCStepIds |-> IF s \in DOMAIN tools THEN tools[s] ELSE "finish"],
   deps  |-> [s \in MCStepIds |-> IF s \in DOMAIN tools THEN deps[s] ELSE {}]]

\* s1 <- s2 <- s3
Chain == <<{}, {1}, {2}>>
\* s1 <- s2, s1 <- s3
Fork == <<{}, {1}, {1}>>

\* With the table: reads, a search before an edit, a shell beside an edit.
MCPlanBodies ==
  {Body(<<"open_file", "finish">>, Chain),
   Body(<<"search", "edit", "finish">>, Chain),
   Body(<<"edit", "shell", "finish">>, Fork)}

\* As the code is: nothing but shell and finish gets past the table.
MCAsIsPlanBodies ==
  {Body(<<"shell", "finish">>, Chain),
   Body(<<"shell", "search", "finish">>, Chain),
   Body(<<"edit", "shell", "finish">>, Fork)}
==============================================================================
