--------------------------- MODULE MCActController ---------------------------
(* Runs with up to three planner calls: ids s1 to s6.  No document is handed  *)
(* to the executor but by the loop.                                           *)
EXTENDS ActController

MCStepIds == 1 .. 2 * MaxPlannerCalls
NoBodies == {}
==============================================================================
