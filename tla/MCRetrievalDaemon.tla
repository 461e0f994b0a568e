---- MODULE MCRetrievalDaemon ----
(***************************************************************************)
(* Three daemon processes and two agents: a start that loses the race, one *)
(* that comes while another stops, and one after a crash.                  *)
(***************************************************************************)
EXTENDS RetrievalDaemon

CONSTANTS p1, p2, p3, a1, a2

MCProcs == {p1, p2, p3}
MCAgents == {a1, a2}
====
