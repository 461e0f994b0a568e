---- MODULE MCRerankCache ----
(***************************************************************************)
(* Two threads, four pairs and a cache of two: a request of two pairs fits *)
(* and fills it, two such requests together overflow it, and one of three  *)
(* pairs overflows it alone.                                               *)
(***************************************************************************)
EXTENDS RerankCache

CONSTANTS t1, t2, k1, k2, k3, k4

MCThreads == {t1, t2}
MCKeys == {k1, k2, k3, k4}

\* Slots of two documents are scored, of one or none not; three are too many.
MCBatches == { << <<k1, k2>>, <<k4>> >>,
               << <<>>, <<k2, k3>> >>,
               << <<k3, k3>>, <<k4, k1>> >>,
               <<>>,
               << <<k1>>, <<k2>>, <<k3>> >> }
====
