---- MODULE MCSearchBatch ----
(***************************************************************************)
(* Two, one and two queries; one query in each channel; three queries that *)
(* share a pool of two, one of them empty, beside a channel without any.   *)
(***************************************************************************)
EXTENDS SearchBatch

CONSTANTS q1, q2, q3, blank

MCQuery == {q1, q2, q3, blank}
MCDiscoveries == { << <<q1, q2>>, <<q3>>, <<q2, q1>> >>,
                   << <<q1>>, <<q2>>, <<q3>> >>,
                   << <<q1, blank, q2>>, <<>>, <<q3>> >>,
                   << <<blank, blank>>, <<>>, <<q1>> >> }
====
