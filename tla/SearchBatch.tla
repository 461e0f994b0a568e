----------------------------- MODULE SearchBatch -----------------------------
(***************************************************************************)
(* The searches of one discovery (exploration_engine_v2.py, _discovery):   *)
(* three channels, symbols, regular expressions and text, each a task of   *)
(* one thread pool, each a call of Dispatcher.search_batch (dispatcher.py),*)
(* which searches its queries at once or, failing that, one by one in a    *)
(* pool of its own.  The handler behind the dispatcher is _dispatch_react  *)
(* (agent/execution/step_dispatcher.py) with the search tools of           *)
(* react_tools.py.                                                         *)
(*                                                                         *)
(* All channels share the context of one state.  A search of its own works *)
(* on a deep copy of it, made by its thread; the search of all queries at  *)
(* once works on the context itself, and adds keys to it.  Copying a       *)
(* dictionary raises when a key is added meanwhile.                        *)
(*                                                                         *)
(* The retrieval itself is external: it answers or fails.                  *)
(***************************************************************************)
EXTENDS Naturals, Sequences, FiniteSets

CONSTANTS
  Query, Blank,   \* queries, one of which is empty
  Discoveries,    \* the queries a discovery may have: a sequence for each channel
  MultiOn,        \* RETRIEVAL_V2_MULTI_SEARCH
  Pool,           \* DISCOVERY_QUERY_POOL_MAX_WORKERS
  Workers         \* DISCOVERY_SEARCH_BATCH_MAX_WORKERS

Channel == 1 .. 3   \* symbol, regex, text: in the order they are submitted

ASSUME QueriesAssumption ==
  Blank \in Query /\ Discoveries \subseteq [Channel -> Seq(Query)]
ASSUME PoolsAssumption == MultiOn \in BOOLEAN /\ Pool \in Nat \ {0} /\ Workers \in Nat \ {0}

\* What is added to the context of the state: shell, editor and browser by the
\* first call of the dispatcher, and the trace of the retrieval.
ContextKey == {"primitives", "trace"}

Result == [query : Query, ok : BOOLEAN]
NoQuery == "no query"
NoResult == [query |-> NoQuery, ok |-> FALSE]
ASSUME NamesAssumption == NoQuery \notin Query

VARIABLES
  phase,     \* searching, returned, raised
  queries,   \* of each channel
  chan,      \* where each channel is
  job,       \* where each of its single searches is
  seen,      \* the keys each of them found when its copy began
  out,       \* out of search_batch
  keys,      \* the keys added to the shared context
  atOnce     \* observer: channels whose search of all queries succeeded

jobVars == <<job, seen, out>>
vars == <<phase, queries, chan, jobVars, keys, atOnce>>

ChannelState == {"waiting", "multi", "retrieving", "singles", "returned", "raised"}
JobState == {"none", "queued", "copying", "searching", "done", "raised"}

Index(c) == 1 .. Len(queries[c])
Every(c, x) == [i \in Index(c) |-> x]

Init ==
  /\ phase = "searching"
  /\ queries \in Discoveries
  /\ chan = [c \in Channel |-> "waiting"]
  /\ job = [c \in Channel |-> Every(c, "none")]
  /\ seen = [c \in Channel |-> Every(c, {})]
  /\ out = [c \in Channel |-> Every(c, NoResult)]
  /\ keys \in SUBSET ContextKey
  /\ atOnce = {}

------------------------------------------------------------------------------
\* A channel.

Ended(c) == chan[c] \in {"returned", "raised"}
Active == {c \in Channel : chan[c] \notin {"waiting", "returned", "raised"}}

ChannelTo(c, s) == chan' = [chan EXCEPT ![c] = s]
Submit(c) == job' = [job EXCEPT ![c] = Every(c, "queued")]

\* _collect_pairs and the head of search_batch.
Start(c) ==
  /\ chan[c] = "waiting" /\ Cardinality(Active) < Pool
  /\ \A d \in 1 .. c - 1 : chan[d] # "waiting"
  /\ \/ queries[c] = <<>> /\ ChannelTo(c, "returned") /\ UNCHANGED job
     \/ MultiOn /\ Len(queries[c]) > 1 /\ ChannelTo(c, "multi") /\ UNCHANGED job
     \/ /\ queries[c] # <<>> /\ ~(MultiOn /\ Len(queries[c]) > 1)
        /\ ChannelTo(c, "singles") /\ Submit(c)
  /\ UNCHANGED <<phase, queries, seen, out, keys, atOnce>>

\* execute() of search_multi, on the shared state.
BeginMulti(c) ==
  /\ chan[c] = "multi"
  /\ ChannelTo(c, "retrieving")
  /\ keys' = keys \cup {"primitives"}
  /\ UNCHANGED <<phase, queries, jobVars, atOnce>>

NotBlank(q) == q # Blank

\* The handler retrieves all queries that are not empty and returns a list of
\* payloads; an exception becomes a failed result.  _dispatch_react makes one
\* result of whatever the handler returns, and of a list a failed one, so that
\* search_batch never gets the list it looks for and searches one by one.
Multi(c) ==
  /\ chan[c] = "retrieving"
  /\ \/ /\ \E i \in Index(c) : NotBlank(queries[c][i])
        /\ keys' = keys \cup {"trace"}
        /\ atOnce' \in {atOnce, atOnce \cup {c}}
     \/ UNCHANGED <<keys, atOnce>>
  /\ ChannelTo(c, "singles") /\ Submit(c)
  /\ UNCHANGED <<phase, queries, seen, out>>

------------------------------------------------------------------------------
\* A single search: _run_index.

JobTo(c, i, s) == job' = [job EXCEPT ![c][i] = s]
Busy(c) == {i \in Index(c) : job[c][i] \in {"copying", "searching"}}

\* A worker takes the next search and begins to copy the context.
BeginCopy(c, i) ==
  /\ job[c][i] = "queued" /\ Cardinality(Busy(c)) < Workers
  /\ \A j \in 1 .. i - 1 : job[c][j] # "queued"
  /\ JobTo(c, i, "copying")
  /\ seen' = [seen EXCEPT ![c][i] = keys]
  /\ UNCHANGED <<phase, queries, chan, out, keys, atOnce>>

\* "dictionary changed size during iteration".
EndCopy(c, i) ==
  /\ job[c][i] = "copying"
  /\ JobTo(c, i, IF keys = seen[c][i] THEN "searching" ELSE "raised")
  /\ UNCHANGED <<phase, queries, chan, seen, out, keys, atOnce>>

KeysAfterSearch_Shared == keys \cup {"primitives", "trace"}
\* A single search adds its keys to its own copy.
KeysAfterSearch == keys

Slot_Arrival(c, i) == Cardinality({j \in Index(c) : out[c][j] # NoResult}) + 1
\* A result has the place of its query, whenever it comes.
Slot(c, i) == i

\* An empty query is refused; any exception becomes a failed result.
Search(c, i) ==
  /\ job[c][i] = "searching"
  /\ \E ok \in BOOLEAN :
       /\ ok => NotBlank(queries[c][i])
       /\ out' = [out EXCEPT ![c][Slot(c, i)] = [query |-> queries[c][i], ok |-> ok]]
  /\ JobTo(c, i, "done")
  /\ keys' = KeysAfterSearch
  /\ UNCHANGED <<phase, queries, chan, seen, atOnce>>

AllJobsEnded_OrOneRaised(c) ==
  \/ \E i \in Index(c) : job[c][i] = "raised"
  \/ \A i \in Index(c) : job[c][i] = "done"
\* Leaving the pool waits for every search, also when one has raised.
AllJobsEnded(c) == \A i \in Index(c) : job[c][i] \in {"done", "raised"}

EndBatch(c) ==
  /\ chan[c] = "singles" /\ AllJobsEnded(c)
  /\ ChannelTo(c, IF \E i \in Index(c) : job[c][i] = "raised" THEN "raised" ELSE "returned")
  /\ UNCHANGED <<phase, queries, jobVars, keys, atOnce>>

------------------------------------------------------------------------------
\* Leaving the outer pool waits for the channels; one that raised discards all.
EndDiscovery ==
  /\ phase = "searching" /\ \A c \in Channel : Ended(c)
  /\ phase' = IF \E c \in Channel : chan[c] = "raised" THEN "raised" ELSE "returned"
  /\ UNCHANGED <<queries, chan, jobVars, keys, atOnce>>

ChannelStep(c) ==
  \/ Start(c) \/ BeginMulti(c) \/ Multi(c) \/ EndBatch(c)
  \/ \E i \in Index(c) : BeginCopy(c, i) \/ EndCopy(c, i) \/ Search(c, i)

\* Nothing follows the end, so that TLC's search for deadlocks shows that every
\* discovery can get there.
Over == phase # "searching" /\ UNCHANGED vars

Next == EndDiscovery \/ Over \/ \E c \in Channel : ChannelStep(c)

Spec == Init /\ [][Next]_vars

------------------------------------------------------------------------------
\* Properties.

TypeOK ==
  /\ phase \in {"searching", "returned", "raised"}
  /\ queries \in [Channel -> Seq(Query)]
  /\ chan \in [Channel -> ChannelState]
  /\ job \in [Channel -> Seq(JobState)]
  /\ seen \in [Channel -> Seq(SUBSET ContextKey)]
  /\ out \in [Channel -> Seq(Result \cup {NoResult})]
  /\ \A c \in Channel : /\ Len(job[c]) = Len(queries[c])
                        /\ Len(seen[c]) = Len(queries[c])
                        /\ Len(out[c]) = Len(queries[c])
  /\ keys \in SUBSET ContextKey /\ atOnce \in SUBSET Channel

\* A discovery that returns has, in every channel, the answer to each query at the
\* place of the query, in whatever order the threads of the two pools finish: the
\* engine zips queries and results and never looks which belong together.
ResultsInOrder ==
  phase = "returned" =>
    \A c \in Channel : \A i \in Index(c) :
      out[c][i] # NoResult /\ out[c][i].query = queries[c][i]

\* Once a discovery has returned or raised, none of its searches goes on beside
\* what the engine does next.
NoSearchOutlives ==
  phase # "searching" =>
    \A c \in Channel : \A i \in Index(c) : job[c][i] \notin {"queued", "copying", "searching"}

\* A copy is only disturbed by a search of all queries in another channel: with
\* that switched off, or with one query a channel, no discovery is lost.
RaisesOnlyBesideMulti ==
  \A c \in Channel : chan[c] = "raised" =>
    \E d \in Channel \ {c} : MultiOn /\ Len(queries[d]) > 1

\* "assert isinstance(res, list)" (tests/retrieval/test_retrieve_v2_multi.py, of the
\* dispatcher with _dispatch_react and search_multi): a channel whose queries were
\* retrieved all at once does not search them one by one.
AtOnceSuffices == \A c \in atOnce : chan[c] # "singles"
==============================================================================
