----------------------------- MODULE RerankCache -----------------------------
(***************************************************************************)
(* The score cache of the reranker (agent/retrieval/reranker/cache.py) and *)
(* the threads that share it: POST /rerank/batch of scripts/               *)
(* retrieval_daemon.py is a plain function, which the web framework runs   *)
(* in a pool of threads, and each call goes through rerank_batch           *)
(* (base_reranker.py): look every pair up, score the misses with one call  *)
(* of the model, store the scores, then look every pair up again.          *)
(*                                                                         *)
(* Every cache operation holds the lock of the cache and is one step here; *)
(* the pairs are looked up one by one, so that other threads evict between *)
(* the passes.  A pair (query, document) is a key; a score is a function   *)
(* of its key and left out.                                                *)
(***************************************************************************)
EXTENDS Naturals, Sequences, FiniteSets

CONSTANTS
  Threads,        \* worker threads
  Keys,           \* cache keys: hashes of (query, document)
  Capacity,       \* RERANK_CACHE_SIZE
  MinCandidates,  \* RERANK_MIN_CANDIDATES
  MaxSlots,       \* RETRIEVAL_DAEMON_RERANK_BATCH_MAX_SLOTS
  Batches,        \* the bodies of requests: a sequence of slots, each the
                  \* sequence of the keys of its documents
  MaxBatches      \* bound: requests served

ASSUME BatchesAssumption == Batches \subseteq Seq(Seq(Keys))
ASSUME KeysAssumption == IsFiniteSet(Keys)
ASSUME LimitsAssumption ==
  Capacity \in Nat /\ MinCandidates \in Nat /\ MaxSlots \in Nat /\ MaxBatches \in Nat

NoThread == "no thread"
ASSUME ThreadsAssumption == NoThread \notin Threads

VARIABLES
  cached,     \* keys of _cache
  order,      \* _order: least recently used first
  model,      \* is _reranker_model set?
  loader,     \* holder of _reranker_lock
  pc,         \* where each thread is
  batch,      \* the request it serves
  slot, doc,  \* the pair it has come to
  misses,     \* keys of miss_ref
  idx,        \* the next of them to store
  answer,     \* how its last request ended
  held,       \* observer: keys the request has found or stored
  touched,    \* observer: keys promoted or stored by anyone since it began
  loads,      \* observer: models built
  begun       \* observer: requests begun

cacheVars == <<cached, order>>
modelVars == <<model, loader, loads>>
threadVars == <<batch, slot, doc, misses, idx>>
vars == <<cacheVars, modelVars, threadVars, pc, answer, held, touched, begun>>

PCs == {"idle", "ensure", "lock", "load", "lookup", "score", "store", "collect"}
Answers == {"none", "scores", "refused", "no_model", "model_raised", "evicted", "index_error"}

Init ==
  /\ cached = {} /\ order = <<>>
  /\ model = FALSE /\ loader = NoThread /\ loads = 0
  /\ pc = [t \in Threads |-> "idle"]
  /\ batch = [t \in Threads |-> <<>>]
  /\ slot = [t \in Threads |-> 1] /\ doc = [t \in Threads |-> 1]
  /\ misses = [t \in Threads |-> <<>>] /\ idx = [t \in Threads |-> 1]
  /\ answer = [t \in Threads |-> "none"]
  /\ held = [t \in Threads |-> {}] /\ touched = [t \in Threads |-> {}]
  /\ begun = 0

------------------------------------------------------------------------------
\* The cache.

\* The sequence s without its element k.
Without(s, k) ==
  LET p == CHOOSE i \in DOMAIN s : s[i] = k
  IN  [i \in 1 .. Len(s) - 1 |-> IF i < p THEN s[i] ELSE s[i + 1]]

\* A key is used: everyone who is at work notes it.
Touch(k) == touched' = [t \in Threads |-> IF pc[t] = "idle" THEN touched[t]
                                          ELSE touched[t] \cup {k}]

Promoted_Never(k) == order
\* cache_get promotes a key to the most recently used.
Promoted(k) == Append(Without(order, k), k)

Hit(k) == /\ order' = Promoted(k)
          /\ UNCHANGED cached
          /\ Touch(k)

Evicted_OrderOnly == {}
\* The least recently used key goes from the dictionary and from the list.
Evicted == {Head(order)}

\* cache_set: a new key evicts the least recently used one of a full cache.
\* With a capacity of 0 there is none, and pop raises.
StoreRaises(k) == k \notin cached /\ Cardinality(cached) >= Capacity /\ order = <<>>
Store(k) ==
  /\ ~StoreRaises(k)
  /\ IF k \in cached
       THEN cached' = cached /\ order' = Append(Without(order, k), k)
     ELSE IF Cardinality(cached) >= Capacity
       THEN /\ cached' = (cached \ Evicted) \cup {k}
            /\ order' = Append(Tail(order), k)
     ELSE cached' = cached \cup {k} /\ order' = Append(order, k)
  /\ Touch(k)

------------------------------------------------------------------------------
\* The endpoint.

Goto(t, l) == pc' = [pc EXCEPT ![t] = l]

Answer(t, a) == /\ Goto(t, "idle")
                /\ answer' = [answer EXCEPT ![t] = a]

\* rerank_batch_endpoint: too many slots are refused.
Begin(t) ==
  /\ pc[t] = "idle" /\ begun < MaxBatches
  /\ \E b \in Batches :
       /\ batch' = [batch EXCEPT ![t] = b]
       /\ IF Len(b) > MaxSlots THEN Answer(t, "refused")
          ELSE IF b = <<>> THEN Answer(t, "scores")
          ELSE Goto(t, "ensure") /\ UNCHANGED answer
  /\ slot' = [slot EXCEPT ![t] = 1] /\ doc' = [doc EXCEPT ![t] = 1]
  /\ misses' = [misses EXCEPT ![t] = <<>>] /\ idx' = [idx EXCEPT ![t] = 1]
  /\ held' = [held EXCEPT ![t] = {}] /\ touched' = [touched EXCEPT ![t] = {}]
  /\ begun' = begun + 1
  /\ UNCHANGED <<cacheVars, modelVars>>

\* _ensure_reranker: a test without the lock,
EnsureModel(t) ==
  /\ pc[t] = "ensure"
  /\ Goto(t, IF model THEN "lookup" ELSE "lock")
  /\ UNCHANGED <<cacheVars, modelVars, threadVars, answer, held, touched, begun>>

AfterLock_NoSecondTest == "load"
\* ... the lock, and the test again,
AfterLock == IF model THEN "lookup" ELSE "load"

TakeLock(t) ==
  /\ pc[t] = "lock" /\ loader = NoThread
  /\ Goto(t, AfterLock)
  /\ loader' = IF AfterLock = "load" THEN t ELSE NoThread
  /\ UNCHANGED <<cacheVars, model, loads, threadVars, answer, held, touched, begun>>

LockAfterFailure_Kept == loader
\* The lock is released however the load ends,
LockAfterFailure == NoThread

\* ... and the model is built, or cannot be.
LoadModel(t) ==
  /\ pc[t] = "load"
  /\ \/ /\ model' = TRUE /\ loads' = loads + 1 /\ loader' = NoThread
        /\ Goto(t, "lookup") /\ UNCHANGED answer
     \/ /\ UNCHANGED <<model, loads>> /\ loader' = LockAfterFailure
        /\ Answer(t, "no_model")
  /\ UNCHANGED <<cacheVars, threadVars, held, touched, begun>>

------------------------------------------------------------------------------
\* rerank_batch.

\* The slots that are scored: those with fewer documents get the score 0.0.
Scored(b, s) == Len(b[s]) > 0 /\ Len(b[s]) >= MinCandidates

AtPair(t) == slot[t] <= Len(batch[t]) /\ Scored(batch[t], slot[t]) /\ doc[t] <= Len(batch[t][slot[t]])
Key(t) == batch[t][slot[t]][doc[t]]
NextDoc(t) == doc' = [doc EXCEPT ![t] = @ + 1] /\ UNCHANGED slot

\* The loops over the slots: a slot is done with, or is not scored.
NextSlot(t) ==
  /\ pc[t] \in {"lookup", "collect"}
  /\ slot[t] <= Len(batch[t]) /\ ~AtPair(t)
  /\ slot' = [slot EXCEPT ![t] = @ + 1] /\ doc' = [doc EXCEPT ![t] = 1]
  /\ UNCHANGED <<cacheVars, modelVars, batch, misses, idx, pc, answer, held, touched, begun>>

Lookup(t) ==
  /\ pc[t] = "lookup" /\ AtPair(t)
  /\ \/ /\ Key(t) \in cached
        /\ Hit(Key(t))
        /\ held' = [held EXCEPT ![t] = @ \cup {Key(t)}]
        /\ UNCHANGED misses
     \/ /\ Key(t) \notin cached
        /\ misses' = [misses EXCEPT ![t] = Append(@, Key(t))]
        /\ UNCHANGED <<cacheVars, held, touched>>
  /\ NextDoc(t)
  /\ UNCHANGED <<modelVars, batch, idx, pc, answer, begun>>

\* The second pass begins at the first pair.
Restart(t) == slot' = [slot EXCEPT ![t] = 1] /\ doc' = [doc EXCEPT ![t] = 1]

AllLookedUp(t) ==
  /\ pc[t] = "lookup" /\ slot[t] > Len(batch[t])
  /\ Goto(t, IF misses[t] = <<>> THEN "collect" ELSE "score")
  /\ Restart(t)
  /\ UNCHANGED <<cacheVars, modelVars, batch, misses, idx, answer, held, touched, begun>>

\* _score_pairs returns a score for each pair, or raises, or returns too few.
Score(t) ==
  /\ pc[t] = "score"
  /\ \/ Goto(t, "store") /\ UNCHANGED answer
     \/ Answer(t, "model_raised")
  /\ UNCHANGED <<cacheVars, modelVars, threadVars, held, touched, begun>>

StoreScore(t) ==
  /\ pc[t] = "store"
  /\ LET k == misses[t][idx[t]]
     IN  \/ /\ Store(k)
            /\ held' = [held EXCEPT ![t] = @ \cup {k}]
            /\ idx' = [idx EXCEPT ![t] = @ + 1]
            /\ Goto(t, IF idx[t] = Len(misses[t]) THEN "collect" ELSE "store")
            /\ UNCHANGED answer
         \/ /\ StoreRaises(k)
            /\ Answer(t, "index_error")
            /\ UNCHANGED <<cacheVars, held, touched, idx>>
  /\ UNCHANGED <<modelVars, batch, slot, doc, misses, begun>>

\* The second look: a pair that is gone fails the whole request.
Collect(t) ==
  /\ pc[t] = "collect" /\ AtPair(t)
  /\ \/ /\ Key(t) \in cached
        /\ Hit(Key(t))
        /\ NextDoc(t)
        /\ UNCHANGED <<pc, answer>>
     \/ /\ Key(t) \notin cached
        /\ Answer(t, "evicted")
        /\ UNCHANGED <<cacheVars, touched, slot, doc>>
  /\ UNCHANGED <<modelVars, batch, misses, idx, held, begun>>

AllCollected(t) ==
  /\ pc[t] = "collect" /\ slot[t] > Len(batch[t])
  /\ Answer(t, "scores")
  /\ UNCHANGED <<cacheVars, modelVars, threadVars, held, touched, begun>>

ThreadStep(t) ==
  \/ EnsureModel(t) \/ TakeLock(t) \/ LoadModel(t)
  \/ NextSlot(t) \/ Lookup(t) \/ AllLookedUp(t) \/ Score(t) \/ StoreScore(t)
  \/ Collect(t) \/ AllCollected(t)

Next == \E t \in Threads : Begin(t) \/ ThreadStep(t)

\* Weak fairness of each thread: the scheduler of the operating system runs it.
Spec == Init /\ [][Next]_vars /\ \A t \in Threads : WF_vars(ThreadStep(t))

------------------------------------------------------------------------------
\* Properties.

\* Every variable has its type, and the list of the cache names each of its
\* keys once: eviction never empties the one without the other, and the size
\* stays within the limit.
TypeOK ==
  /\ cached \in SUBSET Keys /\ order \in Seq(Keys)
  /\ {order[i] : i \in DOMAIN order} = cached
  /\ \A i, j \in DOMAIN order : order[i] = order[j] => i = j
  /\ Cardinality(cached) <= Capacity
  /\ model \in BOOLEAN /\ loader \in Threads \cup {NoThread} /\ loads \in Nat
  /\ pc \in [Threads -> PCs]
  /\ batch \in [Threads -> Seq(Seq(Keys))]
  /\ slot \in [Threads -> Nat \ {0}] /\ doc \in [Threads -> Nat \ {0}]
  /\ misses \in [Threads -> Seq(Keys)] /\ idx \in [Threads -> Nat \ {0}]
  /\ answer \in [Threads -> Answers]
  /\ held \in [Threads -> SUBSET Keys] /\ touched \in [Threads -> SUBSET Keys]
  /\ begun \in Nat

\* A request whose pairs were looked up and stored finds them again in the
\* second pass unless the threads together have used more pairs than the cache
\* holds since it began.  In particular a request alone, with no more pairs than
\* that, never fails, whatever the cache held before; and only a cache of size 0
\* has no entry to evict.
FailsOnlyUnderPressure ==
  \A t \in Threads : pc[t] = "idle" =>
    /\ answer[t] = "evicted" => Cardinality(touched[t]) > Capacity
    /\ answer[t] = "index_error" => Capacity = 0

\* The model is built once, however many threads ask for it at the same time.
LoadedOnce == loads <= 1

\* Every request is answered: no thread waits for the lock for ever.
RequestAnswered == \A t \in Threads : pc[t] # "idle" ~> pc[t] = "idle"
==============================================================================
