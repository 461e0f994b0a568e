------------------------------ MODULE Exploration ------------------------------
(***************************************************************************)
(* One exploration (agent_v2/exploration/exploration_engine_v2.py,         *)
(* _explore_inner) with the rules it decides by (decision_mapper.py), its  *)
(* working memory (exploration_working_memory.py) and the result it builds *)
(* (exploration_result_adapter.py).                                        *)
(*                                                                         *)
(* The engine discovers files, has a model select places in them to read,  *)
(* and reads and analyses one place at a time; an analysis may expand the  *)
(* graph around a symbol or refine the search.  Each of these fills the    *)
(* queue of places; several budgets at once bound the whole.               *)
(*                                                                         *)
(* What the models and the searches answer is an arbitrary choice.  The    *)
(* code's branches for a place popped twice, for an analysis skipped as    *)
(* not new, and for files excluded by the analyzer cannot be reached:      *)
(* QueueFresh is why the first two cannot, and to_exploration_decision     *)
(* never sets wrong_target_scope.                                          *)
(***************************************************************************)
EXTENDS Naturals, Sequences, FiniteSets

CONSTANTS
  Files, Symbols,
  Outline,        \* the symbols a file defines
  Discoveries,    \* what the searches may return: a sequence of candidates
                  \* [file, symbols], one for each file
  Expansions,     \* what the graph may return: a sequence of places
  MaxSteps,       \* EXPLORATION_MAX_STEPS
  MaxBacktracks,  \* EXPLORATION_MAX_BACKTRACKS
  MaxRefines,     \* EXPLORATION_MAX_REFINE_CYCLES
  MaxDepth,       \* EXPLORATION_EXPAND_MAX_DEPTH
  MaxItems,       \* EXPLORATION_MAX_ITEMS
  FirstLimit,     \* places selected at first
  NextLimit       \* ... and later

ASSUME LimitsAssumption ==
  /\ MaxSteps \in Nat \ {0} /\ MaxDepth \in Nat \ {0} /\ MaxItems \in Nat \ {0}
  /\ MaxBacktracks \in Nat /\ MaxRefines \in Nat
  /\ FirstLimit \in Nat \ {0} /\ NextLimit \in Nat \ {0}

NoSymbol == "no symbol"
ASSUME SymbolsAssumption == NoSymbol \notin Symbols /\ Outline \in [Files -> SUBSET Symbols]

\* A location key: a symbol of a file, or the file.
Place == [file : Files, symbol : Symbols \cup {NoSymbol}]
At(f, s) == [file |-> f, symbol |-> s]
NoPlace == At("no file", NoSymbol)

Candidate == [file : Files, symbols : Seq(Symbols)]
ASSUME SearchAssumption ==
  /\ Discoveries \subseteq Seq(Candidate)
  /\ Expansions \subseteq Seq(Place)

\* good; poor stands for weak, fragmented and empty; unknown is that of a place
\* which no selector chose.
Coverage == {"good", "poor", "unknown"}
\* A place of the queue, with the coverage and the symbols of the selection it
\* comes from.
Target == [place : Place, coverage : Coverage, symbols : SUBSET Symbols]

VARIABLES
  phase,       \* start, bootstrap, loop, analyze, decide, done, failed
  pending,     \* pending_targets
  explored,    \* explored_location_keys
  edges,       \* seen_relation_edges
  target,      \* current_target
  seenFiles, seenSymbols,
  steps, backtracks, refines, depth,
  boots,       \* intent_bootstrap_pass_count
  selectionNone,
  coverage,    \* coverage of last_selector_batch
  hint,        \* does the intent ask for relationships?
  definition,  \* does the intent, or the instruction, ask for a definition?
  expandedOnce, expandedSymbols,
  wanted,      \* pending_expansion_symbols
  sufficient,  \* is last_decision "sufficient"?
  primary,     \* primary_symbol
  bodySeen,    \* primary_symbol_body_seen
  related,     \* relationships_found
  memory,      \* rows [place, tier] in their order
  termination,
  analysed     \* observer: places whose analysis came back

queueVars == <<pending, edges>>
searchVars == <<selectionNone, coverage, hint, definition>>
countVars == <<steps, backtracks, refines, depth, boots>>
readVars == <<explored, target, seenFiles, seenSymbols, primary, bodySeen>>
expandVars == <<expandedOnce, expandedSymbols, related>>
verdictVars == <<wanted, sufficient, analysed>>
vars == <<phase, queueVars, searchVars, countVars, readVars, expandVars, verdictVars,
          memory, termination>>

Init ==
  /\ phase = "start"
  /\ pending = <<>> /\ edges = {}
  /\ explored = {} /\ target = NoPlace /\ seenFiles = {} /\ seenSymbols = {}
  /\ steps = 0 /\ backtracks = 0 /\ refines = 0 /\ depth = 0 /\ boots = 0
  /\ selectionNone = FALSE /\ coverage = "unknown" /\ hint = FALSE
  /\ definition = FALSE
  /\ expandedOnce = FALSE /\ expandedSymbols = {} /\ related = FALSE
  /\ wanted = {} /\ sufficient = FALSE /\ analysed = {}
  /\ primary = NoSymbol /\ bodySeen = FALSE
  /\ memory = <<>> /\ termination = "unknown"

------------------------------------------------------------------------------
\* The working memory.

Min2(m, n) == IF m < n THEN m ELSE n

BetterTier_Newer(old, new) == new
\* _better_summary_row: tier 0 is an analysis, 1 an expansion, 2 a search hit.
BetterTier(old, new) == Min2(old, new)

\* Elements of s at the positions in I, in their order.
Subsequence(s, I) ==
  LET nth[n \in 1 .. Cardinality(I)] == CHOOSE i \in I : Cardinality({j \in I : j <= i}) = n
  IN  [n \in 1 .. Cardinality(I) |-> s[nth[n]]]

\* ingest_discovery_candidates: add_evidence for each place of ps.  There is one
\* row for each place, which keeps its order and the better tier.
RememberAll(m, ps, tier) ==
  LET named(p) == \E i \in DOMAIN ps : ps[i] = p
      known(p) == \E i \in DOMAIN m : m[i].place = p
      new == Subsequence(ps, {i \in DOMAIN ps : ~known(ps[i])
                                              /\ \A j \in 1 .. i - 1 : ps[j] # ps[i]})
  IN  [i \in DOMAIN m |-> IF named(m[i].place) THEN [m[i] EXCEPT !.tier = BetterTier(@, tier)]
                                               ELSE m[i]]
      \o [n \in DOMAIN new |-> [place |-> new[n], tier |-> tier]]

Remember(m, p, tier) == RememberAll(m, <<p>>, tier)

\* get_summary: the first MaxItems rows by tier, then by order.
Before(i, j) == memory[i].tier < memory[j].tier \/ (memory[i].tier = memory[j].tier /\ i < j)
Reported ==
  {memory[i] : i \in {j \in DOMAIN memory :
                        Cardinality({k \in DOMAIN memory : Before(k, j)}) < MaxItems}}

------------------------------------------------------------------------------
\* The queue.

PendingPlaces == {pending[i].place : i \in DOMAIN pending}

MayEnqueue_OnlyUnread(p) == p \notin explored
\* _may_enqueue: neither read before nor waiting.
MayEnqueue(p) == p \notin explored /\ p \notin PendingPlaces

Novel(t) == IF t.place.symbol # NoSymbol THEN t.place.symbol \notin seenSymbols
                                         ELSE t.place.file \notin seenFiles

\* The positions of the targets that _enqueue_targets lets pass: an edge is
\* followed once, so that the same place twice in ts is taken once.
Accepted(ts) ==
  {i \in DOMAIN ts : /\ <<target, ts[i].place>> \notin edges
                     /\ MayEnqueue(ts[i].place)
                     /\ \A j \in 1 .. i - 1 : ts[j].place # ts[i].place}

\* They are all of one kind of relation; the new ones among them come first.
EnqueueTargets(ts) ==
  LET new == {i \in Accepted(ts) : Novel(ts[i])}
  IN  /\ pending' = pending \o Subsequence(ts, new) \o Subsequence(ts, Accepted(ts) \ new)
      /\ edges' = edges \cup {<<target, ts[i].place>> : i \in Accepted(ts)}

First(symbols) == IF symbols = <<>> THEN NoSymbol ELSE symbols[1]

\* _may_enqueue_file_candidate.
Useful(c) == IF c.symbols = <<>> THEN MayEnqueue(At(c.file, NoSymbol))
             ELSE \E i \in DOMAIN c.symbols : MayEnqueue(At(c.file, c.symbols[i]))

\* The candidates that _enqueue_ranked shows to the selector: by the first symbol.
Selectable(cs) == {i \in DOMAIN cs : MayEnqueue(At(cs[i].file, First(cs[i].symbols)))}

NothingSelected_Unnoticed(cov) ==
  selectionNone' = FALSE /\ coverage' = cov /\ UNCHANGED queueVars
\* No candidate to show, or none chosen.
NothingSelected(cov) == selectionNone' = TRUE /\ coverage' = cov /\ UNCHANGED queueVars

\* _enqueue_ranked.  The selector returns candidates in an order of its own, with
\* a symbol of the outline of each or none; the scoper before it only narrows
\* the choice.
EnqueueRanked(cs, limit) ==
  LET shown == Selectable(cs)
  IN  \/ shown = {} /\ NothingSelected("poor")
      \/ shown # {} /\ \E cov \in {"good", "poor"} : NothingSelected(cov)
      \/ \E n \in 1 .. Min2(limit, Cardinality(shown)) :
         \E pick \in [1 .. n -> shown], cov \in {"good", "poor"} :
           /\ \A i, j \in 1 .. n : pick[i] = pick[j] => i = j
           /\ \E sym \in [1 .. n -> Symbols \cup {NoSymbol}] :
                /\ \A i \in 1 .. n : sym[i] \in Outline[cs[pick[i]].file] \cup {NoSymbol}
                /\ EnqueueTargets([i \in 1 .. n |->
                     [place |-> At(cs[pick[i]].file, sym[i]), coverage |-> cov,
                      symbols |-> {sym[j] : j \in 1 .. n} \ {NoSymbol}]])
           /\ selectionNone' = FALSE
           /\ coverage' = cov

\* Parse the intent, discover, note the hits, select and enqueue.  The parsed
\* intent may change at each search; an instruction that asks for a definition
\* keeps definition TRUE, one of the choices.
Search(limit) ==
  /\ hint' \in BOOLEAN /\ definition' \in BOOLEAN
  /\ \E d \in Discoveries :
       LET cs == Subsequence(d, {i \in DOMAIN d : Useful(d[i])})
       IN  /\ memory' = RememberAll(memory,
                 [i \in 1 .. Min2(MaxItems, Len(cs)) |-> At(cs[i].file, First(cs[i].symbols))], 2)
           /\ EnqueueRanked(cs, limit)

------------------------------------------------------------------------------
\* The run.

Finish(why) == phase' = "done" /\ termination' = why

Begin ==
  /\ phase = "start"
  /\ Search(FirstLimit)
  /\ phase' = "bootstrap"
  /\ UNCHANGED <<countVars, readVars, expandVars, verdictVars, termination>>

\* ... and nothing was selected the last time.
SearchAgain ==
  /\ pending = <<>> /\ coverage = "poor" /\ boots < MaxRefines
  /\ boots > 0 => selectionNone

NextBoot_Uncounted == boots
NextBoot == boots + 1

\* The bootstrap: search again while there is nothing to read.
Bootstrap ==
  /\ phase = "bootstrap" /\ SearchAgain
  /\ boots' = NextBoot
  /\ Search(NextLimit)
  /\ UNCHANGED <<phase, steps, backtracks, refines, depth, readVars, expandVars, verdictVars,
                 termination>>

NothingFound == selectionNone /\ pending = <<>>

EnterLoop ==
  /\ phase = "bootstrap" /\ ~SearchAgain
  /\ \/ NothingFound /\ Finish("no_relevant_candidate")
     \/ ~NothingFound /\ phase' = "loop" /\ UNCHANGED termination
  /\ UNCHANGED <<queueVars, searchVars, countVars, readVars, expandVars, verdictVars, memory>>

QueueDrained ==
  /\ phase = "loop" /\ pending = <<>>
  /\ Finish("pending_exhausted")
  /\ UNCHANGED <<queueVars, searchVars, countVars, readVars, expandVars, verdictVars, memory>>

OutOfSteps_Late(n) == n > MaxSteps
\* _should_stop_pre, after the read: the last read is not analysed.
OutOfSteps(n) == n >= MaxSteps

\* The head of the queue is read: bounded, or by a tool that is not allowed.  What
\* follows is decided by the selection the place comes from, not by the last search.
Inspect ==
  /\ phase = "loop" /\ pending # <<>>
  /\ LET t == Head(pending)
         p == t.place
     IN  /\ pending' = Tail(pending)
         /\ target' = p
         /\ explored' = explored \cup {p}
         /\ steps' = steps + 1
         /\ coverage' = t.coverage
         /\ wanted' = t.symbols
         /\ \/ /\ Finish("policy_violation_full_read")
               /\ UNCHANGED <<seenFiles, seenSymbols, primary, bodySeen>>
            \/ /\ seenFiles' = seenFiles \cup {p.file}
               /\ seenSymbols' = seenSymbols \cup ({p.symbol} \ {NoSymbol})
               /\ primary' = IF primary = NoSymbol THEN p.symbol ELSE primary
               /\ \/ UNCHANGED bodySeen
                  \/ p.symbol # NoSymbol /\ p.symbol = primary' /\ bodySeen' = TRUE
               /\ \/ OutOfSteps(steps') /\ Finish("max_steps")
                  \/ ~OutOfSteps(steps') /\ phase' = "analyze" /\ UNCHANGED termination
  /\ UNCHANGED <<edges, selectionNone, hint, definition, backtracks, refines, depth, boots,
                 expandVars, sufficient, analysed, memory>>

\* The analysis of what was read is evidence of tier 0.
Analyze ==
  /\ phase = "analyze"
  /\ analysed' = analysed \cup {target}
  /\ memory' = Remember(memory, target, 0)
  /\ sufficient' \in BOOLEAN
  /\ \E required \in SUBSET Symbols : wanted' = wanted \cup required
  /\ phase' = "decide"
  /\ UNCHANGED <<queueVars, searchVars, countVars, readVars, expandVars, termination>>

\* EngineDecisionMapper.decide_control, in its order.
Control ==
  IF sufficient THEN "stop"
  ELSE IF hint /\ ~expandedOnce THEN "expand"
  ELSE IF coverage = "poor" /\ refines < MaxRefines THEN "refine"
  ELSE "default_stop"

Stop ==
  /\ phase = "decide" /\ Control \in {"stop", "default_stop"}
  /\ Finish(IF Control = "stop" THEN "analyzer_sufficient" ELSE "mapper_default_stop")
  /\ UNCHANGED <<queueVars, searchVars, countVars, readVars, expandVars, verdictVars, memory>>

\* The symbols to expand: a wanted one, otherwise that of the place.
Expandable ==
  IF depth >= MaxDepth THEN {}
  ELSE IF wanted \ expandedSymbols # {} THEN wanted \ expandedSymbols
  ELSE {target.symbol} \ ({NoSymbol} \cup expandedSymbols)

\* The expander leaves out the files and the symbols that were read or wait.
Skipped(p) ==
  \/ p.file \in seenFiles \cup {q.file : q \in explored \cup PendingPlaces}
  \/ p.symbol \in (seenSymbols \cup {q.symbol : q \in PendingPlaces}) \ {NoSymbol}

Expand ==
  /\ phase = "decide" /\ Control = "expand"
  /\ \E s \in Expandable, ps \in Expansions :
       LET fresh == Subsequence(ps, {i \in DOMAIN ps : ~Skipped(ps[i]) /\ MayEnqueue(ps[i])})
       IN  /\ expandedSymbols' = expandedSymbols \cup {s}
           /\ memory' = Remember(memory, At(target.file, s), 1)
           /\ IF fresh = <<>>
                THEN UNCHANGED <<queueVars, related, depth, expandedOnce>>
                ELSE /\ EnqueueTargets([i \in DOMAIN fresh |->
                          [place |-> fresh[i], coverage |-> "unknown", symbols |-> {}]])
                     /\ related' = TRUE /\ depth' = depth + 1 /\ expandedOnce' = TRUE
  /\ phase' = "loop"
  /\ UNCHANGED <<searchVars, steps, backtracks, refines, boots, readVars, verdictVars, termination>>

\* An expansion without a symbol, or a refinement without a backtrack left, goes
\* on with the queue.
GoOn ==
  /\ phase = "decide"
  /\ \/ Control = "expand" /\ Expandable = {}
     \/ Control = "refine" /\ backtracks >= MaxBacktracks
  /\ phase' = "loop"
  /\ UNCHANGED <<queueVars, searchVars, countVars, readVars, expandVars, verdictVars, memory,
                 termination>>

Refine ==
  /\ phase = "decide" /\ Control = "refine" /\ backtracks < MaxBacktracks
  /\ refines' = refines + 1 /\ backtracks' = backtracks + 1
  /\ Search(NextLimit)
  /\ \/ selectionNone' /\ pending' = <<>> /\ Finish("no_relevant_candidate")
     \/ ~(selectionNone' /\ pending' = <<>>) /\ phase' = "loop" /\ UNCHANGED termination
  /\ UNCHANGED <<steps, depth, boots, readVars, expandVars, verdictVars>>

\* A model, a search or a read raises: nothing catches it here.
Raise ==
  /\ phase \in {"start", "bootstrap", "loop", "analyze", "decide"}
  /\ phase' = "failed"
  /\ UNCHANGED <<queueVars, searchVars, countVars, readVars, expandVars, verdictVars, memory,
                 termination>>

Step == \/ Begin \/ Bootstrap \/ EnterLoop \/ QueueDrained \/ Inspect \/ Analyze
        \/ Stop \/ Expand \/ GoOn \/ Refine
Next == Step \/ Raise

\* Weak fairness: every call of a model or a search returns or raises.
Spec == Init /\ [][Next]_vars /\ WF_vars(Step)

------------------------------------------------------------------------------
\* The result.

\* completion_status.  Who asks for a definition needs neither relations nor a body.
Complete ==
  \/ sufficient /\ primary # NoSymbol /\ (related \/ bodySeen \/ definition)
  \/ termination = "pending_exhausted"

\* project_discrete_confidence.
HighConfidence == Complete /\ Reported # {}

------------------------------------------------------------------------------
\* Properties.

TypeOK ==
  /\ phase \in {"start", "bootstrap", "loop", "analyze", "decide", "done", "failed"}
  /\ pending \in Seq(Target) /\ explored \in SUBSET Place
  /\ edges \in SUBSET ((Place \cup {NoPlace}) \X Place) /\ target \in Place \cup {NoPlace}
  /\ seenFiles \in SUBSET Files /\ seenSymbols \in SUBSET Symbols
  /\ steps \in 0 .. MaxSteps /\ backtracks \in 0 .. MaxBacktracks
  /\ refines \in 0 .. MaxRefines /\ depth \in 0 .. MaxDepth /\ boots \in 0 .. MaxRefines
  /\ selectionNone \in BOOLEAN /\ coverage \in Coverage /\ hint \in BOOLEAN
  /\ definition \in BOOLEAN
  /\ expandedOnce \in BOOLEAN /\ expandedSymbols \in SUBSET Symbols
  /\ wanted \in SUBSET Symbols /\ sufficient \in BOOLEAN
  /\ primary \in Symbols \cup {NoSymbol} /\ bodySeen \in BOOLEAN /\ related \in BOOLEAN
  /\ memory \in Seq([place : Place, tier : 0 .. 2])
  /\ termination \in {"unknown", "no_relevant_candidate", "pending_exhausted", "max_steps",
                      "policy_violation_full_read", "analyzer_sufficient", "mapper_default_stop"}
  /\ analysed \in SUBSET Place

\* The queue never holds a place twice nor one that was read, whatever discovery,
\* the selector and the graph return over the whole run: no step of the small
\* budget is spent on reading a place again, and the run never ends as stalled.
QueueFresh ==
  /\ \A i, j \in DOMAIN pending : pending[i].place = pending[j].place => i = j
  /\ PendingPlaces \cap explored = {}

\* What was analysed is in the result: the hits of later searches, which merge
\* into the same rows and fill the same few items, never displace it.
AnalysedReported ==
  MaxSteps <= MaxItems + 1 => \A p \in analysed : [place |-> p, tier |-> 0] \in Reported

\* A result of high confidence rests on an analysis, not on search hits alone.
CompleteIsGrounded ==
  phase = "done" /\ HighConfidence => \E r \in Reported : r.tier = 0

\* Every exploration ends.
ExplorationEnds == <>(phase \in {"done", "failed"})

\* "selection_none is True when no targets were enqueued." (_enqueue_ranked)
SelectionNoneTrue ==
  [][(Begin \/ Bootstrap \/ Refine) /\ pending' = pending => selectionNone']_vars
==============================================================================
