-------------------------- MODULE SearchBatchProofs --------------------------
(* What a discovery promises for any queries, any size of the pools and every *)
(* order in which their threads run.                                          *)
EXTENDS SearchBatch, FiniteSetTheorems, TLAPS

\* Some other channel searches all its queries at once.
OtherMulti(c) == \E d \in Channel \ {c} : MultiOn /\ Len(queries[d]) > 1

\* What the state of a channel says of its searches.
ChannelsKnown ==
  \A c \in Channel :
    /\ chan[c] \in {"multi", "retrieving"} => MultiOn /\ Len(queries[c]) > 1
    /\ chan[c] # "singles" => \A i \in Index(c) : job[c][i] \in {"none", "done", "raised"}
    /\ chan[c] = "returned" => \A i \in Index(c) : job[c][i] = "done"
    /\ chan[c] = "raised" => \E i \in Index(c) : job[c][i] = "raised"

\* A search that is done has left its result in its place, ...
DoneIsAnswered ==
  \A c \in Channel : \A i \in Index(c) : job[c][i] = "done" => out[c][i].query = queries[c][i]

\* ... and a copy is disturbed only by another channel.
CopiesDisturbed ==
  \A c \in Channel : \A i \in Index(c) :
    /\ job[c][i] = "copying" /\ keys # seen[c][i] => OtherMulti(c)
    /\ job[c][i] = "raised" => OtherMulti(c)

EndKnown ==
  /\ phase # "searching" => \A c \in Channel : Ended(c)
  /\ phase = "returned" => \A c \in Channel : chan[c] = "returned"

SBInv == TypeOK /\ ChannelsKnown /\ DoneIsAnswered /\ CopiesDisturbed /\ EndKnown

LEMMA EveryIsSeq ==
  ASSUME NEW n \in Nat, NEW S, NEW x \in S
  PROVE  /\ [i \in 1 .. n |-> x] \in Seq(S)
         /\ Len([i \in 1 .. n |-> x]) = n
  OBVIOUS

LEMMA ExceptIsSeq ==
  ASSUME NEW S, NEW s \in Seq(S), NEW i \in 1 .. Len(s), NEW x \in S
  PROVE  /\ [s EXCEPT ![i] = x] \in Seq(S)
         /\ Len([s EXCEPT ![i] = x]) = Len(s)
         /\ [s EXCEPT ![i] = x][i] = x
         /\ \A j \in 1 .. Len(s) : j # i => [s EXCEPT ![i] = x][j] = s[j]
  OBVIOUS

LEMMA LenNat == ASSUME TypeOK, NEW c \in Channel PROVE Len(queries[c]) \in Nat
  BY DEF TypeOK

------------------------------------------------------------------------------
LEMMA SBInit == Init => SBInv
  <1> SUFFICES ASSUME Init PROVE SBInv
    OBVIOUS
  <1>1. queries \in [Channel -> Seq(Query)]
    BY QueriesAssumption DEF Init
  <1>2. ASSUME NEW c \in Channel
        PROVE  /\ job[c] \in Seq(JobState) /\ Len(job[c]) = Len(queries[c])
               /\ seen[c] \in Seq(SUBSET ContextKey) /\ Len(seen[c]) = Len(queries[c])
               /\ out[c] \in Seq(Result \cup {NoResult}) /\ Len(out[c]) = Len(queries[c])
    <2>1. Len(queries[c]) \in Nat
      BY <1>1
    <2> DEFINE n == Len(queries[c])
    <2> HIDE DEF n
    <2>2. [i \in 1 .. n |-> "none"] \in Seq(JobState) /\ Len([i \in 1 .. n |-> "none"]) = n
      BY <2>1, EveryIsSeq DEF JobState, n
    <2>3. [i \in 1 .. n |-> {}] \in Seq(SUBSET ContextKey) /\ Len([i \in 1 .. n |-> {}]) = n
      BY <2>1, EveryIsSeq DEF n
    <2>4. [i \in 1 .. n |-> NoResult] \in Seq(Result \cup {NoResult})
          /\ Len([i \in 1 .. n |-> NoResult]) = n
      BY <2>1, EveryIsSeq DEF n
    <2> QED
      BY <2>2, <2>3, <2>4 DEF Init, Every, Index, n
  <1>3. TypeOK
    BY <1>1, <1>2 DEF Init, TypeOK, ChannelState
  <1>4. \A c \in Channel : \A i \in Index(c) : job[c][i] = "none"
    BY DEF Init, Every, Index
  <1> QED
    BY <1>3, <1>4
    DEF Init, SBInv, ChannelsKnown, DoneIsAnswered, CopiesDisturbed, EndKnown

\* Submitting puts every search of the channel into the queue.
LEMMA Submitted ==
  ASSUME SBInv, NEW c \in Channel, Submit(c)
  PROVE  /\ job' \in [Channel -> Seq(JobState)]
         /\ Len(job'[c]) = Len(queries[c])
         /\ \A i \in Index(c) : job'[c][i] = "queued"
         /\ \A d \in Channel \ {c} : job'[d] = job[d]
  <1>1. Len(queries[c]) \in Nat
    BY LenNat DEF SBInv
  <1>2. Every(c, "queued") \in Seq(JobState) /\ Len(Every(c, "queued")) = Len(queries[c])
    BY <1>1, EveryIsSeq DEF Every, Index, JobState
  <1> QED
    BY <1>2 DEF Submit, SBInv, TypeOK, Every, Index

LEMMA StartKeeps == ASSUME SBInv, NEW c \in Channel, Start(c) PROVE SBInv'
  <1>1. phase = "searching" /\ UNCHANGED <<phase, queries, seen, out, keys, atOnce>>
    BY DEF Start, SBInv, EndKnown, Ended, TypeOK
  <1>2. ASSUME NEW s \in {"multi", "returned"}, ChannelTo(c, s), UNCHANGED job,
               s = "multi" => MultiOn /\ Len(queries[c]) > 1,
               s = "returned" => queries[c] = <<>>
        PROVE  SBInv'
    <2>1. chan'[c] = s /\ \A d \in Channel \ {c} : chan'[d] = chan[d]
      BY <1>2 DEF ChannelTo, SBInv, TypeOK
    <2>2. TypeOK'
      BY <1>1, <1>2 DEF ChannelTo, ChannelState, SBInv, TypeOK
    <2>3. s = "returned" => Index(c) = {}
      BY <1>2 DEF Index
    <2>4. \A i \in Index(c) : job[c][i] \in {"none", "done", "raised"}
      BY DEF Start, SBInv, ChannelsKnown
    <2>5. ChannelsKnown'
      BY <1>1, <1>2, <2>1, <2>3, <2>4 DEF SBInv, ChannelsKnown, Index
    <2> QED
      BY <1>1, <1>2, <2>2, <2>5
      DEF SBInv, DoneIsAnswered, CopiesDisturbed, OtherMulti, EndKnown, Index
  <1>3. ASSUME ChannelTo(c, "singles"), Submit(c) PROVE SBInv'
    <2>1. chan'[c] = "singles" /\ \A d \in Channel \ {c} : chan'[d] = chan[d]
      BY <1>3 DEF ChannelTo, SBInv, TypeOK
    <2>2. /\ job' \in [Channel -> Seq(JobState)]
          /\ Len(job'[c]) = Len(queries[c])
          /\ \A i \in Index(c) : job'[c][i] = "queued"
          /\ \A d \in Channel \ {c} : job'[d] = job[d]
      BY <1>3, Submitted
    <2>3. TypeOK'
      BY <1>1, <1>3, <2>2 DEF ChannelTo, ChannelState, SBInv, TypeOK
    <2>4. ChannelsKnown'
      <3>1. \A d \in Channel : Index(d)' = Index(d)
        BY <1>1 DEF Index
      <3>2. \A d \in Channel \ {c} :
              /\ chan'[d] = chan[d] /\ job'[d] = job[d] /\ queries'[d] = queries[d]
              /\ Index(d)' = Index(d)
        BY <1>1, <2>1, <2>2, <3>1
      <3> QED
        BY <2>1, <3>2 DEF SBInv, ChannelsKnown
    <2>5. DoneIsAnswered'
      BY <1>1, <2>2 DEF SBInv, DoneIsAnswered, Index
    <2>6. CopiesDisturbed'
      BY <1>1, <2>2 DEF SBInv, CopiesDisturbed, OtherMulti, Index
    <2> QED
      BY <1>1, <2>3, <2>4, <2>5, <2>6 DEF SBInv, EndKnown
  <1> QED
    BY <1>2, <1>3 DEF Start

\* A search of all queries may add keys while another channel copies.
LEMMA BeginMultiKeeps == ASSUME SBInv, NEW c \in Channel, BeginMulti(c) PROVE SBInv'
  <1>1. chan[c] = "multi" /\ MultiOn /\ Len(queries[c]) > 1
    BY DEF BeginMulti, SBInv, ChannelsKnown
  <1>2. TypeOK'
    BY DEF BeginMulti, ChannelTo, jobVars, SBInv, TypeOK, ChannelState, ContextKey
  <1>3. /\ chan'[c] = "retrieving"
        /\ \A d \in Channel \ {c} : chan'[d] = chan[d]
        /\ UNCHANGED <<phase, queries, job, seen, out>>
    BY DEF BeginMulti, ChannelTo, jobVars, SBInv, TypeOK
  <1>4. \A i \in Index(c) : job[c][i] # "copying"
    BY <1>1 DEF SBInv, ChannelsKnown
  <1>5. \A d \in Channel \ {c} : OtherMulti(d)
    BY <1>1 DEF OtherMulti
  <1>6. phase = "searching"
    BY <1>1 DEF SBInv, EndKnown, Ended, TypeOK
  <1> QED
    BY <1>1, <1>2, <1>3, <1>4, <1>5, <1>6
    DEF SBInv, ChannelsKnown, DoneIsAnswered, CopiesDisturbed, OtherMulti, EndKnown, Index

LEMMA MultiKeeps == ASSUME SBInv, NEW c \in Channel, Multi(c) PROVE SBInv'
  <1>1. chan[c] = "retrieving" /\ MultiOn /\ Len(queries[c]) > 1
    BY DEF Multi, SBInv, ChannelsKnown
  <1>2. TypeOK'
    <2>1. Submit(c)
      BY DEF Multi
    <2> QED
      BY <2>1, Submitted DEF Multi, ChannelTo, SBInv, TypeOK, ChannelState, ContextKey
  <1>3. /\ chan'[c] = "singles"
        /\ \A d \in Channel \ {c} : chan'[d] = chan[d] /\ job'[d] = job[d]
        /\ \A i \in Index(c) : job'[c][i] = "queued"
        /\ UNCHANGED <<phase, queries, seen, out>>
    BY Submitted DEF Multi, ChannelTo, SBInv, TypeOK
  <1>4. \A d \in Channel \ {c} : OtherMulti(d)
    BY <1>1 DEF OtherMulti
  <1>5. phase = "searching"
    BY <1>1 DEF SBInv, EndKnown, Ended, TypeOK
  <1> QED
    BY <1>2, <1>3, <1>4, <1>5
    DEF SBInv, ChannelsKnown, DoneIsAnswered, CopiesDisturbed, OtherMulti, EndKnown, Index

\* A search moves on: only its own entries change.
LEMMA JobMoves ==
  ASSUME SBInv, NEW c \in Channel, NEW i \in Index(c), NEW s \in JobState, JobTo(c, i, s)
  PROVE  /\ job' \in [Channel -> Seq(JobState)]
         /\ \A d \in Channel : Len(job'[d]) = Len(job[d])
         /\ job'[c][i] = s
         /\ \A d \in Channel : \A j \in Index(d) : <<d, j>> # <<c, i>> => job'[d][j] = job[d][j]
  <1>1. job[c] \in Seq(JobState) /\ i \in 1 .. Len(job[c])
    BY DEF SBInv, TypeOK, Index
  <1>2. job' = [job EXCEPT ![c] = [job[c] EXCEPT ![i] = s]]
    BY DEF JobTo
  <1>3. /\ [job[c] EXCEPT ![i] = s] \in Seq(JobState)
        /\ Len([job[c] EXCEPT ![i] = s]) = Len(job[c])
        /\ [job[c] EXCEPT ![i] = s][i] = s
        /\ \A j \in 1 .. Len(job[c]) : j # i => [job[c] EXCEPT ![i] = s][j] = job[c][j]
    BY <1>1, ExceptIsSeq
  <1> QED
    BY <1>2, <1>3 DEF SBInv, TypeOK, Index

\* Only a channel that searches singly has searches that move.
LEMMA SinglesGoOn ==
  ASSUME SBInv, NEW c \in Channel, NEW i \in Index(c), NEW s \in JobState, JobTo(c, i, s),
         job[c][i] \in {"queued", "copying", "searching"}, UNCHANGED <<phase, queries, chan>>
  PROVE  ChannelsKnown' /\ EndKnown'
  <1>1. chan[c] = "singles" /\ phase = "searching"
    BY DEF SBInv, ChannelsKnown, EndKnown, Ended, TypeOK
  <1>2. \A d \in Channel \ {c} : \A j \in Index(d) : job'[d][j] = job[d][j]
    BY JobMoves
  <1> QED
    BY <1>1, <1>2 DEF SBInv, ChannelsKnown, EndKnown, Ended, Index

LEMMA BeginCopyKeeps ==
  ASSUME SBInv, NEW c \in Channel, NEW i \in Index(c), BeginCopy(c, i)
  PROVE  SBInv'
  <1>1. JobTo(c, i, "copying") /\ "copying" \in JobState
    BY DEF BeginCopy, JobState
  <1>2. seen[c] \in Seq(SUBSET ContextKey) /\ i \in 1 .. Len(seen[c]) /\ keys \in SUBSET ContextKey
    BY DEF SBInv, TypeOK, Index
  <1>3. seen' = [seen EXCEPT ![c] = [seen[c] EXCEPT ![i] = keys]]
    BY DEF BeginCopy
  <1>4. /\ seen' \in [Channel -> Seq(SUBSET ContextKey)]
        /\ \A d \in Channel : Len(seen'[d]) = Len(seen[d])
        /\ seen'[c][i] = keys
        /\ \A d \in Channel : \A j \in Index(d) : <<d, j>> # <<c, i>> => seen'[d][j] = seen[d][j]
    <2>1. /\ [seen[c] EXCEPT ![i] = keys] \in Seq(SUBSET ContextKey)
          /\ Len([seen[c] EXCEPT ![i] = keys]) = Len(seen[c])
          /\ [seen[c] EXCEPT ![i] = keys][i] = keys
          /\ \A j \in 1 .. Len(seen[c]) : j # i => [seen[c] EXCEPT ![i] = keys][j] = seen[c][j]
      BY <1>2, ExceptIsSeq
    <2> QED
      BY <1>3, <2>1 DEF SBInv, TypeOK, Index
  <1>5. TypeOK'
    BY <1>1, <1>4, JobMoves DEF BeginCopy, SBInv, TypeOK
  <1>6. UNCHANGED <<phase, queries, chan, out, keys>> /\ job[c][i] = "queued"
    BY DEF BeginCopy
  <1>7. ChannelsKnown' /\ EndKnown'
    BY <1>1, <1>6, SinglesGoOn
  <1>8. /\ job'[c][i] = "copying"
        /\ \A d \in Channel : \A j \in Index(d) : <<d, j>> # <<c, i>> => job'[d][j] = job[d][j]
    BY <1>1, JobMoves
  <1>9. DoneIsAnswered'
    BY <1>6, <1>8 DEF SBInv, DoneIsAnswered, Index
  <1>10. CopiesDisturbed'
    <2> SUFFICES ASSUME NEW d \in Channel, NEW j \in Index(d)
                 PROVE  /\ job'[d][j] = "copying" /\ keys' # seen'[d][j] => OtherMulti(d)
                        /\ job'[d][j] = "raised" => OtherMulti(d)
      BY <1>6 DEF CopiesDisturbed, OtherMulti, Index
    <2>1. CASE <<d, j>> = <<c, i>>
      BY <1>4, <1>6, <1>8, <2>1
    <2>2. CASE <<d, j>> # <<c, i>>
      BY <1>4, <1>6, <1>8, <2>2 DEF SBInv, CopiesDisturbed
    <2> QED
      BY <2>1, <2>2
  <1> QED
    BY <1>5, <1>7, <1>9, <1>10 DEF SBInv

LEMMA EndCopyKeeps ==
  ASSUME SBInv, NEW c \in Channel, NEW i \in Index(c), EndCopy(c, i)
  PROVE  SBInv'
  <1> DEFINE s == IF keys = seen[c][i] THEN "searching" ELSE "raised"
  <1>1. JobTo(c, i, s) /\ s \in JobState /\ s # "done" /\ s # "copying"
    BY DEF EndCopy, JobState
  <1>2. s = "raised" => OtherMulti(c)
    BY DEF EndCopy, SBInv, CopiesDisturbed
  <1>3. UNCHANGED <<phase, queries, chan, seen, out, keys, atOnce>> /\ job[c][i] = "copying"
    BY DEF EndCopy
  <1> HIDE DEF s
  <1>4. ChannelsKnown' /\ EndKnown'
    BY <1>1, <1>3, SinglesGoOn
  <1>5. /\ job' \in [Channel -> Seq(JobState)]
        /\ \A d \in Channel : Len(job'[d]) = Len(job[d])
        /\ job'[c][i] = s
        /\ \A d \in Channel : \A j \in Index(d) : <<d, j>> # <<c, i>> => job'[d][j] = job[d][j]
    BY <1>1, JobMoves
  <1>6. TypeOK'
    BY <1>3, <1>5 DEF SBInv, TypeOK
  <1>7. DoneIsAnswered'
    BY <1>1, <1>3, <1>5 DEF SBInv, DoneIsAnswered, Index
  <1>8. CopiesDisturbed'
    BY <1>1, <1>2, <1>3, <1>5 DEF SBInv, CopiesDisturbed, OtherMulti, Index
  <1> QED
    BY <1>4, <1>6, <1>7, <1>8 DEF SBInv

LEMMA SearchKeeps ==
  ASSUME SBInv, NEW c \in Channel, NEW i \in Index(c), Search(c, i)
  PROVE  SBInv'
  <1>1. JobTo(c, i, "done") /\ "done" \in JobState
    BY DEF Search, JobState
  <1>2. PICK r \in Result : /\ out' = [out EXCEPT ![c][i] = r]
                            /\ r.query = queries[c][i]
    <2>1. PICK ok \in BOOLEAN : out' = [out EXCEPT ![c][Slot(c, i)] = [query |-> queries[c][i], ok |-> ok]]
      BY DEF Search
    <2>2. [query |-> queries[c][i], ok |-> ok] \in Result
      BY DEF Result, SBInv, TypeOK, Index
    <2> QED
      BY <2>1, <2>2 DEF Slot
  <1>3. /\ out' \in [Channel -> Seq(Result \cup {NoResult})]
        /\ \A d \in Channel : Len(out'[d]) = Len(out[d])
        /\ out'[c][i] = r
        /\ \A d \in Channel : \A j \in Index(d) : <<d, j>> # <<c, i>> => out'[d][j] = out[d][j]
    <2>1. out[c] \in Seq(Result \cup {NoResult}) /\ i \in 1 .. Len(out[c])
      BY DEF SBInv, TypeOK, Index
    <2>2. /\ [out[c] EXCEPT ![i] = r] \in Seq(Result \cup {NoResult})
          /\ Len([out[c] EXCEPT ![i] = r]) = Len(out[c])
          /\ [out[c] EXCEPT ![i] = r][i] = r
          /\ \A j \in 1 .. Len(out[c]) : j # i => [out[c] EXCEPT ![i] = r][j] = out[c][j]
      BY <2>1, ExceptIsSeq
    <2>3. out' = [out EXCEPT ![c] = [out[c] EXCEPT ![i] = r]]
      BY <1>2
    <2> QED
      BY <2>2, <2>3 DEF SBInv, TypeOK, Index
  <1>4. UNCHANGED <<phase, queries, chan, seen, keys, atOnce>> /\ job[c][i] = "searching"
    BY DEF Search, KeysAfterSearch
  <1>5. ChannelsKnown' /\ EndKnown'
    BY <1>1, <1>4, SinglesGoOn
  <1>6. /\ job' \in [Channel -> Seq(JobState)]
        /\ \A d \in Channel : Len(job'[d]) = Len(job[d])
        /\ job'[c][i] = "done"
        /\ \A d \in Channel : \A j \in Index(d) : <<d, j>> # <<c, i>> => job'[d][j] = job[d][j]
    BY <1>1, JobMoves
  <1>7. TypeOK'
    BY <1>3, <1>4, <1>6 DEF SBInv, TypeOK
  <1>8. DoneIsAnswered'
    <2>1. \A d \in Channel : Index(d)' = Index(d)
      BY <1>4 DEF Index
    <2> SUFFICES ASSUME NEW d \in Channel, NEW j \in Index(d), job'[d][j] = "done"
                 PROVE  out'[d][j].query = queries[d][j]
      BY <1>4, <2>1 DEF DoneIsAnswered
    <2>2. CASE <<d, j>> = <<c, i>>
      BY <1>2, <1>3, <2>2
    <2>3. CASE <<d, j>> # <<c, i>>
      BY <1>3, <1>6, <2>3 DEF SBInv, DoneIsAnswered
    <2> QED
      BY <2>2, <2>3
  <1>9. CopiesDisturbed'
    BY <1>4, <1>6 DEF SBInv, CopiesDisturbed, OtherMulti, Index
  <1> QED
    BY <1>5, <1>7, <1>8, <1>9 DEF SBInv

LEMMA EndBatchKeeps == ASSUME SBInv, NEW c \in Channel, EndBatch(c) PROVE SBInv'
  <1>1. /\ chan'[c] = IF \E i \in Index(c) : job[c][i] = "raised" THEN "raised" ELSE "returned"
        /\ \A d \in Channel \ {c} : chan'[d] = chan[d]
        /\ UNCHANGED <<phase, queries, job, seen, out, keys>>
        /\ TypeOK'
    BY DEF EndBatch, ChannelTo, jobVars, SBInv, TypeOK, ChannelState
  <1>2. \A i \in Index(c) : job[c][i] \in {"done", "raised"}
    BY DEF EndBatch, AllJobsEnded
  <1>3. phase = "searching"
    BY DEF EndBatch, SBInv, EndKnown, Ended, TypeOK
  <1> QED
    BY <1>1, <1>2, <1>3
    DEF SBInv, ChannelsKnown, DoneIsAnswered, CopiesDisturbed, OtherMulti, EndKnown, Index

\* What belongs to the channels and searches stays as it is when they do.
LEMMA ChannelsStay ==
  ASSUME SBInv, UNCHANGED <<queries, chan, job, seen, out, keys, atOnce>>
  PROVE  ChannelsKnown' /\ DoneIsAnswered' /\ CopiesDisturbed'
  <1>1. \A c \in Channel : Index(c)' = Index(c)
    BY DEF Index
  <1>2. ChannelsKnown'
    BY <1>1 DEF SBInv, ChannelsKnown
  <1>3. DoneIsAnswered'
    BY <1>1 DEF SBInv, DoneIsAnswered
  <1>4. CopiesDisturbed'
    BY <1>1 DEF SBInv, CopiesDisturbed, OtherMulti
  <1> QED
    BY <1>2, <1>3, <1>4

LEMMA SBStep == ASSUME SBInv, [Next]_vars PROVE SBInv'
  <1>1. CASE EndDiscovery
    <2>1. UNCHANGED <<queries, chan, job, seen, out, keys, atOnce>>
      BY <1>1 DEF EndDiscovery, jobVars
    <2>2. TypeOK'
      BY <1>1, <2>1 DEF EndDiscovery, SBInv, TypeOK
    <2>3. EndKnown'
      BY <1>1, <2>1 DEF EndDiscovery, EndKnown, Ended
    <2> QED
      BY <2>1, <2>2, <2>3, ChannelsStay DEF SBInv
  <1>2. CASE Over \/ UNCHANGED vars
    <2>1. UNCHANGED <<queries, chan, job, seen, out, keys, atOnce>> /\ UNCHANGED phase
      BY <1>2 DEF Over, vars, jobVars
    <2>2. TypeOK'
      BY <2>1 DEF SBInv, TypeOK
    <2>3. EndKnown'
      BY <2>1 DEF SBInv, EndKnown, Ended
    <2> QED
      BY <2>1, <2>2, <2>3, ChannelsStay DEF SBInv
  <1> QED
    BY <1>1, <1>2, StartKeeps, BeginMultiKeeps, MultiKeeps, BeginCopyKeeps, EndCopyKeeps,
       SearchKeeps, EndBatchKeeps DEF Next, ChannelStep

\* The inductive invariant, for all queries, pools and interleavings.
THEOREM SearchInvariant == Spec => []SBInv
  BY SBInit, SBStep, PTL DEF Spec

\* Types, and one entry for every query in each of the lists.
THEOREM SearchTypeCorrect == Spec => []TypeOK
  BY SearchInvariant, PTL DEF SBInv

\* A discovery that returns has the answer to every query in its place.
THEOREM InOrder == Spec => []ResultsInOrder
  <1>1. SBInv => ResultsInOrder
    <2> SUFFICES ASSUME SBInv, phase = "returned", NEW c \in Channel, NEW i \in Index(c)
                 PROVE  out[c][i] # NoResult /\ out[c][i].query = queries[c][i]
      BY DEF ResultsInOrder
    <2>1. out[c][i].query = queries[c][i]
      BY DEF SBInv, EndKnown, ChannelsKnown, DoneIsAnswered
    <2>2. queries[c][i] \in Query
      BY DEF SBInv, TypeOK, Index
    <2> QED
      BY <2>1, <2>2, NamesAssumption DEF NoResult
  <1> QED
    BY <1>1, SearchInvariant, PTL

\* No search goes on after the discovery has ended, in whatever way.
THEOREM NothingOutlives == Spec => []NoSearchOutlives
  <1>1. SBInv => NoSearchOutlives
    BY DEF SBInv, EndKnown, Ended, ChannelsKnown, NoSearchOutlives
  <1> QED
    BY <1>1, SearchInvariant, PTL

\* A discovery is lost only where another channel searches several queries at once.
THEOREM LostOnlyBesideMulti == Spec => []RaisesOnlyBesideMulti
  <1>1. SBInv => RaisesOnlyBesideMulti
    BY DEF SBInv, ChannelsKnown, CopiesDisturbed, OtherMulti, RaisesOnlyBesideMulti
  <1> QED
    BY <1>1, SearchInvariant, PTL

------------------------------------------------------------------------------
\* Two pools, one inside the other, and no deadlock.

\* A channel that searches one by one has handed in all its searches.
Handed == \A c \in Channel : chan[c] = "singles" => \A i \in Index(c) : job[c][i] # "none"

\* What a channel can do next: be started, go on with its search of all queries,
\* give a search to a free worker, go on with one, or end.
ChannelGoesOn(c) ==
  \/ /\ chan[c] = "waiting" /\ Cardinality(Active) < Pool
     /\ \A d \in 1 .. c - 1 : chan[d] # "waiting"
  \/ chan[c] \in {"multi", "retrieving"}
  \/ /\ chan[c] = "singles"
     /\ \/ Cardinality(Busy(c)) < Workers /\ \E i \in Index(c) : job[c][i] = "queued"
        \/ Busy(c) # {}
        \/ AllJobsEnded(c)

\* Until every channel has ended, one of them can go on, ...
SomeChannelGoesOn == (\A c \in Channel : Ended(c)) \/ \E c \in Channel : ChannelGoesOn(c)

LEMMA HandedStep ==
  ASSUME SBInv, Handed, [Next]_vars
  PROVE  Handed'
  <1>1. CASE UNCHANGED <<queries, chan, job>>
    BY <1>1 DEF Handed, Index
  <1>2. ASSUME NEW c \in Channel, Submit(c), UNCHANGED queries,
               \A d \in Channel \ {c} : chan'[d] = chan[d]
        PROVE  Handed'
    <2>1. /\ \A i \in Index(c) : job'[c][i] = "queued"
          /\ \A d \in Channel \ {c} : job'[d] = job[d]
      BY <1>2, Submitted
    <2> QED
      BY <1>2, <2>1 DEF Handed, Index
  <1>3. ASSUME NEW c \in Channel, UNCHANGED <<queries, job>>,
               \A d \in Channel \ {c} : chan'[d] = chan[d], chan'[c] # "singles"
        PROVE  Handed'
    BY <1>3 DEF Handed, Index
  <1>4. ASSUME NEW c \in Channel, NEW i \in Index(c), NEW s \in JobState \ {"none"},
               JobTo(c, i, s), UNCHANGED <<queries, chan>>
        PROVE  Handed'
    BY <1>4 DEF JobTo, Handed, Index, SBInv, TypeOK
  <1>5. ASSUME NEW c \in Channel, Start(c) \/ BeginMulti(c) \/ Multi(c) \/ EndBatch(c)
        PROVE  Handed'
    <2>1. \A s : ChannelTo(c, s) => chan'[c] = s /\ \A d \in Channel \ {c} : chan'[d] = chan[d]
      BY DEF ChannelTo, SBInv, TypeOK
    <2> QED
      BY <1>2, <1>3, <1>5, <2>1 DEF Start, BeginMulti, Multi, EndBatch, jobVars
  <1>6. ASSUME NEW c \in Channel, NEW i \in Index(c),
               BeginCopy(c, i) \/ EndCopy(c, i) \/ Search(c, i)
        PROVE  Handed'
    <2>1. UNCHANGED <<queries, chan>> /\ \E s \in JobState \ {"none"} : JobTo(c, i, s)
      BY <1>6 DEF BeginCopy, EndCopy, Search, JobState
    <2> QED
      BY <1>4, <2>1
  <1>7. CASE EndDiscovery \/ Over \/ UNCHANGED vars
    BY <1>1, <1>7 DEF EndDiscovery, Over, vars, jobVars
  <1> QED
    BY <1>5, <1>6, <1>7 DEF Next, ChannelStep

\* ... because a channel that has a place in the outer pool never waits for
\* anything but its own searches, and a search never waits for anything.
LEMMA ActiveGoesOn ==
  ASSUME SBInv, Handed, NEW c \in Active
  PROVE  ChannelGoesOn(c)
  <1>1. c \in Channel /\ chan[c] \in {"multi", "retrieving", "singles"}
    BY DEF Active, SBInv, TypeOK, ChannelState
  <1>2. ASSUME chan[c] = "singles", Busy(c) = {}, ~AllJobsEnded(c)
        PROVE  Cardinality(Busy(c)) < Workers /\ \E i \in Index(c) : job[c][i] = "queued"
    <2>1. PICK i \in Index(c) : job[c][i] \notin {"done", "raised"}
      BY <1>2 DEF AllJobsEnded
    <2>2. job[c][i] \in JobState
      BY <1>1 DEF SBInv, TypeOK, Index
    <2>3. job[c][i] = "queued"
      BY <1>1, <1>2, <2>1, <2>2 DEF Handed, JobState, Busy
    <2>4. Cardinality(Busy(c)) = 0
      BY <1>2, FS_EmptySet
    <2> QED
      BY <2>3, <2>4, PoolsAssumption
  <1> QED
    BY <1>1, <1>2 DEF ChannelGoesOn

LEMMA SomeoneGoesOn ==
  ASSUME SBInv, Handed
  PROVE  SomeChannelGoesOn
  <1>1. CASE Active # {}
    BY <1>1, ActiveGoesOn DEF Active, SomeChannelGoesOn
  <1>2. CASE Active = {}
    <2>1. Cardinality(Active) < Pool
      BY <1>2, FS_EmptySet, PoolsAssumption
    <2>2. \A c \in Channel : chan[c] = "waiting" \/ Ended(c)
      BY <1>2 DEF Active, Ended
    <2>3. CASE chan[1] = "waiting"
      BY <2>1, <2>3 DEF SomeChannelGoesOn, ChannelGoesOn, Channel
    <2>4. CASE chan[1] # "waiting" /\ chan[2] = "waiting"
      BY <2>1, <2>4 DEF SomeChannelGoesOn, ChannelGoesOn, Channel
    <2>5. CASE chan[1] # "waiting" /\ chan[2] # "waiting" /\ chan[3] = "waiting"
      BY <2>1, <2>5 DEF SomeChannelGoesOn, ChannelGoesOn, Channel
    <2> QED
      BY <2>2, <2>3, <2>4, <2>5 DEF SomeChannelGoesOn, Channel
  <1> QED
    BY <1>1, <1>2

\* Whatever the sizes of the two pools and the queries, a discovery is never stuck:
\* no channel and no search waits for one that waits for it.
THEOREM NeverStuck == Spec => []SomeChannelGoesOn
  <1>1. Init => Handed
    BY DEF Init, Handed
  <1>2. SBInv /\ Handed /\ [Next]_vars => Handed'
    BY HandedStep
  <1>3. SBInv /\ Handed => SomeChannelGoesOn
    BY SomeoneGoesOn
  <1> QED
    BY <1>1, <1>2, <1>3, SearchInvariant, PTL DEF Spec
==============================================================================
