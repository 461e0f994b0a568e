-------------------------- MODULE ExplorationProofs ---------------------------
(* What an exploration promises whatever the searches, the graph and the       *)
(* models answer, for any files, symbols and budgets.                          *)
EXTENDS Exploration, FiniteSetTheorems, SequenceTheorems, TLAPS

------------------------------------------------------------------------------
\* Positions and subsequences.

\* The elements of a finite set of positions, counted from below: each number
\* up to their number is the rank of exactly one of them.
LEMMA Ranks ==
  ASSUME NEW n \in Nat, NEW I \in SUBSET (1 .. n)
  PROVE  /\ IsFiniteSet(I) /\ Cardinality(I) \in Nat /\ Cardinality(I) <= n
         /\ \A i \in I : Cardinality({j \in I : j <= i}) \in 1 .. Cardinality(I)
         /\ \A i, k \in I :
              Cardinality({j \in I : j <= i}) = Cardinality({j \in I : j <= k}) => i = k
         /\ \A m \in 1 .. Cardinality(I) : \E i \in I : Cardinality({j \in I : j <= i}) = m
  <1> DEFINE upto(i) == {j \in I : j <= i}
             rank == [i \in I |-> Cardinality(upto(i))]
  <1>0. \A i \in I : i \in Nat
    OBVIOUS
  <1>1. IsFiniteSet(1 .. n) /\ Cardinality(1 .. n) = n
    BY FS_Interval
  <1>2. IsFiniteSet(I) /\ Cardinality(I) \in Nat /\ Cardinality(I) <= n
    BY <1>1, FS_Subset, FS_CardinalityType
  <1>3. ASSUME NEW i \in I
        PROVE  /\ IsFiniteSet(upto(i)) /\ Cardinality(upto(i)) \in Nat
               /\ 1 <= Cardinality(upto(i)) /\ Cardinality(upto(i)) <= Cardinality(I)
    <2>1. upto(i) \in SUBSET I /\ i \in upto(i)
      BY <1>0
    <2>2. IsFiniteSet(upto(i)) /\ Cardinality(upto(i)) <= Cardinality(I)
      BY <1>2, <2>1, FS_Subset
    <2>3. Cardinality(upto(i)) \in Nat /\ Cardinality(upto(i)) # 0
      BY <2>1, <2>2, FS_CardinalityType, FS_EmptySet
    <2> QED
      BY <2>2, <2>3
  <1>4. ASSUME NEW i \in I, NEW k \in I, i < k
        PROVE  Cardinality(upto(i)) # Cardinality(upto(k))
    <2>1. k \in upto(k) /\ k \notin upto(i) /\ \A j \in upto(i) : j \in upto(k)
      BY <1>0, <1>4
    <2>2. upto(i) # upto(k)
      BY <2>1
    <2> QED
      BY <1>3, <2>1, <2>2, FS_Subset
  <1>5. \A i, k \in I : Cardinality(upto(i)) = Cardinality(upto(k)) => i = k
    <2> SUFFICES ASSUME NEW i \in I, NEW k \in I, Cardinality(upto(i)) = Cardinality(upto(k)), i # k
                 PROVE  FALSE
      OBVIOUS
    <2>1. i < k \/ k < i
      BY <1>0
    <2> QED
      BY <2>1, <1>4
  <1>6. rank \in Injection(I, 1 .. Cardinality(I))
    <2>1. rank \in [I -> 1 .. Cardinality(I)]
      BY <1>2, <1>3
    <2>2. \A i, k \in I : rank[i] = rank[k] => i = k
      BY <1>5
    <2> QED
      BY <2>1, <2>2 DEF Injection, IsInjective
  <1>7. IsFiniteSet(1 .. Cardinality(I)) /\ Cardinality(1 .. Cardinality(I)) = Cardinality(I)
    BY <1>2, FS_Interval
  <1>8. rank \in Surjection(I, 1 .. Cardinality(I))
    BY <1>6, <1>7, FS_Injection
  <1>9. \A m \in 1 .. Cardinality(I) : \E i \in I : rank[i] = m
    BY <1>8 DEF Surjection
  <1> QED
    BY <1>2, <1>3, <1>5, <1>9

\* A set of positions that is not empty has a least one.
LEMMA Least ==
  ASSUME NEW n \in Nat, NEW I \in SUBSET (1 .. n), I # {}
  PROVE  \E i \in I : \A j \in I : i <= j
  <1>1. IsFiniteSet(I) /\ Cardinality(I) \in Nat \ {0}
    BY Ranks, FS_EmptySet
  <1>2. PICK i \in I : Cardinality({j \in I : j <= i}) = 1
    <2>1. \A m \in 1 .. Cardinality(I) : \E i \in I : Cardinality({j \in I : j <= i}) = m
      BY Ranks
    <2>2. 1 \in 1 .. Cardinality(I)
      BY <1>1
    <2> QED
      BY <2>1, <2>2
  <1>3. IsFiniteSet({j \in I : j <= i}) /\ i \in {j \in I : j <= i}
    BY <1>1, FS_Subset
  <1>4. {j \in I : j <= i} = {i}
    BY <1>2, <1>3, FS_Singleton
  <1>5. ASSUME NEW j \in I, ~(i <= j) PROVE FALSE
    <2>1. j \in {k \in I : k <= i} /\ j # i
      BY <1>5
    <2> QED
      BY <1>4, <2>1
  <1> QED
    BY <1>2, <1>5, Zenon

\* u lists the elements of s at the positions in I, each once.
Lists(u, s, I) ==
  \E nth \in [DOMAIN u -> I] :
    /\ \A m, k \in DOMAIN nth : nth[m] = nth[k] => m = k
    /\ \A i \in I : \E m \in DOMAIN nth : nth[m] = i
    /\ \A m \in DOMAIN nth : u[m] = s[nth[m]]

\* A subsequence has one element for each position, and no other.
LEMMA SubsequenceFacts ==
  ASSUME NEW T, NEW s \in Seq(T), NEW I \in SUBSET DOMAIN s
  PROVE  /\ Subsequence(s, I) \in Seq(T)
         /\ Lists(Subsequence(s, I), s, I)
  <1> DEFINE c == Cardinality(I)
             rank(i) == Cardinality({j \in I : j <= i})
             nth == [m \in 1 .. c |-> CHOOSE i \in I : rank(i) = m]
             u == Subsequence(s, I)
  <1>1. DOMAIN s = 1 .. Len(s) /\ Len(s) \in Nat
    BY LenProperties
  <1>2. /\ c \in Nat
        /\ \A i, k \in I : rank(i) = rank(k) => i = k
        /\ \A m \in 1 .. c : \E i \in I : rank(i) = m
    BY <1>1, Ranks
  <1>3. u = [m \in 1 .. c |-> s[nth[m]]]
    BY Zenon DEF Subsequence
  <1>4. ASSUME NEW m \in 1 .. c PROVE nth[m] \in I /\ rank(nth[m]) = m
    BY <1>2
  <1> HIDE DEF nth
  <1>5. nth \in [1 .. c -> I] /\ DOMAIN u = 1 .. c
    BY <1>3, <1>4 DEF nth
  <1>6. \A m, k \in 1 .. c : nth[m] = nth[k] => m = k
    BY <1>4
  <1>7. \A i \in I : \E m \in 1 .. c : nth[m] = i
    <2> SUFFICES ASSUME NEW i \in I PROVE \E m \in 1 .. c : nth[m] = i
      OBVIOUS
    <2>1. rank(i) \in 1 .. c
      BY <1>1, Ranks
    <2>2. nth[rank(i)] \in I /\ rank(nth[rank(i)]) = rank(i)
      BY <1>4, <2>1
    <2> HIDE DEF rank
    <2> QED
      BY <1>2, <2>1, <2>2
  <1>8. u \in Seq(T)
    <2>1. \A m \in 1 .. c : s[nth[m]] \in T
      BY <1>1, <1>4, ElementOfSeq
    <2>2. u \in [1 .. c -> T]
      BY <1>3, <2>1
    <2> QED
      BY <1>2, <2>2, SeqDef
  <1>9. DOMAIN nth = 1 .. c /\ nth \in [DOMAIN u -> I] /\ \A m \in 1 .. c : u[m] = s[nth[m]]
    BY <1>3, <1>5
  <1>10. /\ \A m, k \in DOMAIN nth : nth[m] = nth[k] => m = k
         /\ \A i \in I : \E m \in DOMAIN nth : nth[m] = i
         /\ \A m \in DOMAIN nth : u[m] = s[nth[m]]
    BY <1>6, <1>7, <1>9, Zenon
  <1> QED
    BY <1>8, <1>9, <1>10, Zenon DEF Lists

------------------------------------------------------------------------------
\* The working memory.

Row == [place : Place, tier : 0 .. 2]

\* A place has one row.
Single(m) == \A i, j \in DOMAIN m : m[i].place = m[j].place => i = j

HasRow(m, p, tier) == \E i \in DOMAIN m : m[i].place = p /\ m[i].tier = tier

\* The rows that were there: as many as before, for the same places, of the same
\* or a better tier.
OldRows(m, ps, tier) ==
  [i \in DOMAIN m |-> IF \E j \in DOMAIN ps : ps[j] = m[i].place
                        THEN [m[i] EXCEPT !.tier = BetterTier(@, tier)] ELSE m[i]]

LEMMA OldRowsKept ==
  ASSUME NEW m \in Seq(Row), NEW ps \in Seq(Place), NEW tier \in 0 .. 2
  PROVE  /\ OldRows(m, ps, tier) \in Seq(Row) /\ Len(OldRows(m, ps, tier)) = Len(m)
         /\ \A i \in 1 .. Len(m) :
              /\ OldRows(m, ps, tier)[i].place = m[i].place
              /\ OldRows(m, ps, tier)[i].tier = 0 <=>
                   m[i].tier = 0 \/ (tier = 0 /\ \E j \in DOMAIN ps : ps[j] = m[i].place)
  <1> DEFINE old == OldRows(m, ps, tier)
  <1>1. DOMAIN m = 1 .. Len(m) /\ Len(m) \in Nat
    BY LenProperties
  <1>2. ASSUME NEW i \in 1 .. Len(m)
        PROVE  /\ old[i] \in Row /\ old[i].place = m[i].place
               /\ old[i].tier = 0 <=>
                    m[i].tier = 0 \/ (tier = 0 /\ \E j \in DOMAIN ps : ps[j] = m[i].place)
    <2>1. m[i] \in Row
      BY ElementOfSeq
    <2>2. /\ BetterTier(m[i].tier, tier) \in 0 .. 2
          /\ BetterTier(m[i].tier, tier) = 0 <=> m[i].tier = 0 \/ tier = 0
      BY <2>1 DEF Row, BetterTier, Min2
    <2>3. CASE \E j \in DOMAIN ps : ps[j] = m[i].place
      <3>1. old[i] = [m[i] EXCEPT !.tier = BetterTier(m[i].tier, tier)]
        BY <1>1, <2>3 DEF OldRows
      <3> QED
        BY <2>1, <2>2, <2>3, <3>1 DEF Row
    <2>4. CASE ~ \E j \in DOMAIN ps : ps[j] = m[i].place
      <3>1. old[i] = m[i]
        BY <1>1, <2>4 DEF OldRows
      <3> QED
        BY <2>1, <2>4, <3>1 DEF Row
    <2> QED
      BY <2>3, <2>4
  <1>3. old \in [1 .. Len(m) -> Row]
    BY <1>1, <1>2 DEF OldRows
  <1>4. old \in Seq(Row) /\ Len(old) = Len(m)
    BY <1>1, <1>3, SeqDef
  <1> QED
    BY <1>2, <1>4

\* What add_evidence keeps: one row for each place, and the places of tier 0 are
\* those that were so before and, if the evidence is of tier 0, those it is for.
LEMMA RememberAllFacts ==
  ASSUME NEW m \in Seq(Row), Single(m), NEW ps \in Seq(Place), NEW tier \in 0 .. 2
  PROVE  /\ RememberAll(m, ps, tier) \in Seq(Row)
         /\ Single(RememberAll(m, ps, tier))
         /\ \A p : HasRow(RememberAll(m, ps, tier), p, 0) <=>
                     HasRow(m, p, 0) \/ (tier = 0 /\ \E j \in DOMAIN ps : ps[j] = p)
  <1> DEFINE named(p) == \E i \in DOMAIN ps : ps[i] = p
             known(p) == \E i \in DOMAIN m : m[i].place = p
             I == {i \in DOMAIN ps : ~known(ps[i]) /\ \A j \in 1 .. i - 1 : ps[j] # ps[i]}
             new == Subsequence(ps, I)
             old == OldRows(m, ps, tier)
             add == [n \in DOMAIN new |-> [place |-> new[n], tier |-> tier]]
             r == RememberAll(m, ps, tier)
  <1>1. r = old \o add
    BY DEF RememberAll, OldRows
  <1>2. /\ old \in Seq(Row) /\ Len(old) = Len(m)
        /\ \A i \in 1 .. Len(m) :
             /\ old[i].place = m[i].place
             /\ old[i].tier = 0 <=> m[i].tier = 0 \/ (tier = 0 /\ named(m[i].place))
    BY OldRowsKept
  <1>3. /\ Len(m) \in Nat /\ DOMAIN m = 1 .. Len(m)
        /\ Len(ps) \in Nat /\ DOMAIN ps = 1 .. Len(ps)
    BY LenProperties
  <1>0. I \in SUBSET DOMAIN ps
    OBVIOUS
  <1> HIDE DEF I
  <1>4. new \in Seq(Place) /\ Len(new) \in Nat /\ DOMAIN new = 1 .. Len(new)
    <2>1. new \in Seq(Place)
      BY <1>0, SubsequenceFacts
    <2> QED
      BY <2>1, LenProperties
  <1>5. PICK nth \in [DOMAIN new -> I] :
          /\ \A k, l \in DOMAIN nth : nth[k] = nth[l] => k = l
          /\ \A i \in I : \E k \in DOMAIN nth : nth[k] = i
          /\ \A k \in DOMAIN nth : new[k] = ps[nth[k]]
    <2>1. Lists(new, ps, I)
      BY <1>0, SubsequenceFacts
    <2> QED
      BY <2>1 DEF Lists
  <1> HIDE DEF r, old, new
  <1>6. add \in Seq(Row) /\ Len(add) = Len(new)
    <2>1. add \in [1 .. Len(new) -> Row]
      BY <1>4, ElementOfSeq DEF Row
    <2> QED
      BY <1>4, <2>1, SeqDef
  <1>7. \A k \in 1 .. Len(new) : add[k].place = new[k] /\ add[k].tier = tier
    BY <1>4
  <1> HIDE DEF add
  <1>8. /\ r \in Seq(Row) /\ Len(r) = Len(m) + Len(new)
        /\ \A k \in 1 .. Len(r) : r[k] = IF k <= Len(m) THEN old[k] ELSE add[k - Len(m)]
    <2>1. /\ old \o add \in Seq(Row) /\ Len(old \o add) = Len(old) + Len(add)
          /\ \A k \in 1 .. Len(old) + Len(add) :
               (old \o add)[k] = IF k <= Len(old) THEN old[k] ELSE add[k - Len(old)]
      <3>1. old \in Seq(Row) /\ add \in Seq(Row)
        BY <1>2, <1>6
      <3> QED
        BY <3>1, ConcatProperties, Zenon
    <2> QED
      BY <1>1, <1>2, <1>6, <2>1
  <1>9. DOMAIN r = 1 .. Len(m) + Len(new)
    BY <1>8, LenProperties
  <1>10. ASSUME NEW k \in DOMAIN m
         PROVE  /\ k \in DOMAIN r /\ r[k].place = m[k].place
                /\ r[k].tier = 0 <=> m[k].tier = 0 \/ (tier = 0 /\ named(m[k].place))
    <2>1. k \in 1 .. Len(m) /\ k \in 1 .. Len(r) /\ k <= Len(m)
      BY <1>3, <1>4, <1>8
    <2>2. r[k] = old[k]
      BY <1>8, <2>1
    <2> QED
      BY <1>2, <1>8, <1>9, <2>1, <2>2
  <1> DEFINE source(k) == nth[k - Len(m)]
             added == DOMAIN r \ DOMAIN m
  <1>11. ASSUME NEW k \in added
         PROVE  /\ source(k) \in I /\ r[k].place = ps[source(k)] /\ r[k].tier = tier
                /\ k - Len(m) \in DOMAIN nth /\ k \in Nat
    <2>1. k \in 1 .. Len(r) /\ ~(k <= Len(m)) /\ k - Len(m) \in 1 .. Len(new) /\ k \in Nat
      BY <1>3, <1>4, <1>8, <1>9
    <2>2. r[k] = add[k - Len(m)]
      BY <1>8, <2>1
    <2>3. k - Len(m) \in DOMAIN nth /\ source(k) \in I /\ new[k - Len(m)] = ps[source(k)]
      BY <1>4, <1>5, <2>1
    <2> QED
      BY <1>7, <2>1, <2>2, <2>3
  <1>12. ASSUME NEW k \in added, NEW l \in added, source(k) = source(l)
         PROVE  k = l
    <2>1. k - Len(m) = l - Len(m)
      BY <1>5, <1>11, <1>12
    <2> QED
      BY <1>3, <1>11, <2>1
  <1>13. ASSUME NEW i \in I
         PROVE  \E k \in added : source(k) = i
    <2>1. PICK n \in 1 .. Len(new) : nth[n] = i
      BY <1>4, <1>5
    <2>2. n + Len(m) \in added /\ (n + Len(m)) - Len(m) = n
      BY <1>3, <1>4, <1>9, <2>1
    <2> QED
      BY <2>1, <2>2
  <1> HIDE DEF source, added
  <1>14. DOMAIN r = DOMAIN m \cup added
    BY <1>10, Zenon DEF added
  <1>15. Single(r)
    <2> SUFFICES ASSUME NEW k \in DOMAIN r, NEW l \in DOMAIN r, r[k].place = r[l].place
                 PROVE  k = l
      BY DEF Single
    <2>1. ASSUME NEW x \in DOMAIN m, NEW y \in added, r[x].place = r[y].place PROVE FALSE
      <3>1. m[x].place = ps[source(y)] /\ source(y) \in I
        BY <1>10, <1>11, <2>1
      <3> QED
        BY <3>1 DEF I
    <2>2. CASE k \in DOMAIN m /\ l \in DOMAIN m
      BY <1>10, <2>2 DEF Single
    <2>3. CASE k \in added /\ l \in added
      <3>1. ps[source(k)] = ps[source(l)] /\ source(k) \in I /\ source(l) \in I
        BY <1>11, <2>3
      <3>2. /\ source(k) \in 1 .. Len(ps) /\ \A h \in 1 .. source(k) - 1 : ps[h] # ps[source(k)]
            /\ source(l) \in 1 .. Len(ps) /\ \A h \in 1 .. source(l) - 1 : ps[h] # ps[source(l)]
        BY <1>3, <3>1 DEF I
      <3>3. source(k) = source(l)
        BY <3>1, <3>2, <1>3
      <3> QED
        BY <1>12, <2>3, <3>3
    <2> QED
      BY <1>14, <2>1, <2>2, <2>3
  <1>16. ASSUME NEW p, HasRow(r, p, 0)
         PROVE  HasRow(m, p, 0) \/ (tier = 0 /\ named(p))
    <2>1. PICK k \in DOMAIN r : r[k].place = p /\ r[k].tier = 0
      BY <1>16 DEF HasRow
    <2>2. CASE k \in DOMAIN m
      BY <1>10, <2>1, <2>2 DEF HasRow
    <2>3. CASE k \in added
      <3>1. source(k) \in DOMAIN ps /\ ps[source(k)] = p /\ tier = 0
        BY <1>11, <2>1, <2>3 DEF I
      <3> QED
        BY <3>1
    <2> QED
      BY <1>14, <2>2, <2>3
  <1>17. ASSUME NEW p, HasRow(m, p, 0)
         PROVE  HasRow(r, p, 0)
    BY <1>10, <1>17 DEF HasRow
  <1>18. ASSUME NEW p, tier = 0, named(p)
         PROVE  HasRow(r, p, 0)
    <2>1. CASE known(p)
      BY <1>10, <1>18, <2>1 DEF HasRow
    <2>2. CASE ~known(p)
      <3>1. {i \in DOMAIN ps : ps[i] = p} \in SUBSET (1 .. Len(ps)) /\ {i \in DOMAIN ps : ps[i] = p} # {}
        BY <1>3, <1>18
      <3>2. PICK i \in {j \in DOMAIN ps : ps[j] = p} : \A j \in {h \in DOMAIN ps : ps[h] = p} : i <= j
        BY <1>3, <3>1, Least
      <3>3. i \in I
        <4>1. i \in 1 .. Len(ps) /\ ps[i] = p /\ \A j \in 1 .. Len(ps) : ps[j] = p => i <= j
          BY <1>3, <3>2
        <4>2. ASSUME NEW j \in 1 .. i - 1 PROVE ps[j] # p
          BY <1>3, <4>1
        <4> QED
          BY <1>3, <2>2, <4>1, <4>2 DEF I
      <3>4. PICK k \in added : source(k) = i
        BY <1>13, <3>3
      <3>5. r[k].place = p /\ r[k].tier = 0
        BY <1>11, <1>18, <3>2, <3>4
      <3> QED
        BY <1>14, <3>5 DEF HasRow
    <2> QED
      BY <2>1, <2>2
  <1> QED
    BY <1>8, <1>15, <1>16, <1>17, <1>18 DEF r

------------------------------------------------------------------------------
\* The queue.

\* Targets of places that do not wait yet, each place once, can be appended: no
\* place waits twice, and only those appended are new.
LEMMA AppendKeepsSingle ==
  ASSUME NEW T, NEW q \in Seq(T), Single(q), NEW s \in Seq(T), NEW I \in SUBSET DOMAIN s,
         \A i \in I, k \in DOMAIN q : q[k].place # s[i].place,
         \A i, j \in I : s[i].place = s[j].place => i = j
  PROVE  /\ q \o Subsequence(s, I) \in Seq(T)
         /\ Single(q \o Subsequence(s, I))
         /\ \A k \in DOMAIN (q \o Subsequence(s, I)) :
              \/ \E l \in DOMAIN q : (q \o Subsequence(s, I))[k].place = q[l].place
              \/ \E i \in I : (q \o Subsequence(s, I))[k].place = s[i].place
         /\ q # <<>> \/ I # {} => q \o Subsequence(s, I) # <<>>
  <1> DEFINE u == Subsequence(s, I)
             r == q \o u
  <1>1. u \in Seq(T) /\ Lists(u, s, I)
    BY SubsequenceFacts
  <1>2. PICK nth \in [DOMAIN u -> I] :
          /\ \A m, k \in DOMAIN nth : nth[m] = nth[k] => m = k
          /\ \A i \in I : \E m \in DOMAIN nth : nth[m] = i
          /\ \A m \in DOMAIN nth : u[m] = s[nth[m]]
    BY <1>1 DEF Lists
  <1> HIDE DEF u
  <1>3. /\ DOMAIN q = 1 .. Len(q) /\ Len(q) \in Nat
        /\ DOMAIN u = 1 .. Len(u) /\ Len(u) \in Nat
    BY <1>1, LenProperties
  <1>4. /\ r \in Seq(T) /\ Len(r) = Len(q) + Len(u)
        /\ \A k \in 1 .. Len(q) + Len(u) : r[k] = IF k <= Len(q) THEN q[k] ELSE u[k - Len(q)]
    BY <1>1, ConcatProperties, Zenon
  <1> HIDE DEF r
  <1>5. DOMAIN r = 1 .. Len(q) + Len(u)
    BY <1>4, LenProperties
  <1> DEFINE source(k) == nth[k - Len(q)]
             added == DOMAIN r \ DOMAIN q
  <1>6. \A k \in DOMAIN q : k \in DOMAIN r /\ r[k] = q[k]
    BY <1>3, <1>4, <1>5
  <1>7. ASSUME NEW k \in added
        PROVE  /\ source(k) \in I /\ r[k] = s[source(k)]
               /\ k - Len(q) \in DOMAIN nth /\ k \in Nat
    BY <1>2, <1>3, <1>4, <1>5
  <1>8. ASSUME NEW k \in added, NEW l \in added, source(k) = source(l)
        PROVE  k = l
    <2>1. k - Len(q) = l - Len(q)
      BY <1>2, <1>7, <1>8
    <2> QED
      BY <1>3, <1>7, <2>1
  <1>9. q # <<>> \/ I # {} => r # <<>>
    <2>1. CASE q # <<>>
      <3>1. Len(q) # 0
        BY <2>1, EmptySeq
      <3> QED
        BY <1>3, <1>4, <3>1
    <2>2. CASE I # {}
      <3>1. DOMAIN u # {}
        BY <1>2, <2>2
      <3>2. Len(u) # 0
        BY <1>3, <3>1
      <3> QED
        BY <1>3, <1>4, <3>2
    <2> QED
      BY <2>1, <2>2
  <1> HIDE DEF source, added
  <1>10. DOMAIN r = DOMAIN q \cup added
    BY <1>6, Zenon DEF added
  <1>11. Single(r)
    <2> SUFFICES ASSUME NEW k \in DOMAIN r, NEW l \in DOMAIN r, r[k].place = r[l].place
                 PROVE  k = l
      BY DEF Single
    <2>1. CASE k \in DOMAIN q /\ l \in DOMAIN q
      BY <1>6, <2>1 DEF Single
    <2>2. CASE k \in added /\ l \in added
      BY <1>7, <1>8, <2>2
    <2>3. ASSUME NEW x \in DOMAIN q, NEW y \in added, r[x].place = r[y].place PROVE FALSE
      BY <1>6, <1>7, <2>3
    <2> QED
      BY <1>10, <2>1, <2>2, <2>3
  <1>12. ASSUME NEW k \in DOMAIN r
         PROVE  \/ \E l \in DOMAIN q : r[k].place = q[l].place
                \/ \E i \in I : r[k].place = s[i].place
    BY <1>6, <1>7, <1>10
  <1> QED
    BY <1>4, <1>9, <1>11, <1>12 DEF r, u

QueueTypes ==
  /\ pending \in Seq(Target) /\ explored \in SUBSET Place
  /\ edges \in SUBSET ((Place \cup {NoPlace}) \X Place) /\ target \in Place \cup {NoPlace}

\* _enqueue_targets: what waits is new, and of targets that nothing forbids one
\* gets through.
LEMMA EnqueueFacts ==
  ASSUME QueueTypes, QueueFresh, NEW ts \in Seq(Target), EnqueueTargets(ts)
  PROVE  /\ pending' \in Seq(Target) /\ edges' \in SUBSET ((Place \cup {NoPlace}) \X Place)
         /\ Single(pending')
         /\ \A k \in DOMAIN pending' : pending'[k].place \notin explored
         /\ pending # <<>> => pending' # <<>>
         /\ ts # <<>> /\ pending = <<>> /\ explored = {} /\ edges = {} => pending' # <<>>
  <1> DEFINE all == Accepted(ts)
             new == {i \in all : Novel(ts[i])}
             one == pending \o Subsequence(ts, new)
  <1>1. /\ pending' = one \o Subsequence(ts, all \ new)
        /\ edges' = edges \cup {<<target, ts[i].place>> : i \in all}
    BY Zenon DEF EnqueueTargets
  <1>2. all \in SUBSET DOMAIN ts /\ DOMAIN ts = 1 .. Len(ts) /\ Len(ts) \in Nat
    BY LenProperties DEF Accepted
  <1>3. ASSUME NEW i \in all
        PROVE  ts[i].place \in Place /\ ts[i].place \notin explored \cup PendingPlaces
    <2>1. ts[i] \in Target
      BY <1>2, ElementOfSeq
    <2>2. MayEnqueue(ts[i].place)
      BY Zenon DEF Accepted
    <2> QED
      BY <2>1, <2>2 DEF MayEnqueue, Target
  <1>4. ASSUME NEW i \in all, NEW j \in all, ts[i].place = ts[j].place
        PROVE  i = j
    <2>1. i \in 1 .. Len(ts) /\ \A h \in 1 .. i - 1 : ts[h].place # ts[i].place
      BY <1>2 DEF Accepted
    <2>2. j \in 1 .. Len(ts) /\ \A h \in 1 .. j - 1 : ts[h].place # ts[j].place
      BY <1>2 DEF Accepted
    <2>3. ~(i < j) /\ ~(j < i)
      BY <1>2, <1>4, <2>1, <2>2
    <2> QED
      BY <2>1, <2>2, <2>3
  <1>5. Single(pending) /\ pending \in Seq(Target)
    BY DEF QueueTypes, QueueFresh, Single
  <1>6. \A i \in all, k \in DOMAIN pending : pending[k].place # ts[i].place
    BY <1>3 DEF PendingPlaces
  <1>7. new \in SUBSET DOMAIN ts /\ all \ new \in SUBSET DOMAIN ts
    BY <1>2
  <1> HIDE DEF all
  <1>8. /\ one \in Seq(Target) /\ Single(one)
        /\ \A k \in DOMAIN one : \/ \E l \in DOMAIN pending : one[k].place = pending[l].place
                                 \/ \E i \in new : one[k].place = ts[i].place
        /\ pending # <<>> \/ new # {} => one # <<>>
    <2>1. \A i \in new, k \in DOMAIN pending : pending[k].place # ts[i].place
      BY <1>6
    <2>2. \A i, j \in new : ts[i].place = ts[j].place => i = j
      BY <1>4
    <2> HIDE DEF new
    <2> QED
      BY <1>5, <1>7, <2>1, <2>2, AppendKeepsSingle
  <1> DEFINE rest == all \ new
  <1>9. \A i \in rest, k \in DOMAIN one : one[k].place # ts[i].place
    BY <1>4, <1>6, <1>8
  <1>10. /\ \A i, j \in rest : ts[i].place = ts[j].place => i = j
         /\ rest \in SUBSET DOMAIN ts /\ all = new \cup rest
         /\ pending' = one \o Subsequence(ts, rest)
    BY <1>1, <1>4, <1>7
  <1> HIDE DEF new, one, rest
  <1>11. /\ pending' \in Seq(Target) /\ Single(pending')
         /\ \A k \in DOMAIN pending' : \/ \E l \in DOMAIN one : pending'[k].place = one[l].place
                                       \/ \E i \in rest : pending'[k].place = ts[i].place
         /\ one # <<>> \/ rest # {} => pending' # <<>>
    <2> DEFINE r == one \o Subsequence(ts, rest)
    <2>1. one \in Seq(Target) /\ Single(one)
      BY <1>8
    <2>2. /\ rest \in SUBSET DOMAIN ts
          /\ \A i, j \in rest : ts[i].place = ts[j].place => i = j
      BY <1>10
    <2>3. /\ r \in Seq(Target) /\ Single(r)
          /\ \A k \in DOMAIN r : \/ \E l \in DOMAIN one : r[k].place = one[l].place
                                 \/ \E i \in rest : r[k].place = ts[i].place
          /\ one # <<>> \/ rest # {} => r # <<>>
      BY <2>1, <2>2, <1>9, AppendKeepsSingle
    <2>4. pending' = r
      BY <1>10
    <2> QED
      BY <2>3, <2>4, Zenon
  <1>12. \A k \in DOMAIN pending : pending[k].place \notin explored
    BY DEF QueueFresh, PendingPlaces
  <1>13. ASSUME NEW k \in DOMAIN pending' PROVE pending'[k].place \notin explored
    <2>1. CASE \E i \in rest : pending'[k].place = ts[i].place
      BY <1>3, <1>10, <2>1
    <2>2. ASSUME NEW l \in DOMAIN one, pending'[k].place = one[l].place
          PROVE  pending'[k].place \notin explored
      <3>1. \/ \E h \in DOMAIN pending : one[l].place = pending[h].place
            \/ \E i \in new : one[l].place = ts[i].place
        BY <1>8
      <3> QED
        BY <1>3, <1>10, <1>12, <2>2, <3>1
    <2> QED
      BY <1>11, <2>1, <2>2
  <1>14. edges' \in SUBSET ((Place \cup {NoPlace}) \X Place)
    BY <1>1, <1>3 DEF QueueTypes
  <1>15. ASSUME ts # <<>>, pending = <<>>, explored = {}, edges = {} PROVE pending' # <<>>
    <2>1. 1 \in DOMAIN ts
      BY <1>2, <1>15, EmptySeq
    <2>2. PendingPlaces = {}
      BY <1>15 DEF PendingPlaces
    <2>3. 1 \in all
      BY <1>2, <1>15, <2>1, <2>2 DEF all, Accepted, MayEnqueue
    <2> QED
      BY <1>8, <1>10, <1>11, <2>3
  <1> QED
    BY <1>8, <1>11, <1>13, <1>14, <1>15
------------------------------------------------------------------------------
\* The invariant.

\* The places with a row of tier 0 are those that were analysed.
AnalysedRows == Single(memory) /\ \A p \in Place : p \in analysed <=> HasRow(memory, p, 0)

\* What is known of the run at each phase.  An analysis came back before anything
\* is decided, and the loop starts with something to read.
Progress ==
  /\ phase \in {"start", "bootstrap"} => explored = {} /\ target = NoPlace
  /\ phase = "start" => pending = <<>> /\ edges = {}
  /\ phase = "bootstrap" /\ pending = <<>> => selectionNone /\ edges = {}
  /\ phase = "loop" => pending # <<>> \/ analysed # {}
  /\ phase \in {"analyze", "decide"} => target \in Place
  /\ phase = "decide" \/ sufficient \/ termination = "pending_exhausted" => analysed # {}

\* Each read is analysed at most once, and the last one that the budget allows is not.
Budget ==
  /\ IsFiniteSet(analysed) /\ Cardinality(analysed) <= steps
  /\ Cardinality(analysed) < MaxSteps
  /\ phase \in {"start", "bootstrap", "loop", "analyze", "decide"} => steps < MaxSteps
  /\ phase = "analyze" => Cardinality(analysed) < steps

ExplorationInv == TypeOK /\ QueueFresh /\ AnalysedRows /\ Progress /\ Budget

\* The places of candidates and their first symbols.
LEMMA FirstPlace ==
  ASSUME NEW c \in Candidate
  PROVE  At(c.file, First(c.symbols)) \in Place
  <1>1. c.file \in Files /\ c.symbols \in Seq(Symbols)
    BY DEF Candidate
  <1>2. First(c.symbols) \in Symbols \cup {NoSymbol}
    <2>1. CASE c.symbols = <<>>
      BY <2>1 DEF First
    <2>2. CASE c.symbols # <<>>
      <3>1. Len(c.symbols) \in Nat /\ Len(c.symbols) # 0
        BY <1>1, <2>2, LenProperties, EmptySeq
      <3>2. c.symbols[1] \in Symbols
        BY <1>1, <3>1, ElementOfSeq
      <3> QED
        BY <2>2, <3>2 DEF First
    <2> QED
      BY <2>1, <2>2
  <1> QED
    BY <1>1, <1>2 DEF Place, At

\* What a selection leaves: a fresh queue, which is empty on a first search only
\* when it is said that nothing was selected.
SearchedQueue ==
  /\ pending' \in Seq(Target) /\ edges' \in SUBSET ((Place \cup {NoPlace}) \X Place)
  /\ Single(pending') /\ \A k \in DOMAIN pending' : pending'[k].place \notin explored
  /\ pending # <<>> => pending' # <<>>
  /\ pending = <<>> /\ explored = {} /\ edges = {} /\ pending' = <<>> =>
       selectionNone' /\ edges' = {}
  /\ selectionNone' \in BOOLEAN /\ coverage' \in Coverage

LEMMA RankedFacts ==
  ASSUME QueueTypes, QueueFresh, NEW limit \in Nat, NEW cs \in Seq(Candidate),
         EnqueueRanked(cs, limit)
  PROVE  SearchedQueue
  <1> DEFINE shown == Selectable(cs)
             targets(n, pick, cov, sym) ==
               [i \in 1 .. n |-> [place |-> At(cs[pick[i]].file, sym[i]), coverage |-> cov,
                                  symbols |-> {sym[j] : j \in 1 .. n} \ {NoSymbol}]]
  <1>1. shown \in SUBSET DOMAIN cs /\ DOMAIN cs = 1 .. Len(cs) /\ Len(cs) \in Nat
    BY LenProperties DEF Selectable
  <1>2. ASSUME NEW cov \in {"good", "poor"}, NothingSelected(cov)
        PROVE  SearchedQueue
    BY <1>2 DEF NothingSelected, SearchedQueue, queueVars, QueueTypes, QueueFresh, Single,
                PendingPlaces, Coverage
  <1>3. ASSUME NEW n \in 1 .. Min2(limit, Cardinality(shown)),
               NEW pick \in [1 .. n -> shown], NEW cov \in {"good", "poor"},
               NEW sym \in [1 .. n -> Symbols \cup {NoSymbol}],
               EnqueueTargets(targets(n, pick, cov, sym)),
               selectionNone' = FALSE, coverage' = cov
        PROVE  SearchedQueue
    <2>1. n \in Nat \ {0}
      BY <1>1, Ranks DEF Min2
    <2>2. ASSUME NEW i \in 1 .. n PROVE targets(n, pick, cov, sym)[i] \in Target
      <3>1. cs[pick[i]].file \in Files
        <4>1. pick[i] \in 1 .. Len(cs)
          BY <1>1
        <4>2. cs[pick[i]] \in Candidate
          BY <4>1, ElementOfSeq
        <4> QED
          BY <4>2 DEF Candidate
      <3>2. {sym[j] : j \in 1 .. n} \ {NoSymbol} \in SUBSET Symbols /\ sym[i] \in Symbols \cup {NoSymbol}
        OBVIOUS
      <3>3. At(cs[pick[i]].file, sym[i]) \in Place
        BY <3>1, <3>2 DEF At, Place
      <3> QED
        BY <3>2, <3>3 DEF Target, Coverage
    <2> DEFINE ts == targets(n, pick, cov, sym)
    <2>3. ts \in [1 .. n -> Target]
      BY <2>2
    <2> HIDE DEF targets
    <2>4. ts \in Seq(Target) /\ ts # <<>>
      BY <2>1, <2>3, SeqDef
    <2>5. EnqueueTargets(ts)
      BY <1>3
    <2> HIDE DEF ts
    <2>6. /\ pending' \in Seq(Target) /\ edges' \in SUBSET ((Place \cup {NoPlace}) \X Place)
          /\ Single(pending')
          /\ \A k \in DOMAIN pending' : pending'[k].place \notin explored
          /\ pending # <<>> => pending' # <<>>
          /\ ts # <<>> /\ pending = <<>> /\ explored = {} /\ edges = {} => pending' # <<>>
      BY <2>4, <2>5, EnqueueFacts
    <2>7. coverage' \in Coverage
      BY <1>3 DEF Coverage
    <2> QED
      BY <1>3, <2>4, <2>6, <2>7 DEF SearchedQueue
  <1>4. \/ shown = {} /\ NothingSelected("poor")
        \/ shown # {} /\ \E cov \in {"good", "poor"} : NothingSelected(cov)
        \/ \E n \in 1 .. Min2(limit, Cardinality(shown)) :
           \E pick \in [1 .. n -> shown], cov \in {"good", "poor"} :
             /\ \A i, j \in 1 .. n : pick[i] = pick[j] => i = j
             /\ \E sym \in [1 .. n -> Symbols \cup {NoSymbol}] :
                  /\ \A i \in 1 .. n : sym[i] \in Outline[cs[pick[i]].file] \cup {NoSymbol}
                  /\ EnqueueTargets(targets(n, pick, cov, sym))
             /\ selectionNone' = FALSE
             /\ coverage' = cov
    BY Zenon DEF EnqueueRanked
  <1> HIDE DEF targets, shown
  <1> QED
    BY <1>2, <1>3, <1>4

\* A search adds no row of tier 0.
LEMMA SearchFacts ==
  ASSUME TypeOK, QueueFresh, AnalysedRows, NEW limit \in Nat, Search(limit)
  PROVE  /\ SearchedQueue /\ hint' \in BOOLEAN /\ definition' \in BOOLEAN
         /\ memory' \in Seq(Row) /\ Single(memory')
         /\ \A p : HasRow(memory', p, 0) <=> HasRow(memory, p, 0)
  <1>1. PICK d \in Discoveries :
          LET cs == Subsequence(d, {i \in DOMAIN d : Useful(d[i])})
          IN  /\ memory' = RememberAll(memory,
                    [i \in 1 .. Min2(MaxItems, Len(cs)) |->
                       At(cs[i].file, First(cs[i].symbols))], 2)
              /\ EnqueueRanked(cs, limit)
    BY DEF Search
  <1> DEFINE useful == {i \in DOMAIN d : Useful(d[i])}
             cs == Subsequence(d, useful)
             n == Min2(MaxItems, Len(cs))
             hits == [i \in 1 .. n |-> At(cs[i].file, First(cs[i].symbols))]
  <1>2. memory' = RememberAll(memory, hits, 2) /\ EnqueueRanked(cs, limit)
    BY <1>1
  <1>3. d \in Seq(Candidate) /\ useful \in SUBSET DOMAIN d
    BY SearchAssumption
  <1> HIDE DEF useful
  <1>4. cs \in Seq(Candidate)
    BY <1>3, SubsequenceFacts
  <1> HIDE DEF cs
  <1>5. n \in Nat /\ n <= Len(cs) /\ Len(cs) \in Nat
    BY <1>4, LenProperties, LimitsAssumption DEF Min2
  <1> HIDE DEF n
  <1>6. ASSUME NEW i \in 1 .. n PROVE At(cs[i].file, First(cs[i].symbols)) \in Place
    <2>1. cs[i] \in Candidate
      BY <1>4, <1>5, ElementOfSeq
    <2> QED
      BY <2>1, FirstPlace
  <1>7. hits \in Seq(Place)
    BY <1>5, <1>6, SeqDef
  <1>8. QueueTypes /\ memory \in Seq(Row) /\ Single(memory)
    BY DEF TypeOK, QueueTypes, AnalysedRows, Row
  <1> HIDE DEF hits
  <1>9. SearchedQueue
    BY <1>2, <1>4, <1>8, RankedFacts
  <1>10. /\ RememberAll(memory, hits, 2) \in Seq(Row) /\ Single(RememberAll(memory, hits, 2))
         /\ \A p : HasRow(RememberAll(memory, hits, 2), p, 0) <=>
                     HasRow(memory, p, 0) \/ (2 = 0 /\ \E j \in DOMAIN hits : hits[j] = p)
    BY <1>7, <1>8, RememberAllFacts
  <1>11. hint' \in BOOLEAN /\ definition' \in BOOLEAN
    BY DEF Search
  <1> QED
    BY <1>2, <1>9, <1>10, <1>11
------------------------------------------------------------------------------
\* The result.

\* The row of an analysis has at most the rows of other analyses before it.
LEMMA RowsBefore ==
  ASSUME TypeOK, AnalysedRows, Budget, NEW i \in DOMAIN memory, memory[i].tier = 0
  PROVE  /\ memory[i].place \in analysed
         /\ Cardinality({k \in DOMAIN memory : Before(k, i)}) \in Nat
         /\ Cardinality({k \in DOMAIN memory : Before(k, i)}) < Cardinality(analysed)
  <1> DEFINE before == {k \in DOMAIN memory : Before(k, i)}
             others == analysed \ {memory[i].place}
             place == [k \in before |-> memory[k].place]
  <1>1. memory \in Seq(Row) /\ DOMAIN memory = 1 .. Len(memory) /\ Len(memory) \in Nat
    BY LenProperties DEF TypeOK, Row
  <1>2. ASSUME NEW k \in DOMAIN memory
        PROVE  /\ memory[k].place \in Place /\ memory[k].tier \in 0 .. 2
               /\ memory[k].tier = 0 => memory[k].place \in analysed
    <2>1. memory[k] \in Row
      BY <1>1, ElementOfSeq
    <2> QED
      BY <2>1 DEF Row, AnalysedRows, HasRow
  <1>3. ASSUME NEW k \in before
        PROVE  k \in DOMAIN memory /\ k # i /\ memory[k].tier = 0
    BY <1>1, <1>2 DEF Before
  <1>4. place \in Injection(before, others)
    <2>1. ASSUME NEW k \in before PROVE place[k] \in others
      <3>1. memory[k].place # memory[i].place
        BY <1>3, Zenon DEF AnalysedRows, Single
      <3> QED
        BY <1>2, <1>3, <3>1
    <2>2. ASSUME NEW k \in before, NEW l \in before, place[k] = place[l] PROVE k = l
      BY <1>3, <2>2 DEF AnalysedRows, Single
    <2>3. place \in [before -> others]
      BY <2>1
    <2> HIDE DEF place, before, others
    <2> QED
      BY <2>2, <2>3 DEF Injection, IsInjective
  <1>5. /\ IsFiniteSet(analysed) /\ Cardinality(analysed) \in Nat
        /\ IsFiniteSet(others) /\ Cardinality(others) = Cardinality(analysed) - 1
    BY <1>2, FS_RemoveElement, FS_CardinalityType DEF Budget
  <1> HIDE DEF place, others
  <1>6. IsFiniteSet(before) /\ Cardinality(before) <= Cardinality(others)
    BY <1>4, <1>5, FS_Injection
  <1> HIDE DEF before
  <1>7. Cardinality(before) \in Nat
    BY <1>6, FS_CardinalityType
  <1>8. Cardinality(before) < Cardinality(analysed)
    BY <1>5, <1>6, <1>7
  <1>9. memory[i].place \in analysed
    BY <1>2
  <1> QED
    BY <1>7, <1>8, <1>9 DEF before

LEMMA InvReportsAnalyses == ExplorationInv => AnalysedReported
  <1> SUFFICES ASSUME ExplorationInv, MaxSteps <= MaxItems + 1, NEW p \in analysed
               PROVE  [place |-> p, tier |-> 0] \in Reported
    BY DEF AnalysedReported
  <1>1. PICK i \in DOMAIN memory : memory[i].place = p /\ memory[i].tier = 0
    BY DEF ExplorationInv, TypeOK, AnalysedRows, HasRow
  <1>2. /\ Cardinality({k \in DOMAIN memory : Before(k, i)}) \in Nat
        /\ Cardinality({k \in DOMAIN memory : Before(k, i)}) < Cardinality(analysed)
    BY <1>1, RowsBefore DEF ExplorationInv
  <1>3. Cardinality(analysed) \in Nat /\ Cardinality(analysed) < MaxSteps
    BY FS_CardinalityType DEF ExplorationInv, Budget
  <1>4. Cardinality({k \in DOMAIN memory : Before(k, i)}) < MaxItems
    BY <1>2, <1>3, LimitsAssumption
  <1>5. memory[i] = [place |-> p, tier |-> 0]
    <2>1. memory \in Seq(Row)
      BY DEF ExplorationInv, TypeOK, Row
    <2>2. memory[i] \in Row
      BY <2>1, ElementOfSeq, LenProperties
    <2> QED
      BY <1>1, <2>2 DEF Row
  <1> QED
    BY <1>4, <1>5 DEF Reported

LEMMA InvGroundsConfidence == ExplorationInv => CompleteIsGrounded
  <1> SUFFICES ASSUME ExplorationInv, phase = "done", HighConfidence
               PROVE  \E r \in Reported : r.tier = 0
    BY DEF CompleteIsGrounded
  <1> DEFINE zero == {i \in DOMAIN memory : memory[i].tier = 0}
  <1>1. memory \in Seq(Row) /\ DOMAIN memory = 1 .. Len(memory) /\ Len(memory) \in Nat
    BY LenProperties DEF ExplorationInv, TypeOK, Row
  <1>2. analysed # {} /\ analysed \in SUBSET Place
    BY DEF HighConfidence, Complete, ExplorationInv, Progress, TypeOK
  <1>3. zero # {} /\ zero \in SUBSET (1 .. Len(memory))
    BY <1>1, <1>2 DEF ExplorationInv, AnalysedRows, HasRow
  <1>4. PICK i \in zero : \A j \in zero : i <= j
    BY <1>1, <1>3, Least
  <1>5. ASSUME NEW k \in DOMAIN memory, Before(k, i) PROVE FALSE
    <2>1. memory[k] \in Row /\ memory[i].tier = 0
      BY <1>1, ElementOfSeq
    <2>2. memory[k].tier = 0 /\ k < i
      BY <1>5, <2>1 DEF Before, Row
    <2> QED
      BY <1>1, <1>4, <2>2
  <1>6. {k \in DOMAIN memory : Before(k, i)} = {}
    BY <1>5
  <1>7. Cardinality({k \in DOMAIN memory : Before(k, i)}) < MaxItems
    BY <1>6, FS_EmptySet, LimitsAssumption
  <1>8. memory[i] \in Reported /\ memory[i].tier = 0
    BY <1>7 DEF Reported
  <1> QED
    BY <1>8
------------------------------------------------------------------------------
\* The steps.

LEMMA InvInit == Init => ExplorationInv
  <1> SUFFICES ASSUME Init PROVE ExplorationInv
    OBVIOUS
  <1>1. IsFiniteSet(analysed) /\ Cardinality(analysed) = 0
    BY FS_EmptySet DEF Init
  <1>2. TypeOK
    <2>1. pending \in Seq(Target) /\ memory \in Seq([place : Place, tier : 0 .. 2])
      BY EmptySeq DEF Init
    <2>2. /\ steps \in 0 .. MaxSteps /\ backtracks \in 0 .. MaxBacktracks
          /\ refines \in 0 .. MaxRefines /\ depth \in 0 .. MaxDepth /\ boots \in 0 .. MaxRefines
      BY LimitsAssumption DEF Init
    <2> QED
      BY <2>1, <2>2 DEF Init, TypeOK, Coverage
  <1>3. QueueFresh /\ AnalysedRows
    BY DEF Init, QueueFresh, PendingPlaces, AnalysedRows, Single, HasRow
  <1>4. Progress
    BY DEF Init, Progress
  <1>5. Budget
    BY <1>1, LimitsAssumption DEF Init, Budget
  <1> QED
    BY <1>2, <1>3, <1>4, <1>5 DEF ExplorationInv

\* A search keeps what it shares with the other steps.
LEMMA SearchKeeps ==
  ASSUME ExplorationInv, NEW limit \in Nat, Search(limit), UNCHANGED <<explored, analysed>>
  PROVE  /\ SearchedQueue /\ hint' \in BOOLEAN /\ definition' \in BOOLEAN
         /\ memory' \in Seq(Row) /\ QueueFresh' /\ AnalysedRows'
  <1>1. /\ SearchedQueue /\ hint' \in BOOLEAN /\ definition' \in BOOLEAN
        /\ memory' \in Seq(Row) /\ Single(memory')
        /\ \A p : HasRow(memory', p, 0) <=> HasRow(memory, p, 0)
    BY SearchFacts DEF ExplorationInv
  <1>2. QueueFresh'
    BY <1>1 DEF SearchedQueue, Single, QueueFresh, PendingPlaces
  <1>3. AnalysedRows'
    <2>1. \A p \in Place : p \in analysed' <=> HasRow(memory', p, 0)
      BY <1>1 DEF ExplorationInv, AnalysedRows
    <2> QED
      BY <1>1, <2>1 DEF AnalysedRows
  <1> QED
    BY <1>1, <1>2, <1>3

LEMMA BeginKeepsInv ==
  ASSUME ExplorationInv, Begin
  PROVE  ExplorationInv'
  <1> USE DEF countVars, readVars, expandVars, verdictVars
  <1>1. /\ SearchedQueue /\ hint' \in BOOLEAN /\ definition' \in BOOLEAN
        /\ memory' \in Seq(Row) /\ QueueFresh' /\ AnalysedRows'
    BY SearchKeeps, LimitsAssumption DEF Begin
  <1>2. TypeOK'
    BY <1>1 DEF ExplorationInv, TypeOK, Begin, SearchedQueue, Row
  <1>3. Progress'
    BY <1>1 DEF ExplorationInv, Progress, Begin, SearchedQueue
  <1>4. Budget'
    BY DEF ExplorationInv, Budget, Begin
  <1> QED
    BY <1>1, <1>2, <1>3, <1>4 DEF ExplorationInv

LEMMA BootstrapKeepsInv ==
  ASSUME ExplorationInv, Bootstrap
  PROVE  ExplorationInv'
  <1> USE DEF readVars, expandVars, verdictVars
  <1>1. /\ SearchedQueue /\ hint' \in BOOLEAN /\ definition' \in BOOLEAN
        /\ memory' \in Seq(Row) /\ QueueFresh' /\ AnalysedRows'
    BY SearchKeeps, LimitsAssumption DEF Bootstrap
  <1>2. boots' \in 0 .. MaxRefines
    BY LimitsAssumption DEF ExplorationInv, TypeOK, Bootstrap, SearchAgain, NextBoot
  <1>3. TypeOK'
    BY <1>1, <1>2 DEF ExplorationInv, TypeOK, Bootstrap, SearchedQueue, Row
  <1>4. Progress'
    BY <1>1 DEF ExplorationInv, Progress, Bootstrap, SearchAgain, SearchedQueue
  <1>5. Budget'
    BY DEF ExplorationInv, Budget, Bootstrap
  <1> QED
    BY <1>1, <1>3, <1>4, <1>5 DEF ExplorationInv

LEMMA RefineKeepsInv ==
  ASSUME ExplorationInv, Refine
  PROVE  ExplorationInv'
  <1> USE DEF readVars, expandVars, verdictVars
  <1>1. /\ SearchedQueue /\ hint' \in BOOLEAN /\ definition' \in BOOLEAN
        /\ memory' \in Seq(Row) /\ QueueFresh' /\ AnalysedRows'
    BY SearchKeeps, LimitsAssumption DEF Refine
  <1>2. refines' \in 0 .. MaxRefines /\ backtracks' \in 0 .. MaxBacktracks
    BY LimitsAssumption DEF ExplorationInv, TypeOK, Refine, Control
  <1>3. /\ phase' = "loop" \/ phase' = "done"
        /\ termination' = "no_relevant_candidate" \/ termination' = termination
    BY DEF Refine, Finish
  <1>4. TypeOK'
    BY <1>1, <1>2, <1>3 DEF ExplorationInv, TypeOK, Refine, SearchedQueue, Row
  <1>5. Progress'
    BY <1>3 DEF ExplorationInv, Progress, Refine
  <1>6. Budget'
    BY <1>3 DEF ExplorationInv, Budget, Refine
  <1> QED
    BY <1>1, <1>4, <1>5, <1>6 DEF ExplorationInv

\* The steps that only decide how to go on.
LEMMA QuietKeepsInv ==
  ASSUME ExplorationInv,
         UNCHANGED <<queueVars, searchVars, countVars, readVars, expandVars, verdictVars, memory>>,
         EnterLoop \/ QueueDrained \/ Stop \/ GoOn \/ Raise \/ UNCHANGED <<phase, termination>>
  PROVE  ExplorationInv'
  <1> USE DEF queueVars, searchVars, countVars, readVars, expandVars, verdictVars
  <1>1. QueueFresh' /\ AnalysedRows'
    BY DEF ExplorationInv, QueueFresh, PendingPlaces, AnalysedRows, Single, HasRow
  <1>2. TypeOK'
    <2>1. UNCHANGED phase \/ phase' \in {"loop", "done", "failed"}
      BY DEF EnterLoop, QueueDrained, Stop, GoOn, Raise, Finish
    <2>2. UNCHANGED termination \/ termination' \in {"no_relevant_candidate",
             "pending_exhausted", "analyzer_sufficient", "mapper_default_stop"}
      BY DEF EnterLoop, QueueDrained, Stop, GoOn, Raise, Finish
    <2> QED
      BY <2>1, <2>2 DEF ExplorationInv, TypeOK
  <1>3. Progress'
    <2>1. CASE EnterLoop
      BY <2>1 DEF ExplorationInv, Progress, EnterLoop, NothingFound, Finish
    <2>2. CASE QueueDrained
      BY <2>2 DEF ExplorationInv, Progress, QueueDrained, Finish
    <2>3. CASE Stop
      BY <2>3 DEF ExplorationInv, Progress, Stop, Finish
    <2>4. CASE GoOn
      BY <2>4 DEF ExplorationInv, Progress, GoOn
    <2>5. CASE Raise \/ UNCHANGED <<phase, termination>>
      BY <2>5 DEF ExplorationInv, Progress, Raise
    <2> QED
      BY <2>1, <2>2, <2>3, <2>4, <2>5
  <1>4. Budget'
    BY DEF ExplorationInv, Budget, EnterLoop, QueueDrained, Stop, GoOn, Raise, Finish
  <1> QED
    BY <1>1, <1>2, <1>3, <1>4 DEF ExplorationInv
\* The place that is read leaves the queue.
LEMMA InspectKeepsInv ==
  ASSUME ExplorationInv, Inspect
  PROVE  ExplorationInv'
  <1> DEFINE t == Head(pending)
             p == t.place
  <1>1. pending \in Seq(Target) /\ pending # <<>> /\ Len(pending) \in Nat \ {0}
    BY LenProperties, EmptySeq DEF ExplorationInv, TypeOK, Inspect
  <1>2. /\ t = pending[1] /\ t \in Target /\ 1 \in DOMAIN pending
        /\ pending' = Tail(pending) /\ pending' \in Seq(Target)
        /\ DOMAIN pending = 1 .. Len(pending) /\ DOMAIN pending' = 1 .. Len(pending) - 1
        /\ \A i \in DOMAIN pending' : pending'[i] = pending[i + 1] /\ i + 1 \in DOMAIN pending
    <2>1. pending' = Tail(pending)
      BY DEF Inspect
    <2> QED
      BY <1>1, <2>1, HeadTailProperties, LenProperties, ElementOfSeq
  <1>3. p \in Place /\ p.file \in Files /\ p.symbol \in Symbols \cup {NoSymbol}
        /\ t.symbols \in SUBSET Symbols /\ t.coverage \in Coverage
    BY <1>2 DEF Target, Place
  <1>4. /\ target' = p /\ explored' = explored \cup {p} /\ steps' = steps + 1
        /\ coverage' = t.coverage /\ wanted' = t.symbols
        /\ UNCHANGED <<edges, selectionNone, hint, definition, backtracks, refines, depth, boots,
                       expandVars, sufficient, analysed, memory>>
    BY DEF Inspect
  <1>5. phase = "loop" /\ steps \in Nat /\ steps < MaxSteps
    BY LimitsAssumption DEF Inspect, ExplorationInv, TypeOK, Budget
  <1>6. \/ phase' = "done" /\ termination' \in {"policy_violation_full_read", "max_steps"}
        \/ phase' = "analyze" /\ UNCHANGED termination /\ steps' < MaxSteps
    BY <1>4, <1>5, LimitsAssumption DEF Inspect, Finish, OutOfSteps
  <1>7. /\ seenFiles' \in {seenFiles, seenFiles \cup {p.file}}
        /\ seenSymbols' \in {seenSymbols, seenSymbols \cup ({p.symbol} \ {NoSymbol})}
        /\ primary' \in {primary, p.symbol} /\ bodySeen' \in {bodySeen, TRUE}
    BY DEF Inspect
  <1> HIDE DEF t
  <1>8. QueueFresh'
    <2>1. \A i, j \in DOMAIN pending : pending[i].place = pending[j].place => i = j
      BY DEF ExplorationInv, QueueFresh
    <2>2. \A i \in DOMAIN pending : pending[i].place \notin explored
      BY DEF ExplorationInv, QueueFresh, PendingPlaces
    <2>3. ASSUME NEW i \in DOMAIN pending', NEW j \in DOMAIN pending',
                 pending'[i].place = pending'[j].place
          PROVE  i = j
      <3>1. i + 1 = j + 1
        BY <1>2, <2>1, <2>3
      <3> QED
        BY <1>1, <1>2, <3>1
    <2>4. ASSUME NEW i \in DOMAIN pending' PROVE pending'[i].place \notin explored'
      <3>1. pending'[i].place \notin explored
        BY <1>2, <2>2
      <3>2. i + 1 # 1
        BY <1>1, <1>2
      <3>3. pending'[i].place # p
        BY <1>2, <2>1, <3>2
      <3> QED
        BY <1>4, <3>1, <3>3
    <2> QED
      BY <2>3, <2>4 DEF QueueFresh, PendingPlaces
  <1>9. TypeOK'
    <2>1. steps' \in 0 .. MaxSteps
      BY <1>4, <1>5, LimitsAssumption
    <2>2. /\ seenFiles' \in SUBSET Files /\ seenSymbols' \in SUBSET Symbols
          /\ primary' \in Symbols \cup {NoSymbol} /\ bodySeen' \in BOOLEAN
      BY <1>3, <1>7 DEF ExplorationInv, TypeOK
    <2> QED
      BY <1>2, <1>3, <1>4, <1>6, <2>1, <2>2 DEF ExplorationInv, TypeOK, expandVars
  <1>10. AnalysedRows'
    BY <1>4 DEF ExplorationInv, AnalysedRows, Single, HasRow
  <1>11. Progress'
    BY <1>3, <1>4, <1>5, <1>6 DEF ExplorationInv, Progress
  <1>12. Budget'
    <2>1. Cardinality(analysed) \in Nat
      BY FS_CardinalityType DEF ExplorationInv, Budget
    <2> QED
      BY <1>4, <1>5, <1>6, <2>1 DEF ExplorationInv, Budget
  <1> QED
    BY <1>8, <1>9, <1>10, <1>11, <1>12 DEF ExplorationInv

LEMMA AnalyzeKeepsInv ==
  ASSUME ExplorationInv, Analyze
  PROVE  ExplorationInv'
  <1> USE DEF queueVars, searchVars, countVars, readVars, expandVars
  <1>1. target \in Place /\ analysed' = analysed \cup {target} /\ phase = "analyze" /\ phase' = "decide"
    BY DEF ExplorationInv, Progress, Analyze
  <1>2. /\ memory' \in Seq(Row) /\ Single(memory')
        /\ \A q : HasRow(memory', q, 0) <=> HasRow(memory, q, 0) \/ q = target
    <2>1. memory \in Seq(Row) /\ Single(memory)
      BY DEF ExplorationInv, TypeOK, Row, AnalysedRows
    <2>2. <<target>> \in Seq(Place) /\ DOMAIN <<target>> = 1 .. 1 /\ <<target>>[1] = target
      BY <1>1
    <2>3. memory' = RememberAll(memory, <<target>>, 0)
      BY DEF Analyze, Remember
    <2> DEFINE ps == <<target>>
    <2>5. \A q : (\E j \in DOMAIN ps : ps[j] = q) <=> q = target
      BY <2>2
    <2>6. ps \in Seq(Place) /\ memory' = RememberAll(memory, ps, 0) /\ 0 \in 0 .. 2
      BY <2>2, <2>3
    <2> HIDE DEF ps
    <2>4. /\ RememberAll(memory, ps, 0) \in Seq(Row) /\ Single(RememberAll(memory, ps, 0))
          /\ \A q : HasRow(RememberAll(memory, ps, 0), q, 0) <=>
                      HasRow(memory, q, 0) \/ (0 = 0 /\ \E j \in DOMAIN ps : ps[j] = q)
      BY <2>1, <2>6, RememberAllFacts
    <2> QED
      BY <2>4, <2>5, <2>6
  <1>3. TypeOK'
    <2>1. wanted' \in SUBSET Symbols /\ sufficient' \in BOOLEAN
      BY DEF Analyze, ExplorationInv, TypeOK
    <2> QED
      BY <1>1, <1>2, <2>1 DEF ExplorationInv, TypeOK, Analyze, Row
  <1>4. QueueFresh'
    BY DEF ExplorationInv, QueueFresh, PendingPlaces, Analyze
  <1>5. AnalysedRows'
    BY <1>1, <1>2 DEF ExplorationInv, AnalysedRows
  <1>6. Progress'
    BY <1>1 DEF ExplorationInv, Progress, Analyze
  <1>7. Budget'
    <2>3. IsFiniteSet(analysed) /\ Cardinality(analysed) \in Nat
      BY FS_CardinalityType DEF ExplorationInv, Budget
    <2>4. /\ IsFiniteSet(analysed \cup {target})
          /\ Cardinality(analysed \cup {target}) =
               IF target \in analysed THEN Cardinality(analysed) ELSE Cardinality(analysed) + 1
      BY <2>3, FS_AddElement, Zenon
    <2>1. /\ IsFiniteSet(analysed') /\ Cardinality(analysed') <= Cardinality(analysed) + 1
      BY <1>1, <2>3, <2>4
    <2>2. Cardinality(analysed') \in Nat
      BY <2>1, FS_CardinalityType
    <2> QED
      BY <1>1, <2>1, <2>2, <2>3, LimitsAssumption DEF ExplorationInv, Budget, TypeOK, Analyze
  <1> QED
    BY <1>3, <1>4, <1>5, <1>6, <1>7 DEF ExplorationInv
\* An expansion notes a row of tier 1, and enqueues what the graph returned only
\* when something of it is new.
LEMMA ExpandKeepsInv ==
  ASSUME ExplorationInv, Expand
  PROVE  ExplorationInv'
  <1> USE DEF searchVars, readVars, verdictVars
  <1>1. PICK s \in Expandable, ps \in Expansions :
          LET fresh == Subsequence(ps, {i \in DOMAIN ps : ~Skipped(ps[i]) /\ MayEnqueue(ps[i])})
          IN  /\ expandedSymbols' = expandedSymbols \cup {s}
              /\ memory' = Remember(memory, At(target.file, s), 1)
              /\ IF fresh = <<>>
                   THEN UNCHANGED <<queueVars, related, depth, expandedOnce>>
                   ELSE /\ EnqueueTargets([i \in DOMAIN fresh |->
                             [place |-> fresh[i], coverage |-> "unknown", symbols |-> {}]])
                        /\ related' = TRUE /\ depth' = depth + 1 /\ expandedOnce' = TRUE
    BY DEF Expand
  <1> DEFINE I == {i \in DOMAIN ps : ~Skipped(ps[i]) /\ MayEnqueue(ps[i])}
             fresh == Subsequence(ps, I)
             ts == [i \in DOMAIN fresh |->
                      [place |-> fresh[i], coverage |-> "unknown", symbols |-> {}]]
             row == At(target.file, s)
  <1>2. phase = "decide" /\ phase' = "loop" /\ target \in Place /\ analysed # {}
    BY DEF ExplorationInv, Progress, Expand
  <1>3. s \in Symbols /\ depth \in Nat /\ depth < MaxDepth
    <2>1. depth \in Nat /\ depth < MaxDepth
      BY <1>1, LimitsAssumption DEF Expandable, ExplorationInv, TypeOK
    <2>2. wanted \in SUBSET Symbols /\ target.symbol \in Symbols \cup {NoSymbol}
      BY <1>2 DEF ExplorationInv, TypeOK, Place
    <2>3. s \in wanted \/ s \in {target.symbol} \ {NoSymbol}
      BY <2>1 DEF Expandable
    <2> QED
      BY <2>1, <2>2, <2>3
  <1>4. row \in Place
    BY <1>2, <1>3 DEF At, Place
  <1>5. /\ memory' \in Seq(Row) /\ Single(memory')
        /\ \A q : HasRow(memory', q, 0) <=> HasRow(memory, q, 0)
    <2> DEFINE one == <<row>>
    <2>1. one \in Seq(Place)
      BY <1>4
    <2>2. memory' = RememberAll(memory, one, 1)
      BY <1>1 DEF Remember
    <2>3. memory \in Seq(Row) /\ Single(memory) /\ 1 \in 0 .. 2
      BY DEF ExplorationInv, TypeOK, Row, AnalysedRows
    <2> HIDE DEF one
    <2>4. /\ RememberAll(memory, one, 1) \in Seq(Row) /\ Single(RememberAll(memory, one, 1))
          /\ \A q : HasRow(RememberAll(memory, one, 1), q, 0) <=>
                      HasRow(memory, q, 0) \/ (1 = 0 /\ \E j \in DOMAIN one : one[j] = q)
      BY <2>1, <2>3, RememberAllFacts
    <2> QED
      BY <2>2, <2>4
  <1>6. \/ UNCHANGED <<pending, edges, related, depth, expandedOnce>>
        \/ /\ EnqueueTargets(ts)
           /\ related' = TRUE /\ depth' = depth + 1 /\ expandedOnce' = TRUE
    BY <1>1 DEF queueVars
  <1>7. ts \in Seq(Target)
    <2>1. ps \in Seq(Place) /\ I \in SUBSET DOMAIN ps
      BY SearchAssumption
    <2> HIDE DEF I
    <2>2. fresh \in Seq(Place)
      BY <2>1, SubsequenceFacts
    <2> HIDE DEF fresh
    <2>3. DOMAIN fresh = 1 .. Len(fresh) /\ Len(fresh) \in Nat
      BY <2>2, LenProperties
    <2>4. ts \in [1 .. Len(fresh) -> Target]
      BY <2>2, <2>3, ElementOfSeq DEF Target, Coverage
    <2> QED
      BY <2>3, <2>4, SeqDef
  <1> HIDE DEF ts, fresh, row
  <1>8. UNCHANGED <<selectionNone, coverage, hint, definition, steps, backtracks, refines, boots,
                    explored, target, seenFiles, seenSymbols, primary, bodySeen, wanted, sufficient,
                    analysed, termination>>
    BY DEF Expand
  <1>9. /\ pending' \in Seq(Target) /\ edges' \in SUBSET ((Place \cup {NoPlace}) \X Place)
        /\ QueueFresh'
    <2>1. CASE UNCHANGED <<pending, edges>>
      BY <1>8, <2>1 DEF ExplorationInv, TypeOK, QueueFresh, PendingPlaces
    <2>2. CASE EnqueueTargets(ts)
      <3>1. QueueTypes /\ QueueFresh
        BY DEF QueueTypes, ExplorationInv, TypeOK
      <3>2. /\ pending' \in Seq(Target) /\ edges' \in SUBSET ((Place \cup {NoPlace}) \X Place)
            /\ Single(pending')
            /\ \A k \in DOMAIN pending' : pending'[k].place \notin explored
        BY <1>7, <2>2, <3>1, EnqueueFacts
      <3> QED
        BY <1>8, <3>2 DEF QueueFresh, PendingPlaces, Single
    <2> QED
      BY <1>6, <2>1, <2>2
  <1>10. /\ related' \in BOOLEAN /\ expandedOnce' \in BOOLEAN /\ depth' \in 0 .. MaxDepth
         /\ expandedSymbols' \in SUBSET Symbols
    <2>1. expandedSymbols' \in SUBSET Symbols
      BY <1>1, <1>3 DEF ExplorationInv, TypeOK
    <2>2. depth + 1 \in 0 .. MaxDepth /\ depth \in 0 .. MaxDepth
      BY <1>3, LimitsAssumption
    <2>3. related \in BOOLEAN /\ expandedOnce \in BOOLEAN
      BY DEF ExplorationInv, TypeOK
    <2> QED
      BY <1>6, <2>1, <2>2, <2>3
  <1>11. TypeOK'
    BY <1>2, <1>5, <1>8, <1>9, <1>10 DEF ExplorationInv, TypeOK, Row
  <1>12. AnalysedRows'
    BY <1>5, <1>8 DEF ExplorationInv, AnalysedRows
  <1>13. Progress'
    BY <1>2, <1>8 DEF ExplorationInv, Progress
  <1>14. Budget'
    BY <1>2, <1>8 DEF ExplorationInv, Budget
  <1> QED
    BY <1>9, <1>11, <1>12, <1>13, <1>14 DEF ExplorationInv

LEMMA InvStep ==
  ASSUME ExplorationInv, [Next]_vars
  PROVE  ExplorationInv'
  <1>1. CASE Begin
    BY <1>1, BeginKeepsInv
  <1>2. CASE Bootstrap
    BY <1>2, BootstrapKeepsInv
  <1>3. CASE EnterLoop \/ QueueDrained \/ Stop \/ GoOn \/ Raise
    <2>1. UNCHANGED <<queueVars, searchVars, countVars, readVars, expandVars, verdictVars, memory>>
      BY <1>3 DEF EnterLoop, QueueDrained, Stop, GoOn, Raise
    <2> QED
      BY <1>3, <2>1, QuietKeepsInv
  <1>4. CASE Inspect
    BY <1>4, InspectKeepsInv
  <1>5. CASE Analyze
    BY <1>5, AnalyzeKeepsInv
  <1>6. CASE Expand
    BY <1>6, ExpandKeepsInv
  <1>7. CASE Refine
    BY <1>7, RefineKeepsInv
  <1>8. CASE UNCHANGED vars
    BY <1>8, QuietKeepsInv DEF vars
  <1> QED
    BY <1>1, <1>2, <1>3, <1>4, <1>5, <1>6, <1>7, <1>8 DEF Next, Step

------------------------------------------------------------------------------
\* The theorems.

\* The invariant holds throughout every exploration.
THEOREM ExplorationInvariant == Spec => []ExplorationInv
  BY InvInit, InvStep, PTL DEF Spec

\* Types, and the budgets of steps, backtracks, refinements and depth.
THEOREM ExplorationTypeCorrect == Spec => []TypeOK
  <1>1. ExplorationInv => TypeOK
    BY DEF ExplorationInv
  <1> QED
    BY <1>1, ExplorationInvariant, PTL

\* No place waits twice, none that was read waits again (_may_enqueue and
\* _enqueue_targets), for any discoveries, selections and expansions.
THEOREM QueueAlwaysFresh == Spec => []QueueFresh
  <1>1. ExplorationInv => QueueFresh
    BY DEF ExplorationInv
  <1> QED
    BY <1>1, ExplorationInvariant, PTL

\* When the items are as many as the analyses that the steps allow, no search hit
\* and no expansion ever displaces an analysis from get_summary.
THEOREM AnalysesReported == Spec => []AnalysedReported
  BY ExplorationInvariant, InvReportsAnalyses, PTL

\* A result of high confidence has an analysis among its rows, whatever the budgets.
THEOREM HighConfidenceGrounded == Spec => []CompleteIsGrounded
  BY ExplorationInvariant, InvGroundsConfidence, PTL
------------------------------------------------------------------------------
\* How long an exploration can go on.

\* Steps that an exploration can still take: a read is followed by its analysis
\* and by a decision.
StepsLeft ==
  CASE phase = "start" -> MaxRefines + 3 * MaxSteps + 3
    [] phase = "bootstrap" -> MaxRefines - boots + 3 * MaxSteps + 2
    [] phase = "loop" -> 3 * (MaxSteps - steps) + 1
    [] phase = "analyze" -> 3 * (MaxSteps - steps) + 3
    [] phase = "decide" -> 3 * (MaxSteps - steps) + 2
    [] OTHER -> 0

\* Every step of an exploration uses up one of those it can still take: the
\* budgets of reads and searches leave no way to go round for ever, whatever the
\* searches and the models answer.
Counts == {StepsLeft, StepsLeft'} \subseteq Nat /\ StepsLeft' < StepsLeft
EveryStepCounts == [][Counts]_vars

\* steps, boots and phase decide it.
LEMMA StepsLeftIsNat == TypeOK => StepsLeft \in Nat
  <1> SUFFICES ASSUME TypeOK PROVE StepsLeft \in Nat
    OBVIOUS
  <1>1. /\ MaxSteps \in Nat /\ MaxRefines \in Nat
        /\ steps \in 0 .. MaxSteps /\ boots \in 0 .. MaxRefines
    BY LimitsAssumption DEF TypeOK
  <1> QED
    BY <1>1 DEF StepsLeft

LEMMA StepCounts ==
  ASSUME ExplorationInv, ExplorationInv', Next
  PROVE  StepsLeft' < StepsLeft
  <1>1. /\ MaxSteps \in Nat /\ MaxRefines \in Nat
        /\ steps \in 0 .. MaxSteps /\ steps' \in 0 .. MaxSteps
        /\ boots \in 0 .. MaxRefines /\ boots' \in 0 .. MaxRefines
    BY LimitsAssumption DEF ExplorationInv, TypeOK
  <1>2. CASE Begin
    <2>1. phase = "start" /\ phase' = "bootstrap" /\ boots' = boots
      BY <1>2 DEF Begin, countVars
    <2> QED
      BY <1>1, <2>1 DEF StepsLeft
  <1>3. CASE Bootstrap
    <2>1. phase = "bootstrap" /\ phase' = "bootstrap" /\ boots' = boots + 1
      BY <1>3 DEF Bootstrap, NextBoot
    <2> QED
      BY <1>1, <2>1 DEF StepsLeft
  <1>4. CASE EnterLoop
    <2>1. phase = "bootstrap" /\ phase' \in {"loop", "done"} /\ steps' = steps
      BY <1>4 DEF EnterLoop, Finish, countVars
    <2> QED
      BY <1>1, <2>1 DEF StepsLeft
  <1>5. CASE QueueDrained
    <2>1. phase = "loop" /\ phase' = "done"
      BY <1>5 DEF QueueDrained, Finish
    <2> QED
      BY <1>1, <2>1 DEF StepsLeft
  <1>6. CASE Inspect
    <2>1. phase = "loop" /\ phase' \in {"analyze", "done"} /\ steps' = steps + 1
      BY <1>6 DEF Inspect, Finish
    <2> QED
      BY <1>1, <2>1 DEF StepsLeft
  <1>7. CASE Analyze
    <2>1. phase = "analyze" /\ phase' = "decide" /\ steps' = steps
      BY <1>7 DEF Analyze, countVars
    <2> QED
      BY <1>1, <2>1 DEF StepsLeft
  <1>8. CASE Stop \/ Expand \/ GoOn \/ Refine
    <2>1. phase = "decide" /\ phase' \in {"loop", "done"} /\ steps' = steps
      BY <1>8 DEF Stop, Expand, GoOn, Refine, Finish, countVars
    <2> QED
      BY <1>1, <2>1 DEF StepsLeft
  <1>9. CASE Raise
    <2>1. phase \in {"start", "bootstrap", "loop", "analyze", "decide"} /\ phase' = "failed"
      BY <1>9 DEF Raise
    <2> QED
      BY <1>1, <2>1 DEF StepsLeft
  <1> QED
    BY <1>2, <1>3, <1>4, <1>5, <1>6, <1>7, <1>8, <1>9 DEF Next, Step

\* No exploration takes more than MaxRefines + 3 * MaxSteps + 3 steps.
THEOREM ExplorationIsBounded == Spec => EveryStepCounts
  <1>1. ASSUME ExplorationInv, [Next]_vars
        PROVE  [Counts]_vars
    <2>1. ExplorationInv'
      BY <1>1, InvStep
    <2>2. StepsLeft \in Nat
      BY <1>1, StepsLeftIsNat DEF ExplorationInv
    <2>3. StepsLeft' \in Nat
      <3>1. /\ MaxSteps \in Nat /\ MaxRefines \in Nat
            /\ steps' \in 0 .. MaxSteps /\ boots' \in 0 .. MaxRefines
        BY <2>1, LimitsAssumption DEF ExplorationInv, TypeOK
      <3> QED
        BY <3>1 DEF StepsLeft
    <2> QED
      BY <1>1, <2>1, <2>2, <2>3, StepCounts DEF Counts
  <1> QED
    BY <1>1, ExplorationInvariant, PTL DEF Spec, EveryStepCounts
==============================================================================
