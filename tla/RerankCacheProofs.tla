-------------------------- MODULE RerankCacheProofs --------------------------
(* What the score cache promises to the requests that share it, for any number *)
(* of threads, any capacity, any requests and every interleaving.              *)
EXTENDS RerankCache, FiniteSetTheorems, TLAPS

------------------------------------------------------------------------------
\* The list of the cache.

Listed(o) == {o[i] : i \in DOMAIN o}
Once(o) == \A i, j \in DOMAIN o : o[i] = o[j] => i = j

\* What comes before what in p does so in o.
SameOrder(o, p) ==
  \A i, j \in DOMAIN p : i < j =>
    \E m, n \in DOMAIN o : m < n /\ o[m] = p[i] /\ o[n] = p[j]

\* p is o without one of its keys or with all of them, and then k.
EndsWith(o, p, k) ==
  /\ Len(p) \in DOMAIN p /\ p[Len(p)] = k
  /\ \A i, j \in DOMAIN p : i < j =>
       \/ j = Len(p)
       \/ \E m, n \in DOMAIN o : m < n /\ o[m] = p[i] /\ o[n] = p[j]

LEMMA TailList ==
  ASSUME NEW S, NEW o \in Seq(S), o # <<>>, Once(o)
  PROVE  /\ Head(o) \in Listed(o)
         /\ Tail(o) \in Seq(S) /\ Once(Tail(o))
         /\ Listed(Tail(o)) = Listed(o) \ {Head(o)}
         /\ SameOrder(o, Tail(o))
         /\ \A x \in Listed(o) \ {Head(o)} : \E n \in DOMAIN o : 1 < n /\ o[n] = x
  <1>1. /\ Len(o) \in Nat \ {0} /\ Head(o) = o[1] /\ DOMAIN o = 1 .. Len(o)
        /\ Tail(o) \in Seq(S) /\ Len(Tail(o)) = Len(o) - 1 /\ DOMAIN Tail(o) = 1 .. Len(o) - 1
        /\ \A i \in 1 .. Len(o) - 1 : Tail(o)[i] = o[i + 1]
    OBVIOUS
  <1>2. Once(Tail(o))
    BY <1>1 DEF Once
  <1>3. \A x \in Listed(o) \ {Head(o)} : \E n \in DOMAIN o : 1 < n /\ o[n] = x
    BY <1>1 DEF Listed
  <1>4. Listed(Tail(o)) = Listed(o) \ {Head(o)}
    <2>1. ASSUME NEW x \in Listed(o) \ {Head(o)} PROVE x \in Listed(Tail(o))
      <3>1. PICK n \in DOMAIN o : 1 < n /\ o[n] = x
        BY <1>3
      <3>2. n - 1 \in 1 .. Len(o) - 1 /\ Tail(o)[n - 1] = x
        BY <1>1, <3>1
      <3> QED
        BY <1>1, <3>2 DEF Listed
    <2>2. ASSUME NEW x \in Listed(Tail(o)) PROVE x \in Listed(o) \ {Head(o)}
      <3>1. PICK i \in 1 .. Len(o) - 1 : o[i + 1] = x
        BY <1>1 DEF Listed
      <3> QED
        BY <1>1, <3>1 DEF Listed, Once
    <2> QED
      BY <2>1, <2>2
  <1>5. SameOrder(o, Tail(o))
    <2> SUFFICES ASSUME NEW i \in DOMAIN Tail(o), NEW j \in DOMAIN Tail(o), i < j
                 PROVE  \E m, n \in DOMAIN o : m < n /\ o[m] = Tail(o)[i] /\ o[n] = Tail(o)[j]
      BY DEF SameOrder
    <2>1. i + 1 \in DOMAIN o /\ j + 1 \in DOMAIN o /\ i + 1 < j + 1
      BY <1>1
    <2> QED
      BY <1>1, <2>1
  <1>6. Head(o) \in Listed(o)
    BY <1>1 DEF Listed
  <1> QED
    BY <1>1, <1>2, <1>3, <1>4, <1>5, <1>6

LEMMA WithoutList ==
  ASSUME NEW S, NEW o \in Seq(S), Once(o), NEW k \in Listed(o)
  PROVE  /\ Without(o, k) \in Seq(S) /\ Once(Without(o, k))
         /\ Listed(Without(o, k)) = Listed(o) \ {k}
         /\ SameOrder(o, Without(o, k))
  <1> DEFINE p == CHOOSE i \in DOMAIN o : o[i] = k
             w == Without(o, k)
             at(i) == IF i < p THEN i ELSE i + 1
  <1>1. p \in DOMAIN o /\ o[p] = k /\ DOMAIN o = 1 .. Len(o) /\ Len(o) \in Nat \ {0}
    <2>1. \E i \in DOMAIN o : o[i] = k
      BY DEF Listed
    <2>2. p \in DOMAIN o /\ o[p] = k
      BY <2>1
    <2>3. DOMAIN o = 1 .. Len(o) /\ Len(o) \in Nat
      OBVIOUS
    <2> QED
      BY <2>2, <2>3
  <1>2. w = [i \in 1 .. Len(o) - 1 |-> o[at(i)]]
    BY <1>1 DEF Without
  <1> HIDE DEF p, w
  <1>3. \A i \in 1 .. Len(o) - 1 : at(i) \in DOMAIN o /\ at(i) # p
    BY <1>1
  <1>4. \A i, j \in 1 .. Len(o) - 1 : (i < j => at(i) < at(j)) /\ (at(i) = at(j) => i = j)
    BY <1>1
  <1>5. \A n \in DOMAIN o \ {p} : \E i \in 1 .. Len(o) - 1 : at(i) = n
    <2> SUFFICES ASSUME NEW n \in DOMAIN o \ {p} PROVE \E i \in 1 .. Len(o) - 1 : at(i) = n
      OBVIOUS
    <2>1. CASE n < p
      BY <1>1, <2>1
    <2>2. CASE n > p
      <3>1. n - 1 \in 1 .. Len(o) - 1 /\ ~(n - 1 < p) /\ (n - 1) + 1 = n
        BY <1>1, <2>2
      <3> QED
        BY <3>1
    <2> QED
      BY <1>1, <2>1, <2>2
  <1> HIDE DEF at
  <1>6. w \in Seq(S) /\ DOMAIN w = 1 .. Len(o) - 1
    <2>1. \A i \in 1 .. Len(o) - 1 : o[at(i)] \in S
      BY <1>1, <1>3
    <2> QED
      BY <1>1, <1>2, <2>1
  <1>7. \A i \in DOMAIN w : w[i] = o[at(i)]
    BY <1>2, <1>6
  <1>8. Once(w)
    BY <1>3, <1>4, <1>6, <1>7 DEF Once
  <1>9. Listed(w) = Listed(o) \ {k}
    <2>1. ASSUME NEW x \in Listed(o) \ {k} PROVE x \in Listed(w)
      <3>1. PICK n \in DOMAIN o \ {p} : o[n] = x
        BY <1>1, <2>1 DEF Listed
      <3> QED
        BY <1>5, <1>6, <1>7, <3>1 DEF Listed
    <2>2. ASSUME NEW x \in Listed(w) PROVE x \in Listed(o) \ {k}
      BY <1>1, <1>3, <1>6, <1>7, <2>2 DEF Listed, Once
    <2> QED
      BY <2>1, <2>2
  <1>10. SameOrder(o, w)
    BY <1>3, <1>4, <1>6, <1>7 DEF SameOrder
  <1> QED
    BY <1>6, <1>8, <1>9, <1>10 DEF w

LEMMA AppendList ==
  ASSUME NEW S, NEW o \in Seq(S), NEW q \in Seq(S), Once(q), SameOrder(o, q),
         NEW k \in S, k \notin Listed(q)
  PROVE  /\ Append(q, k) \in Seq(S) /\ Once(Append(q, k))
         /\ Listed(Append(q, k)) = Listed(q) \cup {k}
         /\ EndsWith(o, Append(q, k), k)
  <1> DEFINE p == Append(q, k)
  <1>1. /\ p \in Seq(S) /\ Len(q) \in Nat /\ Len(p) = Len(q) + 1
        /\ DOMAIN q = 1 .. Len(q) /\ DOMAIN p = 1 .. Len(q) + 1
        /\ p[Len(q) + 1] = k /\ \A i \in 1 .. Len(q) : p[i] = q[i]
    OBVIOUS
  <1> HIDE DEF p
  <1>2. Once(p)
    BY <1>1 DEF Once, Listed
  <1>3. Listed(p) = Listed(q) \cup {k}
    <2>1. ASSUME NEW x \in Listed(p) PROVE x \in Listed(q) \cup {k}
      BY <1>1, <2>1 DEF Listed
    <2>2. ASSUME NEW x \in Listed(q) \cup {k} PROVE x \in Listed(p)
      BY <1>1, <2>2 DEF Listed
    <2> QED
      BY <2>1, <2>2
  <1>4. EndsWith(o, p, k)
    <2>1. Len(p) \in DOMAIN p /\ p[Len(p)] = k
      BY <1>1
    <2>2. ASSUME NEW i \in DOMAIN p, NEW j \in DOMAIN p, i < j, j # Len(p)
          PROVE  \E m, n \in DOMAIN o : m < n /\ o[m] = p[i] /\ o[n] = p[j]
      BY <1>1, <2>2 DEF SameOrder
    <2> QED
      BY <2>1, <2>2 DEF EndsWith
  <1> QED
    BY <1>1, <1>2, <1>3, <1>4 DEF p

LEMMA SameList == ASSUME NEW o PROVE SameOrder(o, o)
  BY DEF SameOrder

------------------------------------------------------------------------------
\* What a request relies on: of the keys it holds, those used after one of them
\* were used since it began, so that a key of it is evicted only when the cache
\* is full of keys used since.
Sound(o, H, T) ==
  /\ H \subseteq T
  /\ \A i, j \in DOMAIN o : i < j /\ o[i] \in H => o[j] \in T
  /\ Cardinality(T) > Capacity \/ H \subseteq Listed(o)

\* The key k is used: o becomes p.
Uses(o, p, k) ==
  /\ p \in Seq(Keys) /\ Once(p) /\ EndsWith(o, p, k)
  /\ \/ Listed(p) = Listed(o) \cup {k}
     \/ /\ o # <<>> /\ k \notin Listed(o) /\ Cardinality(Listed(o)) >= Capacity
        /\ Listed(p) = (Listed(o) \ {Head(o)}) \cup {k}

LEMMA UseIsSound ==
  ASSUME NEW o \in Seq(Keys), Once(o), NEW p, NEW k \in Keys, Uses(o, p, k),
         NEW H \in SUBSET Keys, NEW T \in SUBSET Keys, Sound(o, H, T),
         NEW G, G \in {H, H \cup {k}}
  PROVE  Sound(p, G, T \cup {k})
  <1> USE DEF Uses
  <1>1. G \subseteq T \cup {k}
    BY DEF Sound
  <1>2. ASSUME NEW i \in DOMAIN p, NEW j \in DOMAIN p, i < j, p[i] \in G
        PROVE  p[j] \in T \cup {k}
    <2>1. DOMAIN p = 1 .. Len(p) /\ Len(p) \in Nat
      OBVIOUS
    <2>2. CASE j = Len(p)
      BY <2>2 DEF EndsWith
    <2>3. CASE j # Len(p)
      <3>1. PICK m, n \in DOMAIN o : m < n /\ o[m] = p[i] /\ o[n] = p[j]
        BY <1>2, <2>3 DEF EndsWith
      <3>2. p[i] # k
        BY <1>2, <2>1, <2>3 DEF EndsWith, Once
      <3> QED
        BY <1>2, <3>1, <3>2 DEF Sound
    <2> QED
      BY <2>2, <2>3
  <1>3. IsFiniteSet(T) /\ IsFiniteSet(T \cup {k}) /\ IsFiniteSet(Listed(o))
    <2>1. IsFiniteSet(T) /\ IsFiniteSet(T \cup {k})
      BY KeysAssumption, FS_Subset
    <2>2. Listed(o) \subseteq Keys
      BY DEF Listed
    <2> QED
      BY <2>1, <2>2, KeysAssumption, FS_Subset
  <1>4. Cardinality(T) \in Nat /\ Cardinality(T \cup {k}) \in Nat /\ Cardinality(T) <= Cardinality(T \cup {k})
    <2>1. T \subseteq T \cup {k}
      OBVIOUS
    <2> QED
      BY <1>3, <2>1, FS_Subset, FS_CardinalityType
  <1>5. CASE Cardinality(T) > Capacity
    <2>1. Cardinality(T \cup {k}) > Capacity
      BY <1>4, <1>5, LimitsAssumption
    <2> QED
      BY <1>1, <1>2, <2>1 DEF Sound
  <1>6. CASE H \subseteq Listed(p)
    <2>1. k \in Listed(p)
      BY DEF EndsWith, Listed
    <2>2. G \subseteq Listed(p)
      BY <1>6, <2>1
    <2> QED
      BY <1>1, <1>2, <2>2 DEF Sound
  <1>7. CASE H \subseteq Listed(o) /\ ~(H \subseteq Listed(p))
    <2>1. /\ o # <<>> /\ k \notin Listed(o) /\ Cardinality(Listed(o)) >= Capacity
          /\ Head(o) \in H
      BY <1>7
    <2>2. Listed(o) \subseteq T
      <3>1. SUFFICES ASSUME NEW x \in Listed(o), x # Head(o) PROVE x \in T
        BY <2>1 DEF Sound
      <3>2. PICK n \in DOMAIN o : 1 < n /\ o[n] = x
        BY <2>1, <3>1, TailList
      <3>3. 1 \in DOMAIN o /\ o[1] = Head(o)
        BY <2>1
      <3> QED
        BY <2>1, <3>2, <3>3 DEF Sound
    <2>3. Cardinality(Listed(o) \cup {k}) = Cardinality(Listed(o)) + 1
      BY <1>3, <2>1, FS_AddElement
    <2>4. /\ Cardinality(Listed(o) \cup {k}) <= Cardinality(T \cup {k})
          /\ Cardinality(Listed(o)) \in Nat /\ Cardinality(Listed(o) \cup {k}) \in Nat
      <3>1. Listed(o) \cup {k} \subseteq T \cup {k}
        BY <2>2
      <3>2. IsFiniteSet(Listed(o) \cup {k})
        BY <1>3, <3>1, FS_Subset
      <3> QED
        BY <1>3, <3>1, <3>2, FS_Subset, FS_CardinalityType
    <2>5. Cardinality(T \cup {k}) > Capacity
      BY <1>4, <2>1, <2>3, <2>4, LimitsAssumption
    <2> QED
      BY <1>1, <1>2, <2>5 DEF Sound
  <1> QED
    BY <1>5, <1>6, <1>7 DEF Sound

\* Both operations of the cache use a key, and keep its list and its size right.
CacheOK(c, o) == o \in Seq(Keys) /\ Listed(o) = c /\ Once(o) /\ Cardinality(c) <= Capacity

LEMMA HitUses ==
  ASSUME CacheOK(cached, order), NEW k \in cached, Hit(k)
  PROVE  k \in Keys /\ Uses(order, order', k) /\ CacheOK(cached', order')
  <1> USE DEF CacheOK
  <1>1. k \in Listed(order) /\ k \in Keys
    BY DEF Listed
  <1>2. /\ Without(order, k) \in Seq(Keys) /\ Once(Without(order, k))
        /\ Listed(Without(order, k)) = Listed(order) \ {k}
        /\ SameOrder(order, Without(order, k))
    BY <1>1, WithoutList
  <1>3. /\ Append(Without(order, k), k) \in Seq(Keys) /\ Once(Append(Without(order, k), k))
        /\ Listed(Append(Without(order, k), k)) = (Listed(order) \ {k}) \cup {k}
        /\ EndsWith(order, Append(Without(order, k), k), k)
    BY <1>1, <1>2, AppendList
  <1>4. order' = Append(Without(order, k), k) /\ cached' = cached
    BY DEF Hit, Promoted
  <1>5. Listed(order') = Listed(order) \cup {k} /\ Listed(order') = cached'
    BY <1>1, <1>3, <1>4
  <1> QED
    BY <1>1, <1>3, <1>4, <1>5 DEF Uses

LEMMA StoreUses ==
  ASSUME CacheOK(cached, order), NEW k \in Keys, Store(k)
  PROVE  Uses(order, order', k) /\ CacheOK(cached', order')
  <1> USE DEF CacheOK
  <1>0. IsFiniteSet(cached) /\ Cardinality(cached) \in Nat /\ cached \subseteq Keys
    <2>1. cached \subseteq Keys
      BY DEF Listed
    <2> QED
      BY <2>1, KeysAssumption, FS_Subset, FS_CardinalityType
  <1>1. CASE k \in cached
    <2>1. Hit(k)
      BY <1>1 DEF Store, Hit, Promoted
    <2> QED
      BY <1>1, <2>1, HitUses
  <1>2. CASE k \notin cached /\ Cardinality(cached) >= Capacity
    <2>1. order # <<>> /\ order' = Append(Tail(order), k) /\ cached' = (cached \ {Head(order)}) \cup {k}
      BY <1>2 DEF Store, StoreRaises, Evicted
    <2>2. /\ Head(order) \in Listed(order) /\ Tail(order) \in Seq(Keys) /\ Once(Tail(order))
          /\ Listed(Tail(order)) = Listed(order) \ {Head(order)} /\ SameOrder(order, Tail(order))
      BY <2>1, TailList
    <2>3. /\ order' \in Seq(Keys) /\ Once(order') /\ EndsWith(order, order', k)
          /\ Listed(order') = (Listed(order) \ {Head(order)}) \cup {k}
      <3>1. k \notin Listed(Tail(order)) /\ order \in Seq(Keys)
        BY <1>2, <2>2
      <3>2. /\ Append(Tail(order), k) \in Seq(Keys) /\ Once(Append(Tail(order), k))
            /\ Listed(Append(Tail(order), k)) = Listed(Tail(order)) \cup {k}
            /\ EndsWith(order, Append(Tail(order), k), k)
        <4> HIDE DEF CacheOK
        <4> QED
          BY <2>2, <3>1, AppendList
      <3> QED
        BY <2>1, <2>2, <3>2
    <2>4. Cardinality(cached') = Cardinality(cached)
      <3>1. IsFiniteSet(cached \ {Head(order)}) /\ Cardinality(cached \ {Head(order)}) = Cardinality(cached) - 1
        BY <1>0, <2>2, FS_RemoveElement
      <3>2. Cardinality((cached \ {Head(order)}) \cup {k}) = Cardinality(cached \ {Head(order)}) + 1
        BY <1>2, <3>1, FS_AddElement
      <3> QED
        BY <1>0, <2>1, <3>1, <3>2
    <2> QED
      BY <1>0, <1>2, <2>1, <2>3, <2>4 DEF Uses
  <1>3. CASE k \notin cached /\ ~(Cardinality(cached) >= Capacity)
    <2>1. order' = Append(order, k) /\ cached' = cached \cup {k}
      BY <1>3 DEF Store
    <2>2. /\ order' \in Seq(Keys) /\ Once(order') /\ EndsWith(order, order', k)
          /\ Listed(order') = Listed(order) \cup {k}
      BY <1>3, <2>1, SameList, AppendList
    <2>3. Cardinality(cached') = Cardinality(cached) + 1
      BY <1>0, <1>3, <2>1, FS_AddElement
    <2> QED
      BY <1>0, <1>3, <2>1, <2>2, <2>3, LimitsAssumption DEF Uses
  <1> QED
    BY <1>1, <1>2, <1>3

------------------------------------------------------------------------------
\* Where a request is: what its loops have looked up, stored and found.
Pairs(b) == {q \in (Nat \ {0}) \X (Nat \ {0}) :
               /\ q[1] \in DOMAIN b /\ Scored(b, q[1])
               /\ q[2] \in DOMAIN b[q[1]]}
Reached(t, q) == q[1] < slot[t] \/ (q[1] = slot[t] /\ q[2] < doc[t])
Key2(t, q) == batch[t][q[1]][q[2]]
Found(t) == held[t] \cup Listed(misses[t])

AtOutset(t) == slot[t] = 1 /\ doc[t] = 1 /\ misses[t] = <<>> /\ idx[t] = 1
Place(t) ==
  CASE pc[t] \in {"ensure", "lock", "load"} -> AtOutset(t)
    [] pc[t] = "lookup" ->
         idx[t] = 1 /\ \A q \in Pairs(batch[t]) : Reached(t, q) => Key2(t, q) \in Found(t)
    [] pc[t] = "score" ->
         /\ idx[t] = 1 /\ misses[t] # <<>>
         /\ \A q \in Pairs(batch[t]) : Key2(t, q) \in Found(t)
    [] pc[t] = "store" ->
         /\ idx[t] <= Len(misses[t])
         /\ \A i \in DOMAIN misses[t] : i < idx[t] => misses[t][i] \in held[t]
         /\ \A q \in Pairs(batch[t]) : Key2(t, q) \in Found(t)
    [] pc[t] = "collect" -> \A q \in Pairs(batch[t]) : Key2(t, q) \in held[t]
    [] OTHER -> TRUE

\* A thread that loads the model holds the lock, and there is no model yet.
OneLoader ==
  /\ loads = IF model THEN 1 ELSE 0
  /\ \A t \in Threads : pc[t] = "load" => loader = t /\ ~model

\* Ended t: its answer is one it may give.
Ended(t) == /\ answer[t] = "evicted" => Cardinality(touched[t]) > Capacity
            /\ answer[t] = "index_error" => Capacity = 0

RInv ==
  /\ TypeOK
  /\ OneLoader
  /\ \A t \in Threads : pc[t] # "idle" => Sound(order, held[t], touched[t]) /\ Place(t)
  /\ FailsOnlyUnderPressure

LEMMA InitRInv == Init => RInv
  <1> SUFFICES ASSUME Init PROVE RInv
    OBVIOUS
  <1>1. Cardinality({}) = 0
    BY FS_EmptySet
  <1>2. TypeOK
    <2>1. DOMAIN order = {} /\ order \in Seq(Keys)
      BY DEF Init
    <2>2. {order[i] : i \in DOMAIN order} = cached /\ cached \in SUBSET Keys
      BY <2>1 DEF Init
    <2>3. \A i, j \in DOMAIN order : order[i] = order[j] => i = j
      BY <2>1
    <2>4. Cardinality(cached) <= Capacity
      BY <1>1, LimitsAssumption DEF Init
    <2>5. <<>> \in Seq(Keys) /\ <<>> \in Seq(Seq(Keys))
      OBVIOUS
    <2>6. /\ model \in BOOLEAN /\ loader \in Threads \cup {NoThread} /\ loads \in Nat
          /\ pc \in [Threads -> PCs] /\ answer \in [Threads -> Answers] /\ begun \in Nat
      BY DEF Init, PCs, Answers
    <2>7. /\ batch \in [Threads -> Seq(Seq(Keys))] /\ misses \in [Threads -> Seq(Keys)]
          /\ slot \in [Threads -> Nat \ {0}] /\ doc \in [Threads -> Nat \ {0}]
          /\ idx \in [Threads -> Nat \ {0}]
          /\ held \in [Threads -> SUBSET Keys] /\ touched \in [Threads -> SUBSET Keys]
      BY <2>5 DEF Init
    <2> QED
      BY <2>1, <2>2, <2>3, <2>4, <2>6, <2>7 DEF TypeOK
  <1> QED
    BY <1>2 DEF Init, RInv, OneLoader, FailsOnlyUnderPressure

\* A step that uses no key leaves what the requests rely on alone.
LEMMA OthersKeep ==
  ASSUME RInv, NEW t \in Threads, NEW u \in Threads, u # t,
         pc'[u] = pc[u], batch'[u] = batch[u], slot'[u] = slot[u], doc'[u] = doc[u],
         misses'[u] = misses[u], idx'[u] = idx[u], held'[u] = held[u], answer'[u] = answer[u],
         \/ order' = order /\ touched'[u] = touched[u]
         \/ \E k \in Keys : Uses(order, order', k) /\ Touch(k)
  PROVE  /\ pc'[u] # "idle" => Sound(order, held[u], touched[u])' /\ Place(u)'
         /\ pc'[u] = "idle" => Ended(u)'
  <1>1. pc'[u] # "idle" => Place(u)'
    BY DEF RInv, Place, AtOutset, Reached, Key2, Found
  <1>2. CASE order' = order /\ touched'[u] = touched[u]
    BY <1>1, <1>2 DEF RInv, Sound, FailsOnlyUnderPressure, Ended
  <1>3. CASE \E k \in Keys : Uses(order, order', k) /\ Touch(k)
    <2>1. PICK k \in Keys : Uses(order, order', k) /\ Touch(k)
      BY <1>3
    <2>2. touched'[u] = IF pc[u] = "idle" THEN touched[u] ELSE touched[u] \cup {k}
      BY <2>1 DEF Touch
    <2>3. ASSUME pc[u] # "idle" PROVE Sound(order, held[u], touched[u])'
      <3>1. /\ order \in Seq(Keys) /\ Once(order) /\ held[u] \in SUBSET Keys
            /\ touched[u] \in SUBSET Keys /\ Sound(order, held[u], touched[u])
        BY <2>3 DEF RInv, TypeOK, Once
      <3>2. Sound(order', held[u], touched[u] \cup {k})
        BY <2>1, <3>1, UseIsSound
      <3> QED
        BY <2>2, <2>3, <3>2 DEF Sound
    <2> QED
      BY <1>1, <2>2, <2>3 DEF RInv, FailsOnlyUnderPressure, Ended
  <1> QED
    BY <1>2, <1>3

\* The type invariant in parts.
ModelTypes == model \in BOOLEAN /\ loader \in Threads \cup {NoThread} /\ loads \in Nat
ControlTypes == pc \in [Threads -> PCs] /\ answer \in [Threads -> Answers]
PlaceTypes ==
  /\ batch \in [Threads -> Seq(Seq(Keys))]
  /\ slot \in [Threads -> Nat \ {0}] /\ doc \in [Threads -> Nat \ {0}]
  /\ misses \in [Threads -> Seq(Keys)] /\ idx \in [Threads -> Nat \ {0}]
ObserverTypes ==
  held \in [Threads -> SUBSET Keys] /\ touched \in [Threads -> SUBSET Keys] /\ begun \in Nat

LEMMA TypeParts ==
  TypeOK <=> /\ CacheOK(cached, order) /\ ModelTypes /\ ControlTypes
             /\ PlaceTypes /\ ObserverTypes
  <1>1. CacheOK(cached, order) <=>
          /\ cached \in SUBSET Keys /\ order \in Seq(Keys)
          /\ {order[i] : i \in DOMAIN order} = cached
          /\ \A i, j \in DOMAIN order : order[i] = order[j] => i = j
          /\ Cardinality(cached) <= Capacity
    <2>1. order \in Seq(Keys) => {order[i] : i \in DOMAIN order} \in SUBSET Keys
      OBVIOUS
    <2> QED
      BY <2>1 DEF CacheOK, Listed, Once
  <1> QED
    BY <1>1 DEF TypeOK, ModelTypes, ControlTypes, PlaceTypes, ObserverTypes

LEMMA TypeJoin ==
  ASSUME CacheOK(cached, order)', ModelTypes', ControlTypes', PlaceTypes', ObserverTypes'
  PROVE  TypeOK'
  <1>1. /\ order' \in Seq(Keys) /\ {order'[i] : i \in DOMAIN order'} = cached'
        /\ \A i, j \in DOMAIN order' : order'[i] = order'[j] => i = j
        /\ Cardinality(cached') <= Capacity
    BY DEF CacheOK, Listed, Once
  <1>2. order' \in Seq(Keys) => {order'[i] : i \in DOMAIN order'} \in SUBSET Keys
    OBVIOUS
  <1>3. cached' \in SUBSET Keys
    BY <1>1, <1>2
  <1> QED
    BY <1>1, <1>3 DEF TypeOK, ModelTypes, ControlTypes, PlaceTypes, ObserverTypes

\* What a step of t leaves alone in the others, and does with the cache.
OnlyThread(t) ==
  /\ \A u \in Threads \ {t} :
       /\ pc'[u] = pc[u] /\ batch'[u] = batch[u] /\ slot'[u] = slot[u] /\ doc'[u] = doc[u]
       /\ misses'[u] = misses[u] /\ idx'[u] = idx[u] /\ held'[u] = held[u]
       /\ answer'[u] = answer[u]
  /\ \/ order' = order /\ \A u \in Threads \ {t} : touched'[u] = touched[u]
     \/ \E k \in Keys : Uses(order, order', k) /\ Touch(k)

LEMMA ThreadPreserves ==
  ASSUME RInv, NEW t \in Threads, TypeOK', OneLoader', OnlyThread(t),
         pc'[t] # "idle" => Sound(order, held[t], touched[t])' /\ Place(t)',
         pc'[t] = "idle" => Ended(t)'
  PROVE  RInv'
  <1>1. ASSUME NEW u \in Threads, u # t
        PROVE  /\ pc'[u] # "idle" => Sound(order, held[u], touched[u])' /\ Place(u)'
               /\ pc'[u] = "idle" => Ended(u)'
    BY <1>1, OthersKeep DEF OnlyThread
  <1>2. \A u \in Threads : pc'[u] # "idle" => Sound(order, held[u], touched[u])' /\ Place(u)'
    BY <1>1
  <1>3. \A u \in Threads : pc'[u] = "idle" => Ended(u)'
    BY <1>1
  <1>4. FailsOnlyUnderPressure'
    BY <1>3 DEF FailsOnlyUnderPressure, Ended
  <1> QED
    BY <1>2, <1>4 DEF RInv

\* A step of the requests that uses no key: what t relies on stays as it is.
LEMMA SoundKept ==
  ASSUME RInv, NEW t \in Threads, pc[t] # "idle", order' = order, held'[t] = held[t],
         touched'[t] = touched[t]
  PROVE  Sound(order, held[t], touched[t])'
  BY DEF RInv, Sound

\* A step of t that uses a key, which it may hold from then on.
LEMMA SoundAfterUse ==
  ASSUME RInv, NEW t \in Threads, pc[t] # "idle", NEW k \in Keys, Uses(order, order', k), Touch(k),
         held'[t] \in {held[t], held[t] \cup {k}}
  PROVE  Sound(order, held[t], touched[t])'
  <1>1. /\ order \in Seq(Keys) /\ Once(order) /\ held[t] \in SUBSET Keys
        /\ touched[t] \in SUBSET Keys /\ Sound(order, held[t], touched[t])
    BY DEF RInv, TypeOK, Once
  <1>2. Sound(order', held'[t], touched[t] \cup {k})
    BY <1>1, UseIsSound
  <1>3. touched'[t] = touched[t] \cup {k}
    BY DEF Touch
  <1> QED
    BY <1>2, <1>3 DEF Sound

LEMMA BeginStep ==
  ASSUME RInv, NEW t \in Threads, Begin(t)
  PROVE  RInv'
  <1>1. PICK b \in Batches :
          /\ batch' = [batch EXCEPT ![t] = b]
          /\ \/ Answer(t, "refused") \/ Answer(t, "scores")
             \/ Goto(t, "ensure") /\ UNCHANGED answer
    BY DEF Begin
  <1>2. b \in Seq(Seq(Keys))
    BY BatchesAssumption
  <1>3. TypeOK'
    <2>1. TypeOK
      BY DEF RInv
    <2> USE <2>1, TypeParts DEF Begin
    <2>2. CacheOK(cached, order)'
      BY DEF cacheVars, CacheOK
    <2>3. ModelTypes'
      BY DEF modelVars, ModelTypes
    <2>4. ControlTypes'
      BY <1>1 DEF ControlTypes, PCs, Answers, Answer, Goto
    <2>5. PlaceTypes'
      BY <1>1, <1>2 DEF PlaceTypes
    <2>6. ObserverTypes'
      BY DEF ObserverTypes
    <2> QED
      BY <2>2, <2>3, <2>4, <2>5, <2>6, TypeJoin
  <1>4. OneLoader'
    BY <1>1 DEF RInv, TypeOK, OneLoader, Begin, Answer, Goto, modelVars
  <1>5. OnlyThread(t)
    BY <1>1 DEF RInv, TypeOK, Begin, Answer, Goto, cacheVars, OnlyThread
  <1>6. pc'[t] # "idle" => Sound(order, held[t], touched[t])' /\ Place(t)'
    <2>1. held'[t] = {} /\ touched'[t] = {} /\ slot'[t] = 1 /\ doc'[t] = 1 /\ misses'[t] = <<>> /\ idx'[t] = 1
      BY DEF Begin, RInv, TypeOK
    <2>2. pc'[t] # "idle" => pc'[t] = "ensure"
      BY <1>1 DEF Answer, Goto, RInv, TypeOK
    <2> QED
      BY <2>1, <2>2 DEF Sound, Place, AtOutset
  <1>7. pc'[t] = "idle" => Ended(t)'
    BY <1>1 DEF Answer, Goto, RInv, TypeOK, Ended
  <1> QED
    BY <1>3, <1>4, <1>5, <1>6, <1>7, ThreadPreserves

\* Nothing has been reached at the first pair.
LEMMA NothingReached ==
  ASSUME NEW t \in Threads, AtOutset(t)'
  PROVE  \A q \in Pairs(batch'[t]) : ~Reached(t, q)'
  <1>1. \A q \in Pairs(batch'[t]) : q[1] \in Nat \ {0} /\ q[2] \in Nat \ {0}
    BY DEF Pairs
  <1> QED
    BY <1>1 DEF AtOutset, Reached

\* The three steps towards the model.
LEMMA ModelSteps ==
  ASSUME RInv, NEW t \in Threads, EnsureModel(t) \/ TakeLock(t) \/ LoadModel(t)
  PROVE  RInv'
  <1> USE DEF EnsureModel, TakeLock, LoadModel, AfterLock, LockAfterFailure
  <1>0. TypeOK
    BY DEF RInv
  <1>1. /\ pc[t] \in {"ensure", "lock", "load"}
        /\ pc'[t] \in {"lock", "load", "lookup", "idle"}
        /\ pc'[t] = "idle" => answer'[t] = "no_model"
        /\ cached' = cached /\ order' = order /\ held' = held /\ touched' = touched
        /\ UNCHANGED threadVars
    BY <1>0 DEF TypeOK, Goto, Answer, cacheVars
  <1>2. TypeOK'
    <2> USE <1>0, TypeParts
    <2>1. CacheOK(cached, order)'
      BY <1>1 DEF CacheOK
    <2>2. ModelTypes'
      <3>1. \/ model' = model /\ loads' = loads
            \/ model' = TRUE /\ loads' = loads + 1
        BY DEF modelVars
      <3>2. loader' \in {loader, t, NoThread}
        BY DEF modelVars
      <3>3. model \in BOOLEAN /\ loader \in Threads \cup {NoThread} /\ loads \in Nat
        BY DEF ModelTypes
      <3>4. model' \in BOOLEAN
        BY <3>1, <3>3
      <3>5. loader' \in Threads \cup {NoThread} /\ loads' \in Nat
        BY <3>1, <3>2, <3>3
      <3> QED
        BY <3>4, <3>5 DEF ModelTypes
    <2>3. ControlTypes'
      BY DEF ControlTypes, PCs, Answers, Answer, Goto
    <2>4. PlaceTypes'
      BY <1>1 DEF PlaceTypes, threadVars
    <2>5. ObserverTypes'
      BY <1>1 DEF ObserverTypes
    <2> QED
      BY <2>1, <2>2, <2>3, <2>4, <2>5, TypeJoin
  <1>3. OneLoader'
    <2> USE <1>0 DEF RInv, OneLoader
    <2>1. \A u \in Threads \ {t} : pc'[u] = pc[u]
      BY DEF TypeOK, Goto, Answer
    <2>2. CASE EnsureModel(t)
      <3>1. model' = model /\ loader' = loader /\ loads' = loads /\ pc'[t] # "load"
        BY <2>2 DEF TypeOK, Goto, modelVars
      <3> QED
        BY <2>1, <3>1
    <2>3. CASE TakeLock(t)
      <3>1. /\ model' = model /\ loads' = loads /\ loader = NoThread
            /\ pc'[t] = "load" => loader' = t /\ ~model
        BY <2>3 DEF TypeOK, Goto
      <3>2. \A u \in Threads : pc[u] # "load"
        BY <3>1, ThreadsAssumption
      <3> QED
        BY <2>1, <3>1, <3>2
    <2>4. CASE LoadModel(t)
      <3>1. pc[t] = "load" /\ pc'[t] # "load" /\ loader = t /\ ~model
        BY <2>4 DEF TypeOK, Goto, Answer
      <3>2. \A u \in Threads \ {t} : pc'[u] # "load"
        BY <2>1, <3>1
      <3>3. \/ model' = TRUE /\ loads' = loads + 1
            \/ model' = model /\ loads' = loads
        BY <2>4
      <3> QED
        BY <3>1, <3>2, <3>3
    <2> QED
      BY <2>2, <2>3, <2>4
  <1>4. OnlyThread(t)
    BY <1>0, <1>1 DEF TypeOK, Answer, Goto, OnlyThread, threadVars
  <1>5. pc'[t] # "idle" => Sound(order, held[t], touched[t])' /\ Place(t)'
    <2>1. AtOutset(t)'
      BY <1>1 DEF RInv, Place, AtOutset, threadVars
    <2>2. Sound(order, held[t], touched[t])'
      BY <1>1, SoundKept
    <2>3. pc'[t] # "idle" => Place(t)'
      BY <1>1, <2>1, NothingReached DEF Place, AtOutset
    <2> QED
      BY <2>2, <2>3
  <1>6. pc'[t] = "idle" => Ended(t)'
    BY <1>1 DEF Ended
  <1> QED
    BY <1>2, <1>3, <1>4, <1>5, <1>6, ThreadPreserves

\* The steps that walk over the pairs and use no key of the cache.
LEMMA QuietSteps ==
  ASSUME RInv, NEW t \in Threads,
         NextSlot(t) \/ AllLookedUp(t) \/ Score(t) \/ AllCollected(t)
  PROVE  RInv'
  <1> USE DEF NextSlot, AllLookedUp, Score, AllCollected
  <1>0. TypeOK /\ Place(t)
    BY DEF RInv
  <1>1. /\ pc[t] \in {"lookup", "score", "collect"} /\ pc'[t] # "load"
        /\ pc'[t] = "idle" => answer'[t] \in {"model_raised", "scores"}
        /\ cached' = cached /\ order' = order /\ held' = held /\ touched' = touched
        /\ UNCHANGED <<modelVars, batch, misses, idx>>
    BY <1>0 DEF TypeOK, Goto, Answer, cacheVars, threadVars
  <1>2. TypeOK'
    <2> USE <1>0, TypeParts
    <2>1. CacheOK(cached, order)'
      BY <1>1 DEF CacheOK
    <2>2. ModelTypes'
      BY <1>1 DEF modelVars, ModelTypes
    <2>3. ControlTypes'
      BY DEF ControlTypes, PCs, Answers, Answer, Goto
    <2>4. PlaceTypes'
      <3>1. /\ slot' \in {slot, [slot EXCEPT ![t] = slot[t] + 1], [slot EXCEPT ![t] = 1]}
            /\ doc' \in {doc, [doc EXCEPT ![t] = 1]}
        BY DEF threadVars, Restart
      <3>2. slot[t] + 1 \in Nat \ {0}
        BY DEF TypeOK
      <3>3. slot' \in [Threads -> Nat \ {0}] /\ doc' \in [Threads -> Nat \ {0}]
        <4>1. slot \in [Threads -> Nat \ {0}] /\ doc \in [Threads -> Nat \ {0}]
          BY DEF PlaceTypes
        <4>2. slot' \in [Threads -> Nat \ {0}]
          BY <3>1, <3>2, <4>1
        <4>3. doc' \in [Threads -> Nat \ {0}]
          BY <3>1, <4>1
        <4> QED
          BY <4>2, <4>3
      <3> QED
        BY <1>1, <3>3 DEF PlaceTypes
    <2>5. ObserverTypes'
      BY <1>1 DEF ObserverTypes, AllCollected
    <2> QED
      BY <2>1, <2>2, <2>3, <2>4, <2>5, TypeJoin
  <1>3. OneLoader'
    BY <1>0, <1>1 DEF RInv, TypeOK, OneLoader, Answer, Goto, modelVars
  <1>4. OnlyThread(t)
    BY <1>0, <1>1 DEF TypeOK, Answer, Goto, OnlyThread, threadVars, Restart
  <1>5. pc'[t] # "idle" => Place(t)'
    <2>1. CASE NextSlot(t)
      <3>1. /\ pc' = pc /\ slot'[t] = slot[t] + 1 /\ doc'[t] = 1
            /\ slot[t] <= Len(batch[t]) /\ ~AtPair(t)
        BY <1>0, <2>1 DEF TypeOK
      <3>2. ASSUME NEW q \in Pairs(batch[t]), Reached(t, q)' PROVE Reached(t, q)
        <4>1. /\ q[1] \in Nat \ {0} /\ q[2] \in Nat \ {0} /\ Scored(batch[t], q[1])
              /\ q[2] \in DOMAIN batch[t][q[1]] /\ q[1] \in DOMAIN batch[t]
          BY DEF Pairs
        <4>2. q[2] <= Len(batch[t][q[1]])
          <5>1. batch[t] \in Seq(Seq(Keys))
            BY <1>0 DEF TypeOK
          <5>2. batch[t][q[1]] \in Seq(Keys)
            BY <4>1, <5>1
          <5> QED
            BY <4>1, <5>2
        <4>3. q[1] <= slot[t] /\ slot[t] \in Nat /\ doc[t] \in Nat
          BY <1>0, <3>1, <3>2, <4>1 DEF Reached, TypeOK
        <4>4. CASE q[1] = slot[t]
          BY <3>1, <4>1, <4>2, <4>3, <4>4 DEF AtPair, Reached
        <4> QED
          BY <4>1, <4>3, <4>4 DEF Reached
      <3>3. \A q \in Pairs(batch[t]) : Key2(t, q)' = Key2(t, q)
        BY <1>1 DEF Key2
      <3> QED
        BY <1>0, <1>1, <2>1, <3>1, <3>2, <3>3 DEF Place, Found
    <2>2. CASE AllLookedUp(t)
      <3>1. \A q \in Pairs(batch[t]) : Reached(t, q)
        <4> SUFFICES ASSUME NEW q \in Pairs(batch[t]) PROVE Reached(t, q)
          OBVIOUS
        <4>1. q[1] \in Nat /\ q[1] \in DOMAIN batch[t]
          BY DEF Pairs
        <4>2. q[1] <= Len(batch[t]) /\ Len(batch[t]) \in Nat /\ slot[t] \in Nat
          <5>1. batch[t] \in Seq(Seq(Keys)) /\ slot[t] \in Nat
            BY <1>0 DEF TypeOK
          <5> QED
            BY <4>1, <5>1
        <4> QED
          BY <2>2, <4>1, <4>2 DEF Reached
      <3>2. \A q \in Pairs(batch[t]) : Key2(t, q)' \in Found(t)' /\ Found(t)' = Found(t)
        BY <1>0, <1>1, <2>2, <3>1 DEF Place, Key2, Found
      <3>3. misses[t] = <<>> => Found(t) = held[t]
        BY DEF Found, Listed
      <3>4. pc'[t] = IF misses[t] = <<>> THEN "collect" ELSE "score"
        BY <1>0, <2>2 DEF TypeOK, Goto
      <3> QED
        BY <1>0, <1>1, <2>2, <3>2, <3>3, <3>4 DEF Place
    <2>3. CASE Score(t)
      <3>1. pc'[t] = "store" \/ pc'[t] = "idle"
        BY <1>0, <2>3 DEF TypeOK, Goto, Answer
      <3>2. idx[t] = 1 /\ misses[t] # <<>> /\ misses[t] \in Seq(Keys)
        BY <1>0, <2>3 DEF TypeOK, Place
      <3>3. /\ idx'[t] <= Len(misses'[t])
            /\ \A i \in DOMAIN misses'[t] : i < idx'[t] => misses'[t][i] \in held'[t]
        BY <1>1, <3>2
      <3>4. \A q \in Pairs(batch'[t]) : Key2(t, q)' \in Found(t)'
        BY <1>0, <1>1, <2>3 DEF Place, Key2, Found
      <3> QED
        BY <3>1, <3>3, <3>4 DEF Place
    <2>4. CASE AllCollected(t)
      BY <1>0, <2>4 DEF TypeOK, Answer, Goto
    <2> QED
      BY <2>1, <2>2, <2>3, <2>4
  <1>6. pc'[t] = "idle" => Ended(t)'
    BY <1>1 DEF Ended
  <1>7. Sound(order, held[t], touched[t])'
    BY <1>1, SoundKept
  <1> QED
    BY <1>2, <1>3, <1>4, <1>5, <1>6, <1>7, ThreadPreserves

\* The pair a loop has come to.
LEMMA PairAtHand ==
  ASSUME TypeOK, NEW t \in Threads, AtPair(t)
  PROVE  /\ <<slot[t], doc[t]>> \in Pairs(batch[t]) /\ Key(t) \in Keys
         /\ Key(t) = Key2(t, <<slot[t], doc[t]>>)
  <1>1. /\ batch[t] \in Seq(Seq(Keys)) /\ slot[t] \in Nat \ {0} /\ doc[t] \in Nat \ {0}
        /\ slot[t] <= Len(batch[t]) /\ Scored(batch[t], slot[t])
        /\ doc[t] <= Len(batch[t][slot[t]])
    BY DEF TypeOK, AtPair
  <1>2. slot[t] \in DOMAIN batch[t] /\ batch[t][slot[t]] \in Seq(Keys)
    BY <1>1
  <1>3. doc[t] \in DOMAIN batch[t][slot[t]] /\ batch[t][slot[t]][doc[t]] \in Keys
    BY <1>1, <1>2
  <1> QED
    BY <1>1, <1>2, <1>3 DEF Pairs, Key, Key2

LEMMA LookupStep ==
  ASSUME RInv, NEW t \in Threads, Lookup(t)
  PROVE  RInv'
  <1> DEFINE k == Key(t)
  <1>0. /\ TypeOK /\ Place(t) /\ pc[t] = "lookup" /\ pc' = pc /\ AtPair(t)
        /\ UNCHANGED <<modelVars, batch, idx, answer, begun>>
        /\ slot' = slot /\ doc' = [doc EXCEPT ![t] = doc[t] + 1]
    BY DEF RInv, Lookup, NextDoc
  <1>1. k \in Keys /\ k = Key2(t, <<slot[t], doc[t]>>)
    BY <1>0, PairAtHand
  <1> HIDE DEF k
  <1>2. \/ /\ k \in cached /\ Hit(k) /\ misses' = misses
           /\ held' = [held EXCEPT ![t] = held[t] \cup {k}]
        \/ /\ misses' = [misses EXCEPT ![t] = Append(misses[t], k)]
           /\ cached' = cached /\ order' = order /\ held' = held /\ touched' = touched
    BY DEF Lookup, k, cacheVars
  <1>3. k \in cached /\ Hit(k) => /\ Uses(order, order', k) /\ CacheOK(cached, order)' /\ Touch(k)
                                  /\ touched' \in [Threads -> SUBSET Keys]
    <2>1. CacheOK(cached, order)
      BY <1>0, TypeParts
    <2>2. touched \in [Threads -> SUBSET Keys]
      BY <1>0 DEF TypeOK
    <2>3. ASSUME k \in cached, Hit(k)
          PROVE /\ Uses(order, order', k) /\ CacheOK(cached', order')
                /\ touched' \in [Threads -> SUBSET Keys]
      BY <1>1, <2>1, <2>2, <2>3, HitUses DEF Hit, Touch
    <2> QED
      BY <2>3 DEF Hit, CacheOK
  <1>4. TypeOK'
    <2> USE <1>0, TypeParts
    <2>1. CacheOK(cached, order)'
      BY <1>2, <1>3 DEF CacheOK
    <2>2. ModelTypes' /\ ControlTypes'
      BY DEF modelVars, ModelTypes, ControlTypes
    <2>3. PlaceTypes'
      <3>1. doc[t] + 1 \in Nat \ {0} /\ Append(misses[t], k) \in Seq(Keys)
        BY <1>1 DEF TypeOK
      <3>2. doc' \in [Threads -> Nat \ {0}] /\ misses' \in [Threads -> Seq(Keys)]
        BY <1>2, <3>1 DEF PlaceTypes
      <3> QED
        BY <3>2 DEF PlaceTypes
    <2>4. ObserverTypes'
      BY <1>1, <1>2, <1>3 DEF ObserverTypes
    <2> QED
      BY <2>1, <2>2, <2>3, <2>4, TypeJoin
  <1>5. OneLoader'
    BY <1>0 DEF RInv, OneLoader, modelVars
  <1>6. OnlyThread(t)
    BY <1>0, <1>1, <1>2, <1>3 DEF TypeOK, OnlyThread
  <1>7. Sound(order, held[t], touched[t])'
    <2>1. CASE k \in cached /\ Hit(k) /\ held' = [held EXCEPT ![t] = held[t] \cup {k}]
      <3>1. held'[t] = held[t] \cup {k}
        BY <1>0, <2>1 DEF TypeOK
      <3> QED
        BY <1>0, <1>1, <1>3, <2>1, <3>1, SoundAfterUse
    <2>2. CASE order' = order /\ held' = held /\ touched' = touched
      BY <1>0, <2>2, SoundKept
    <2> QED
      BY <1>2, <2>1, <2>2
  <1>8. k \in Found(t)' /\ Found(t) \subseteq Found(t)'
    <2>1. CASE misses' = misses /\ held' = [held EXCEPT ![t] = held[t] \cup {k}]
      BY <1>0, <2>1 DEF TypeOK, Found
    <2>2. CASE misses' = [misses EXCEPT ![t] = Append(misses[t], k)] /\ held' = held
      <3>1. misses[t] \in Seq(Keys) /\ misses'[t] = Append(misses[t], k)
        BY <1>0, <2>2 DEF TypeOK
      <3>2. /\ Len(misses'[t]) \in DOMAIN misses'[t] /\ misses'[t][Len(misses'[t])] = k
            /\ \A i \in DOMAIN misses[t] : i \in DOMAIN misses'[t] /\ misses'[t][i] = misses[t][i]
        BY <1>1, <3>1
      <3>3. k \in Listed(misses'[t]) /\ Listed(misses[t]) \subseteq Listed(misses'[t])
        BY <3>2 DEF Listed
      <3> QED
        BY <2>2, <3>3 DEF Found
    <2> QED
      BY <1>2, <2>1, <2>2
  <1>9. Place(t)'
    <2>1. SUFFICES ASSUME NEW q \in Pairs(batch[t]), Reached(t, q)' PROVE Key2(t, q)' \in Found(t)'
      BY <1>0 DEF Place
    <2>2. q = <<q[1], q[2]>> /\ q[1] \in Nat /\ q[2] \in Nat /\ slot[t] \in Nat /\ doc[t] \in Nat
      BY <1>0 DEF Pairs, TypeOK
    <2>3. Reached(t, q) \/ q = <<slot[t], doc[t]>>
      <3>1. slot'[t] = slot[t] /\ doc'[t] = doc[t] + 1
        BY <1>0 DEF TypeOK
      <3>2. q[1] < slot[t] \/ (q[1] = slot[t] /\ q[2] < doc[t] + 1)
        BY <2>1, <3>1 DEF Reached
      <3> QED
        BY <2>2, <3>2 DEF Reached
    <2>4. Key2(t, q)' = Key2(t, q)
      BY <1>0 DEF Key2
    <2> QED
      BY <1>0, <1>1, <1>8, <2>3, <2>4 DEF Place
  <1> QED
    BY <1>0, <1>4, <1>5, <1>6, <1>7, <1>9, ThreadPreserves

LEMMA StoreStep ==
  ASSUME RInv, NEW t \in Threads, StoreScore(t)
  PROVE  RInv'
  <1> DEFINE k == misses[t][idx[t]]
  <1>0. /\ TypeOK /\ Place(t) /\ pc[t] = "store"
        /\ UNCHANGED <<modelVars, batch, slot, doc, misses, begun>>
    BY DEF RInv, StoreScore
  <1>1. /\ idx[t] \in DOMAIN misses[t] /\ k \in Keys /\ misses[t] \in Seq(Keys)
        /\ idx[t] + 1 \in Nat \ {0}
    <2>1. misses[t] \in Seq(Keys) /\ idx[t] \in Nat \ {0} /\ idx[t] <= Len(misses[t])
      BY <1>0 DEF TypeOK, Place
    <2> QED
      BY <2>1
  <1> HIDE DEF k
  <1>2. \/ /\ Store(k) /\ held' = [held EXCEPT ![t] = held[t] \cup {k}]
           /\ idx' = [idx EXCEPT ![t] = idx[t] + 1] /\ answer' = answer
           /\ Goto(t, IF idx[t] = Len(misses[t]) THEN "collect" ELSE "store")
        \/ /\ StoreRaises(k) /\ Answer(t, "index_error")
           /\ cached' = cached /\ order' = order /\ held' = held /\ touched' = touched
           /\ idx' = idx
    BY DEF StoreScore, k, cacheVars
  <1>3. CacheOK(cached, order)
    BY <1>0, TypeParts
  <1>4. Store(k) => /\ Uses(order, order', k) /\ CacheOK(cached', order') /\ Touch(k)
                    /\ touched' \in [Threads -> SUBSET Keys]
    <2>1. touched \in [Threads -> SUBSET Keys]
      BY <1>0 DEF TypeOK
    <2> QED
      BY <1>1, <1>3, <2>1, StoreUses DEF Store, Touch
  <1>5. TypeOK'
    <2> USE <1>0, TypeParts
    <2>1. CacheOK(cached, order)'
      BY <1>2, <1>3, <1>4 DEF CacheOK
    <2>2. ModelTypes'
      BY DEF modelVars, ModelTypes
    <2>3. ControlTypes'
      BY <1>2 DEF ControlTypes, PCs, Answers, Answer, Goto
    <2>4. PlaceTypes'
      BY <1>1, <1>2 DEF PlaceTypes
    <2>5. ObserverTypes'
      BY <1>1, <1>2, <1>4 DEF ObserverTypes
    <2> QED
      BY <2>1, <2>2, <2>3, <2>4, <2>5, TypeJoin
  <1>6. /\ \A u \in Threads \ {t} : pc'[u] = pc[u] /\ answer'[u] = answer[u]
        /\ pc'[t] # "load"
    BY <1>0, <1>2 DEF TypeOK, Goto, Answer
  <1>7. OneLoader'
    BY <1>0, <1>6 DEF RInv, OneLoader, modelVars
  <1>8. OnlyThread(t)
    BY <1>0, <1>1, <1>2, <1>4, <1>6 DEF TypeOK, OnlyThread
  <1>9. CASE StoreRaises(k) /\ Answer(t, "index_error")
    <2>1. pc'[t] = "idle" /\ answer'[t] = "index_error"
      BY <1>0, <1>9 DEF TypeOK, Answer, Goto
    <2>2. cached = {}
      BY <1>3, <1>9 DEF StoreRaises, CacheOK, Listed
    <2>3. Capacity = 0
      BY <1>9, <2>2, FS_EmptySet, LimitsAssumption DEF StoreRaises
    <2> QED
      BY <1>5, <1>7, <1>8, <2>1, <2>3, ThreadPreserves DEF Ended
  <1>10. CASE Store(k) /\ held' = [held EXCEPT ![t] = held[t] \cup {k}]
              /\ idx' = [idx EXCEPT ![t] = idx[t] + 1]
              /\ Goto(t, IF idx[t] = Len(misses[t]) THEN "collect" ELSE "store")
    <2>1. /\ held'[t] = held[t] \cup {k} /\ idx'[t] = idx[t] + 1
          /\ pc'[t] = IF idx[t] = Len(misses[t]) THEN "collect" ELSE "store"
      BY <1>0, <1>10 DEF TypeOK, Goto
    <2>2. Sound(order, held[t], touched[t])'
      BY <1>0, <1>1, <1>4, <1>10, <2>1, SoundAfterUse
    <2>3. \A i \in DOMAIN misses[t] : i < idx'[t] => misses[t][i] \in held'[t]
      <3>1. \A i \in DOMAIN misses[t] : i < idx[t] + 1 => i < idx[t] \/ i = idx[t]
        BY <1>0 DEF TypeOK
      <3> QED
        BY <1>0, <2>1, <3>1 DEF Place, k
    <2>4. \A q \in Pairs(batch[t]) : Key2(t, q)' \in Found(t)'
      BY <1>0, <2>1 DEF Place, Key2, Found
    <2>5. CASE idx[t] = Len(misses[t])
      <3>1. Listed(misses[t]) \subseteq held'[t]
        BY <1>1, <2>1, <2>3, <2>5 DEF Listed
      <3> QED
        BY <1>0, <1>5, <1>7, <1>8, <2>1, <2>2, <2>4, <2>5, <3>1, ThreadPreserves DEF Place, Found
    <2>6. CASE idx[t] # Len(misses[t])
      <3>1. idx'[t] <= Len(misses'[t])
        BY <1>0, <1>1, <2>1, <2>6
      <3>2. Place(t)'
        BY <1>0, <2>1, <2>3, <2>4, <2>6, <3>1 DEF Place
      <3> QED
        BY <1>5, <1>7, <1>8, <2>1, <2>2, <2>6, <3>2, ThreadPreserves
    <2> QED
      BY <2>5, <2>6
  <1> QED
    BY <1>2, <1>9, <1>10

LEMMA CollectStep ==
  ASSUME RInv, NEW t \in Threads, Collect(t)
  PROVE  RInv'
  <1> DEFINE k == Key(t)
  <1>0. /\ TypeOK /\ Place(t) /\ pc[t] = "collect" /\ AtPair(t)
        /\ Sound(order, held[t], touched[t])
        /\ UNCHANGED <<modelVars, batch, misses, idx, held, begun>>
    BY DEF RInv, Collect
  <1>1. k \in Keys /\ k \in held[t]
    BY <1>0, PairAtHand DEF Place
  <1> HIDE DEF k
  <1>2. \/ /\ k \in cached /\ Hit(k) /\ pc' = pc /\ answer' = answer
           /\ slot' = slot /\ doc' = [doc EXCEPT ![t] = doc[t] + 1]
        \/ /\ k \notin cached /\ Answer(t, "evicted")
           /\ cached' = cached /\ order' = order /\ touched' = touched
           /\ slot' = slot /\ doc' = doc
    BY DEF Collect, NextDoc, k, cacheVars
  <1>3. CacheOK(cached, order)
    BY <1>0, TypeParts
  <1>4. k \in cached /\ Hit(k) => /\ Uses(order, order', k) /\ CacheOK(cached', order') /\ Touch(k)
                                  /\ touched' \in [Threads -> SUBSET Keys]
    <2>1. touched \in [Threads -> SUBSET Keys]
      BY <1>0 DEF TypeOK
    <2> QED
      BY <1>1, <1>3, <2>1, HitUses DEF Hit, Touch
  <1>5. TypeOK'
    <2> USE <1>0, TypeParts
    <2>1. CacheOK(cached, order)'
      BY <1>2, <1>3, <1>4 DEF CacheOK
    <2>2. ModelTypes'
      BY DEF modelVars, ModelTypes
    <2>3. ControlTypes'
      BY <1>2 DEF ControlTypes, PCs, Answers, Answer, Goto
    <2>4. PlaceTypes'
      BY <1>2 DEF PlaceTypes
    <2>5. ObserverTypes'
      BY <1>2, <1>4 DEF ObserverTypes
    <2> QED
      BY <2>1, <2>2, <2>3, <2>4, <2>5, TypeJoin
  <1>6. /\ \A u \in Threads \ {t} : pc'[u] = pc[u] /\ answer'[u] = answer[u]
        /\ pc'[t] # "load"
    BY <1>0, <1>2 DEF TypeOK, Goto, Answer
  <1>7. OneLoader'
    BY <1>0, <1>6 DEF RInv, OneLoader, modelVars
  <1>8. OnlyThread(t)
    BY <1>0, <1>1, <1>2, <1>4, <1>6 DEF TypeOK, OnlyThread
  <1>9. CASE k \in cached /\ Hit(k) /\ pc' = pc
    <2>1. Place(t)'
      BY <1>0, <1>9 DEF Place, Key2
    <2>2. Sound(order, held[t], touched[t])'
      BY <1>0, <1>1, <1>4, <1>9, SoundAfterUse
    <2> QED
      BY <1>0, <1>5, <1>7, <1>8, <1>9, <2>1, <2>2, ThreadPreserves
  <1>10. CASE k \notin cached /\ Answer(t, "evicted") /\ touched' = touched
    <2>1. pc'[t] = "idle" /\ answer'[t] = "evicted"
      BY <1>0, <1>10 DEF TypeOK, Answer, Goto
    <2>2. Cardinality(touched[t]) > Capacity
      BY <1>0, <1>1, <1>3, <1>10 DEF Sound, CacheOK
    <2> QED
      BY <1>5, <1>7, <1>8, <1>10, <2>1, <2>2, ThreadPreserves DEF Ended
  <1> QED
    BY <1>2, <1>9, <1>10

LEMMA StutterStep ==
  ASSUME RInv, UNCHANGED vars
  PROVE  RInv'
  <1>1. /\ UNCHANGED <<cached, order, model, loader, loads, batch, slot, doc, misses, idx>>
        /\ UNCHANGED <<pc, answer, held, touched, begun>>
    BY DEF vars, cacheVars, modelVars, threadVars
  <1>2. TypeOK'
    BY <1>1 DEF RInv, TypeOK
  <1>3. \A t \in Threads : pc'[t] # "idle" => Sound(order, held[t], touched[t])' /\ Place(t)'
    BY <1>1 DEF RInv, Sound, Place, AtOutset, Reached, Key2, Found
  <1> QED
    BY <1>1, <1>2, <1>3 DEF RInv, OneLoader, FailsOnlyUnderPressure

------------------------------------------------------------------------------
\* The invariant of the cache and of all the requests at work on it: what a
\* request found or stored is still cached, unless more keys than the cache holds
\* have been used since the request began.
THEOREM CacheInvariant == Spec => []RInv
  <1>1. RInv /\ [Next]_vars => RInv'
    <2> SUFFICES ASSUME RInv, [Next]_vars PROVE RInv'
      OBVIOUS
    <2>1. ASSUME NEW t \in Threads, Begin(t) \/ ThreadStep(t) PROVE RInv'
      BY <2>1, BeginStep, ModelSteps, QuietSteps, LookupStep, StoreStep, CollectStep
         DEF ThreadStep
    <2> QED
      BY <2>1, StutterStep DEF Next
  <1> QED
    BY <1>1, InitRInv, PTL DEF Spec

\* The dictionary and the list of the cache agree, and its size keeps its limit.
THEOREM CacheTypeCorrect == Spec => []TypeOK
  <1>1. RInv => TypeOK
    BY DEF RInv
  <1> QED
    BY <1>1, CacheInvariant, PTL

\* A request fails for want of a score only when, since it began, the threads
\* have used more pairs than the cache holds.
THEOREM OnlyPressureFails == Spec => []FailsOnlyUnderPressure
  <1>1. RInv => FailsOnlyUnderPressure
    BY DEF RInv
  <1> QED
    BY <1>1, CacheInvariant, PTL

\* The model is built at most once.
THEOREM ModelLoadedOnce == Spec => []LoadedOnce
  <1>1. RInv => LoadedOnce
    BY DEF RInv, OneLoader, LoadedOnce
  <1> QED
    BY <1>1, CacheInvariant, PTL
==============================================================================
