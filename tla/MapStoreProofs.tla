--------------------------- MODULE MapStoreProofs ---------------------------
(***************************************************************************)
(* What the methods of the LRU cache do to its keys, its items and its     *)
(* order, and from it the safety of MapStore for any keys, capacity,       *)
(* expiries and throttle, and that it keeps the promise of ExpiringStore.  *)
(***************************************************************************)
EXTENDS MapStore, FiniteSetTheorems, TLAPS

(* The LRU cache.                                                          *)

\* Deleting removes the keys, and keeps the order of the rest.
LEMMA DeleteKeeps ==
    ASSUME NEW V, NEW c, IsCache(c, V), NEW K
    PROVE  /\ IsCache(Delete(c, K), V)
           /\ Held(Delete(c, K)) = Held(c) \ K
           /\ \A j \in Keys \ K : Delete(c, K).items[j] = c.items[j]
           /\ \A j \in K \cap Keys : Delete(c, K).items[j] = Absent
           /\ \A i, j : <<i, j>> \in Delete(c, K).older
                            <=> <<i, j>> \in c.older /\ i \notin K /\ j \notin K
PROOF
<1> DEFINE d == Delete(c, K)
<1>1. d.items \in [Keys -> V \cup {Absent}] /\ d.older \in SUBSET (Keys \X Keys)
  BY DEF Delete, IsCache
<1>2. /\ \A j \in Keys \ K : d.items[j] = c.items[j]
      /\ \A j \in K \cap Keys : d.items[j] = Absent
  BY DEF Delete
<1>3. Held(d) = Held(c) \ K
  BY <1>2 DEF Held
<1>4. \A i, j : <<i, j>> \in d.older
                    <=> <<i, j>> \in c.older /\ i \notin K /\ j \notin K
  BY DEF Delete
<1>5. IsOrder(d.older, Held(d))
  <2>1. d.older \subseteq Held(d) \X Held(d)
    BY <1>3 DEF Delete, IsCache, IsOrder
  <2>2. \A i, j \in Held(d) : <<i, j>> \in d.older <=> <<i, j>> \in c.older
    BY <1>3, <1>4
  <2> QED
    BY <1>3, <2>1, <2>2 DEF IsCache, IsOrder
<1>6. d \in [items : [Keys -> V \cup {Absent}], older : SUBSET (Keys \X Keys)]
  BY <1>1 DEF Delete
<1> QED
  BY <1>2, <1>3, <1>4, <1>5, <1>6 DEF IsCache

\* Inserting a key that is not there puts it behind all the others.
LEMMA InsertKeeps ==
    ASSUME NEW V, Absent \notin V, NEW c, IsCache(c, V),
           NEW k \in Keys, k \notin Held(c), NEW v \in V
    PROVE  /\ IsCache(Insert(c, k, v), V)
           /\ Held(Insert(c, k, v)) = Held(c) \cup {k}
           /\ Insert(c, k, v).items = [c.items EXCEPT ![k] = v]
           /\ \A i, j : <<i, j>> \in Insert(c, k, v).older
                            <=> <<i, j>> \in c.older \/ (i \in Held(c) /\ j = k)
PROOF
<1> DEFINE d == Insert(c, k, v)
<1>1. d.items = [c.items EXCEPT ![k] = v]
  BY DEF Insert
<1>2. Held(d) = Held(c) \cup {k}
  BY <1>1 DEF Held, IsCache
<1>3. \A i, j : <<i, j>> \in d.older
                    <=> <<i, j>> \in c.older \/ (i \in Held(c) /\ j = k)
  BY DEF Insert
<1>4. d.items \in [Keys -> V \cup {Absent}] /\ Held(c) \subseteq Keys
  BY <1>1 DEF IsCache, Held
<1>5. IsOrder(d.older, Held(d))
  <2>1. c.older \subseteq Held(c) \X Held(c)
    BY DEF IsCache, IsOrder
  <2>2. d.older \subseteq Held(d) \X Held(d)
    BY <1>2, <2>1 DEF Insert
  <2>3. \A i, j \in Held(d) :
           <<i, j>> \in d.older <=> i # k /\ (j = k \/ <<i, j>> \in c.older)
    <3>1. \A i, j : <<i, j>> \in c.older => i # k /\ j # k
      BY <2>1
    <3> QED
      BY <1>2, <1>3, <3>1
  <2> QED
    BY <1>2, <2>1, <2>2, <2>3 DEF IsCache, IsOrder
<1>6. d \in [items : [Keys -> V \cup {Absent}], older : SUBSET (Keys \X Keys)]
  BY <1>4 DEF Insert, IsCache
<1> QED
  BY <1>1, <1>2, <1>3, <1>5, <1>6 DEF IsCache

\* A look-up loses nothing and moves its key, if present, to the end.
LEMMA LruGetKeeps ==
    ASSUME NEW V, Absent \notin V, NEW c, IsCache(c, V), NEW k \in Keys
    PROVE  /\ IsCache(LruGet(c, k), V)
           /\ Held(LruGet(c, k)) = Held(c)
           /\ LruGet(c, k).items = c.items
           /\ \A i, j \in Held(c) :
                 <<i, j>> \in LruGet(c, k).older
                     <=> i # k /\ (j = k \/ <<i, j>> \in c.older)
PROOF
<1>1. CASE k \notin Held(c)
  BY <1>1 DEF LruGet
<1>2. CASE k \in Held(c)
  <2> DEFINE d == Delete(c, {k})
             v == c.items[k]
  <2>1. v \in V
    BY <1>2 DEF Held, IsCache
  <2>2. /\ IsCache(d, V)
        /\ Held(d) = Held(c) \ {k}
        /\ \A j \in Keys \ {k} : d.items[j] = c.items[j]
        /\ \A i, j : <<i, j>> \in d.older
                         <=> <<i, j>> \in c.older /\ i \notin {k} /\ j \notin {k}
    BY DeleteKeeps
  <2>3. LruGet(c, k) = Insert(d, k, v)
    BY <1>2 DEF LruGet
  <2> HIDE DEF d
  <2>4. /\ IsCache(Insert(d, k, v), V)
        /\ Held(Insert(d, k, v)) = Held(d) \cup {k}
        /\ Insert(d, k, v).items = [d.items EXCEPT ![k] = v]
        /\ \A i, j : <<i, j>> \in Insert(d, k, v).older
                         <=> <<i, j>> \in d.older \/ (i \in Held(d) /\ j = k)
    BY <2>1, <2>2, InsertKeeps
  <2>5. Insert(d, k, v).items = c.items
    BY <2>2, <2>4 DEF IsCache
  <2> QED
    BY <1>2, <2>2, <2>3, <2>4, <2>5
<1> QED
  BY <1>1, <1>2

\* A write loses nothing but what it evicts, and puts its key at the end.
LEMMA LruSetKeeps ==
    ASSUME NEW V, Absent \notin V, NEW c, IsCache(c, V),
           NEW k \in Keys, NEW v \in V
    PROVE  /\ IsCache(LruSet(c, k, v), V)
           /\ Evicted(c, k) \subseteq Held(c) \ {k}
           /\ Held(LruSet(c, k, v)) = (Held(c) \ Evicted(c, k)) \cup {k}
           /\ LruSet(c, k, v).items[k] = v
           /\ \A j \in Keys \ ({k} \cup Evicted(c, k)) :
                 LruSet(c, k, v).items[j] = c.items[j]
           /\ \A i, j \in Held(LruSet(c, k, v)) :
                 <<i, j>> \in LruSet(c, k, v).older
                     <=> i # k /\ (j = k \/ <<i, j>> \in c.older)
PROOF
<1> DEFINE E == {k} \cup Evicted(c, k)
           d == Delete(c, E)
<1>1. Evicted(c, k) \subseteq Held(c) \ {k}
  BY DEF Evicted, Oldest
<1>2. /\ IsCache(d, V)
      /\ Held(d) = Held(c) \ E
      /\ \A j \in Keys \ E : d.items[j] = c.items[j]
      /\ \A i, j : <<i, j>> \in d.older
                       <=> <<i, j>> \in c.older /\ i \notin E /\ j \notin E
  BY DeleteKeeps
<1>3. LruSet(c, k, v) = Insert(d, k, v)
  BY DEF LruSet
<1> HIDE DEF d
<1>4. /\ IsCache(Insert(d, k, v), V)
      /\ Held(Insert(d, k, v)) = Held(d) \cup {k}
      /\ Insert(d, k, v).items = [d.items EXCEPT ![k] = v]
      /\ \A i, j : <<i, j>> \in Insert(d, k, v).older
                       <=> <<i, j>> \in d.older \/ (i \in Held(d) /\ j = k)
  BY <1>2, InsertKeeps
<1>5. Held(Insert(d, k, v)) = (Held(c) \ Evicted(c, k)) \cup {k}
  BY <1>2, <1>4
<1>6. /\ Insert(d, k, v).items[k] = v
      /\ \A j \in Keys \ E : Insert(d, k, v).items[j] = c.items[j]
  BY <1>2, <1>4 DEF IsCache
<1>7. \A i, j \in Held(Insert(d, k, v)) :
         <<i, j>> \in Insert(d, k, v).older
             <=> i # k /\ (j = k \/ <<i, j>> \in c.older)
  BY <1>1, <1>2, <1>4, <1>5
<1> QED
  BY <1>1, <1>3, <1>4, <1>5, <1>6, <1>7

\* Among present keys one is the first of the order: the relation "has fewer
\* predecessors" is well-founded on a finite set.
LEMMA OldestExists ==
    ASSUME NEW V, NEW c, IsCache(c, V), Held(c) # {}
    PROVE  \E k \in Held(c) : Oldest(c) = {k}
PROOF
<1> DEFINE S       == Held(c)
           Pred(k) == {j \in S : <<j, k>> \in c.older}
           T       == {Pred(k) : k \in S}
<1>1. IsFiniteSet(S)
  <2>1. S \subseteq Keys
    BY DEF Held
  <2> QED
    BY <2>1, CacheAssumption, FS_Subset
<1>2. T \subseteq SUBSET S /\ T # {}
  OBVIOUS
<1>3. IsWellFoundedOn(StrictSubsetOrdering(S), SUBSET S)
  BY <1>1, FS_FiniteSubsetsOfFinite, FS_StrictSubsetOrderingWellFounded
<1>4. PICK P \in T : \A Q \in T : <<Q, P>> \notin StrictSubsetOrdering(S)
  <2> HIDE DEF T
  <2> QED
    BY <1>2, <1>3, WFMin
<1>5. PICK k \in S : P = Pred(k)
  OBVIOUS
<1>6. P = {}
  <2> SUFFICES ASSUME NEW j \in P PROVE FALSE
    OBVIOUS
  <2>1. j \in S /\ <<j, k>> \in c.older
    BY <1>5
  <2>2. Pred(j) \subseteq P /\ j \notin Pred(j)
    BY <1>5, <2>1 DEF IsCache, IsOrder
  <2>3. <<Pred(j), P>> \in StrictSubsetOrdering(S)
    BY <1>2, <2>1, <2>2 DEF StrictSubsetOrdering
  <2> QED
    BY <1>4, <2>1, <2>3
<1>7. \A j \in S : <<j, k>> \notin c.older
  BY <1>5, <1>6
<1>8. \A i \in S : i # k => <<k, i>> \in c.older
  BY <1>7 DEF IsCache, IsOrder
<1>9. Oldest(c) = {k}
  BY <1>7, <1>8 DEF Oldest
<1> QED
  BY <1>9

\* The present keys are finite in number.
LEMMA HeldIsFinite ==
    ASSUME NEW c
    PROVE  IsFiniteSet(Held(c)) /\ Cardinality(Held(c)) \in Nat
PROOF
<1>1. Held(c) \subseteq Keys
  BY DEF Held
<1> QED
  BY <1>1, CacheAssumption, FS_Subset, FS_CardinalityType

\* When no key is empty a write never grows a full cache.
LEMMA LruSetMakesRoom ==
    ASSUME NEW V, Absent \notin V, NEW c, IsCache(c, V),
           NEW k \in Keys, NEW v \in V, EmptyKey \notin Keys,
           NEW n \in Nat, Capacity <= n, 1 <= n, Cardinality(Held(c)) <= n
    PROVE  Cardinality(Held(LruSet(c, k, v))) <= n
PROOF
<1> DEFINE kept == Held(c) \ Evicted(c, k)
<1>1. Held(LruSet(c, k, v)) = kept \cup {k}
  BY LruSetKeeps
<1>2. IsFiniteSet(Held(c)) /\ Cardinality(Held(c)) \in Nat
  BY HeldIsFinite
<1>3. CASE k \in Held(c)
  <2>1. kept \cup {k} = Held(c)
    BY <1>3 DEF Evicted
  <2> QED
    BY <1>1, <2>1
<1>4. CASE k \notin Held(c) /\ Cardinality(Held(c)) < Capacity
  <2>1. kept = Held(c)
    BY <1>2, <1>4, CacheAssumption DEF Evicted
  <2>2. Cardinality(kept \cup {k}) = Cardinality(Held(c)) + 1
    BY <1>2, <1>4, <2>1, FS_AddElement
  <2> QED
    BY <1>1, <1>2, <1>4, <2>2, CacheAssumption
<1>5. CASE k \notin Held(c) /\ Cardinality(Held(c)) >= Capacity
  <2>1. CASE Held(c) = {}
    <3>1. kept \cup {k} = {k}
      BY <2>1
    <3> QED
      BY <1>1, <3>1, FS_Singleton
  <2>2. CASE Held(c) # {}
    <3>1. PICK o \in Held(c) : Oldest(c) = {o}
      BY <2>2, OldestExists
    <3>2. o # EmptyKey
      BY DEF Held
    <3>3. kept = Held(c) \ {o}
      BY <1>5, <3>1, <3>2 DEF Evicted
    <3>4. IsFiniteSet(kept) /\ Cardinality(kept) = Cardinality(Held(c)) - 1
      BY <1>2, <3>1, <3>3, FS_RemoveElement
    <3>5. k \notin kept
      BY <1>5
    <3>6. Cardinality(kept \cup {k}) = Cardinality(kept) + 1
      <4> HIDE DEF kept
      <4> QED
        BY <3>4, <3>5, FS_AddElement
    <3> QED
      BY <1>1, <1>2, <3>4, <3>6
  <2> QED
    BY <2>1, <2>2
<1> QED
  BY <1>2, <1>3, <1>4, <1>5, CacheAssumption
-----------------------------------------------------------------------------
(* The store.                                                              *)

\* What _get leaves in the cache: the same items but an expired k, in the same
\* order but for k, which is last.
LEMMA LookedKeeps ==
    ASSUME TypeOK, NEW k \in Keys
    PROVE  /\ IsCache(Looked(k), Items)
           /\ Held(Looked(k)) = Held(cache) \ {i \in {k} : IsExpired(cache.items[i], now)}
           /\ \A j \in Held(Looked(k)) : Looked(k).items[j] = cache.items[j]
           /\ \A i, j \in Held(Looked(k)) :
                 <<i, j>> \in Looked(k).older
                     <=> i # k /\ (j = k \/ <<i, j>> \in cache.older)
           /\ Found(k) \in Items \cup {Absent}
PROOF
<1> DEFINE g == LruGet(cache, k)
<1>1. IsCache(cache, Items) /\ Absent \notin Items
  BY AbsentAssumption DEF TypeOK
<1>2. /\ IsCache(g, Items)
      /\ Held(g) = Held(cache)
      /\ g.items = cache.items
      /\ \A i, j \in Held(cache) :
            <<i, j>> \in g.older <=> i # k /\ (j = k \/ <<i, j>> \in cache.older)
  BY <1>1, LruGetKeeps
<1>3. Found(k) \in Items \cup {Absent}
  BY <1>1 DEF Found, IsCache
<1> HIDE DEF g
<1>4. CASE IsExpired(cache.items[k], now)
  <2>1. Looked(k) = Delete(g, {k})
    BY <1>4 DEF Looked, g
  <2>2. /\ IsCache(Delete(g, {k}), Items)
        /\ Held(Delete(g, {k})) = Held(g) \ {k}
        /\ \A j \in Keys \ {k} : Delete(g, {k}).items[j] = g.items[j]
        /\ \A i, j : <<i, j>> \in Delete(g, {k}).older
                         <=> <<i, j>> \in g.older /\ i \notin {k} /\ j \notin {k}
    BY <1>2, DeleteKeeps
  <2>3. Held(cache) \subseteq Keys
    BY DEF Held
  <2> QED
    BY <1>2, <1>3, <1>4, <2>1, <2>2, <2>3
<1>5. CASE ~IsExpired(cache.items[k], now)
  <2>1. Looked(k) = g
    BY <1>5 DEF Looked, g
  <2> QED
    BY <1>2, <1>3, <1>5, <2>1
<1> QED
  BY <1>4, <1>5

\* What set leaves in the cache: beside k, only items that were there, less
\* the evicted ones and, when the sweep ran, the expired ones.
LEMMA StoredKeeps ==
    ASSUME NEW c, IsCache(c, Items), now \in 0..MaxNow,
           NEW k \in Keys, NEW v \in 0..MaxValue, NEW ttl \in Ttls, ~setDisabled
    PROVE  /\ IsCache(Stored(c, k, v, ttl), Items)
           /\ Held(Stored(c, k, v, ttl)) \subseteq Held(LruSet(c, k, Item(v, ttl)))
           /\ Held(Stored(c, k, v, ttl)) \subseteq Held(c) \cup {k}
           /\ \A j \in Held(Stored(c, k, v, ttl)) :
                 Stored(c, k, v, ttl).items[j] =
                    IF j = k THEN Item(v, ttl) ELSE c.items[j]
           /\ k \notin Held(Stored(c, k, v, ttl)) => IsExpired(Item(v, ttl), now)
           /\ \A j \in Held(c) \ ({k} \cup Held(Stored(c, k, v, ttl))) :
                 j \in Evicted(c, k) \/ IsExpired(c.items[j], now)
           /\ \A i, j \in Held(Stored(c, k, v, ttl)) :
                 <<i, j>> \in Stored(c, k, v, ttl).older
                     <=> i # k /\ (j = k \/ <<i, j>> \in c.older)
           /\ SweepDue => \A j \in Held(Stored(c, k, v, ttl)) :
                 ~IsExpired(Stored(c, k, v, ttl).items[j], now)
PROOF
<1> DEFINE item == Item(v, ttl)
           l    == LruSet(c, k, item)
           X    == {j \in Keys : IsExpired(l.items[j], now)}
           s    == Stored(c, k, v, ttl)
<1>1. item \in Items /\ Absent \notin Items
  BY AbsentAssumption DEF Items, Item
<1> HIDE DEF item
<1>2. /\ IsCache(l, Items)
      /\ Evicted(c, k) \subseteq Held(c) \ {k}
      /\ Held(l) = (Held(c) \ Evicted(c, k)) \cup {k}
      /\ l.items[k] = item
      /\ \A j \in Keys \ ({k} \cup Evicted(c, k)) : l.items[j] = c.items[j]
      /\ \A i, j \in Held(l) :
            <<i, j>> \in l.older <=> i # k /\ (j = k \/ <<i, j>> \in c.older)
  BY <1>1, LruSetKeeps
<1> HIDE DEF l
<1>3. Held(l) \subseteq Keys /\ Held(c) \subseteq Keys
  BY DEF Held
<1>4. PICK Y \in {{}, X} :
         /\ IsCache(s, Items)
         /\ Held(s) = Held(l) \ Y
         /\ \A j \in Held(s) : s.items[j] = l.items[j]
         /\ \A i, j \in Held(s) : <<i, j>> \in s.older <=> <<i, j>> \in l.older
         /\ SweepDue => Y = X
  <2>1. CASE ~SweepDue
    <3>1. s = l
      BY <2>1 DEF Stored, l, item
    <3> HIDE DEF X, s
    <3> QED
      BY <1>2, <2>1, <3>1
  <2>2. CASE SweepDue
    <3>1. s = Delete(l, X)
      BY <2>2 DEF Stored, Sweep, l, item
    <3> HIDE DEF X, s
    <3>2. /\ IsCache(Delete(l, X), Items)
          /\ Held(Delete(l, X)) = Held(l) \ X
          /\ \A j \in Keys \ X : Delete(l, X).items[j] = l.items[j]
          /\ \A i, j : <<i, j>> \in Delete(l, X).older
                           <=> <<i, j>> \in l.older /\ i \notin X /\ j \notin X
      BY <1>2, DeleteKeeps
    <3> QED
      BY <1>3, <3>1, <3>2
  <2> QED
    BY <2>1, <2>2
<1> HIDE DEF s
<1>5. \A j \in Held(s) : s.items[j] = IF j = k THEN item ELSE c.items[j]
  BY <1>2, <1>3, <1>4
<1>6. k \notin Held(s) => IsExpired(item, now)
  BY <1>2, <1>4
<1>7. \A j \in Held(c) \ ({k} \cup Held(s)) :
         j \in Evicted(c, k) \/ IsExpired(c.items[j], now)
  BY <1>2, <1>3, <1>4
<1>8. \A i, j \in Held(s) :
         <<i, j>> \in s.older <=> i # k /\ (j = k \/ <<i, j>> \in c.older)
  BY <1>2, <1>4
<1>9. SweepDue => \A j \in Held(s) : ~IsExpired(s.items[j], now)
  BY <1>3, <1>4
<1>10. Held(s) \subseteq Held(l) /\ Held(s) \subseteq Held(c) \cup {k}
  BY <1>2, <1>4
<1> QED
  BY <1>4, <1>5, <1>6, <1>7, <1>8, <1>9, <1>10 DEF s, l, item
-----------------------------------------------------------------------------
\* What incr counts is a number.
LEMMA CountedType ==
    ASSUME TypeOK, NEW k \in Keys, NEW by \in Increments
    PROVE  Counted(k, by) \in Nat
PROOF
<1>1. Found(k) = Absent \/ Found(k).value \in 0..MaxValue
  BY LookedKeeps DEF Items
<1> QED
  BY <1>1, StoreAssumption DEF Counted

\* Types are kept by every call.
LEMMA TypeStep == TypeOK /\ [Next]_vars => TypeOK'
PROOF
<1> SUFFICES ASSUME TypeOK, [Next]_vars PROVE TypeOK'
  OBVIOUS
<1> USE StoreAssumption
<1>1. CASE Tick
  <2>1. sweptAt' \in {Never} \cup (0..now')
    BY <1>1 DEF Tick, TypeOK
  <2> QED
    BY <1>1, <2>1 DEF Tick, TypeOK
<1>2. ASSUME NEW k \in Keys, NEW v \in 0..MaxValue, NEW ttl \in Ttls, Set(k, v, ttl)
      PROVE  TypeOK'
  <2>1. IsCache(cache', Items)
    <3>1. CASE setDisabled
      BY <1>2, <3>1 DEF Set, Put, Stored, TypeOK
    <3>2. CASE ~setDisabled
      BY <1>2, <3>2, StoredKeeps DEF Set, Put, TypeOK
    <3> QED
      BY <3>1, <3>2
  <2>2. sweptAt' \in {Never} \cup (0..now')
    BY <1>2 DEF Set, Put, TypeOK
  <2>3. fresher' \in [Keys -> SUBSET Keys]
    BY <1>2 DEF Set, Use, TypeOK
  <2> QED
    BY <1>2, <2>1, <2>2, <2>3 DEF Set, Answer, Operations, TypeOK
<1>3. ASSUME NEW k \in Keys, Get(k) \/ Timestamp(k)
      PROVE  TypeOK'
  <2>1. IsCache(cache', Items)
    BY <1>3, LookedKeeps DEF Get, Timestamp
  <2>2. fresher' \in [Keys -> SUBSET Keys]
    BY <1>3 DEF Get, Timestamp, Use, TypeOK
  <2>3. reply' \in [op : Operations, key : Keys, value : Nat \cup {Null}]
    <3>1. Found(k) = Absent \/ (Found(k).value \in Nat /\ Found(k).timestamp \in Nat)
      BY LookedKeeps DEF Items
    <3> QED
      BY <1>3, <3>1 DEF Get, Timestamp, Answer, Operations
  <2> QED
    BY <1>3, <2>1, <2>2, <2>3 DEF Get, Timestamp, TypeOK
<1>4. ASSUME NEW K \in SUBSET Keys, Del(K)
      PROVE  TypeOK'
  <2>1. IsCache(cache', Items)
    BY <1>4, DeleteKeeps DEF Del, TypeOK
  <2> QED
    BY <1>4, <2>1 DEF Del, Answer, Operations, TypeOK
<1>5. ASSUME NEW k \in Keys, Has(k)
      PROVE  TypeOK'
  BY <1>5 DEF Has, Answer, Operations, TypeOK
<1>6. ASSUME NEW k \in Keys, NEW by \in Increments, NEW ttl \in Ttls, Incr(k, by, ttl)
      PROVE  TypeOK'
  <2>1. Counted(k, by) \in 0..MaxValue
    BY <1>6, CountedType DEF Incr
  <2>2. IsCache(Looked(k), Items)
    BY LookedKeeps
  <2>3. IsCache(cache', Items)
    <3>1. CASE setDisabled
      BY <1>6, <2>2, <3>1 DEF Incr, Put, Stored
    <3>2. CASE ~setDisabled
      BY <1>6, <2>1, <2>2, <3>2, StoredKeeps DEF Incr, Put, TypeOK
    <3> QED
      BY <3>1, <3>2
  <2>4. sweptAt' \in {Never} \cup (0..now')
    BY <1>6 DEF Incr, Put, TypeOK
  <2>5. fresher' \in [Keys -> SUBSET Keys]
    BY <1>6 DEF Incr, Use, TypeOK
  <2> QED
    BY <1>6, <2>1, <2>3, <2>4, <2>5 DEF Incr, Answer, Operations, TypeOK
<1>7. CASE UNCHANGED vars
  BY <1>7 DEF vars, TypeOK
<1> QED
  BY <1>1, <1>2, <1>3, <1>4, <1>5, <1>6, <1>7 DEF Next

\* The initial state is typed.
LEMMA InitType == Init => TypeOK
PROOF
<1> SUFFICES ASSUME Init PROVE TypeOK
  OBVIOUS
<1>1. Held(cache) = {}
  BY DEF Init, EmptyCache, Held
<1>2. IsCache(cache, Items)
  BY <1>1 DEF Init, EmptyCache, IsCache, IsOrder
<1> QED
  BY <1>2, StoreAssumption DEF Init, TypeOK, Operations

\* Every reachable state is typed, and the Map's order is a strict total one.
THEOREM TypeCorrect == Spec => []TypeOK
PROOF
<1>1. Init => TypeOK
  BY InitType
<1>2. TypeOK /\ [Next]_vars => TypeOK'
  BY TypeStep
<1> QED
  BY <1>1, <1>2, PTL DEF Spec
-----------------------------------------------------------------------------
\* Keys that leave the cache only make it smaller.
LEMMA FewerHeld ==
    ASSUME NEW c, NEW d, Held(d) \subseteq Held(c)
    PROVE  Cardinality(Held(d)) <= Cardinality(Held(c))
  BY HeldIsFinite, FS_Subset

\* No call grows the cache beyond its capacity.
LEMMA CapacityStep == TypeOK /\ CapacityBound /\ [Next]_vars => CapacityBound'
PROOF
<1> SUFFICES ASSUME TypeOK, CapacityBound, [Next]_vars, EmptyKey \notin Keys
             PROVE  CapacityBound'
  BY DEF CapacityBound
<1> DEFINE n    == IF Capacity >= 1 THEN Capacity ELSE 1
           S(c) == Cardinality(Held(c))
<1>1. n \in Nat /\ Capacity <= n /\ 1 <= n
  BY CacheAssumption
<1>2. \A c : S(c) \in Nat
  BY HeldIsFinite
<1>3. S(cache) <= n
  BY <1>1, <1>2, CacheAssumption DEF CapacityBound
<1>4. ASSUME S(cache') <= n PROVE CapacityBound'
  <2>1. S(cache') <= Capacity \/ S(cache') <= 1
    BY <1>4
  <2> QED
    BY <2>1 DEF CapacityBound
<1> HIDE DEF n
<1>5. ASSUME NEW c, IsCache(c, Items), S(c) <= n,
             NEW k \in Keys, NEW v \in 0..MaxValue, NEW ttl \in Ttls
      PROVE  S(Stored(c, k, v, ttl)) <= n
  <2>1. CASE setDisabled
    BY <1>5, <2>1 DEF Stored
  <2>2. CASE ~setDisabled
    <3>1. Held(Stored(c, k, v, ttl)) \subseteq Held(LruSet(c, k, Item(v, ttl)))
      BY <1>5, <2>2, StoredKeeps DEF TypeOK
    <3>2. Item(v, ttl) \in Items /\ Absent \notin Items
      BY AbsentAssumption DEF Item, Items, TypeOK
    <3>3. S(LruSet(c, k, Item(v, ttl))) <= n
      BY <1>1, <1>5, <3>2, LruSetMakesRoom
    <3>4. S(Stored(c, k, v, ttl)) <= S(LruSet(c, k, Item(v, ttl)))
      BY <3>1, FewerHeld
    <3> QED
      BY <1>1, <1>2, <3>3, <3>4
  <2> QED
    BY <2>1, <2>2
<1>6. ASSUME NEW k \in Keys
      PROVE  S(Looked(k)) <= n /\ IsCache(Looked(k), Items)
  <2>1. Held(Looked(k)) \subseteq Held(cache) /\ IsCache(Looked(k), Items)
    BY LookedKeeps
  <2>2. S(Looked(k)) <= S(cache)
    BY <2>1, FewerHeld
  <2> QED
    BY <1>1, <1>2, <1>3, <2>1, <2>2
<1>7. ASSUME NEW k \in Keys, NEW v \in 0..MaxValue, NEW ttl \in Ttls, Set(k, v, ttl)
      PROVE  CapacityBound'
  BY <1>3, <1>4, <1>5, <1>7 DEF Set, Put, TypeOK
<1>8. ASSUME NEW k \in Keys, Get(k) \/ Timestamp(k)
      PROVE  CapacityBound'
  BY <1>4, <1>6, <1>8 DEF Get, Timestamp
<1>9. ASSUME NEW K \in SUBSET Keys, Del(K)
      PROVE  CapacityBound'
  <2>1. Held(cache') \subseteq Held(cache)
    BY <1>9, DeleteKeeps DEF Del, TypeOK
  <2>2. S(cache') <= S(cache)
    BY <2>1, FewerHeld
  <2> QED
    BY <1>1, <1>2, <1>3, <1>4, <2>2
<1>10. ASSUME NEW k \in Keys, NEW by \in Increments, NEW ttl \in Ttls, Incr(k, by, ttl)
       PROVE  CapacityBound'
  <2>1. Counted(k, by) \in 0..MaxValue
    BY <1>10, CountedType, StoreAssumption DEF Incr
  <2> QED
    BY <1>4, <1>5, <1>6, <1>10, <2>1 DEF Incr, Put
<1>11. CASE Tick \/ UNCHANGED vars \/ \E k \in Keys : Has(k)
  BY <1>11 DEF Tick, Has, vars, CapacityBound
<1> QED
  BY <1>7, <1>8, <1>9, <1>10, <1>11 DEF Next

\* The cache stays within STORE_LRU_CAPACITY when the empty key is not used,
\* for every sequence of calls and every capacity.
THEOREM CapacityCorrect == Spec => []CapacityBound
PROOF
<1>1. Init => TypeOK /\ CapacityBound
  <2>1. ASSUME Init PROVE Held(cache) = {}
    BY <2>1 DEF Init, EmptyCache, Held
  <2> QED
    BY <2>1, InitType, FS_EmptySet DEF CapacityBound
<1>2. TypeOK /\ CapacityBound /\ [Next]_vars => (TypeOK /\ CapacityBound)'
  BY TypeStep, CapacityStep
<1> QED
  BY <1>1, <1>2, PTL DEF Spec
-----------------------------------------------------------------------------
\* The four shapes of a step, as the proofs below use them: a write (by set or
\* incr), a look-up (by get or timestamp), a deletion, or neither.
StepShape ==
    \/ \E k \in Keys, v \in 0..MaxValue, ttl \in Ttls : \E c \in {cache, Looked(k)} :
         /\ Put(c, k, v, ttl) /\ Use(k) /\ now' = now
         /\ reply'.key = k /\ reply'.op \in {"set", "incr"}
    \/ \E k \in Keys :
         /\ cache' = Looked(k) /\ Use(k) /\ UNCHANGED <<now, sweptAt>>
         /\ reply'.key = k
    \/ \E K \in SUBSET Keys :
         /\ cache' = Delete(cache, K) /\ UNCHANGED <<now, sweptAt, fresher>>
         /\ reply'.op = "del"
    \/ UNCHANGED <<cache, sweptAt, fresher>>

LEMMA StepShapes ==
    ASSUME TypeOK, [Next]_vars
    PROVE  /\ setDisabled' = setDisabled
           /\ StepShape
PROOF
<1>1. ASSUME NEW k \in Keys, NEW by \in Increments, NEW ttl \in Ttls, Incr(k, by, ttl)
      PROVE  /\ Counted(k, by) \in 0..MaxValue
             /\ Put(Looked(k), k, Counted(k, by), ttl)
             /\ Use(k) /\ now' = now /\ reply'.key = k /\ reply'.op = "incr"
  BY <1>1, CountedType, StoreAssumption DEF Incr, Answer
<1>2. ASSUME NEW k \in Keys, NEW v \in 0..MaxValue, NEW ttl \in Ttls, Set(k, v, ttl)
      PROVE  /\ Put(cache, k, v, ttl)
             /\ Use(k) /\ now' = now /\ reply'.key = k /\ reply'.op = "set"
  BY <1>2 DEF Set, Answer
<1>3. ASSUME NEW k \in Keys, Get(k) \/ Timestamp(k)
      PROVE  /\ cache' = Looked(k) /\ Use(k) /\ now' = now /\ sweptAt' = sweptAt
             /\ reply'.key = k
  BY <1>3 DEF Get, Timestamp, Answer
<1>4. ASSUME NEW K \in SUBSET Keys, Del(K)
      PROVE  /\ cache' = Delete(cache, K) /\ UNCHANGED <<now, sweptAt, fresher>>
             /\ reply'.op = "del"
  BY <1>4 DEF Del, Answer
<1>5. ASSUME Tick \/ UNCHANGED vars \/ \E k \in Keys : Has(k)
      PROVE  UNCHANGED <<cache, sweptAt, fresher>>
  BY <1>5 DEF Tick, Has, vars
<1>6. setDisabled' = setDisabled
  BY DEF Next, Tick, Set, Get, Del, Has, Timestamp, Incr, vars
<1>7. StepShape
  BY <1>1, <1>2, <1>3, <1>4, <1>5 DEF Next, StepShape
<1> QED
  BY <1>6, <1>7

\* While set is disabled nothing is ever held.
DisabledIsEmpty == setDisabled => Held(cache) = {}

LEMMA DisabledStep == TypeOK /\ DisabledIsEmpty /\ [Next]_vars => DisabledIsEmpty'
PROOF
<1> SUFFICES ASSUME TypeOK, [Next]_vars, setDisabled, Held(cache) = {}
             PROVE  Held(cache') = {}
  BY StepShapes DEF DisabledIsEmpty
<1>1. ASSUME NEW k \in Keys PROVE Held(Looked(k)) = {}
  BY LookedKeeps
<1>2. ASSUME NEW K \in SUBSET Keys PROVE Held(Delete(cache, K)) = {}
  BY DeleteKeeps DEF TypeOK
<1>3. ASSUME NEW c, NEW k \in Keys, NEW v, NEW ttl, Put(c, k, v, ttl)
      PROVE  cache' = c
  BY <1>3 DEF Put, Stored
<1> QED
  BY <1>1, <1>2, <1>3, StepShapes DEF StepShape

\* An order and a history that agree still do when both note the use of k.
LEMMA UseKeepsRecency ==
    ASSUME TypeOK, OrderIsRecency, NEW k \in Keys, Use(k),
           Held(cache') \subseteq Held(cache) \cup {k},
           \A i, j \in Held(cache') :
              <<i, j>> \in cache'.older
                  <=> i # k /\ (j = k \/ <<i, j>> \in cache.older)
    PROVE  OrderIsRecency'
PROOF
<1> SUFFICES ASSUME NEW i \in Held(cache'), NEW j \in Held(cache')
             PROVE  <<i, j>> \in cache'.older <=> j \in fresher'[i]
  BY DEF OrderIsRecency
<1>1. i \in Keys /\ j \in Keys
  BY DEF Held
<1>2. fresher'[i] = IF i = k THEN {} ELSE fresher[i] \cup {k}
  BY <1>1 DEF Use
<1>3. CASE i = k \/ j = k
  BY <1>2, <1>3
<1>4. CASE i # k /\ j # k
  <2>1. i \in Held(cache) /\ j \in Held(cache)
    BY <1>4
  <2> QED
    BY <1>2, <1>4, <2>1 DEF OrderIsRecency
<1> QED
  BY <1>3, <1>4

\* Every call keeps the order of the Map and the history of uses together.
LEMMA RecencyStep ==
    TypeOK /\ DisabledIsEmpty /\ OrderIsRecency /\ [Next]_vars => OrderIsRecency'
PROOF
<1> SUFFICES ASSUME TypeOK, DisabledIsEmpty, OrderIsRecency, [Next]_vars
             PROVE  OrderIsRecency'
  OBVIOUS
<1>1. ASSUME NEW k \in Keys, cache' = Looked(k), Use(k)
      PROVE  OrderIsRecency'
  BY <1>1, LookedKeeps, UseKeepsRecency
<1>2. ASSUME NEW k \in Keys, NEW v \in 0..MaxValue, NEW ttl \in Ttls,
             NEW c \in {cache, Looked(k)}, Put(c, k, v, ttl), Use(k)
      PROVE  OrderIsRecency'
  <2>1. IsCache(c, Items) /\ Held(c) \subseteq Held(cache)
    BY LookedKeeps DEF TypeOK
  <2>2. \A i, j \in Held(c) : i # k /\ j # k =>
           (<<i, j>> \in c.older <=> <<i, j>> \in cache.older)
    BY LookedKeeps
  <2>3. CASE setDisabled
    BY <2>3, DisabledStep, StepShapes DEF OrderIsRecency, DisabledIsEmpty
  <2>4. CASE ~setDisabled
    <3>1. /\ Held(cache') \subseteq Held(c) \cup {k}
          /\ \A i, j \in Held(cache') :
               <<i, j>> \in cache'.older
                   <=> i # k /\ (j = k \/ <<i, j>> \in c.older)
      BY <1>2, <2>1, <2>4, StoredKeeps DEF Put, TypeOK
    <3>2. \A i, j \in Held(cache') :
             <<i, j>> \in cache'.older
                 <=> i # k /\ (j = k \/ <<i, j>> \in cache.older)
      BY <2>2, <3>1
    <3> QED
      BY <1>2, <2>1, <3>1, <3>2, UseKeepsRecency
  <2> QED
    BY <2>3, <2>4
<1>3. ASSUME NEW K \in SUBSET Keys, cache' = Delete(cache, K), UNCHANGED fresher
      PROVE  OrderIsRecency'
  <2>1. IsCache(cache, Items)
    BY DEF TypeOK
  <2>2. /\ Held(cache') = Held(cache) \ K
        /\ \A i, j : <<i, j>> \in cache'.older
                         <=> <<i, j>> \in cache.older /\ i \notin K /\ j \notin K
    BY <1>3, <2>1, DeleteKeeps
  <2> QED
    BY <1>3, <2>2 DEF OrderIsRecency
<1>4. CASE UNCHANGED <<cache, fresher>>
  BY <1>4 DEF OrderIsRecency
<1> QED
  BY <1>1, <1>2, <1>3, <1>4, StepShapes DEF StepShape

\* The insertion order of the Map is the recency of use.
THEOREM RecencyCorrect == Spec => []OrderIsRecency
PROOF
<1>1. Init => TypeOK /\ DisabledIsEmpty /\ OrderIsRecency
  <2>1. ASSUME Init PROVE Held(cache) = {}
    BY <2>1 DEF Init, EmptyCache, Held
  <2> QED
    BY <2>1, InitType DEF DisabledIsEmpty, OrderIsRecency
<1>2. TypeOK /\ DisabledIsEmpty /\ OrderIsRecency /\ [Next]_vars
        => (TypeOK /\ DisabledIsEmpty /\ OrderIsRecency)'
  BY TypeStep, DisabledStep, RecencyStep
<1> QED
  BY <1>1, <1>2, PTL DEF Spec

\* The victim of a write is the item used longest ago.
LEMMA VictimIsLeastRecent ==
    ASSUME TypeOK, OrderIsRecency, NEW k \in Keys, NEW c \in {cache, Looked(k)},
           NEW i \in Evicted(c, k)
    PROVE  \A j \in Held(c) \ {i} : j \in fresher[i]
PROOF
<1>1. IsCache(c, Items) /\ Held(c) \subseteq Held(cache)
  BY LookedKeeps DEF TypeOK
<1>2. k \notin Held(c) /\ i \in Oldest(c)
  BY DEF Evicted
<1>3. ASSUME NEW j \in Held(c), j # i PROVE <<i, j>> \in c.older
  BY <1>1, <1>2, <1>3 DEF Oldest, IsCache, IsOrder
<1>4. i \in Held(c)
  BY <1>2 DEF Oldest
<1>5. ASSUME NEW j \in Held(c), j # i PROVE <<i, j>> \in cache.older
  BY <1>2, <1>3, <1>4, <1>5, LookedKeeps
<1> QED
  BY <1>1, <1>4, <1>5 DEF OrderIsRecency

\* No call loses a live item of another key but the least recently used one.
THEOREM EvictionCorrect == Spec => OnlyTheLeastRecentIsEvicted
PROOF
<1>1. TypeOK /\ OrderIsRecency /\ [Next]_vars => [EvictsTheLeastRecent]_vars
  <2> SUFFICES ASSUME TypeOK, OrderIsRecency, [Next]_vars, NEW i \in Held(cache),
                      cache'.items[i] = Absent, ~IsExpired(cache.items[i], now),
                      reply'.op # "del", reply'.key # i
               PROVE  /\ reply'.op \in {"set", "incr"}
                      /\ \A j \in Held(cache) \ {i, reply'.key} : j \in fresher[i]
    BY DEF EvictsTheLeastRecent
  <2>1. i \in Keys /\ cache.items[i] # Absent /\ i \notin Held(cache')
    BY DEF Held
  <2>2. ASSUME NEW k \in Keys, cache' = Looked(k), reply'.key = k
        PROVE  FALSE
    BY <2>1, <2>2, LookedKeeps
  <2>3. ASSUME NEW k \in Keys, NEW v \in 0..MaxValue, NEW ttl \in Ttls,
               NEW c \in {cache, Looked(k)}, Put(c, k, v, ttl), reply'.key = k
        PROVE  \A j \in Held(cache) \ {i, k} : j \in fresher[i]
    <3>1. IsCache(c, Items) /\ i \in Held(c) /\ c.items[i] = cache.items[i]
      BY <2>1, <2>3, LookedKeeps DEF TypeOK
    <3>2. ~setDisabled
      BY <2>1, <2>3, <3>1 DEF Put, Stored
    <3>3. i \in Evicted(c, k)
      BY <2>1, <2>3, <3>1, <3>2, StoredKeeps DEF Put, TypeOK
    <3>4. Held(cache) \ {k} \subseteq Held(c)
      BY LookedKeeps
    <3> QED
      BY <3>3, <3>4, VictimIsLeastRecent
  <2> QED
    BY <2>1, <2>2, <2>3, StepShapes DEF StepShape
<1> QED
  BY <1>1, TypeCorrect, RecencyCorrect, PTL DEF Spec, OnlyTheLeastRecentIsEvicted
-----------------------------------------------------------------------------
\* The fields of an item are numbers, but for an item without expiry.
LEMMA ItemTypes ==
    ASSUME NEW x \in Items
    PROVE  x.timestamp \in Nat /\ x.expiresInMs \in Nat \cup {NoExpiry}
PROOF
<1>1. x.timestamp \in 0..MaxNow /\ x.expiresInMs \in Ttls
  BY DEF Items
<1>2. MaxNow \in Nat /\ Ttls \subseteq Nat \cup {NoExpiry}
  BY StoreAssumption
<1>3. x.timestamp \in Nat
  BY <1>1, <1>2
<1>4. x.expiresInMs \in Nat \cup {NoExpiry}
  BY <1>1, <1>2
<1> QED
  BY <1>3, <1>4

\* The item does not end before time t.
Outlasts(item, t) ==
    item.expiresInMs # NoExpiry => t <= item.timestamp + item.expiresInMs

\* An item stored since the sweep outlasts it, and so does one that the sweep
\* found unexpired.
LEMMA SweepStep == TypeOK /\ SweepIsThorough /\ [Next]_vars => SweepIsThorough'
PROOF
<1> SUFFICES ASSUME TypeOK, SweepIsThorough, [Next]_vars, sweptAt' # Never,
                    NEW j \in Held(cache')
             PROVE  Outlasts(cache'.items[j], sweptAt')
  BY DEF SweepIsThorough, Outlasts
<1>1. j \in Keys
  BY DEF Held
<1>2. sweptAt # Never => \A i \in Held(cache) : Outlasts(cache.items[i], sweptAt)
  BY DEF SweepIsThorough, Outlasts
<1>3. ASSUME NEW k \in Keys, cache' = Looked(k), sweptAt' = sweptAt
      PROVE  Outlasts(cache'.items[j], sweptAt')
  BY <1>2, <1>3, LookedKeeps
<1>4. ASSUME NEW K \in SUBSET Keys, cache' = Delete(cache, K), sweptAt' = sweptAt
      PROVE  Outlasts(cache'.items[j], sweptAt')
  <2>1. IsCache(cache, Items)
    BY DEF TypeOK
  <2>2. j \in Held(cache) /\ cache'.items[j] = cache.items[j]
    BY <1>1, <1>4, <2>1, DeleteKeeps
  <2> QED
    BY <1>2, <1>4, <2>2
<1>5. ASSUME NEW k \in Keys, NEW v \in 0..MaxValue, NEW ttl \in Ttls,
             NEW c \in {cache, Looked(k)}, Put(c, k, v, ttl)
      PROVE  Outlasts(cache'.items[j], sweptAt')
  <2>1. /\ IsCache(c, Items)
        /\ \A i \in Held(c) : i \in Held(cache) /\ c.items[i] = cache.items[i]
    BY LookedKeeps DEF TypeOK
  <2>2. CASE setDisabled
    BY <1>2, <1>5, <2>1, <2>2 DEF Put, Stored
  <2>3. CASE ~setDisabled
    <3> DEFINE s == Stored(c, k, v, ttl)
    <3>1. /\ IsCache(s, Items)
          /\ Held(s) \subseteq Held(c) \cup {k}
          /\ \A i \in Held(s) : s.items[i] = IF i = k THEN Item(v, ttl) ELSE c.items[i]
          /\ SweepDue => \A i \in Held(s) : ~IsExpired(s.items[i], now)
      BY <2>1, <2>3, StoredKeeps DEF TypeOK
    <3>2. cache' = s /\ j \in Held(s)
      BY <1>5 DEF Put
    <3> HIDE DEF s
    <3>3. s.items[j] \in Items
      BY <1>1, <3>1, <3>2 DEF IsCache, Held
    <3>4. CASE SweepDue
      <4>1. sweptAt' = now /\ now \in Nat
        BY <1>5, <2>3, <3>4 DEF Put, TypeOK
      <4>2. ~IsExpired(s.items[j], now) /\ s.items[j] # Absent
        BY <3>1, <3>2, <3>4 DEF Held
      <4>3. s.items[j].timestamp \in Nat /\ s.items[j].expiresInMs \in Nat \cup {NoExpiry}
        BY <3>3, ItemTypes
      <4> QED
        BY <3>2, <4>1, <4>2, <4>3 DEF IsExpired, Outlasts
    <3>5. CASE ~SweepDue
      <4>1. sweptAt' = sweptAt /\ sweptAt \in 0..now /\ now \in Nat
        BY <1>5, <3>5 DEF Put, TypeOK, SweepDue
      <4>2. CASE j = k
        <5>1. s.items[j] = Item(v, ttl)
          BY <3>1, <3>2, <4>2
        <5>2. ttl # NoExpiry => ttl \in Nat
          BY StoreAssumption
        <5> QED
          BY <3>2, <4>1, <5>1, <5>2 DEF Item, Outlasts
      <4>3. CASE j # k
        <5>1. j \in Held(cache) /\ s.items[j] = cache.items[j]
          BY <2>1, <3>1, <3>2, <4>3
        <5> QED
          BY <1>2, <3>2, <4>1, <5>1
      <4> QED
        BY <4>2, <4>3
    <3> QED
      BY <3>4, <3>5
  <2> QED
    BY <2>2, <2>3
<1>6. CASE UNCHANGED <<cache, sweptAt>>
  BY <1>2, <1>6
<1> QED
  BY <1>3, <1>4, <1>5, <1>6, StepShapes DEF StepShape

\* The throttled sweep leaves no item behind that was over when it ran.
THEOREM SweepCorrect == Spec => []SweepIsThorough
PROOF
<1>1. Init => SweepIsThorough
  BY DEF Init, SweepIsThorough
<1>2. TypeOK /\ SweepIsThorough /\ [Next]_vars => SweepIsThorough'
  BY SweepStep
<1> QED
  BY <1>1, <1>2, TypeCorrect, PTL DEF Spec
-----------------------------------------------------------------------------
\* What callers see after a look-up of k: just what they saw before.
LEMMA LookedIsInvisible ==
    ASSUME TypeOK, NEW k \in Keys, cache' = Looked(k), now' = now
    PROVE  Visible' = Visible
PROOF
<1>1. ASSUME NEW j \in Keys PROVE Found(j)' = Found(j)
  <2>1. CASE j \in Held(cache')
    <3>1. cache'.items[j] = cache.items[j]
      BY <2>1, LookedKeeps
    <3> QED
      BY <3>1 DEF Found, IsExpired
  <2>2. CASE j \notin Held(cache')
    <3>1. cache'.items[j] = Absent
      BY <2>2 DEF Held
    <3>2. cache.items[j] = Absent \/ IsExpired(cache.items[j], now)
      BY <2>2, LookedKeeps DEF Held
    <3> QED
      BY <3>1, <3>2 DEF Found, IsExpired
  <2> QED
    BY <2>1, <2>2
<1> QED
  BY <1>1 DEF Visible

\* A write is a write of the promise: it shows its own item unless that is over
\* at once, and costs at most one other, for the sake of a key not yet live.
LEMMA PutIsWrite ==
    ASSUME TypeOK, NEW k \in Keys, NEW v \in 0..MaxValue, NEW ttl \in Ttls,
           NEW c \in {cache, Looked(k)}, Put(c, k, v, ttl), now' = now
    PROVE  Promise!Write(k, v, ttl)
PROOF
<1>1. /\ IsCache(c, Items)
      /\ Held(c) \subseteq Held(cache)
      /\ \A j \in Held(c) : c.items[j] = cache.items[j]
      /\ \A j \in Held(cache) \ Held(c) : IsExpired(cache.items[j], now)
  BY LookedKeeps DEF TypeOK
<1>2. \A j \in Keys : IF j \in Held(c) THEN Found(j) = IF IsExpired(c.items[j], now) THEN Absent ELSE c.items[j]
                                        ELSE Found(j) = Absent
  BY <1>1 DEF Found, Held, IsExpired
<1>3. CASE setDisabled
  <2>1. cache' = c
    BY <1>3 DEF Put, Stored
  <2>2. \A j \in Keys : Found(j)' = Found(j)
    BY <1>2, <2>1 DEF Found, Held, IsExpired
  <2> QED
    BY <1>3, <2>2 DEF Promise!Write, Visible
<1>4. CASE ~setDisabled
  <2> DEFINE lost == {j \in Keys \ {k} : Found(j) # Absent /\ j \notin Held(cache')}
  <2>1. /\ \A j \in Held(cache') :
             cache'.items[j] = IF j = k THEN Item(v, ttl) ELSE c.items[j]
        /\ Held(cache') \subseteq Held(c) \cup {k}
        /\ k \notin Held(cache') => IsExpired(Item(v, ttl), now)
        /\ \A j \in Held(c) \ ({k} \cup Held(cache')) :
              j \in Evicted(c, k) \/ IsExpired(c.items[j], now)
    BY <1>1, <1>4, StoredKeeps DEF Put, TypeOK
  <2>2. lost \subseteq Evicted(c, k)
    BY <1>2, <2>1
  <2>3. \A i, j \in Evicted(c, k) : i = j
    <3>1. \A i, j \in Oldest(c) : i = j
      BY <1>1 DEF Oldest, IsCache, IsOrder
    <3> QED
      BY <3>1 DEF Evicted
  <2>4. lost # {} => Visible[k] = Absent
    <3>1. lost # {} => k \notin Held(c)
      BY <2>2 DEF Evicted
    <3> QED
      BY <1>2, <3>1 DEF Visible
  <2>5. ASSUME NEW j \in Keys
        PROVE  Found(j)' = IF j = k
                             THEN IF IsExpired(Item(v, ttl), now) THEN Absent
                                                                  ELSE Item(v, ttl)
                             ELSE IF j \in lost THEN Absent ELSE Found(j)
    <3>1. CASE j \in Held(cache')
      BY <1>2, <2>1, <3>1 DEF Found
    <3>2. CASE j \notin Held(cache')
      <4>1. Found(j)' = Absent
        BY <3>2 DEF Found, Held
      <4> QED
        BY <2>1, <3>2, <4>1
    <3> QED
      BY <3>1, <3>2
  <2>6. \A t, x : Promise!Over(x, t) <=> IsExpired(x, t)
    BY DEF Promise!Over, IsExpired
  <2>7. /\ lost \in SUBSET (Keys \ {k})
        /\ \A i, j \in lost : i = j
        /\ lost # {} => ~Promise!Live(k)
    BY <2>2, <2>3, <2>4 DEF Promise!Live
  <2>8. Visible' = [j \in Keys |->
                      IF j = k THEN IF Promise!Over(Item(v, ttl), now) THEN Absent
                                                                       ELSE Item(v, ttl)
                      ELSE IF j \in lost THEN Absent ELSE Visible[j]]
    <3> HIDE DEF lost
    <3> QED
      BY <2>5, <2>6 DEF Visible
  <2> HIDE DEF lost
  <2> QED
    BY <1>4, <2>7, <2>8 DEF Promise!Write, Item
<1> QED
  BY <1>3, <1>4

\* Every step of the store is a step of the promise, or changes nothing of it.
LEMMA PromiseStep == TypeOK /\ [Next]_vars => [Promise!Next]_(Promise!vars)
PROOF
<1> SUFFICES ASSUME TypeOK, [Next]_vars PROVE [Promise!Next]_(Promise!vars)
  OBVIOUS
<1>1. \A k \in Keys : Visible[k] = Found(k)
  BY DEF Visible
<1>3. CASE Tick
  <2>1. ASSUME NEW k \in Keys
        PROVE  Found(k)' = IF Promise!Over(Visible[k], now') THEN Absent ELSE Visible[k]
    <3>1. cache.items[k] \in Items \cup {Absent}
      BY DEF TypeOK, IsCache
    <3>2. Found(k)' = IF IsExpired(cache.items[k], now + 1) THEN Absent ELSE cache.items[k]
      BY <1>3 DEF Tick, Found
    <3>3. IsExpired(cache.items[k], now) => IsExpired(cache.items[k], now + 1)
      <4>1. cache.items[k] \in Items =>
               /\ cache.items[k].timestamp \in Nat
               /\ cache.items[k].expiresInMs \in Nat \cup {NoExpiry}
        BY ItemTypes
      <4>2. now \in Nat
        BY StoreAssumption DEF TypeOK
      <4> QED
        BY <3>1, <4>1, <4>2 DEF IsExpired
    <3>4. Promise!Over(Visible[k], now') <=> IsExpired(Found(k), now + 1)
      BY <1>1, <1>3 DEF Tick, Promise!Over, IsExpired
    <3> QED
      BY <1>1, <3>2, <3>3, <3>4 DEF Found, IsExpired
  <2>2. Visible' = [k \in Keys |->
                      IF Promise!Over(Visible[k], now') THEN Absent ELSE Visible[k]]
    BY <2>1 DEF Visible
  <2>3. Promise!Tick
    BY <1>3, <2>2 DEF Tick, Promise!Tick
  <2> QED
    BY <2>3 DEF Promise!Next
<1>4. ASSUME NEW k \in Keys, NEW v \in 0..MaxValue, NEW ttl \in Ttls, Set(k, v, ttl)
      PROVE  Promise!Next
  <2>1. Promise!Set(k, v, ttl)
    BY <1>4, PutIsWrite DEF Set, Answer, Promise!Set, Promise!Answer
  <2> QED
    BY <2>1 DEF Promise!Next
<1>5. ASSUME NEW k \in Keys, Get(k)
      PROVE  Promise!Next
  <2>1. Promise!Get(k)
    BY <1>1, <1>5, LookedIsInvisible
       DEF Get, Answer, Promise!Get, Promise!Answer, Promise!Live
  <2> QED
    BY <2>1 DEF Promise!Next
<1>6. ASSUME NEW k \in Keys, Timestamp(k)
      PROVE  Promise!Next
  <2>1. Promise!Timestamp(k)
    BY <1>1, <1>6, LookedIsInvisible
       DEF Timestamp, Answer, Promise!Timestamp, Promise!Answer, Promise!Live
  <2> QED
    BY <2>1 DEF Promise!Next
<1>7. ASSUME NEW K \in SUBSET Keys, Del(K)
      PROVE  Promise!Next
  <2>1. ASSUME NEW k \in Keys
        PROVE  Found(k)' = IF k \in K THEN Absent ELSE Found(k)
    <3>1. cache'.items[k] = IF k \in K THEN Absent ELSE cache.items[k]
      BY <1>7 DEF Del, Delete
    <3> QED
      BY <1>7, <3>1 DEF Del, Found, IsExpired
  <2>2. Visible' = [k \in Keys |-> IF k \in K THEN Absent ELSE Visible[k]]
    BY <2>1 DEF Visible
  <2>3. Promise!Del(K)
    BY <1>7, <2>2 DEF Del, Answer, Promise!Del, Promise!Answer
  <2> QED
    BY <2>3 DEF Promise!Next
<1>8. ASSUME NEW k \in Keys, Has(k)
      PROVE  Promise!Next
  <2>1. Visible' = Visible
    BY <1>8 DEF Has, Visible, Found
  <2>2. Promise!Live(k) => k \in Held(cache)
    BY <1>1 DEF Promise!Live, Found, Held, IsExpired
  <2>3. PICK there \in {0, 1} : (Promise!Live(k) => there = 1) /\ Answer("has", k, there)
    BY <1>8, <2>2 DEF Has
  <2>4. Promise!Has(k)
    BY <1>8, <2>1, <2>3 DEF Has, Answer, Promise!Has, Promise!Answer
  <2> QED
    BY <2>4 DEF Promise!Next
<1>9. ASSUME NEW k \in Keys, NEW by \in Increments, NEW ttl \in Ttls, Incr(k, by, ttl)
      PROVE  Promise!Next
  <2>1. Counted(k, by) = Promise!Count(k) + by
    BY <1>1 DEF Counted, Promise!Count, Promise!Live
  <2>2. Counted(k, by) \in 0..MaxValue
    BY <1>9, CountedType, StoreAssumption DEF Incr
  <2>3. Promise!Write(k, Counted(k, by), ttl)
    BY <1>9, <2>2, PutIsWrite DEF Incr
  <2>4. Promise!Incr(k, by, ttl)
    BY <1>9, <2>1, <2>3 DEF Incr, Answer, Promise!Incr, Promise!Answer
  <2> QED
    BY <2>4 DEF Promise!Next
<1>10. CASE UNCHANGED vars
  BY <1>10 DEF vars, Promise!vars, Visible, Found
<1> QED
  BY <1>3, <1>4, <1>5, <1>6, <1>7, <1>8, <1>9, <1>10 DEF Next

\* MapStore implements ExpiringStore for all keys, expiries and capacities.
THEOREM KeepsPromise == Spec => PromiseSpec
PROOF
<1>1. Init => Promise!Init
  BY DEF Init, EmptyCache, Promise!Init, Visible, Found
<1> QED
  BY <1>1, PromiseStep, TypeCorrect, PTL DEF Spec, PromiseSpec, Promise!Spec
-----------------------------------------------------------------------------
(* What the calls on a counter do to what is found, for modules that count   *)
(* with a MapStore.                                                          *)

\* Nothing is found, and a call is a step, whatever else is so of the store.
LEMMA CallIsStep ==
    ASSUME TypeOK, DisabledIsEmpty, Next
    PROVE  TypeOK' /\ DisabledIsEmpty'
  BY TypeStep, DisabledStep

\* What is found is an item that is not over.
LEMMA FoundType ==
    ASSUME TypeOK, NEW k \in Keys
    PROVE  /\ Found(k) \in Items \cup {Absent}
           /\ ~IsExpired(Found(k), now)
           /\ DisabledIsEmpty /\ setDisabled => Found(k) = Absent
PROOF
<1>1. Found(k) \in Items \cup {Absent}
  BY LookedKeeps
<1>2. ~IsExpired(Found(k), now)
  BY DEF Found, IsExpired
<1>3. DisabledIsEmpty /\ setDisabled => Found(k) = Absent
  BY DEF DisabledIsEmpty, Held, Found
<1> QED
  BY <1>1, <1>2, <1>3

\* incr finds the new count under its key, unless set is disabled or the new
\* count is over at once; another counter is found as before or was evicted.
LEMMA IncrEffect ==
    ASSUME TypeOK, DisabledIsEmpty, NEW k \in Keys, NEW by \in Increments,
           NEW ttl \in Ttls, Incr(k, by, ttl)
    PROVE  /\ TypeOK' /\ DisabledIsEmpty'
           /\ now' = now /\ setDisabled' = setDisabled
           /\ reply'.value = Counted(k, by) /\ Counted(k, by) \in 0..MaxValue
           /\ ~setDisabled =>
                 Found(k)' = IF IsExpired(Item(Counted(k, by), ttl), now)
                               THEN Absent ELSE Item(Counted(k, by), ttl)
           /\ \A j \in Keys \ {k} :
                 \/ Found(j)' = Found(j)
                 \/ Found(j)' = Absent /\ cache'.items[j] = Absent
PROOF
<1> DEFINE v == Counted(k, by)
           c == Looked(k)
<1>1. Next
  BY DEF Next
<1>2. TypeOK' /\ DisabledIsEmpty'
  BY <1>1, CallIsStep
<1>3. v \in 0..MaxValue /\ reply'.value = v
  BY CountedType, StoreAssumption DEF Incr, Answer
<1>4. Put(c, k, v, ttl) /\ now' = now /\ setDisabled' = setDisabled
  BY DEF Incr
<1> HIDE DEF v
<1>5. /\ IsCache(c, Items)
      /\ \A j \in Held(c) : c.items[j] = cache.items[j]
      /\ \A j \in Held(cache) \ Held(c) : IsExpired(cache.items[j], now)
  BY LookedKeeps
<1> HIDE DEF c
<1>6. CASE setDisabled
  <2>1. \A j \in Keys : cache'.items[j] = Absent
    BY <1>2, <1>4, <1>6 DEF DisabledIsEmpty, Held
  <2>2. \A j \in Keys : Found(j)' = Absent /\ cache'.items[j] = Absent
    BY <2>1 DEF Found
  <2> QED
    BY <1>2, <1>3, <1>4, <1>6, <2>2 DEF v
<1>7. CASE ~setDisabled
  <2>1. /\ \A j \in Held(cache') :
             cache'.items[j] = IF j = k THEN Item(v, ttl) ELSE c.items[j]
        /\ Held(cache') \subseteq Held(c) \cup {k}
        /\ k \notin Held(cache') => IsExpired(Item(v, ttl), now)
    <3>1. cache' = Stored(c, k, v, ttl) /\ now \in 0..MaxNow
      BY <1>4 DEF Put, TypeOK
    <3> QED
      BY <1>3, <1>5, <1>7, <3>1, StoredKeeps
  <2>2. Found(k)' = IF IsExpired(Item(v, ttl), now) THEN Absent ELSE Item(v, ttl)
    BY <1>4, <2>1 DEF Found, Held
  <2>3. ASSUME NEW j \in Keys \ {k}
        PROVE  Found(j)' = Found(j) \/ (Found(j)' = Absent /\ cache'.items[j] = Absent)
    <3>1. CASE j \in Held(cache')
      <4>1. cache'.items[j] = cache.items[j]
        BY <1>5, <2>1, <3>1
      <4> QED
        BY <1>4, <4>1 DEF Found
    <3>2. CASE j \notin Held(cache')
      BY <3>2 DEF Found, Held
    <3> QED
      BY <3>1, <3>2
  <2> QED
    BY <1>2, <1>3, <1>4, <1>7, <2>2, <2>3 DEF v
<1> QED
  BY <1>6, <1>7

\* timestamp answers what is found and changes nothing that is.
LEMMA TimestampEffect ==
    ASSUME TypeOK, DisabledIsEmpty, NEW k \in Keys, Timestamp(k)
    PROVE  /\ TypeOK' /\ DisabledIsEmpty'
           /\ now' = now /\ setDisabled' = setDisabled
           /\ reply'.value = IF Found(k) = Absent THEN Null ELSE Found(k).timestamp
           /\ \A j \in Keys : Found(j)' = Found(j)
PROOF
<1>1. Next
  BY DEF Next
<1>2. Visible' = Visible
  BY LookedIsInvisible DEF Timestamp
<1>3. \A j \in Keys : Found(j)' = Found(j)
  BY <1>2 DEF Visible
<1> QED
  BY <1>1, <1>3, CallIsStep DEF Timestamp, Answer

\* With time items go, and nothing else happens.
LEMMA TickEffect ==
    ASSUME TypeOK, DisabledIsEmpty, Tick
    PROVE  /\ TypeOK' /\ DisabledIsEmpty'
           /\ now' = now + 1 /\ setDisabled' = setDisabled
           /\ \A j \in Keys :
                 Found(j)' = IF IsExpired(Found(j), now + 1) THEN Absent ELSE Found(j)
PROOF
<1>1. Next
  BY DEF Next
<1>2. ASSUME NEW j \in Keys
      PROVE  Found(j)' = IF IsExpired(Found(j), now + 1) THEN Absent ELSE Found(j)
  <2>1. cache.items[j] \in Items \cup {Absent} /\ now \in Nat
    BY StoreAssumption DEF TypeOK, IsCache
  <2>2. IsExpired(cache.items[j], now) => IsExpired(cache.items[j], now + 1)
    BY <2>1, ItemTypes DEF IsExpired
  <2>3. Found(j)' = IF IsExpired(cache.items[j], now + 1) THEN Absent ELSE cache.items[j]
    BY DEF Tick, Found
  <2> QED
    BY <2>2, <2>3 DEF Found, IsExpired
<1> QED
  BY <1>1, <1>2, CallIsStep DEF Tick
=============================================================================
