------------------------------ MODULE LruCache ------------------------------
(***************************************************************************)
(* The bounded cache of core/common/store/utils/lru.ts.                    *)
(*                                                                         *)
(* The class wraps one JavaScript Map, whose iteration order is insertion  *)
(* order; that order is how the class remembers recency.  A cache is here  *)
(* a record: `items` gives each key its value, or Absent, and `older` is   *)
(* the iteration order as a relation, <<j, k>> \in older when j comes      *)
(* before k.  Every method is an operator from caches to caches, so a      *)
(* caller composes them in the order the code calls them.                  *)
(***************************************************************************)
EXTENDS Naturals, FiniteSets

CONSTANTS
    Keys,      \* the keys a caller may use
    EmptyKey,  \* the empty string: the one key the code's truth test rejects
    Absent,    \* no item is stored under the key
    Capacity   \* STORE_LRU_CAPACITY, once parsed to a number

ASSUME CacheAssumption ==
    /\ IsFiniteSet(Keys)
    /\ Capacity \in Nat

\* The keys present in the Map.
Held(c) == {k \in Keys : c.items[k] # Absent}

EmptyCache == [items |-> [k \in Keys |-> Absent], older |-> {}]

\* A Map iterates over its keys in a strict total order.
IsOrder(r, S) ==
    /\ r \subseteq S \X S
    /\ \A i \in S : <<i, i>> \notin r
    /\ \A i, j \in S : i = j \/ <<i, j>> \in r \/ <<j, i>> \in r
    /\ \A h, i, j \in S : <<h, i>> \in r /\ <<i, j>> \in r => <<h, j>> \in r

\* A cache of items from V.
IsCache(c, V) ==
    /\ c \in [items : [Keys -> V \cup {Absent}], older : SUBSET (Keys \X Keys)]
    /\ IsOrder(c.older, Held(c))

\* Map.delete for each key of K; deleting a missing key changes nothing.
Delete(c, K) ==
    [items |-> [k \in Keys |-> IF k \in K THEN Absent ELSE c.items[k]],
     older |-> {p \in c.older : p[1] \notin K /\ p[2] \notin K}]

\* Map.set of a key that is missing: the key becomes the last one.
Insert(c, k, v) ==
    [items |-> [c.items EXCEPT ![k] = v],
     older |-> c.older \cup (Held(c) \X {k})]

\* Mutant of Oldest: the last key of the iteration order.
OldestIsLast(c) == {k \in Held(c) : \A j \in Held(c) : <<k, j>> \notin c.older}

\* The first key of the iteration order, as a set of at most one element.
Oldest(c) == {k \in Held(c) : \A j \in Held(c) : <<j, k>> \notin c.older}

\* Mutant of LruGet: a plain Map.get.
LruGetInPlace(c, k) == c

\* get: a key that is present moves to the end.
LruGet(c, k) ==
    IF k \in Held(c) THEN Insert(Delete(c, {k}), k, c.items[k]) ELSE c

\* Mutant of Evicted: room is made one item too late.
EvictedLate(c, k) ==
    IF k \notin Held(c) /\ Cardinality(Held(c)) > Capacity
    THEN Oldest(c) \ {EmptyKey}
    ELSE {}

\* What set removes before it inserts.  `lruKey && delete` lets the empty key
\* stay, and then nothing at all makes room.
Evicted(c, k) ==
    IF k \notin Held(c) /\ Cardinality(Held(c)) >= Capacity
    THEN Oldest(c) \ {EmptyKey}
    ELSE {}

\* set: the key is re-inserted last, after the eviction if it is a new key.
LruSet(c, k, v) == Insert(Delete(c, {k} \cup Evicted(c, k)), k, v)
=============================================================================
