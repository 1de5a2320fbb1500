----------------------------- MODULE CacheAside -----------------------------
(***************************************************************************)
(* StoreBase.cache of core/common/store/base.ts over the stores of         *)
(* RemoteStores: look the key up, compute the value if there is none, and  *)
(* store it.  The three are awaited one after the other, and whoever       *)
(* changes what the value is computed from may call del in between.        *)
(*                                                                         *)
(* A caller is one turn of a process.  Some call cache, the others the     *)
(* store itself.  Outside production cache only computes, which concerns   *)
(* nobody else and is left out.                                            *)
(***************************************************************************)
EXTENDS RemoteStores

CONSTANT Cachers  \* the callers that call cache

ASSUME CacheAssumption == Cachers \subseteq Callers

VARIABLES
    filling,  \* what each caller of cache is computing
    basis,    \* history: the last write when what a key holds was computed
    crossed   \* history: keys filled by a computation that a del overtook

cacheVars == <<filling, basis, crossed>>
allVars == <<vars, cacheVars>>

Others == Callers \ Cachers

NotFilling == [on |-> FALSE]

Fillings == [on : {TRUE}, key : Keys, since : Nat, overtaken : BOOLEAN]

CacheTypeOK ==
    /\ TypeOK
    /\ filling \in [Cachers -> {NotFilling} \cup Fillings]
    /\ basis \in [Keys -> Nat]
    /\ crossed \subseteq Keys

CacheInit ==
    /\ Init
    /\ filling = [c \in Cachers |-> NotFilling]
    /\ basis = [k \in Keys |-> 0]
    /\ crossed = {}

Filling(c) == filling[c].on

\* Mutant of Lookup: what get finds is stored again, to live longer.
LookupAndRenew(c, k) ==
    /\ ~Filling(c) /\ calls < MaxCalls
    /\ filling' = [filling EXCEPT
           ![c] = [on |-> TRUE, key |-> k, overtaken |-> FALSE,
                   since |-> IF Live(k) THEN basis[k] ELSE writes]]
    /\ UNCHANGED <<vars, basis, crossed>>

\* get finds nothing, so the callback is called.  When it finds something that
\* is the answer, whoever put it there.
Lookup(c, k) ==
    /\ ~Filling(c) /\ calls < MaxCalls
    /\ ~Live(k)
    /\ filling' = [filling EXCEPT
           ![c] = [on |-> TRUE, key |-> k, since |-> writes, overtaken |-> FALSE]]
    /\ UNCHANGED <<vars, basis, crossed>>

\* The callback has answered, and the lifetime is its own or the caller's.  The
\* value is set whatever has happened to the key.
Fill(c, ttl) ==
    /\ Filling(c)
    /\ LET k == filling[c].key
       IN  /\ Set(c, k, ttl)
           /\ basis' = [basis EXCEPT ![k] = filling[c].since]
           /\ crossed' = IF filling[c].overtaken THEN crossed \cup {k}
                         ELSE crossed \ {k}
    /\ filling' = [filling EXCEPT ![c] = NotFilling]

\* The callback has thrown or answered nothing, or set fails.
GiveUp(c) ==
    /\ Filling(c)
    /\ filling' = [filling EXCEPT ![c] = NotFilling]
    /\ UNCHANGED <<vars, basis, crossed>>
-----------------------------------------------------------------------------
(* The calls of RemoteStores, and what they mean to the callers of cache.    *)

SetOutright(c, k, ttl) ==
    /\ Set(c, k, ttl)
    /\ basis' = [basis EXCEPT ![k] = writes']
    /\ crossed' = crossed \ {k}
    /\ UNCHANGED filling

\* An increment keeps what it adds to, or makes a new counter.
Increment(c) ==
    /\ \/ \E k \in Keys, ttl \in Ttls : IncrBy(c, k, ttl) \/ Read(c, k, ttl)
       \/ Expire(c) \/ Commit(c)
    /\ LET new == {k \in Keys : ~Live(k) /\ Live(k)'}
       IN  /\ basis' = [k \in Keys |-> IF k \in new THEN writes' ELSE basis[k]]
           /\ crossed' = crossed \ new
    /\ UNCHANGED filling

\* Nothing is remembered of what is gone.
Forgotten ==
    /\ basis' = [k \in Keys |-> IF Live(k)' THEN basis[k] ELSE 0]
    /\ crossed' = {k \in crossed : Live(k)'}

\* A del overtakes the computations for its keys that have begun.
Delete(c, K) ==
    /\ DelAtOnce(c, K) \/ DelEach(c, K)
    /\ filling' = [d \in Cachers |->
           IF Filling(d) /\ filling[d].key \in K
           THEN [filling[d] EXCEPT !.overtaken = TRUE] ELSE filling[d]]
    /\ Forgotten

\* The database takes a key away.
Vanish ==
    /\ Tick \/ (\E c \in Callers : Deleted(c)) \/ (\E k \in Keys : Lapse(k))
    /\ Forgotten
    /\ UNCHANGED filling

CacheNext ==
    \/ \E c \in Cachers, k \in Keys : Lookup(c, k)
    \/ \E c \in Cachers, ttl \in Ttls : Fill(c, ttl)
    \/ \E c \in Others, k \in Keys, ttl \in Ttls : SetOutright(c, k, ttl)
    \/ \E c \in Others, K \in SUBSET Keys \ {{}} : Delete(c, K)
    \/ \E c \in Others : Increment(c)
    \/ \E c \in Cachers : GiveUp(c)
    \/ Vanish

CacheSpec == CacheInit /\ [][CacheNext]_allVars
-----------------------------------------------------------------------------
\* After a del that has returned, cache never answers what was computed before
\* that del began.  The exception is a key whose value was being computed when
\* the del came: it is stored afterwards, and stays until it expires.
CachedIsFresh ==
    \A k \in Keys : Live(k) => basis[k] >= erased[k] \/ k \in crossed
=============================================================================
