------------------------------ MODULE MapStore ------------------------------
(***************************************************************************)
(* The in-memory store of core/common/store/map.ts over the LRU cache of   *)
(* core/common/store/utils/lru.ts.                                         *)
(*                                                                         *)
(* Every method of MapStore runs to its end without awaiting, so a call is *)
(* one action: the body of each includes the touch of the LRU order, the   *)
(* removal of an expired item and the throttled sweep that set ends with.  *)
(* `reply` is the value the promise of the last call resolves to.          *)
(***************************************************************************)
EXTENDS LruCache

CONSTANTS
    Null,        \* what a call answers for a key it does not find
    NoExpiry,    \* expiresInMs is not a number
    Ttls,        \* the expiresInMs callers pass
    Increments,  \* the incrBy callers pass
    Never,       \* the throttled sweep has not run yet
    SweepEvery,  \* the throttle of the sweep, 30000 ms in the code
    MaxValue,    \* bound: the largest value stored
    MaxNow       \* bound: the last reading of the clock

ASSUME StoreAssumption ==
    /\ Ttls \subseteq Nat \cup {NoExpiry}
    /\ Increments \subseteq Nat
    /\ NoExpiry \notin Nat
    /\ Never \notin Nat
    /\ Null \notin Nat
    /\ SweepEvery \in Nat
    /\ MaxValue \in Nat
    /\ MaxNow \in Nat

VARIABLES
    now,          \* Date.now()
    cache,        \* MapStore.map
    sweptAt,      \* ExecutionTime in the closure throttle made for cleanup
    setDisabled,  \* DISABLE_MAP_STORE_SET is enabled in the environment
    reply,        \* [op, key, value] of the last call
    fresher       \* history: fresher[k], the keys used since k was last used

vars == <<now, cache, sweptAt, setDisabled, reply, fresher>>

Items == [value : 0..MaxValue, timestamp : 0..MaxNow, expiresInMs : Ttls]

ASSUME AbsentAssumption == Absent \notin Items

Operations == {"none", "set", "get", "del", "has", "timestamp", "incr"}
-----------------------------------------------------------------------------
\* Mutant of IsExpired: an item still lives at the instant it ends.
IsExpiredLate(item, t) ==
    /\ item # Absent
    /\ item.expiresInMs # NoExpiry
    /\ t > item.timestamp + item.expiresInMs

IsExpired(item, t) ==
    /\ item # Absent
    /\ item.expiresInMs # NoExpiry
    /\ t >= item.timestamp + item.expiresInMs

\* _get: the cache after the look-up, which touches the key and drops it when
\* it has expired, and the item the look-up returns.
Looked(k) ==
    IF IsExpired(cache.items[k], now)
    THEN Delete(LruGet(cache, k), {k})
    ELSE LruGet(cache, k)

Found(k) == IF IsExpired(cache.items[k], now) THEN Absent ELSE cache.items[k]

\* throttle runs its callback on the first call and then at most once per ttl.
SweepDue == sweptAt = Never \/ now - sweptAt >= SweepEvery

Sweep(c) == Delete(c, {k \in Keys : IsExpired(c.items[k], now)})

\* The IStoreItem set builds.
Item(v, ttl) == [value |-> v, timestamp |-> now, expiresInMs |-> ttl]

\* set, called on the cache c: nothing when it is disabled, else the item is
\* stored and the throttled cleanup is called.
Stored(c, k, v, ttl) ==
    LET stored == LruSet(c, k, Item(v, ttl))
    IN  IF setDisabled THEN c
        ELSE IF SweepDue THEN Sweep(stored) ELSE stored

\* Mutants of Put: the throttle keeps the time its next run is due; it starts its
\* wait anew with every call.
PutDueTime(c, k, v, ttl) ==
    /\ cache' = Stored(c, k, v, ttl)
    /\ sweptAt' = IF ~setDisabled /\ SweepDue THEN now + SweepEvery ELSE sweptAt

PutRearms(c, k, v, ttl) ==
    /\ cache' = Stored(c, k, v, ttl)
    /\ sweptAt' = IF setDisabled THEN sweptAt ELSE now

Put(c, k, v, ttl) ==
    /\ cache' = Stored(c, k, v, ttl)
    /\ sweptAt' = IF ~setDisabled /\ SweepDue THEN now ELSE sweptAt

\* History: k has just been used.
Use(k) == fresher' = [j \in Keys |-> IF j = k THEN {} ELSE fresher[j] \cup {k}]

Answer(op, k, v) == reply' = [op |-> op, key |-> k, value |-> v]
-----------------------------------------------------------------------------
Init ==
    /\ now = 0
    /\ cache = EmptyCache
    /\ sweptAt = Never
    /\ setDisabled \in BOOLEAN
    /\ reply \in [op : {"none"}, key : Keys, value : {Null}]
    /\ fresher = [k \in Keys |-> {}]

Tick ==
    /\ now < MaxNow
    /\ now' = now + 1
    /\ UNCHANGED <<cache, sweptAt, setDisabled, reply, fresher>>

Set(k, v, ttl) ==
    /\ Put(cache, k, v, ttl)
    /\ Answer("set", k, Null)
    /\ Use(k)
    /\ UNCHANGED <<now, setDisabled>>

Get(k) ==
    /\ cache' = Looked(k)
    /\ Answer("get", k, IF Found(k) = Absent THEN Null ELSE Found(k).value)
    /\ Use(k)
    /\ UNCHANGED <<now, sweptAt, setDisabled>>

\* del takes any number of keys; the reply names one of them.
Del(K) ==
    /\ cache' = Delete(cache, K)
    /\ \E k \in K : Answer("del", k, Null)
    /\ UNCHANGED <<now, sweptAt, setDisabled, fresher>>

\* has asks the Map only: it neither touches the key nor looks at its expiry.
Has(k) ==
    /\ Answer("has", k, IF k \in Held(cache) THEN 1 ELSE 0)
    /\ UNCHANGED <<now, cache, sweptAt, setDisabled, fresher>>

Timestamp(k) ==
    /\ cache' = Looked(k)
    /\ Answer("timestamp", k,
              IF Found(k) = Absent THEN Null ELSE Found(k).timestamp)
    /\ Use(k)
    /\ UNCHANGED <<now, sweptAt, setDisabled>>

\* incr: _get, then set of the new count with the options of this call, so a
\* counter restarts its life each time; the count is returned even when set
\* stored nothing.
Counted(k, by) == (IF Found(k) = Absent THEN 0 ELSE Found(k).value) + by

Incr(k, by, ttl) ==
    /\ Counted(k, by) <= MaxValue
    /\ Put(Looked(k), k, Counted(k, by), ttl)
    /\ Answer("incr", k, Counted(k, by))
    /\ Use(k)
    /\ UNCHANGED <<now, setDisabled>>

Next ==
    \/ Tick
    \/ \E k \in Keys, v \in 0..MaxValue, ttl \in Ttls : Set(k, v, ttl)
    \/ \E k \in Keys : Get(k)
    \/ \E K \in SUBSET Keys : Del(K)
    \/ \E k \in Keys : Has(k)
    \/ \E k \in Keys : Timestamp(k)
    \/ \E k \in Keys, by \in Increments, ttl \in Ttls : Incr(k, by, ttl)

Spec == Init /\ [][Next]_vars
-----------------------------------------------------------------------------
\* Types.  The order relates only keys that are held.
TypeOK ==
    /\ now \in 0..MaxNow
    /\ IsCache(cache, Items)
    /\ sweptAt \in {Never} \cup (0..now)
    /\ setDisabled \in BOOLEAN
    /\ reply \in [op : Operations, key : Keys, value : Nat \cup {Null}]
    /\ fresher \in [Keys -> SUBSET Keys]

\* Eviction keeps the Map within its capacity whatever the sequence of calls;
\* a capacity of zero still holds the one item set has just inserted.  Once the
\* empty key is the oldest nothing is evicted any more, so it must not be used.
CapacityBound ==
    EmptyKey \notin Keys =>
        \/ Cardinality(Held(cache)) <= Capacity
        \/ Cardinality(Held(cache)) <= 1

\* The insertion order of the Map is the recency of use: get, timestamp, incr
\* and set move their key behind all others, has and del move nothing.
OrderIsRecency ==
    \A j, k \in Held(cache) : <<j, k>> \in cache.older <=> k \in fresher[j]

\* The sweep leaves nothing behind: no item that was already over when the
\* last sweep ran is still held, so expired items outlive their time by at
\* most one throttle period plus the wait for the next set.
SweepIsThorough ==
    sweptAt # Never =>
        \A k \in Held(cache) :
            cache.items[k].expiresInMs # NoExpiry =>
                sweptAt <= cache.items[k].timestamp + cache.items[k].expiresInMs

\* A live item is lost to a call on another key only as the victim of an
\* eviction, and the victim is the least recently used: every other held key
\* but the one being written has been used since.
EvictsTheLeastRecent ==
    \A k \in Held(cache) :
        /\ cache'.items[k] = Absent
        /\ ~IsExpired(cache.items[k], now)
        /\ reply'.op # "del"
        /\ reply'.key # k
        => /\ reply'.op \in {"set", "incr"}
           /\ \A j \in Held(cache) \ {k, reply'.key} : j \in fresher[k]

OnlyTheLeastRecentIsEvicted == [][EvictsTheLeastRecent]_vars
-----------------------------------------------------------------------------
\* What callers see of the cache: the items that are not over.
Visible == [k \in Keys |-> Found(k)]

Promise == INSTANCE ExpiringStore WITH contents <- Visible

\* MapStore keeps the promise of a store: get, timestamp and incr always work
\* on the last write, for as long as it lives, and a write gives up at most
\* one other live item, and none when its key is there already.
PromiseSpec == Promise!Spec
=============================================================================
