---------------------------- MODULE RemoteStores ----------------------------
(***************************************************************************)
(* The stores many processes share: core/common/store/redis.ts and         *)
(* core/common/store/denoKv.ts, one of which store.ts picks when it is     *)
(* loaded.                                                                 *)
(*                                                                         *)
(* The database is external.  One command of Redis and one operation of    *)
(* Deno KV are atomic, and a call of the store is a sequence of them: the  *)
(* calls of other processes, and the expiry of the key, come in between.   *)
(* get, has and timestamp read one entry and change nothing; a call whose  *)
(* first command does not reach the database changes nothing either.       *)
(***************************************************************************)
EXTENDS Naturals, FiniteSets

CONSTANTS
    Backends,  \* the types of store that may be configured
    Callers,   \* processes, or turns of one; each makes one call at a time
    Keys,
    Ttls,      \* the expiresInMs callers pass
    Second,    \* milliseconds: Redis counts in whole seconds
    Absent,    \* the database has no such key
    Null,      \* the counters of Redis carry no timestamp
    NoExpiry,  \* expiresInMs is not given; the key does not expire
    MaxCalls,  \* bound: how many calls are made
    MaxNow     \* bound: the last reading of the clock

ASSUME RemoteAssumption ==
    /\ Backends \subseteq {"redis", "deno-kv"}
    /\ Ttls \subseteq (Nat \ {0}) \cup {NoExpiry}
    /\ NoExpiry \notin Nat /\ Null \notin Nat
    /\ Second \in Nat \ {0}
    /\ MaxCalls \in Nat /\ MaxNow \in Nat

VARIABLES
    backend,  \* CurrentStoreType
    now,      \* the clock
    entry,    \* the database
    writes,   \* how many writes there have been; names the version of an entry
    call,     \* what each caller waits for
    calls,    \* how many calls were made
    took,     \* history: what each key would hold if increments added up
    told,     \* history: how many calls of incr have returned in its life
    life,     \* history: how often each key was set, deleted or lost
    endless,  \* history: keys asked to live forever, or whose EXPIRE failed
    erased    \* history: the last write before the last finished del of a key

vars == <<backend, now, entry, writes, call, calls, took, told, life,
          endless, erased>>

history == <<took, told, life, endless, erased>>

Idle == [at |-> "idle"]

\* What the database holds: the IStoreItem a store wrote, or a counter of Redis.
Items == [value : Nat, timestamp : Nat, ttl : Ttls \cup {NoExpiry},
          until : Nat \cup {NoExpiry}, write : Nat]

Counters == [value : Nat, timestamp : {Null}, ttl : {NoExpiry},
             until : Nat \cup {NoExpiry}, write : Nat]

ASSUME AbsentAssumption == Absent \notin Items \cup Counters

\* What a caller can be in the middle of.
Waits ==
    {Idle}
      \cup [at : {"commit"}, key : Keys, ttl : Ttls, seen : Items \cup {Absent},
            life : Nat]
      \cup [at : {"expire"}, key : Keys, ttl : Ttls \ {NoExpiry}]
      \cup [at : {"delete"}, from : Nat, all : SUBSET Keys,
            left : SUBSET Keys \ {{}}]
-----------------------------------------------------------------------------
\* A store nobody has called.
Empty ==
    /\ now = 0
    /\ entry = [k \in Keys |-> Absent]
    /\ writes = 0
    /\ call = [c \in Callers |-> Idle]
    /\ calls = 0
    /\ took = [k \in Keys |-> 0] /\ told = [k \in Keys |-> 0]
    /\ life = [k \in Keys |-> 0]
    /\ endless = {}
    /\ erased = [k \in Keys |-> 0]

Init == backend \in Backends /\ Empty

Live(k) == entry[k] # Absent

Over(k, t) == Live(k) /\ entry[k].until # NoExpiry /\ t >= entry[k].until

Until(ttl) == IF ttl = NoExpiry THEN NoExpiry ELSE now + ttl

\* Redis takes whole seconds for the expiry of a key.
Accepted(ttl) ==
    backend = "redis" /\ ttl # NoExpiry => ttl % Second = 0

Write(k, item) ==
    /\ entry' = [entry EXCEPT ![k] = item]
    /\ writes' = writes + 1

\* A caller begins a call, which waits for what comes next, or is over at once.
Begin(c, next) ==
    /\ call[c] = Idle
    /\ calls < MaxCalls
    /\ calls' = calls + 1
    /\ call' = [call EXCEPT ![c] = next]

Return(c) == call' = [call EXCEPT ![c] = Idle]

\* A key that begins to exist, or is written anew, lives as long as it is asked.
Lifetime(k, ttl) ==
    endless' = IF ttl = NoExpiry THEN endless \cup {k} ELSE endless \ {k}

\* set: one command.
Set(c, k, ttl) ==
    /\ Accepted(ttl)
    /\ Begin(c, Idle)
    /\ Write(k, [value |-> 0, timestamp |-> now, ttl |-> ttl, until |-> Until(ttl),
                 write |-> writes + 1])
    /\ took' = [took EXCEPT ![k] = 0] /\ told' = [told EXCEPT ![k] = 0]
    /\ life' = [life EXCEPT ![k] = @ + 1]
    /\ Lifetime(k, ttl)
    /\ UNCHANGED <<backend, now, erased>>

\* A key is gone, and the next to create it starts from nothing.
Gone(K) ==
    /\ entry' = [k \in Keys |-> IF k \in K THEN Absent ELSE entry[k]]
    /\ took' = [k \in Keys |-> IF k \in K THEN 0 ELSE took[k]]
    /\ told' = [k \in Keys |-> IF k \in K THEN 0 ELSE told[k]]
    /\ life' = [k \in Keys |-> IF k \in K /\ Live(k) THEN life[k] + 1 ELSE life[k]]

\* del of Redis: one command for all keys.
DelAtOnce(c, K) ==
    /\ backend = "redis"
    /\ Begin(c, Idle)
    /\ Gone(K)
    /\ erased' = [k \in Keys |-> IF k \in K THEN writes ELSE erased[k]]
    /\ UNCHANGED <<backend, now, writes, endless>>

\* del of Deno KV: a delete for every key, all on their way together ...
DelEach(c, K) ==
    /\ backend = "deno-kv"
    /\ Begin(c, [at |-> "delete", from |-> writes, all |-> K, left |-> K])
    /\ UNCHANGED <<backend, now, entry, writes, history>>

\* Mutant of Deleted: del returns after the first delete (race for all).
DeletedFirst(c) ==
    /\ call[c].at = "delete"
    /\ \E k \in call[c].left : Gone({k})
    /\ Return(c)
    /\ erased' = [k \in Keys |-> IF k \in call[c].all THEN call[c].from ELSE erased[k]]
    /\ UNCHANGED <<backend, now, writes, calls, endless>>

\* ... and when the last has landed del returns.
Deleted(c) ==
    /\ call[c].at = "delete"
    /\ \E k \in call[c].left :
         /\ Gone({k})
         /\ IF call[c].left = {k}
            THEN /\ Return(c)
                 /\ erased' = [j \in Keys |-> IF j \in call[c].all
                                              THEN call[c].from ELSE erased[j]]
            ELSE /\ call' = [call EXCEPT ![c].left = @ \ {k}]
                 /\ UNCHANGED erased
    /\ UNCHANGED <<backend, now, writes, calls, endless>>
-----------------------------------------------------------------------------
(* incr of Redis: INCRBY, then EXPIRE.  INCRBY refuses what set has stored,  *)
(* which is not a number, and keeps the expiry a counter has.                *)

Counter(k) == entry[k].timestamp = Null

\* The counter that INCRBY leaves.
Incremented(k) ==
    [value |-> IF Live(k) THEN entry[k].value + 1 ELSE 1, timestamp |-> Null,
     ttl |-> NoExpiry, until |-> IF Live(k) THEN entry[k].until ELSE NoExpiry,
     write |-> writes + 1]

CountOne(k, ttl) ==
    /\ took' = [took EXCEPT ![k] = @ + 1]
    /\ told' = [told EXCEPT ![k] = @ + 1]
    /\ IF Live(k) THEN UNCHANGED endless ELSE Lifetime(k, ttl)
    /\ UNCHANGED life

\* Mutant of IncrBy: EXPIRE is sent before INCRBY.
IncrByLast(c, k, ttl) ==
    /\ backend = "redis"
    /\ Live(k) => Counter(k)
    /\ Begin(c, Idle)
    /\ Write(k, [Incremented(k) EXCEPT !.until =
                    IF Live(k) /\ ttl # NoExpiry THEN Until(ttl) ELSE @])
    /\ CountOne(k, ttl)
    /\ UNCHANGED <<backend, now, erased>>

IncrBy(c, k, ttl) ==
    /\ backend = "redis"
    /\ Live(k) => Counter(k)
    /\ Begin(c, IF ttl = NoExpiry THEN Idle ELSE [at |-> "expire", key |-> k, ttl |-> ttl])
    /\ Write(k, Incremented(k))
    /\ CountOne(k, ttl)
    /\ UNCHANGED <<backend, now, erased>>

\* On a key that is gone meanwhile EXPIRE does nothing, ...
Prolong(c) ==
    LET k == call[c].key
    IN  /\ call[c].at = "expire"
        /\ Accepted(call[c].ttl)
        /\ Return(c)
        /\ entry' = IF Live(k) THEN [entry EXCEPT ![k].until = Until(call[c].ttl)]
                    ELSE entry
        /\ UNCHANGED <<backend, now, writes, calls, history>>

\* ... and on a broken second, or a broken connection, it fails.
FailToProlong(c) ==
    /\ call[c].at = "expire"
    /\ Return(c)
    /\ endless' = endless \cup {call[c].key}
    /\ UNCHANGED <<backend, now, entry, writes, calls, took, told, life, erased>>

Expire(c) == Prolong(c) \/ FailToProlong(c)
-----------------------------------------------------------------------------
(* incr of Deno KV: a read, then a write that is checked against it.         *)

Read(c, k, ttl) ==
    /\ backend = "deno-kv"
    /\ Begin(c, [at |-> "commit", key |-> k, ttl |-> ttl, seen |-> entry[k],
                 life |-> life[k]])
    /\ UNCHANGED <<backend, now, entry, writes, history>>

\* Mutant of NewValue: a new counter is not dated.
NewValueUndated(seen, ttl) ==
    LET kept == IF seen # Absent /\ seen.ttl # NoExpiry THEN seen.ttl ELSE ttl
    IN  [value |-> IF seen = Absent THEN 1 ELSE seen.value + 1,
         timestamp |-> IF seen = Absent THEN Null ELSE seen.timestamp,
         ttl |-> kept, until |-> Until(kept), write |-> writes + 1]

\* NewValue: the first timestamp and the first lifetime are kept, and that
\* lifetime begins anew.
NewValue(seen, ttl) ==
    LET kept == IF seen # Absent /\ seen.ttl # NoExpiry THEN seen.ttl ELSE ttl
    IN  [value |-> IF seen = Absent THEN 1 ELSE seen.value + 1,
         timestamp |-> IF seen = Absent THEN now ELSE seen.timestamp,
         ttl |-> kept, until |-> Until(kept), write |-> writes + 1]

\* The versionstamp is the one that was read.
Unchanged(k, seen) ==
    IF seen = Absent THEN ~Live(k) ELSE Live(k) /\ entry[k].write = seen.write

\* Mutant of Commit: the atomic operation has no check.
CommitUnchecked(c) ==
    /\ call[c].at = "commit"
    /\ Return(c)
    /\ Write(call[c].key, NewValue(call[c].seen, call[c].ttl))
    /\ CountOne(call[c].key, call[c].ttl)
    /\ UNCHANGED <<backend, now, calls, erased>>

\* commit() answers whether the check held; nobody looks, Count is returned.
Commit(c) ==
    /\ call[c].at = "commit"
    /\ Return(c)
    /\ LET k == call[c].key
       IN  IF Unchanged(k, call[c].seen)
           THEN /\ Write(k, NewValue(call[c].seen, call[c].ttl))
                /\ CountOne(k, call[c].ttl)
           ELSE /\ told' = [told EXCEPT ![k] = IF call[c].life = life[k] THEN @ + 1 ELSE @]
                /\ UNCHANGED <<entry, writes, took, life, endless>>
    /\ UNCHANGED <<backend, now, calls, erased>>
-----------------------------------------------------------------------------
\* External: Redis drops a key on time ...
Tick ==
    /\ now < MaxNow
    /\ now' = now + 1
    /\ Gone({k \in Keys : backend = "redis" /\ Over(k, now + 1)})
    /\ UNCHANGED <<backend, writes, call, calls, endless, erased>>

\* ... and Deno KV not before its time.
Lapse(k) ==
    /\ backend = "deno-kv"
    /\ Over(k, now)
    /\ Gone({k})
    /\ UNCHANGED <<backend, now, writes, call, calls, endless, erased>>

Next ==
    \/ \E c \in Callers, k \in Keys, ttl \in Ttls :
         Set(c, k, ttl) \/ IncrBy(c, k, ttl) \/ Read(c, k, ttl)
    \/ \E c \in Callers, K \in SUBSET Keys \ {{}} : DelAtOnce(c, K) \/ DelEach(c, K)
    \/ \E c \in Callers : Deleted(c) \/ Expire(c) \/ Commit(c)
    \/ \E k \in Keys : Lapse(k)
    \/ Tick

Spec == Init /\ [][Next]_vars
-----------------------------------------------------------------------------
TypeOK ==
    /\ backend \in Backends
    /\ now \in 0..MaxNow
    /\ entry \in [Keys -> Items \cup {Absent} \cup
                        (IF backend = "redis" THEN Counters ELSE {})]
    /\ call \in [Callers -> Waits]
    /\ writes \in Nat /\ calls \in 0..MaxCalls
    /\ took \in [Keys -> Nat] /\ told \in [Keys -> Nat] /\ life \in [Keys -> Nat]
    /\ endless \subseteq Keys
    /\ erased \in [Keys -> 0..writes]

\* Increments never undo one another, nor what set, del or the expiry of the key
\* did while they were on their way: a key holds the number of the increments
\* that took effect since it was set, deleted or lost.
NoIncrementIsUndone == \A k \in Keys : Live(k) => entry[k].value = took[k]

\* A key lives forever only if its creator asked for it; a counter of Redis also
\* when EXPIRE failed after INCRBY, or until it is sent.
OnlyTheEndlessStay ==
    \A k \in Keys : Live(k) /\ entry[k].until = NoExpiry =>
        \/ k \in endless
        \/ \E c \in Callers : call[c].at = "expire" /\ call[c].key = k

\* What was written before a del that has returned is never found again.
DeletedIsGone == \A k \in Keys : Live(k) => entry[k].write > erased[k]

\* base.ts: incr "Creates/Increments a number and returns it".  So a key
\* holds at least the number of the calls of incr that began and returned since
\* it was last set, deleted or lost.
EveryIncrementCounts == \A k \in Keys : Live(k) => entry[k].value >= told[k]
=============================================================================
