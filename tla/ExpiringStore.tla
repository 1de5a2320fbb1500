--------------------------- MODULE ExpiringStore ---------------------------
(***************************************************************************)
(* What the rest of the framework may expect of a store: the interface     *)
(* StoreLike of core/common/store/base.ts, kept by one process that may    *)
(* give up items when it is full.                                          *)
(*                                                                         *)
(* `contents` has the live items only.  An item ends when the clock        *)
(* reaches its expiry; until then every look-up finds the last write,      *)
(* unless one write of some other key took its place.                      *)
(***************************************************************************)
EXTENDS Naturals

CONSTANTS Keys, Absent, Null, NoExpiry, Ttls, Increments, MaxValue, MaxNow

VARIABLES now, contents, setDisabled, reply

vars == <<now, contents, setDisabled, reply>>

Live(k) == contents[k] # Absent

Over(item, t) ==
    /\ item # Absent
    /\ item.expiresInMs # NoExpiry
    /\ t >= item.timestamp + item.expiresInMs

Answer(op, k, v) == reply' = [op |-> op, key |-> k, value |-> v]

Count(k) == IF Live(k) THEN contents[k].value ELSE 0

Init ==
    /\ now = 0
    /\ contents = [k \in Keys |-> Absent]
    /\ setDisabled \in BOOLEAN
    /\ reply \in [op : {"none"}, key : Keys, value : {Null}]

Tick ==
    /\ now < MaxNow
    /\ now' = now + 1
    /\ contents' = [k \in Keys |->
                      IF Over(contents[k], now') THEN Absent ELSE contents[k]]
    /\ UNCHANGED <<setDisabled, reply>>

\* A write may cost the store one other item, but only to make room for a key
\* it did not have; an item that is over at once is never found.
Write(k, v, ttl) ==
    LET item == [value |-> v, timestamp |-> now, expiresInMs |-> ttl]
    IN  IF setDisabled
        THEN contents' = contents
        ELSE \E lost \in SUBSET (Keys \ {k}) :
               /\ \A i, j \in lost : i = j
               /\ lost # {} => ~Live(k)
               /\ contents' = [j \in Keys |->
                     IF j = k THEN IF Over(item, now) THEN Absent ELSE item
                     ELSE IF j \in lost THEN Absent ELSE contents[j]]

Set(k, v, ttl) ==
    /\ Write(k, v, ttl)
    /\ Answer("set", k, Null)
    /\ UNCHANGED <<now, setDisabled>>

Get(k) ==
    /\ Answer("get", k, IF Live(k) THEN contents[k].value ELSE Null)
    /\ UNCHANGED <<now, contents, setDisabled>>

Del(K) ==
    /\ contents' = [k \in Keys |-> IF k \in K THEN Absent ELSE contents[k]]
    /\ \E k \in K : Answer("del", k, Null)
    /\ UNCHANGED <<now, setDisabled>>

\* A live key is always reported; a key that is over may still be.
Has(k) ==
    /\ \E there \in {0, 1} :
         /\ Live(k) => there = 1
         /\ Answer("has", k, there)
    /\ UNCHANGED <<now, contents, setDisabled>>

Timestamp(k) ==
    /\ Answer("timestamp", k, IF Live(k) THEN contents[k].timestamp ELSE Null)
    /\ UNCHANGED <<now, contents, setDisabled>>

Incr(k, by, ttl) ==
    /\ Count(k) + by <= MaxValue
    /\ Write(k, Count(k) + by, ttl)
    /\ Answer("incr", k, Count(k) + by)
    /\ UNCHANGED <<now, setDisabled>>

Next ==
    \/ Tick
    \/ \E k \in Keys, v \in 0..MaxValue, ttl \in Ttls : Set(k, v, ttl)
    \/ \E k \in Keys : Get(k)
    \/ \E K \in SUBSET Keys : Del(K)
    \/ \E k \in Keys : Has(k)
    \/ \E k \in Keys : Timestamp(k)
    \/ \E k \in Keys, by \in Increments, ttl \in Ttls : Incr(k, by, ttl)

Spec == Init /\ [][Next]_vars
=============================================================================
