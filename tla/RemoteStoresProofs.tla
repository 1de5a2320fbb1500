------------------------- MODULE RemoteStoresProofs -------------------------
(***************************************************************************)
(* For any number of callers, keys and calls, and for both databases: the  *)
(* types of RemoteStores, and that increments, deletes and lifetimes hold  *)
(* against the calls of other processes.                                   *)
(***************************************************************************)
EXTENDS CacheAside, TLAPS

\* The version of an entry is the number of the write that made it.
Versions == \A k \in Keys : Live(k) => entry[k].write <= writes

\* A key that is gone owes nothing to the increments before.
Starts == \A k \in Keys : ~Live(k) => took[k] = 0

\* A caller that read a version which is still there knows what it holds.
Seen(c) ==
    call[c].at = "commit" =>
        /\ backend = "deno-kv"
        /\ call[c].seen # Absent =>
              /\ call[c].seen.write <= writes
              /\ LET k == call[c].key
                 IN  Live(k) /\ entry[k].write = call[c].seen.write =>
                        entry[k] = call[c].seen

\* What a del under way has deleted was written anew or is gone.
Erasing(c) ==
    call[c].at = "delete" =>
        /\ call[c].from <= writes
        /\ \A k \in call[c].all \ call[c].left :
              Live(k) => entry[k].write > call[c].from

InFlight ==
    \A c \in Callers :
        Seen(c) /\ Erasing(c) /\ (call[c].at = "expire" => backend = "redis")

\* Deno KV keeps the lifetime an item was given.
Lifetimes ==
    backend = "deno-kv" =>
        \A k \in Keys : Live(k) => (entry[k].until = NoExpiry <=> entry[k].ttl = NoExpiry)

IInv ==
    /\ TypeOK
    /\ NoIncrementIsUndone /\ OnlyTheEndlessStay /\ DeletedIsGone
    /\ Versions /\ Starts /\ InFlight /\ Lifetimes

-----------------------------------------------------------------------------
LEMMA InitHolds == Init => IInv
<1> SUFFICES ASSUME Init PROVE IInv
  OBVIOUS
<1>1. TypeOK
  BY RemoteAssumption DEF Init, Empty, TypeOK, Waits, Idle
<1> QED
  BY <1>1 DEF Init, Empty, IInv, NoIncrementIsUndone, OnlyTheEndlessStay, DeletedIsGone,
     Versions, Starts, InFlight, Seen, Erasing, Lifetimes, Live, Idle

-----------------------------------------------------------------------------
\* What an entry is made of.
LEMMA Typing ==
    ASSUME TypeOK, NEW k \in Keys, Live(k)
    PROVE  /\ entry[k].value \in Nat /\ entry[k].write \in Nat
           /\ entry[k] \in Items \cup Counters
  BY DEF TypeOK, Live, Items, Counters

\* What a step may do to an entry: keep it, take it away, or write it anew.
Moves ==
    /\ backend' = backend
    /\ writes' \in {writes, writes + 1}
    /\ \A k \in Keys : Live(k)' =>
         \/ Live(k) /\ entry'[k] = entry[k]
         \/ writes' = writes + 1 /\ entry'[k].write = writes'

LEMMA VersionsMove ==
    ASSUME IInv, Moves
    PROVE  Versions'
<1>1. writes \in Nat
  BY DEF IInv, TypeOK
<1>2. \A k \in Keys : Live(k) => entry[k].write \in Nat /\ entry[k].write <= writes
  BY Typing DEF IInv, Versions
<1> QED
  BY <1>1, <1>2 DEF Moves, Versions, Live

\* Whatever others do, a caller that waits is not deceived.
LEMMA Waiting ==
    ASSUME IInv, Moves, NEW c \in Callers, call'[c] = call[c]
    PROVE  (Seen(c) /\ Erasing(c) /\ (call[c].at = "expire" => backend = "redis"))'
<1>1. writes \in Nat /\ writes' \in Nat
  BY DEF IInv, TypeOK, Moves
<1>2. call[c] \in Waits
  BY DEF IInv, TypeOK
<1>3. Seen(c)'
  <2> SUFFICES ASSUME call[c].at = "commit"
               PROVE  Seen(c)'
    BY DEF Seen
  <2>1. call[c].key \in Keys /\ call[c].seen \in Items \cup {Absent}
    BY <1>2 DEF Waits, Idle
  <2>2. call[c].seen # Absent =>
            call[c].seen.write \in Nat /\ call[c].seen.write <= writes
    BY <2>1 DEF IInv, InFlight, Seen, Items
  <2> QED
    BY <1>1, <2>1, <2>2 DEF IInv, InFlight, Seen, Moves, Live
<1>4. Erasing(c)'
  <2> SUFFICES ASSUME call[c].at = "delete"
               PROVE  Erasing(c)'
    BY DEF Erasing
  <2>1. call[c].from \in Nat /\ call[c].all \subseteq Keys
    BY <1>2 DEF Waits, Idle
  <2> QED
    BY <1>1, <2>1 DEF IInv, InFlight, Erasing, Moves, Live
<1> QED
  BY <1>3, <1>4 DEF IInv, InFlight, Moves

\* A caller that returns waits for nothing.
LEMMA Returns ==
    ASSUME IInv, Moves, NEW c \in Callers, call' = [call EXCEPT ![c] = Idle]
    PROVE  InFlight'
<1>1. \A d \in Callers \ {c} : call'[d] = call[d]
  BY DEF IInv, TypeOK
<1>2. call'[c].at = "idle"
  BY DEF IInv, TypeOK, Idle
<1> QED
  BY <1>1, <1>2, Waiting DEF InFlight, Seen, Erasing
-----------------------------------------------------------------------------
(* One lemma for each action. *)

LEMMA SetKeeps ==
    ASSUME IInv, NEW c \in Callers, NEW k \in Keys, NEW ttl \in Ttls, Set(c, k, ttl)
    PROVE  IInv'
<1>1. TypeOK'
  BY RemoteAssumption, AbsentAssumption
     DEF Set, Begin, Write, Until, Lifetime, IInv, TypeOK, Waits, Idle, Items, Counters, Live
<1>2. Moves
  BY AbsentAssumption DEF Set, Begin, Write, Until, Lifetime, Moves, IInv, TypeOK, Live, Items, Counters
<1>3. NoIncrementIsUndone'
  BY <1>1, AbsentAssumption
     DEF Set, Begin, Write, Until, Lifetime, IInv, TypeOK, NoIncrementIsUndone, Starts, Live, InFlight, Seen
<1>4. OnlyTheEndlessStay'
  BY <1>1, RemoteAssumption
     DEF Set, Begin, Write, Until, Lifetime, IInv, TypeOK, OnlyTheEndlessStay, Live, Idle
<1>5. DeletedIsGone'
  BY <1>1 DEF Set, Begin, Write, Until, Lifetime, IInv, TypeOK, DeletedIsGone, Live, InFlight, Erasing
<1>6. Starts'
  BY <1>1, AbsentAssumption DEF Set, Begin, Write, Until, Lifetime, IInv, TypeOK, Starts, Live, Items, Counters
<1>7. InFlight'
  BY <1>2, Returns DEF Set, Begin
<1>8. Lifetimes'
  BY <1>1, RemoteAssumption DEF Set, Begin, Write, Until, Lifetime, IInv, TypeOK, Lifetimes, Live
<1> QED
  BY <1>1, <1>2, <1>3, <1>4, <1>5, <1>6, <1>7, <1>8, VersionsMove DEF IInv

LEMMA IncrByKeeps ==
    ASSUME IInv, NEW c \in Callers, NEW k \in Keys, NEW ttl \in Ttls, IncrBy(c, k, ttl)
    PROVE  IInv'
<1>1. TypeOK'
  BY RemoteAssumption, AbsentAssumption
     DEF IncrBy, Begin, Write, Incremented, CountOne, Counter, Lifetime, IInv, TypeOK, Waits, Idle, Items, Counters, Live
<1>2. Moves
  BY AbsentAssumption DEF IncrBy, Begin, Write, Incremented, CountOne, Counter, Lifetime, Moves, IInv, TypeOK, Live, Items, Counters
<1>3. NoIncrementIsUndone'
  BY <1>1, AbsentAssumption
     DEF IncrBy, Begin, Write, Incremented, CountOne, Counter, Lifetime, IInv, TypeOK, NoIncrementIsUndone, Starts, Live, InFlight, Seen
<1>4. OnlyTheEndlessStay'
  BY <1>1, RemoteAssumption
     DEF IncrBy, Begin, Write, Incremented, CountOne, Counter, Lifetime, IInv, TypeOK, OnlyTheEndlessStay, Live, Idle
<1>5. DeletedIsGone'
  BY <1>1 DEF IncrBy, Begin, Write, Incremented, CountOne, Counter, Lifetime, IInv, TypeOK, DeletedIsGone, Live, InFlight, Erasing
<1>6. Starts'
  BY <1>1, AbsentAssumption DEF IncrBy, Begin, Write, Incremented, CountOne, Counter, Lifetime, IInv, TypeOK, Starts, Live, Items, Counters
<1>7. InFlight'
  <2>1. \A d \in Callers \ {c} : call'[d] = call[d]
    BY DEF IncrBy, Begin, IInv, TypeOK
  <2>2. (Seen(c) /\ Erasing(c) /\ (call[c].at = "expire" => backend = "redis"))'
    BY <1>1 DEF IncrBy, Begin, history, Seen, Erasing, Versions, IInv, TypeOK, Live, Idle
  <2> QED
    BY <1>2, <2>1, <2>2, Waiting DEF InFlight
<1>8. Lifetimes'
  BY <1>1, RemoteAssumption DEF IncrBy, Begin, Write, Incremented, CountOne, Counter, Lifetime, IInv, TypeOK, Lifetimes, Live
<1> QED
  BY <1>1, <1>2, <1>3, <1>4, <1>5, <1>6, <1>7, <1>8, VersionsMove DEF IInv

LEMMA ReadKeeps ==
    ASSUME IInv, NEW c \in Callers, NEW k \in Keys, NEW ttl \in Ttls, Read(c, k, ttl)
    PROVE  IInv'
<1>1. TypeOK'
  BY RemoteAssumption, AbsentAssumption
     DEF Read, Begin, history, IInv, TypeOK, Waits, Idle, Items, Counters, Live
<1>2. Moves
  BY AbsentAssumption DEF Read, Begin, history, Moves, IInv, TypeOK, Live, Items, Counters
<1>3. NoIncrementIsUndone'
  BY <1>1, AbsentAssumption
     DEF Read, Begin, history, IInv, TypeOK, NoIncrementIsUndone, Starts, Live, InFlight, Seen
<1>4. OnlyTheEndlessStay'
  BY <1>1, RemoteAssumption
     DEF Read, Begin, history, IInv, TypeOK, OnlyTheEndlessStay, Live, Idle
<1>5. DeletedIsGone'
  BY <1>1 DEF Read, Begin, history, IInv, TypeOK, DeletedIsGone, Live, InFlight, Erasing
<1>6. Starts'
  BY <1>1, AbsentAssumption DEF Read, Begin, history, IInv, TypeOK, Starts, Live, Items, Counters
<1>7. InFlight'
  <2>1. \A d \in Callers \ {c} : call'[d] = call[d]
    BY DEF Read, Begin, IInv, TypeOK
  <2>2. (Seen(c) /\ Erasing(c) /\ (call[c].at = "expire" => backend = "redis"))'
    BY <1>1 DEF Read, Begin, history, Seen, Erasing, Versions, IInv, TypeOK, Live, Idle
  <2> QED
    BY <1>2, <2>1, <2>2, Waiting DEF InFlight
<1>8. Lifetimes'
  BY <1>1, RemoteAssumption DEF Read, Begin, history, IInv, TypeOK, Lifetimes, Live
<1> QED
  BY <1>1, <1>2, <1>3, <1>4, <1>5, <1>6, <1>7, <1>8, VersionsMove DEF IInv

LEMMA DelAtOnceKeeps ==
    ASSUME IInv, NEW c \in Callers, NEW K \in SUBSET Keys \ {{}}, DelAtOnce(c, K)
    PROVE  IInv'
<1>1. TypeOK'
  BY RemoteAssumption, AbsentAssumption
     DEF DelAtOnce, Begin, Gone, IInv, TypeOK, Waits, Idle, Items, Counters, Live
<1>2. Moves
  BY AbsentAssumption DEF DelAtOnce, Begin, Gone, Moves, IInv, TypeOK, Live, Items, Counters
<1>3. NoIncrementIsUndone'
  BY <1>1, AbsentAssumption
     DEF DelAtOnce, Begin, Gone, IInv, TypeOK, NoIncrementIsUndone, Starts, Live, InFlight, Seen
<1>4. OnlyTheEndlessStay'
  BY <1>1, RemoteAssumption
     DEF DelAtOnce, Begin, Gone, IInv, TypeOK, OnlyTheEndlessStay, Live, Idle
<1>5. DeletedIsGone'
  BY <1>1 DEF DelAtOnce, Begin, Gone, IInv, TypeOK, DeletedIsGone, Live, InFlight, Erasing
<1>6. Starts'
  BY <1>1, AbsentAssumption DEF DelAtOnce, Begin, Gone, IInv, TypeOK, Starts, Live, Items, Counters
<1>7. InFlight'
  BY <1>2, Returns DEF DelAtOnce, Begin
<1>8. Lifetimes'
  BY <1>1, RemoteAssumption DEF DelAtOnce, Begin, Gone, IInv, TypeOK, Lifetimes, Live
<1> QED
  BY <1>1, <1>2, <1>3, <1>4, <1>5, <1>6, <1>7, <1>8, VersionsMove DEF IInv

LEMMA DelEachKeeps ==
    ASSUME IInv, NEW c \in Callers, NEW K \in SUBSET Keys \ {{}}, DelEach(c, K)
    PROVE  IInv'
<1>1. TypeOK'
  BY RemoteAssumption, AbsentAssumption
     DEF DelEach, Begin, history, IInv, TypeOK, Waits, Idle, Items, Counters, Live
<1>2. Moves
  BY AbsentAssumption DEF DelEach, Begin, history, Moves, IInv, TypeOK, Live, Items, Counters
<1>3. NoIncrementIsUndone'
  BY <1>1, AbsentAssumption
     DEF DelEach, Begin, history, IInv, TypeOK, NoIncrementIsUndone, Starts, Live, InFlight, Seen
<1>4. OnlyTheEndlessStay'
  BY <1>1, RemoteAssumption
     DEF DelEach, Begin, history, IInv, TypeOK, OnlyTheEndlessStay, Live, Idle
<1>5. DeletedIsGone'
  BY <1>1 DEF DelEach, Begin, history, IInv, TypeOK, DeletedIsGone, Live, InFlight, Erasing
<1>6. Starts'
  BY <1>1, AbsentAssumption DEF DelEach, Begin, history, IInv, TypeOK, Starts, Live, Items, Counters
<1>7. InFlight'
  <2>1. \A d \in Callers \ {c} : call'[d] = call[d]
    BY DEF DelEach, Begin, IInv, TypeOK
  <2>2. (Seen(c) /\ Erasing(c) /\ (call[c].at = "expire" => backend = "redis"))'
    BY <1>1 DEF DelEach, Begin, history, Seen, Erasing, Versions, IInv, TypeOK, Live, Idle
  <2> QED
    BY <1>2, <2>1, <2>2, Waiting DEF InFlight
<1>8. Lifetimes'
  BY <1>1, RemoteAssumption DEF DelEach, Begin, history, IInv, TypeOK, Lifetimes, Live
<1> QED
  BY <1>1, <1>2, <1>3, <1>4, <1>5, <1>6, <1>7, <1>8, VersionsMove DEF IInv

LEMMA DeletedKeeps ==
    ASSUME IInv, NEW c \in Callers, Deleted(c)
    PROVE  IInv'
<1>1. PICK k \in call[c].left :
          /\ Gone({k})
          /\ \/ /\ call[c].left = {k} /\ Return(c)
                /\ erased' = [j \in Keys |-> IF j \in call[c].all
                                              THEN call[c].from ELSE erased[j]]
             \/ /\ call[c].left # {k} /\ call' = [call EXCEPT ![c].left = @ \ {k}]
                /\ UNCHANGED erased
  BY DEF Deleted
<1>2. UNCHANGED <<backend, now, writes, calls, endless>>
  BY DEF Deleted
<1>3. /\ call[c].at = "delete"
      /\ call[c] \in [at : {"delete"}, from : Nat, all : SUBSET Keys,
                      left : SUBSET Keys \ {{}}]
  BY DEF Deleted, IInv, TypeOK, Waits, Idle
<1>4. /\ call[c].from \in 0..writes
      /\ \A j \in call[c].all \ call[c].left :
            Live(j) => entry[j].write > call[c].from
  BY <1>3 DEF IInv, TypeOK, InFlight, Erasing
<1>5. \A j \in Keys : Live(j)' => Live(j) /\ j # k /\ entry'[j] = entry[j]
  BY <1>1 DEF Gone, Live
<1>6. call' \in [Callers -> Waits]
  <2>1. CASE call[c].left = {k}
    BY <1>1, <2>1 DEF Return, IInv, TypeOK, Waits
  <2>2. CASE call[c].left # {k}
    <3>1. call[c].left \ {k} \in SUBSET Keys \ {{}}
      BY <1>1, <1>3, <2>2
    <3>2. [call[c] EXCEPT !.left = @ \ {k}] \in Waits
      BY <1>3, <3>1 DEF Waits
    <3> QED
      BY <1>1, <2>2, <3>2 DEF IInv, TypeOK
  <2> QED
    BY <2>1, <2>2
<1>7. TypeOK'
  BY <1>1, <1>2, <1>4, <1>6 DEF Gone, IInv, TypeOK, Live
<1>8. Moves
  BY <1>2, <1>5 DEF Moves
<1>9. NoIncrementIsUndone' /\ Starts'
  BY <1>1, <1>5 DEF Gone, IInv, TypeOK, NoIncrementIsUndone, Starts, Live
<1>10. OnlyTheEndlessStay'
  BY <1>1, <1>2, <1>3, <1>5 DEF Return, Idle, IInv, TypeOK, OnlyTheEndlessStay
<1>11. DeletedIsGone'
  BY <1>1, <1>3, <1>4, <1>5 DEF IInv, TypeOK, DeletedIsGone
<1>12. InFlight'
  <2>1. CASE call[c].left = {k}
    BY <1>1, <1>8, <2>1, Returns DEF Return
  <2>2. CASE call[c].left # {k}
    <3>1. \A d \in Callers \ {c} : call'[d] = call[d]
      BY <1>1, <2>2 DEF IInv, TypeOK
    <3>2. /\ call'[c].at = "delete" /\ call'[c].from = call[c].from
          /\ call'[c].all = call[c].all /\ call'[c].left = call[c].left \ {k}
      BY <1>1, <1>3, <2>2 DEF IInv, TypeOK
    <3>3. Erasing(c)'
      BY <1>2, <1>3, <1>4, <1>5, <3>2 DEF Erasing
    <3> QED
      BY <1>8, <3>1, <3>2, <3>3, Waiting DEF InFlight, Seen
  <2> QED
    BY <1>1, <2>1, <2>2
<1>13. Lifetimes'
  BY <1>2, <1>5 DEF IInv, Lifetimes
<1> QED
  BY <1>7, <1>8, <1>9, <1>10, <1>11, <1>12, <1>13, VersionsMove DEF IInv

\* EXPIRE changes the expiry of a counter and nothing else of it.
LEMMA ExpireKeeps ==
    ASSUME IInv, NEW c \in Callers, Expire(c)
    PROVE  IInv'
<1>0. PICK k \in Keys, ttl \in Ttls : k = call[c].key /\ ttl = call[c].ttl
  BY DEF Expire, Prolong, FailToProlong, history, IInv, TypeOK, Waits, Idle
<1>1. /\ call[c].at = "expire" /\ backend = "redis"
      /\ k \in Keys /\ ttl \in Ttls \ {NoExpiry}
      /\ Until(ttl) \in Nat
  BY <1>0, RemoteAssumption DEF Expire, Prolong, FailToProlong, history, IInv, TypeOK, InFlight, Waits, Idle, Until
<1>2. /\ UNCHANGED <<backend, now, writes, calls, took, told, life, erased>>
      /\ call' = [call EXCEPT ![c] = Idle]
  BY DEF Expire, Prolong, FailToProlong, history, Return
<1>3. \/ Live(k) /\ entry' = [entry EXCEPT ![k].until = Until(ttl)] /\ UNCHANGED endless
      \/ ~Live(k) /\ UNCHANGED <<entry, endless>>
      \/ endless' = endless \cup {k} /\ UNCHANGED entry
  BY <1>0 DEF Expire, Prolong, FailToProlong, history
<1>4. CASE Live(k) /\ entry' = [entry EXCEPT ![k].until = Until(ttl)] /\ UNCHANGED endless
  <2>1. entry[k] \in Items \cup Counters
    BY <1>4, <1>1, Typing DEF IInv
  <2>2. /\ entry'[k] = [entry[k] EXCEPT !.until = Until(ttl)]
        /\ entry'[k] \in Items \cup Counters
    BY <1>1, <1>4, <2>1 DEF IInv, TypeOK, Items, Counters
  <2>3. \A j \in Keys \ {k} : entry'[j] = entry[j]
    BY <1>4 DEF IInv, TypeOK
  <2>4. Live(k)'
    BY <2>2, AbsentAssumption DEF Live
  <2>5. /\ entry'[k].value = entry[k].value /\ entry'[k].write = entry[k].write
        /\ entry'[k].until = Until(ttl)
    <3>1. CASE entry[k] \in Items
      BY <2>2, <3>1 DEF Items
    <3>2. CASE entry[k] \in Counters
      BY <2>2, <3>2 DEF Counters
    <3> QED
      BY <2>1, <3>1, <3>2
  <2>6. TypeOK'
    BY <1>1, <1>2, <1>4, <2>2, <2>3 DEF IInv, TypeOK, Waits
  <2>7. \A j \in Keys :
          /\ Live(j)' <=> Live(j)
          /\ entry'[j].value = entry[j].value /\ entry'[j].write = entry[j].write
          /\ j # k => entry'[j] = entry[j]
    BY <1>4, <2>3, <2>4, <2>5 DEF Live
  <2>8. (NoIncrementIsUndone /\ DeletedIsGone /\ Versions /\ Starts /\ Lifetimes)'
    BY <1>1, <1>2, <2>7
       DEF IInv, NoIncrementIsUndone, DeletedIsGone, Versions, Starts, Lifetimes
  <2>9. OnlyTheEndlessStay'
    BY <1>0, <1>1, <1>2, <1>4, <2>5, <2>7, RemoteAssumption
       DEF IInv, TypeOK, OnlyTheEndlessStay
  <2>10. InFlight'
    BY <1>1, <1>2, <2>7 DEF IInv, TypeOK, InFlight, Seen, Erasing, Waits, Idle
  <2> QED
    BY <2>6, <2>8, <2>9, <2>10 DEF IInv
<1>5. CASE /\ UNCHANGED entry
           /\ \/ ~Live(k) /\ UNCHANGED endless
              \/ endless' = endless \cup {k}
  <2>1. TypeOK'
    BY <1>1, <1>2, <1>5 DEF IInv, TypeOK, Waits
  <2> QED
    BY <1>0, <1>1, <1>2, <1>5, <2>1
       DEF IInv, TypeOK, NoIncrementIsUndone, OnlyTheEndlessStay, DeletedIsGone,
           Versions, Starts, InFlight, Seen, Erasing, Lifetimes, Live, Idle
<1> QED
  BY <1>3, <1>4, <1>5

LEMMA CommitKeeps ==
    ASSUME IInv, NEW c \in Callers, Commit(c)
    PROVE  IInv'
<1>0. PICK k \in Keys, ttl \in Ttls, seen \in Items \cup {Absent} :
          k = call[c].key /\ ttl = call[c].ttl /\ seen = call[c].seen
  BY DEF Commit, IInv, TypeOK, Waits, Idle
<1> DEFINE item == NewValue(seen, ttl)
<1>1. /\ call[c].at = "commit" /\ backend = "deno-kv"
      /\ k \in Keys /\ ttl \in Ttls /\ seen \in Items \cup {Absent}
  BY <1>0 DEF Commit, IInv, InFlight, Seen
<1>2. UNCHANGED <<backend, now, calls, erased>> /\ call' = [call EXCEPT ![c] = Idle]
  BY DEF Commit, Return
<1>3. call' \in [Callers -> Waits]
  BY <1>2 DEF IInv, TypeOK, Waits
<1>4. CASE Unchanged(k, seen)
  <2>1. seen = entry[k]
    BY <1>0, <1>1, <1>4 DEF Unchanged, IInv, InFlight, Seen, Live
  <2>2. /\ entry' = [entry EXCEPT ![k] = item] /\ writes' = writes + 1
        /\ took' = [took EXCEPT ![k] = @ + 1] /\ told' = [told EXCEPT ![k] = @ + 1]
        /\ UNCHANGED life
        /\ IF Live(k) THEN UNCHANGED endless ELSE Lifetime(k, ttl)
    BY <1>0, <1>4 DEF Commit, Write, CountOne
  <2>3. PICK kept \in Ttls \cup {NoExpiry} :
          /\ item = [value |-> IF seen = Absent THEN 1 ELSE seen.value + 1,
                     timestamp |-> IF seen = Absent THEN now ELSE seen.timestamp,
                     ttl |-> kept, until |-> Until(kept), write |-> writes + 1]
          /\ kept = NoExpiry <=>
               ttl = NoExpiry /\ (seen # Absent => seen.ttl = NoExpiry)
    BY <1>1 DEF NewValue, Items
  <2>4. /\ now \in Nat /\ writes \in Nat
        /\ Until(kept) \in Nat \cup {NoExpiry}
        /\ Until(kept) = NoExpiry <=> kept = NoExpiry
    BY <2>3, RemoteAssumption DEF Until, IInv, TypeOK
  <2>5. /\ item \in Items /\ item # Absent
        /\ item.write = writes + 1 /\ item.ttl = kept /\ item.until = Until(kept)
        /\ item.value = IF Live(k) THEN entry[k].value + 1 ELSE 1
    <3>1. item \in Items
      BY <1>1, <2>3, <2>4 DEF Items
    <3> QED
      BY <2>1, <2>3, <3>1, AbsentAssumption DEF Live
  <2> HIDE DEF item
  <2>11. /\ entry'[k] = item /\ Live(k)'
         /\ \A j \in Keys \ {k} : entry'[j] = entry[j] /\ took'[j] = took[j]
         /\ took'[k] = took[k] + 1
    BY <1>1, <2>2, <2>5 DEF IInv, TypeOK, Live
  <2>6. TypeOK'
    BY <1>1, <1>2, <1>3, <2>2, <2>5 DEF Lifetime, IInv, TypeOK, Live
  <2>7. Moves
    BY <1>2, <2>2, <2>5, <2>11 DEF Moves, Live
  <2>8. NoIncrementIsUndone' /\ Starts' /\ DeletedIsGone'
    BY <1>1, <1>2, <2>2, <2>5, <2>11
       DEF IInv, TypeOK, NoIncrementIsUndone, Starts, DeletedIsGone, Live
  <2>9. OnlyTheEndlessStay'
    BY <1>1, <1>2, <2>1, <2>2, <2>3, <2>4, <2>5, <2>11
       DEF IInv, TypeOK, OnlyTheEndlessStay, Lifetimes, InFlight, Lifetime, Live
  <2>10. Lifetimes'
    <3>1. entry'[k].until = NoExpiry <=> entry'[k].ttl = NoExpiry
      BY <2>4, <2>5, <2>11
    <3>2. \A j \in Keys \ {k} : Live(j)' =>
            (entry'[j].until = NoExpiry <=> entry'[j].ttl = NoExpiry)
      BY <1>1, <2>11 DEF IInv, Lifetimes, Live
    <3> QED
      BY <3>1, <3>2 DEF Lifetimes
  <2> QED
    BY <1>2, <2>6, <2>7, <2>8, <2>9, <2>10, VersionsMove, Returns DEF IInv
<1>5. CASE ~Unchanged(k, seen)
  <2>1. /\ UNCHANGED <<entry, writes, took, life, endless>>
        /\ told' = [told EXCEPT ![k] = IF call[c].life = life[k] THEN @ + 1 ELSE @]
    BY <1>0, <1>5 DEF Commit
  <2>2. TypeOK'
    BY <1>1, <1>2, <1>3, <2>1 DEF IInv, TypeOK, Live
  <2>3. Moves
    BY <1>2, <2>1 DEF Moves, Live
  <2>4. NoIncrementIsUndone' /\ Starts' /\ DeletedIsGone' /\ Lifetimes'
    BY <1>2, <2>1 DEF IInv, NoIncrementIsUndone, Starts, DeletedIsGone, Lifetimes, Live
  <2>5. OnlyTheEndlessStay'
    BY <1>0, <1>1, <1>2, <2>1 DEF IInv, TypeOK, OnlyTheEndlessStay, Live
  <2> QED
    BY <1>2, <2>2, <2>3, <2>4, <2>5, VersionsMove, Returns DEF IInv
<1> QED
  BY <1>4, <1>5

LEMMA LapseKeeps ==
    ASSUME IInv, NEW k \in Keys, Lapse(k)
    PROVE  IInv'
<1>1. TypeOK'
  BY RemoteAssumption, AbsentAssumption
     DEF Lapse, Gone, IInv, TypeOK, Waits, Idle, Items, Counters, Live
<1>2. Moves
  BY AbsentAssumption DEF Lapse, Gone, Moves, IInv, TypeOK, Live, Items, Counters
<1>3. NoIncrementIsUndone'
  BY <1>1, AbsentAssumption
     DEF Lapse, Gone, IInv, TypeOK, NoIncrementIsUndone, Starts, Live, InFlight, Seen
<1>4. OnlyTheEndlessStay'
  BY <1>1, RemoteAssumption
     DEF Lapse, Gone, IInv, TypeOK, OnlyTheEndlessStay, Live, Idle
<1>5. DeletedIsGone'
  BY <1>1 DEF Lapse, Gone, IInv, TypeOK, DeletedIsGone, Live, InFlight, Erasing
<1>6. Starts'
  BY <1>1, AbsentAssumption DEF Lapse, Gone, IInv, TypeOK, Starts, Live, Items, Counters
<1>7. InFlight'
  BY <1>2, Waiting DEF Lapse, InFlight
<1>8. Lifetimes'
  BY <1>1, RemoteAssumption DEF Lapse, Gone, IInv, TypeOK, Lifetimes, Live
<1> QED
  BY <1>1, <1>2, <1>3, <1>4, <1>5, <1>6, <1>7, <1>8, VersionsMove DEF IInv

LEMMA TickKeeps ==
    ASSUME IInv, Tick
    PROVE  IInv'
<1>1. TypeOK'
  BY RemoteAssumption, AbsentAssumption
     DEF Tick, Gone, IInv, TypeOK, Waits, Idle, Items, Counters, Live
<1>2. Moves
  BY AbsentAssumption DEF Tick, Gone, Moves, IInv, TypeOK, Live, Items, Counters
<1>3. NoIncrementIsUndone'
  BY <1>1, AbsentAssumption
     DEF Tick, Gone, IInv, TypeOK, NoIncrementIsUndone, Starts, Live, InFlight, Seen
<1>4. OnlyTheEndlessStay'
  BY <1>1, RemoteAssumption
     DEF Tick, Gone, IInv, TypeOK, OnlyTheEndlessStay, Live, Idle
<1>5. DeletedIsGone'
  BY <1>1 DEF Tick, Gone, IInv, TypeOK, DeletedIsGone, Live, InFlight, Erasing
<1>6. Starts'
  BY <1>1, AbsentAssumption DEF Tick, Gone, IInv, TypeOK, Starts, Live, Items, Counters
<1>7. InFlight'
  BY <1>2, Waiting DEF Tick, InFlight
<1>8. Lifetimes'
  BY <1>1, RemoteAssumption DEF Tick, Gone, IInv, TypeOK, Lifetimes, Live
<1> QED
  BY <1>1, <1>2, <1>3, <1>4, <1>5, <1>6, <1>7, <1>8, VersionsMove DEF IInv
-----------------------------------------------------------------------------
LEMMA StepKeeps == IInv /\ [Next]_vars => IInv'
<1> SUFFICES ASSUME IInv, [Next]_vars PROVE IInv'
  OBVIOUS
<1>1. CASE UNCHANGED vars
  BY <1>1 DEF vars, IInv, TypeOK, NoIncrementIsUndone, OnlyTheEndlessStay, DeletedIsGone,
     Versions, Starts, InFlight, Seen, Erasing, Lifetimes, Live
<1> QED
  BY <1>1, SetKeeps, IncrByKeeps, ReadKeeps, DelAtOnceKeeps, DelEachKeeps,
     DeletedKeeps, ExpireKeeps, CommitKeeps, LapseKeeps, TickKeeps DEF Next

\* The invariant holds in every behaviour.
THEOREM Invariant == Spec => []IInv
  BY InitHolds, StepKeeps, PTL DEF Spec

\* Whatever the callers do, the database holds what the stores write.
THEOREM TypeCorrect == Spec => []TypeOK
<1>1. IInv => TypeOK
  BY DEF IInv
<1> QED
  BY <1>1, Invariant, PTL

\* The check of the commit and the atomicity of INCRBY suffice: no increment
\* undoes another write, for any number of callers.
THEOREM IncrementsCorrect == Spec => []NoIncrementIsUndone
<1>1. IInv => NoIncrementIsUndone
  BY DEF IInv
<1> QED
  BY <1>1, Invariant, PTL

\* Only who asks for it, or whose EXPIRE fails, leaves a key behind for ever.
THEOREM LifetimesCorrect == Spec => []OnlyTheEndlessStay
<1>1. IInv => OnlyTheEndlessStay
  BY DEF IInv
<1> QED
  BY <1>1, Invariant, PTL

\* What was there before a del that has returned is not there after it.
THEOREM DeletesCorrect == Spec => []DeletedIsGone
<1>1. IInv => DeletedIsGone
  BY DEF IInv
<1> QED
  BY <1>1, Invariant, PTL
-----------------------------------------------------------------------------
(* StoreBase.cache over the stores. *)

\* A computation under way is as fresh as each del of its key, or overtaken.
Fresh(c) ==
    Filling(c) =>
        /\ filling[c].since <= writes
        /\ filling[c].since >= erased[filling[c].key] \/ filling[c].overtaken
        /\ \A d \in Callers :
              call[d].at = "delete" /\ filling[c].key \in call[d].all =>
                  filling[c].since >= call[d].from \/ filling[c].overtaken

\* What is there again although a del under way has deleted it is fresh, too.
Refilled(d) ==
    call[d].at = "delete" =>
        \A k \in call[d].all \ call[d].left :
            Live(k) => basis[k] >= call[d].from \/ k \in crossed

CInv ==
    /\ IInv /\ CacheTypeOK /\ CachedIsFresh
    /\ \A c \in Cachers : Fresh(c)
    /\ \A d \in Callers : Refilled(d)

LEMMA CacheInitHolds == CacheInit => CInv
<1> SUFFICES ASSUME CacheInit PROVE CInv
  OBVIOUS
<1>1. IInv
  BY InitHolds DEF CacheInit
<1> QED
  BY <1>1, CacheAssumption DEF CacheInit, Init, Empty, IInv, CInv, CacheTypeOK, CachedIsFresh, Fresh,
     Refilled, Filling, NotFilling, Idle, Live

\* What a computation under way is made of.
LEMMA Fields ==
    ASSUME CacheTypeOK, NEW c \in Cachers, Filling(c)
    PROVE  /\ filling[c] \in Fillings
           /\ filling[c].key \in Keys /\ filling[c].since \in Nat
           /\ filling[c].overtaken \in BOOLEAN
<1>1. filling[c] \in Fillings
  BY DEF CacheTypeOK, Filling, NotFilling
<1> QED
  BY <1>1 DEF Fillings

\* Each step of the callers of cache is a step of the stores, or none.
LEMMA StoreStep ==
    ASSUME CacheTypeOK, CacheNext
    PROVE  [Next]_vars
<1>1. CASE \E c \in Cachers, k \in Keys : Lookup(c, k)
  BY <1>1 DEF Lookup
<1>2. CASE \E c \in Cachers, ttl \in Ttls : Fill(c, ttl)
  <2>1. PICK c \in Cachers, ttl \in Ttls : Fill(c, ttl)
    BY <1>2
  <2>2. Filling(c) /\ Set(c, filling[c].key, ttl)
    BY <2>1 DEF Fill
  <2> QED
    BY <2>2, Fields, CacheAssumption DEF Next
<1>3. CASE \E c \in Others, k \in Keys, ttl \in Ttls : SetOutright(c, k, ttl)
  BY <1>3 DEF SetOutright, Next, Others
<1>4. CASE \E c \in Others, K \in SUBSET Keys \ {{}} : Delete(c, K)
  BY <1>4 DEF Delete, Next, Others
<1>5. CASE \E c \in Others : Increment(c)
  BY <1>5 DEF Increment, Next, Others
<1>6. CASE \E c \in Cachers : GiveUp(c)
  BY <1>6 DEF GiveUp
<1>7. CASE Vanish
  BY <1>7 DEF Vanish, Next
<1> QED
  BY <1>1, <1>2, <1>3, <1>4, <1>5, <1>6, <1>7 DEF CacheNext

\* A call that writes leaves alone what dels have done and will do.
LEMMA WriteBeside ==
    ASSUME IInv, IInv', NEW c \in Callers, UNCHANGED erased,
           writes' \in {writes, writes + 1},
           \A d \in Callers \ {c} : call'[d] = call[d],
           call'[c].at # "delete"
    PROVE  /\ \A k \in Keys : erased'[k] = erased[k] /\ erased[k] <= writes
           /\ \A d \in Callers : call'[d].at = "delete" =>
                 call'[d] = call[d] /\ call[d].from \in Nat /\ call[d].from <= writes
           /\ writes \in Nat /\ writes <= writes'
<1>1. writes \in Nat /\ erased \in [Keys -> 0 .. writes]
  BY DEF IInv, TypeOK
<1>2. \A d \in Callers : call'[d].at = "delete" =>
         call'[d] = call[d] /\ call[d].from \in Nat /\ call[d].from <= writes
  BY DEF IInv, TypeOK, InFlight, Erasing, Waits, Idle
<1> QED
  BY <1>1, <1>2

LEMMA LookupKeeps ==
    ASSUME CInv, IInv', NEW c \in Cachers, NEW k \in Keys, Lookup(c, k)
    PROVE  CInv'
<1>1. UNCHANGED <<vars, basis, crossed>> /\ writes \in Nat
  BY DEF Lookup, CInv, IInv, TypeOK
<1>2. /\ filling' \in [Cachers -> {NotFilling} \cup Fillings]
      /\ filling'[c] = [on |-> TRUE, key |-> k, since |-> writes, overtaken |-> FALSE]
      /\ \A d \in Cachers \ {c} : filling'[d] = filling[d]
  BY <1>1 DEF Lookup, CInv, CacheTypeOK, Fillings
<1>3. CacheTypeOK'
  BY <1>1, <1>2 DEF CInv, CacheTypeOK, IInv
<1>4. \A d \in Callers : call[d].at = "delete" => call[d].from \in Nat /\ call[d].from <= writes
  BY DEF CInv, IInv, TypeOK, InFlight, Erasing, Waits, Idle
<1>5. erased[k] <= writes
  BY DEF CInv, IInv, TypeOK
<1>6. \A d \in Cachers : Fresh(d)'
  BY <1>1, <1>2, <1>4, <1>5 DEF CInv, Fresh, Filling, vars, history
<1> QED
  BY <1>1, <1>3, <1>6 DEF CInv, CachedIsFresh, Refilled, Live, vars, history

LEMMA GiveUpKeeps ==
    ASSUME CInv, IInv', NEW c \in Cachers, GiveUp(c)
    PROVE  CInv'
<1>1. UNCHANGED <<vars, basis, crossed>>
  BY DEF GiveUp
<1>2. /\ filling' \in [Cachers -> {NotFilling} \cup Fillings]
      /\ filling'[c] = NotFilling
      /\ \A d \in Cachers \ {c} : filling'[d] = filling[d]
  BY DEF GiveUp, CInv, CacheTypeOK
<1>3. CacheTypeOK'
  BY <1>1, <1>2 DEF CInv, CacheTypeOK, IInv
<1>4. \A d \in Cachers : Fresh(d)'
  BY <1>1, <1>2 DEF CInv, Fresh, Filling, NotFilling, vars, history
<1> QED
  BY <1>1, <1>3, <1>4 DEF CInv, CachedIsFresh, Refilled, Live, vars, history

\* The value that is set was computed after the last del began, or was overtaken.
LEMMA FillKeeps ==
    ASSUME CInv, IInv', NEW c \in Cachers, NEW ttl \in Ttls, Fill(c, ttl)
    PROVE  CInv'
<1>1. PICK k \in Keys : k = filling[c].key
  BY Fields DEF Fill, CInv
<1>2. /\ filling[c].since \in Nat /\ filling[c].overtaken \in BOOLEAN
      /\ c \in Callers
  BY Fields, CacheAssumption DEF Fill, CInv
<1>3. /\ Set(c, k, ttl) /\ Filling(c)
      /\ basis' = [basis EXCEPT ![k] = filling[c].since]
      /\ crossed' = IF filling[c].overtaken THEN crossed \cup {k} ELSE crossed \ {k}
      /\ filling' = [filling EXCEPT ![c] = NotFilling]
  BY <1>1 DEF Fill
<1>4. /\ call' = [call EXCEPT ![c] = Idle] /\ writes' = writes + 1 /\ UNCHANGED erased
      /\ \A j \in Keys \ {k} : entry'[j] = entry[j]
  BY <1>3 DEF Set, Begin, Write, CInv, IInv, TypeOK
<1>5. \A d \in Callers \ {c} : call'[d] = call[d]
  BY <1>4 DEF CInv, IInv, TypeOK
<1>6. call'[c].at # "delete"
  BY <1>2, <1>4 DEF CInv, IInv, TypeOK, Idle
<1>7. /\ \A j \in Keys : erased'[j] = erased[j] /\ erased[j] <= writes
      /\ \A d \in Callers : call'[d].at = "delete" =>
            call'[d] = call[d] /\ call[d].from \in Nat /\ call[d].from <= writes
      /\ writes \in Nat /\ writes <= writes'
  BY <1>2, <1>4, <1>5, <1>6, WriteBeside DEF CInv
<1>8. /\ basis'[k] = filling[c].since /\ \A j \in Keys \ {k} : basis'[j] = basis[j]
      /\ filling'[c] = NotFilling /\ \A d \in Cachers \ {c} : filling'[d] = filling[d]
      /\ k \in crossed' <=> filling[c].overtaken
      /\ \A j \in Keys \ {k} : j \in crossed' <=> j \in crossed
  BY <1>3 DEF CInv, CacheTypeOK
<1>9. CacheTypeOK'
  BY <1>2, <1>3 DEF CInv, CacheTypeOK, IInv
<1>10. Fresh(c)
  BY DEF CInv
<1>11. CachedIsFresh'
  BY <1>1, <1>3, <1>4, <1>7, <1>8, <1>10 DEF CInv, CachedIsFresh, Live, Fresh
<1>12. \A d \in Cachers : Fresh(d)'
  <2> SUFFICES ASSUME NEW d \in Cachers \ {c} PROVE Fresh(d)'
    BY <1>8 DEF Fresh, Filling, NotFilling
  <2>1. Filling(d) => filling[d].key \in Keys /\ filling[d].since \in Nat
    BY Fields DEF CInv
  <2>2. filling'[d] = filling[d] /\ (Filling(d)' <=> Filling(d)) /\ Fresh(d)
    BY <1>8 DEF CInv, Filling
  <2>3. Filling(d) => filling[d].since <= writes'
    BY <1>4, <1>7, <2>1, <2>2 DEF Fresh
  <2>4. Filling(d) => erased'[filling[d].key] = erased[filling[d].key]
    BY <1>7, <2>1
  <2> QED
    BY <1>7, <2>1, <2>2, <2>3, <2>4 DEF Fresh
<1>13. \A d \in Callers : Refilled(d)'
  <2> SUFFICES ASSUME NEW d \in Callers, call'[d].at = "delete",
                      NEW j \in call[d].all \ call[d].left, Live(j)'
               PROVE  basis'[j] >= call[d].from \/ j \in crossed'
    BY <1>7 DEF Refilled
  <2>1. call'[d] = call[d] /\ call[d].all \subseteq Keys
    BY <1>7 DEF CInv, IInv, TypeOK, Waits, Idle
  <2>2. CASE j = k
    BY <1>1, <1>3, <1>7, <1>8, <1>10, <2>1, <2>2 DEF Fresh
  <2>3. CASE j # k
    BY <1>4, <1>7, <1>8, <2>1, <2>3 DEF CInv, Refilled, Live
  <2> QED
    BY <2>2, <2>3
<1> QED
  BY <1>9, <1>11, <1>12, <1>13 DEF CInv

\* Calls that write a value of their own.
LEMMA OwnWrite ==
    ASSUME CInv, IInv', NEW c \in Callers, UNCHANGED <<filling, erased>>,
           writes' \in {writes, writes + 1},
           \A d \in Callers \ {c} : call'[d] = call[d],
           call'[c].at # "delete",
           basis' \in [Keys -> Nat], crossed' \subseteq Keys,
           \A k \in Keys : Live(k)' =>
               \/ basis'[k] = writes'
               \/ Live(k) /\ basis'[k] = basis[k] /\ (k \in crossed => k \in crossed')
    PROVE  CInv'
<1>1. /\ \A k \in Keys : erased'[k] = erased[k] /\ erased[k] <= writes /\ erased[k] \in Nat
      /\ \A d \in Callers : call'[d].at = "delete" =>
            call'[d] = call[d] /\ call[d].from \in Nat /\ call[d].from <= writes
      /\ writes \in Nat /\ writes' \in Nat /\ writes <= writes'
  BY WriteBeside DEF CInv, IInv, TypeOK
<1>2. CacheTypeOK'
  BY DEF CInv, CacheTypeOK, IInv
<1>3. CachedIsFresh'
  BY <1>1 DEF CInv, CachedIsFresh
<1>4. ASSUME NEW d \in Cachers PROVE Fresh(d)'
  <2>1. Filling(d) => filling[d].key \in Keys /\ filling[d].since \in Nat
    BY Fields DEF CInv
  <2> QED
    BY <2>1, <1>1 DEF CInv, Fresh, Filling
<1>5. ASSUME NEW d \in Callers PROVE Refilled(d)'
  <2> SUFFICES ASSUME call'[d].at = "delete",
                      NEW k \in call[d].all \ call[d].left, Live(k)'
               PROVE  basis'[k] >= call[d].from \/ k \in crossed'
    BY <1>1 DEF Refilled
  <2>1. call'[d] = call[d] /\ call[d].all \subseteq Keys /\ call[d].at = "delete"
    BY <1>1 DEF CInv, IInv, TypeOK, Waits, Idle
  <2>2. Refilled(d)
    BY DEF CInv
  <2> QED
    BY <1>1, <2>1, <2>2 DEF Refilled
<1> QED
  BY <1>2, <1>3, <1>4, <1>5 DEF CInv

LEMMA SetOutrightKeeps ==
    ASSUME CInv, IInv', NEW c \in Callers, NEW k \in Keys, NEW ttl \in Ttls,
           SetOutright(c, k, ttl)
    PROVE  CInv'
<1>1. /\ writes' = writes + 1 /\ UNCHANGED <<filling, erased>>
      /\ call' = [call EXCEPT ![c] = Idle]
      /\ \A j \in Keys \ {k} : entry'[j] = entry[j]
      /\ basis' = [basis EXCEPT ![k] = writes'] /\ crossed' = crossed \ {k}
  BY DEF SetOutright, Set, Begin, Write, CInv, IInv, TypeOK
<1>2. /\ \A d \in Callers \ {c} : call'[d] = call[d]
      /\ call'[c].at # "delete"
  BY <1>1 DEF CInv, IInv, TypeOK, Idle
<1>3. /\ basis' \in [Keys -> Nat] /\ crossed' \subseteq Keys
      /\ basis'[k] = writes' /\ \A j \in Keys \ {k} : basis'[j] = basis[j]
  BY <1>1 DEF CInv, CacheTypeOK, IInv, TypeOK
<1>4. \A j \in Keys : Live(j)' =>
         \/ basis'[j] = writes'
         \/ Live(j) /\ basis'[j] = basis[j] /\ (j \in crossed => j \in crossed')
  BY <1>1, <1>3 DEF Live
<1> QED
  BY <1>1, <1>2, <1>3, <1>4, OwnWrite

LEMMA IncrementKeeps ==
    ASSUME CInv, IInv', NEW c \in Callers, Increment(c)
    PROVE  CInv'
<1> DEFINE new == {k \in Keys : ~Live(k) /\ Live(k)'}
<1>1. /\ basis' = [k \in Keys |-> IF k \in new THEN writes' ELSE basis[k]]
      /\ crossed' = crossed \ new /\ UNCHANGED filling
  BY DEF Increment
<1>2. /\ UNCHANGED erased /\ writes' \in {writes, writes + 1}
      /\ \A d \in Callers \ {c} : call'[d] = call[d]
      /\ call'[c].at # "delete"
  <2>1. CASE \E k \in Keys, ttl \in Ttls : IncrBy(c, k, ttl)
    BY <2>1 DEF IncrBy, Begin, Write, CInv, IInv, TypeOK, Idle
  <2>2. CASE \E k \in Keys, ttl \in Ttls : Read(c, k, ttl)
    BY <2>2 DEF Read, Begin, history, CInv, IInv, TypeOK
  <2>3. CASE Expire(c)
    BY <2>3 DEF Expire, Prolong, FailToProlong, history, Return, CInv, IInv, TypeOK, Idle
  <2>4. CASE Commit(c)
    BY <2>4 DEF Commit, Return, Write, CInv, IInv, TypeOK, Idle
  <2> QED
    BY <2>1, <2>2, <2>3, <2>4 DEF Increment
<1>3. /\ basis' \in [Keys -> Nat] /\ crossed' \subseteq Keys
  BY <1>1 DEF CInv, CacheTypeOK, IInv, TypeOK
<1>4. \A k \in Keys : Live(k)' =>
         \/ basis'[k] = writes'
         \/ Live(k) /\ basis'[k] = basis[k] /\ (k \in crossed => k \in crossed')
  BY <1>1
<1> QED
  BY <1>1, <1>2, <1>3, <1>4, OwnWrite

LEMMA DeleteKeeps ==
    ASSUME CInv, IInv', NEW c \in Callers, NEW K \in SUBSET Keys \ {{}}, Delete(c, K)
    PROVE  CInv'
<1>1. /\ UNCHANGED writes /\ writes \in Nat
      /\ \A k \in Keys : Live(k)' => Live(k)
      /\ \A d \in Callers \ {c} : call'[d] = call[d]
      /\ \A k \in Keys : erased'[k] = erased[k] \/ (k \in K /\ erased'[k] = writes)
      /\ \A k \in Keys : erased'[k] # erased[k] => ~Live(k)'
      /\ call'[c].at = "delete" => /\ call'[c].from = writes
                                   /\ call'[c].all = K /\ call'[c].left = K
  <2>1. CASE DelAtOnce(c, K)
    BY <2>1 DEF DelAtOnce, Begin, Gone, Live, CInv, IInv, TypeOK, Idle
  <2>2. CASE DelEach(c, K)
    BY <2>2 DEF DelEach, Begin, Live, history, CInv, IInv, TypeOK
  <2> QED
    BY <2>1, <2>2 DEF Delete
<1>2. /\ filling' = [d \in Cachers |->
           IF Filling(d) /\ filling[d].key \in K
           THEN [filling[d] EXCEPT !.overtaken = TRUE] ELSE filling[d]]
      /\ basis' = [k \in Keys |-> IF Live(k)' THEN basis[k] ELSE 0]
      /\ crossed' = {k \in crossed : Live(k)'}
  BY DEF Delete, Forgotten
<1>3. ASSUME NEW d \in Cachers
      PROVE  /\ filling'[d] \in {NotFilling} \cup Fillings
             /\ Filling(d)' <=> Filling(d)
             /\ Filling(d) => /\ filling'[d].key = filling[d].key
                              /\ filling'[d].since = filling[d].since
                              /\ filling[d].overtaken => filling'[d].overtaken
                              /\ filling[d].key \in K => filling'[d].overtaken
  <2>1. CASE Filling(d)
    <3>1. filling[d] \in Fillings
      BY <2>1, Fields DEF CInv
    <3> QED
      BY <1>2, <2>1, <3>1 DEF Fillings, Filling
  <2>2. CASE ~Filling(d)
    BY <1>2, <2>2 DEF Filling, CInv, CacheTypeOK
  <2> QED
    BY <2>1, <2>2
<1>4. CacheTypeOK'
  BY <1>2, <1>3 DEF CInv, CacheTypeOK, IInv
<1>5. CachedIsFresh'
  BY <1>1, <1>2 DEF CInv, CachedIsFresh
<1>6. ASSUME NEW d \in Cachers PROVE Fresh(d)'
  <2> SUFFICES ASSUME Filling(d), ~filling'[d].overtaken
               PROVE  Fresh(d)'
    <3>1. Filling(d) => filling[d].since <= writes
      BY DEF CInv, Fresh
    <3> QED
      BY <1>1, <1>3, <3>1 DEF Fresh
  <2>1. /\ filling[d].key \in Keys \ K /\ filling[d].since \in Nat
        /\ ~filling[d].overtaken /\ Fresh(d)
    BY <1>3, Fields DEF CInv
  <2> QED
    BY <1>1, <1>3, <2>1 DEF Fresh
<1>7. ASSUME NEW d \in Callers PROVE Refilled(d)'
  <2>1. CASE d = c
    BY <1>1, <2>1 DEF Refilled
  <2>2. CASE d # c
    <3>1. call'[d] = call[d] /\ (call[d].at = "delete" => call[d].all \subseteq Keys)
      BY <1>1, <2>2 DEF CInv, IInv, TypeOK, Waits, Idle
    <3> QED
      BY <1>1, <1>2, <3>1 DEF CInv, Refilled
  <2> QED
    BY <2>1, <2>2
<1> QED
  BY <1>4, <1>5, <1>6, <1>7 DEF CInv

LEMMA VanishKeeps ==
    ASSUME CInv, IInv', Vanish
    PROVE  CInv'
<1>1. /\ basis' = [k \in Keys |-> IF Live(k)' THEN basis[k] ELSE 0]
      /\ crossed' = {k \in crossed : Live(k)'}
      /\ UNCHANGED filling
  BY DEF Vanish, Forgotten
<1>2. CacheTypeOK'
  BY <1>1 DEF CInv, CacheTypeOK, IInv
<1>3. CASE Tick \/ \E k \in Keys : Lapse(k)
  <2>1. /\ UNCHANGED <<writes, call, erased>>
        /\ \A k \in Keys : Live(k)' => Live(k)
    BY <1>3 DEF Tick, Lapse, Gone, Live
  <2>2. \A d \in Callers : call[d].at = "delete" => call[d].all \subseteq Keys
    BY DEF CInv, IInv, TypeOK, Waits, Idle
  <2>3. \A c \in Cachers : Fresh(c)'
    BY <1>1, <2>1 DEF CInv, Fresh, Filling
  <2> QED
    BY <1>1, <1>2, <2>1, <2>2, <2>3 DEF CInv, CachedIsFresh, Refilled
<1>4. ASSUME NEW c \in Callers, Deleted(c) PROVE CInv'
  <2>1. PICK k \in call[c].left :
          /\ Gone({k})
          /\ \/ /\ call[c].left = {k} /\ call' = [call EXCEPT ![c] = Idle]
                /\ erased' = [j \in Keys |-> IF j \in call[c].all
                                              THEN call[c].from ELSE erased[j]]
             \/ /\ call' = [call EXCEPT ![c].left = @ \ {k}]
                /\ UNCHANGED erased
    BY <1>4 DEF Deleted, Return
  <2>2. /\ UNCHANGED writes /\ call[c].at = "delete"
        /\ call[c] \in [at : {"delete"}, from : Nat, all : SUBSET Keys,
                        left : SUBSET Keys \ {{}}]
    BY <1>4 DEF Deleted, CInv, IInv, TypeOK, Waits, Idle
  <2>3. /\ \A j \in Keys : Live(j)' => Live(j) /\ j # k
        /\ \A d \in Callers \ {c} : call'[d] = call[d]
    BY <2>1 DEF Gone, Live, CInv, IInv, TypeOK
  <2>4. /\ call'[c].at = "delete" =>
             /\ call'[c].from = call[c].from /\ call'[c].all = call[c].all
             /\ call'[c].left = call[c].left \ {k}
        /\ \A j \in Keys :
             \/ erased'[j] = erased[j]
             \/ j \in call[c].all /\ erased'[j] = call[c].from /\ call[c].left = {k}
    BY <2>1, <2>2 DEF CInv, IInv, TypeOK, Idle
  <2>5. CachedIsFresh'
    BY <1>1, <2>2, <2>3, <2>4 DEF CInv, CachedIsFresh, Refilled
  <2>6. ASSUME NEW d \in Cachers PROVE Fresh(d)'
    <3> SUFFICES ASSUME Filling(d) PROVE Fresh(d)'
      BY <1>1 DEF Fresh, Filling
    <3>1. Fresh(d) /\ filling[d].key \in Keys /\ filling[d].since \in Nat
      BY Fields DEF CInv
    <3>2. \A e \in Callers : call'[e].at = "delete" =>
             call[e].at = "delete" /\ call'[e].all = call[e].all /\ call'[e].from = call[e].from
      BY <2>2, <2>3, <2>4
    <3> QED
      BY <1>1, <2>2, <2>4, <3>1, <3>2 DEF Fresh, Filling
  <2>7. ASSUME NEW d \in Callers PROVE Refilled(d)'
    <3>1. CASE d = c
      BY <1>1, <2>2, <2>3, <2>4, <3>1 DEF CInv, Refilled
    <3>2. CASE d # c
      <4>1. call'[d] = call[d] /\ (call[d].at = "delete" => call[d].all \subseteq Keys)
        BY <2>3, <3>2 DEF CInv, IInv, TypeOK, Waits, Idle
      <4> QED
        BY <1>1, <2>3, <4>1 DEF CInv, Refilled
    <3> QED
      BY <3>1, <3>2
  <2> QED
    BY <1>2, <2>5, <2>6, <2>7 DEF CInv
<1> QED
  BY <1>3, <1>4 DEF Vanish

LEMMA CacheStepKeeps == CInv /\ [CacheNext]_allVars => CInv'
<1> SUFFICES ASSUME CInv, [CacheNext]_allVars PROVE CInv'
  OBVIOUS
<1>1. CASE UNCHANGED allVars
  <2>1. UNCHANGED vars
    BY <1>1 DEF allVars
  <2>2. IInv'
    BY <2>1, StepKeeps DEF CInv
  <2> QED
    BY <1>1, <2>2 DEF allVars, cacheVars, vars, history, CInv, IInv, CacheTypeOK, CachedIsFresh, Fresh, Refilled,
       Filling, Live
<1>2. CASE CacheNext
  <2>1. IInv'
    BY <1>2, StoreStep, StepKeeps DEF CInv
  <2> QED
    BY <1>2, <2>1, LookupKeeps, FillKeeps, GiveUpKeeps, SetOutrightKeeps, IncrementKeeps,
       DeleteKeeps, VanishKeeps DEF CacheNext, Others
<1> QED
  BY <1>1, <1>2

THEOREM CacheInvariant == CacheSpec => []CInv
  BY CacheInitHolds, CacheStepKeeps, PTL DEF CacheSpec

\* cache does nothing to the stores that set does not: each behaviour with
\* callers of cache is one of RemoteStores, and its theorems hold.
THEOREM CacheKeepsStores == CacheSpec => Spec
<1>1. CacheInit => Init
  BY DEF CacheInit
<1>2. CInv /\ [CacheNext]_allVars => [Next]_vars
  BY StoreStep DEF CInv, allVars
<1> QED
  BY <1>1, <1>2, CacheInvariant, PTL DEF CacheSpec, Spec

\* With callers of cache among the others the database still holds what the
\* stores write, and a computation is of one key.
THEOREM CacheTypeCorrect == CacheSpec => []CacheTypeOK
<1>1. CInv => CacheTypeOK
  BY DEF CInv
<1> QED
  BY <1>1, CacheInvariant, PTL

\* However many callers compute, set and delete, only a value whose computation
\* a del has overtaken outlives the del.
THEOREM CacheCorrect == CacheSpec => []CachedIsFresh
<1>1. CInv => CachedIsFresh
  BY DEF CInv
<1> QED
  BY <1>1, CacheInvariant, PTL
=============================================================================
