------------------------- MODULE RateLimiterProofs -------------------------
(***************************************************************************)
(* For any requests, addresses, limits and windows, over each of the three *)
(* stores: the types of the limiter, that no window admits too many, that  *)
(* the remainder is exact, that waiting for the reset suffices, and that   *)
(* the limiter keeps to what the stores allow their callers.               *)
(***************************************************************************)
EXTENDS RateLimiter, FiniteSetTheorems, TLAPS

-----------------------------------------------------------------------------
(* What is proved about the stores, for the counters of the limiter.  No     *)
(* request uses the read-through cache.                                      *)

P == INSTANCE MapStoreProofs WITH
    Keys <- Ips, Ttls <- {WindowMs}, Increments <- {1},
    MaxValue <- Cardinality(Requests)

R == INSTANCE RemoteStoresProofs WITH
    Backends <- StoreTypes \ {"map"}, Callers <- Requests, Keys <- Ips,
    Ttls <- {WindowMs}, MaxCalls <- Cardinality(Requests),
    Cachers <- {}, filling <- {}, basis <- {}, crossed <- {}

\* The assumptions of the stores hold for the limiter's use of them.
LEMMA StoresAssumed ==
    /\ P!CacheAssumption /\ P!StoreAssumption /\ P!AbsentAssumption
    /\ R!RemoteAssumption /\ R!AbsentAssumption /\ R!CacheAssumption
    /\ Cardinality(Requests) \in Nat
PROOF
<1>1. Cardinality(Requests) \in Nat
  BY LimiterAssumption, FS_CardinalityType
<1>2. P!CacheAssumption
  BY LimiterAssumption DEF P!CacheAssumption, P!IsFiniteSet, IsFiniteSet
<1>3. P!StoreAssumption
  BY <1>1, LimiterAssumption DEF P!StoreAssumption
<1>4. P!AbsentAssumption
  BY AbsentAssumption DEF P!AbsentAssumption, P!Items, Store!Items
<1>5. R!RemoteAssumption
  BY <1>1, LimiterAssumption DEF R!RemoteAssumption
<1>6. R!AbsentAssumption
  BY AbsentAssumption DEF R!AbsentAssumption, R!Items, R!Counters, Remote!Items, Remote!Counters
<1>7. R!CacheAssumption
  BY DEF R!CacheAssumption
<1> QED
  BY <1>1, <1>2, <1>3, <1>4, <1>5, <1>6, <1>7

LEMMA SameStore ==
    /\ Store!TypeOK <=> P!TypeOK
    /\ (Store!TypeOK)' <=> (P!TypeOK)'
    /\ \A ip \in Ips : Store!Found(ip) = P!Found(ip)
    /\ \A ip \in Ips : (Store!Found(ip))' = (P!Found(ip))'
    /\ \A ip \in Ips : Store!Incr(ip, 1, WindowMs) => P!Incr(ip, 1, WindowMs)
    /\ \A ip \in Ips : Store!Timestamp(ip) => P!Timestamp(ip)
    /\ Store!Tick => P!Tick
    /\ Store!Init => P!Init
PROOF
<1>1. ASSUME NEW ip \in Ips, Store!Incr(ip, 1, WindowMs) PROVE P!Incr(ip, 1, WindowMs)
  <2>1. Store!Looked(ip) = P!Looked(ip)
    BY DEF P!Looked, Store!Looked, P!IsExpired, Store!IsExpired, P!Delete, Store!Delete,
       P!LruGet, Store!LruGet, P!Insert, Store!Insert, P!Held, Store!Held
  <2>2. Store!Counted(ip, 1) = P!Counted(ip, 1)
    BY DEF P!Counted, Store!Counted, P!Found, Store!Found, P!IsExpired, Store!IsExpired
  <2>3. \A c : Store!Evicted(c, ip) = P!Evicted(c, ip)
    BY DEF P!Evicted, Store!Evicted, P!Oldest, Store!Oldest, P!Held, Store!Held,
       P!Cardinality, Store!Cardinality
  <2>4. \A c, v : Store!LruSet(c, ip, v) = P!LruSet(c, ip, v)
    <3>1. \A c, K : Store!Delete(c, K) = P!Delete(c, K)
      BY DEF P!Delete, Store!Delete
    <3>2. \A c, v : Store!Insert(c, ip, v) = P!Insert(c, ip, v)
      BY DEF P!Insert, Store!Insert, P!Held, Store!Held
    <3> QED
      BY <2>3, <3>1, <3>2 DEF P!LruSet, Store!LruSet
  <2>5. \A c : Store!Sweep(c) = P!Sweep(c)
    BY DEF P!Sweep, Store!Sweep, P!Delete, Store!Delete, P!IsExpired, Store!IsExpired
  <2>6. \A c, v : Store!Stored(c, ip, v, WindowMs) = P!Stored(c, ip, v, WindowMs)
    BY <2>4, <2>5 DEF P!Stored, Store!Stored, P!SweepDue, Store!SweepDue, P!Item, Store!Item
  <2> QED
    BY <1>1, <2>1, <2>2, <2>6 DEF Store!Incr, P!Incr, P!Put, Store!Put, P!SweepDue,
       Store!SweepDue, P!Answer, Store!Answer, P!Use, Store!Use
<1>2. ASSUME NEW ip \in Ips, Store!Timestamp(ip) PROVE P!Timestamp(ip)
  BY <1>2 DEF Store!Timestamp, P!Timestamp, P!Looked, Store!Looked, P!Found, Store!Found,
     P!IsExpired, Store!IsExpired, P!Delete, Store!Delete, P!LruGet, Store!LruGet, P!Insert,
     Store!Insert, P!Held, Store!Held, P!Answer, Store!Answer, P!Use, Store!Use
<1>3. Store!Tick => P!Tick
  BY DEF Store!Tick, P!Tick
<1>4. Store!TypeOK <=> P!TypeOK
  BY DEF Store!TypeOK, P!TypeOK, P!IsCache, Store!IsCache, P!Items, Store!Items, P!IsOrder,
     Store!IsOrder, P!Held, Store!Held, P!Operations, Store!Operations
<1>5. (Store!TypeOK)' <=> (P!TypeOK)'
  BY DEF Store!TypeOK, P!TypeOK, P!IsCache, Store!IsCache, P!Items, Store!Items, P!IsOrder,
     Store!IsOrder, P!Held, Store!Held, P!Operations, Store!Operations
<1>6. \A ip \in Ips : Store!Found(ip) = P!Found(ip)
  BY DEF P!Found, Store!Found, P!IsExpired, Store!IsExpired
<1>7. \A ip \in Ips : (Store!Found(ip))' = (P!Found(ip))'
  BY DEF P!Found, Store!Found, P!IsExpired, Store!IsExpired
<1>8. Store!Init => P!Init
  BY DEF Store!Init, P!Init, P!EmptyCache, Store!EmptyCache
<1> QED
  BY <1>1, <1>2, <1>3, <1>4, <1>5, <1>6, <1>7, <1>8

LEMMA SameRemote ==
    /\ Remote!TypeOK <=> R!TypeOK
    /\ (Remote!TypeOK)' <=> (R!TypeOK)'
    /\ \A r \in Requests, ip \in Ips :
          Remote!IncrBy(r, ip, WindowMs) \/ Remote!Read(r, ip, WindowMs) => R!Next
    /\ \A r \in Requests :
          Remote!Prolong(r) \/ Remote!FailToProlong(r) \/ Remote!Commit(r) => R!Next
    /\ \A ip \in Ips : Remote!Lapse(ip) => R!Next
    /\ Remote!Tick => R!Next
    /\ backend # "map" /\ backend \in StoreTypes /\ Remote!Empty => R!Init
PROOF
<1>1. ASSUME NEW r \in Requests, NEW ip \in Ips, Remote!IncrBy(r, ip, WindowMs)
      PROVE  R!IncrBy(r, ip, WindowMs)
  BY <1>1 DEF Remote!IncrBy, R!IncrBy, Remote!Counter, R!Counter, Remote!Begin, R!Begin,
     Remote!Live, R!Live, Remote!Idle, R!Idle, Remote!Write, R!Write, Remote!Incremented,
     R!Incremented, Remote!CountOne, R!CountOne, Remote!Lifetime, R!Lifetime
<1>2. ASSUME NEW r \in Requests, NEW ip \in Ips, Remote!Read(r, ip, WindowMs)
      PROVE  R!Read(r, ip, WindowMs)
  BY <1>2 DEF Remote!Read, R!Read, Remote!Begin, R!Begin, Remote!Idle, R!Idle,
     Remote!history, R!history
<1>3. ASSUME NEW r \in Requests, Remote!Prolong(r) \/ Remote!FailToProlong(r)
      PROVE  R!Expire(r)
  BY <1>3 DEF Remote!Prolong, R!Prolong, Remote!FailToProlong, R!FailToProlong, R!Expire,
     Remote!Accepted, R!Accepted, Remote!Return, R!Return, Remote!Live, R!Live, Remote!Until,
     R!Until, Remote!Idle, R!Idle, Remote!history, R!history
<1>4. ASSUME NEW r \in Requests, Remote!Commit(r) PROVE R!Commit(r)
  BY <1>4 DEF Remote!Commit, R!Commit, Remote!Return, R!Return, Remote!Idle, R!Idle,
     Remote!Unchanged, R!Unchanged, Remote!Live, R!Live, Remote!Write, R!Write,
     Remote!NewValue, R!NewValue, Remote!Until, R!Until, Remote!CountOne, R!CountOne,
     Remote!Lifetime, R!Lifetime
<1>5. ASSUME NEW ip \in Ips, Remote!Lapse(ip) PROVE R!Lapse(ip)
  BY <1>5 DEF Remote!Lapse, R!Lapse, Remote!Over, R!Over, Remote!Live, R!Live, Remote!Gone, R!Gone
<1>6. Remote!Tick => R!Tick
  BY DEF Remote!Tick, R!Tick, Remote!Over, R!Over, Remote!Live, R!Live, Remote!Gone, R!Gone
<1>7. Remote!TypeOK <=> R!TypeOK
  BY DEF Remote!TypeOK, R!TypeOK, Remote!Items, R!Items, Remote!Counters, R!Counters,
     Remote!Waits, R!Waits, Remote!Idle, R!Idle
<1>8. (Remote!TypeOK)' <=> (R!TypeOK)'
  BY DEF Remote!TypeOK, R!TypeOK, Remote!Items, R!Items, Remote!Counters, R!Counters,
     Remote!Waits, R!Waits, Remote!Idle, R!Idle
<1>9. backend # "map" /\ backend \in StoreTypes /\ Remote!Empty => R!Init
  BY DEF Remote!Empty, R!Init, R!Empty, Remote!Idle, R!Idle
<1> QED
  BY <1>1, <1>2, <1>3, <1>4, <1>5, <1>6, <1>7, <1>8, <1>9 DEF R!Next

-----------------------------------------------------------------------------
(* The map store as the limiter sees it.                                     *)

\* A counter that is found is a number, and its window is not over.
LEMMA MapFound ==
    ASSUME Store!TypeOK, P!DisabledIsEmpty, NEW ip \in Ips
    PROVE  /\ now \in 0..MaxNow /\ MaxNow \in Nat
           /\ setDisabled => Store!Found(ip) = Absent
           /\ Store!Found(ip) # Absent =>
                 /\ Store!Found(ip).value \in 0..Cardinality(Requests)
                 /\ Store!Found(ip).timestamp \in Nat
                 /\ now < Store!Found(ip).timestamp + WindowMs
PROOF
<1>1. P!TypeOK /\ Store!Found(ip) = P!Found(ip)
  BY SameStore
<1>2. /\ P!Found(ip) \in P!Items \cup {Absent}
      /\ ~P!IsExpired(P!Found(ip), now)
      /\ setDisabled => P!Found(ip) = Absent
  BY <1>1, StoresAssumed, P!FoundType
<1>3. now \in 0..MaxNow /\ MaxNow \in Nat
  BY <1>1, LimiterAssumption DEF P!TypeOK
<1>4. ASSUME P!Found(ip) # Absent
      PROVE  /\ P!Found(ip).value \in 0..Cardinality(Requests)
             /\ P!Found(ip).timestamp \in 0..MaxNow
             /\ P!Found(ip).expiresInMs = WindowMs
  BY <1>2, <1>4 DEF P!Items
<1>5. WindowMs \in Nat /\ WindowMs # NoExpiry
  BY LimiterAssumption
<1>6. ASSUME P!Found(ip) # Absent PROVE now < P!Found(ip).timestamp + WindowMs
  BY <1>2, <1>3, <1>4, <1>5, <1>6 DEF P!IsExpired
<1> QED
  BY <1>1, <1>2, <1>3, <1>4, <1>6

\* What incr does to the counters.
LEMMA MapIncr ==
    ASSUME Store!TypeOK, P!DisabledIsEmpty, NEW ip \in Ips, Store!Incr(ip, 1, WindowMs)
    PROVE  /\ Store!TypeOK' /\ P!DisabledIsEmpty'
           /\ now' = now /\ setDisabled' = setDisabled
           /\ reply'.value =
                 (IF Store!Found(ip) = Absent THEN 0 ELSE Store!Found(ip).value) + 1
           /\ reply'.value \in 0..Cardinality(Requests)
           /\ setDisabled => \A j \in Ips : Store!Found(j)' = Absent
           /\ ~setDisabled =>
                 /\ Store!Found(ip)' # Absent
                 /\ Store!Found(ip)'.value = reply'.value
                 /\ Store!Found(ip)'.timestamp = now
           /\ \A j \in Ips \ {ip} :
                 \/ Store!Found(j)' = Store!Found(j)
                 \/ Store!Found(j)' = Absent /\ cache'.items[j] = Absent
PROOF
<1> DEFINE item == P!Item(P!Counted(ip, 1), WindowMs)
<1>1. P!TypeOK /\ P!Incr(ip, 1, WindowMs)
  BY SameStore
<1>2. /\ P!TypeOK' /\ P!DisabledIsEmpty'
      /\ now' = now /\ setDisabled' = setDisabled
      /\ reply'.value = P!Counted(ip, 1)
      /\ P!Counted(ip, 1) \in 0..Cardinality(Requests)
      /\ ~setDisabled => P!Found(ip)' = IF P!IsExpired(item, now) THEN Absent ELSE item
      /\ \A j \in Ips \ {ip} :
            \/ P!Found(j)' = P!Found(j)
            \/ P!Found(j)' = Absent /\ cache'.items[j] = Absent
  BY <1>1, StoresAssumed, P!IncrEffect
<1>3. /\ item.value = P!Counted(ip, 1) /\ item.timestamp = now
      /\ item.expiresInMs = WindowMs
  BY DEF P!Item
<1>4. ~P!IsExpired(item, now)
  <2>1. now \in Nat /\ WindowMs \in Nat \ {0}
    BY <1>1, LimiterAssumption DEF P!TypeOK
  <2> QED
    BY <1>3, <2>1 DEF P!IsExpired
<1>5. item # Absent
  <2>1. item \in P!Items
    BY <1>1, <1>2, StoresAssumed DEF P!Item, P!Items, P!TypeOK
  <2> QED
    BY <2>1, StoresAssumed DEF P!AbsentAssumption
<1>6. P!Counted(ip, 1) = (IF Store!Found(ip) = Absent THEN 0 ELSE Store!Found(ip).value) + 1
  BY SameStore DEF P!Counted
<1>7. setDisabled => \A j \in Ips : P!Found(j)' = Absent
  BY <1>2 DEF P!DisabledIsEmpty, P!Held, P!Found
<1> HIDE DEF item
<1> QED
  BY <1>2, <1>3, <1>4, <1>5, <1>6, <1>7, SameStore

\* What timestamp answers.
LEMMA MapTimestamp ==
    ASSUME Store!TypeOK, P!DisabledIsEmpty, NEW ip \in Ips, Store!Timestamp(ip)
    PROVE  /\ Store!TypeOK' /\ P!DisabledIsEmpty'
           /\ now' = now /\ setDisabled' = setDisabled
           /\ reply'.value = IF Store!Found(ip) = Absent THEN Null
                             ELSE Store!Found(ip).timestamp
           /\ \A j \in Ips : Store!Found(j)' = Store!Found(j)
PROOF
<1>1. P!TypeOK /\ P!Timestamp(ip)
  BY SameStore
<1>2. /\ P!TypeOK' /\ P!DisabledIsEmpty'
      /\ now' = now /\ setDisabled' = setDisabled
      /\ reply'.value = IF P!Found(ip) = Absent THEN Null ELSE P!Found(ip).timestamp
      /\ \A j \in Ips : P!Found(j)' = P!Found(j)
  BY <1>1, StoresAssumed, P!TimestampEffect
<1> QED
  BY <1>2, SameStore

\* What time does to the counters.
LEMMA MapTick ==
    ASSUME Store!TypeOK, P!DisabledIsEmpty, Store!Tick
    PROVE  /\ Store!TypeOK' /\ P!DisabledIsEmpty'
           /\ now' = now + 1 /\ setDisabled' = setDisabled
           /\ \A j \in Ips :
                 IF Store!Found(j) # Absent /\ now + 1 < Store!Found(j).timestamp + WindowMs
                 THEN Store!Found(j)' = Store!Found(j)
                 ELSE Store!Found(j)' = Absent
PROOF
<1>1. P!TypeOK /\ P!Tick
  BY SameStore
<1>2. /\ P!TypeOK' /\ P!DisabledIsEmpty'
      /\ now' = now + 1 /\ setDisabled' = setDisabled
      /\ \A j \in Ips :
            P!Found(j)' = IF P!IsExpired(P!Found(j), now + 1) THEN Absent ELSE P!Found(j)
  BY <1>1, StoresAssumed, P!TickEffect
<1>3. ASSUME NEW j \in Ips, P!Found(j) # Absent
      PROVE  P!IsExpired(P!Found(j), now + 1) <=>
               ~(now + 1 < P!Found(j).timestamp + WindowMs)
  <2>1. P!Found(j) \in P!Items
    BY <1>1, <1>3, StoresAssumed, P!FoundType
  <2>2. P!Found(j).expiresInMs = WindowMs /\ P!Found(j).timestamp \in 0..MaxNow
    BY <2>1 DEF P!Items
  <2>3. now \in Nat /\ MaxNow \in Nat /\ WindowMs \in Nat /\ WindowMs # NoExpiry
    BY <1>1, LimiterAssumption DEF P!TypeOK
  <2> QED
    BY <1>3, <2>2, <2>3 DEF P!IsExpired
<1> QED
  BY <1>2, <1>3, SameStore

-----------------------------------------------------------------------------
(* The shared stores as the limiter sees them.                               *)

\* What a counter is made of, and the invariant of the stores after a step.
LEMMA RemoteFound ==
    ASSUME R!IInv
    PROVE  /\ Remote!TypeOK
           /\ backend \in {"redis", "deno-kv"}
           /\ now \in 0..MaxNow /\ MaxNow \in Nat
           /\ \A ip \in Ips : entry[ip] # Absent =>
                 /\ entry[ip].value \in Nat
                 /\ entry[ip].until \in Nat \cup {NoExpiry}
                 /\ entry[ip].ttl \in {WindowMs, NoExpiry}
PROOF
<1>1. R!TypeOK
  BY DEF R!IInv
<1>2. Remote!TypeOK
  BY <1>1, SameRemote
<1>3. ASSUME NEW ip \in Ips, entry[ip] # Absent
      PROVE  /\ entry[ip].value \in Nat
             /\ entry[ip].until \in Nat \cup {NoExpiry}
             /\ entry[ip].ttl \in {WindowMs, NoExpiry}
  <2>1. entry[ip] \in R!Items \cup R!Counters
    BY <1>1, <1>3 DEF R!TypeOK
  <2> QED
    BY <2>1 DEF R!Items, R!Counters
<1> QED
  BY <1>1, <1>2, <1>3, LimiterAssumption DEF R!TypeOK

LEMMA RemoteStep ==
    ASSUME R!IInv, R!Next
    PROVE  R!IInv'
  BY StoresAssumed, R!StepKeeps

LEMMA RemoteRests ==
    ASSUME R!IInv,
           UNCHANGED <<backend, now, entry, writes, call, calls, took, told, life, endless, erased>>
    PROVE  R!IInv'
  BY StoresAssumed, R!StepKeeps DEF R!vars

\* What INCRBY does.
LEMMA RedisIncr ==
    ASSUME R!IInv, NEW r \in Requests, NEW ip \in Ips, Remote!IncrBy(r, ip, WindowMs)
    PROVE  /\ R!IInv'
           /\ backend = "redis" /\ backend' = backend /\ now' = now
           /\ call' = [call EXCEPT ![r] = [at |-> "expire", key |-> ip, ttl |-> WindowMs]]
           /\ entry'[ip] # Absent /\ entry'[ip].timestamp = Null
           /\ entry'[ip].value = (IF entry[ip] = Absent THEN 0 ELSE entry[ip].value) + 1
           /\ entry'[ip].until = IF entry[ip] = Absent THEN NoExpiry ELSE entry[ip].until
           /\ \A j \in Ips \ {ip} : entry'[j] = entry[j]
PROOF
<1>1. R!IInv'
  BY SameRemote, RemoteStep
<1>2. Remote!TypeOK /\ Remote!TypeOK'
  BY <1>1, SameRemote DEF R!IInv
<1>3. WindowMs # NoExpiry
  BY LimiterAssumption
<1>4. entry' = [entry EXCEPT ![ip] = Remote!Incremented(ip)]
  BY DEF Remote!IncrBy, Remote!Write
<1>5. DOMAIN entry = Ips
  BY <1>2 DEF Remote!TypeOK
<1>6. entry'[ip] = Remote!Incremented(ip) /\ \A j \in Ips \ {ip} : entry'[j] = entry[j]
  BY <1>4, <1>5
<1>7. Remote!Incremented(ip) \in Remote!Counters
  <2>1. writes \in Nat
    BY <1>2 DEF Remote!TypeOK
  <2> QED
    BY <2>1, RemoteFound DEF Remote!Incremented, Remote!Counters, Remote!Live
<1>8. entry'[ip] # Absent
  BY <1>6, <1>7, AbsentAssumption
<1>9. call' = [call EXCEPT ![r] = [at |-> "expire", key |-> ip, ttl |-> WindowMs]]
  BY <1>3 DEF Remote!IncrBy, Remote!Begin
<1>10. /\ entry'[ip].timestamp = Null
       /\ entry'[ip].value = (IF entry[ip] = Absent THEN 0 ELSE entry[ip].value) + 1
       /\ entry'[ip].until = IF entry[ip] = Absent THEN NoExpiry ELSE entry[ip].until
  BY <1>6 DEF Remote!Incremented, Remote!Live
<1> QED
  BY <1>1, <1>6, <1>8, <1>9, <1>10 DEF Remote!IncrBy

\* What EXPIRE does, and what it does when it fails.
LEMMA RedisExpire ==
    ASSUME R!IInv, NEW r \in Requests, NEW ip \in Ips, call[r].key = ip,
           Remote!Prolong(r) \/ Remote!FailToProlong(r)
    PROVE  /\ R!IInv'
           /\ backend = "redis" /\ backend' = backend /\ now' = now
           /\ call' = [call EXCEPT ![r] = [at |-> "idle"]]
           /\ call[r].at = "expire"
           /\ Remote!FailToProlong(r) => entry' = entry
           /\ Remote!Prolong(r) /\ entry[ip] = Absent => entry' = entry
           /\ Remote!Prolong(r) /\ entry[ip] # Absent =>
                 /\ entry'[ip] # Absent
                 /\ entry'[ip].value = entry[ip].value
                 /\ entry'[ip].timestamp = entry[ip].timestamp
                 /\ entry'[ip].until = now + WindowMs
                 /\ \A j \in Ips \ {ip} : entry'[j] = entry[j]
PROOF
<1>1. R!IInv'
  BY SameRemote, RemoteStep
<1>2. Remote!TypeOK /\ Remote!TypeOK'
  BY <1>1, SameRemote DEF R!IInv
<1>3. call[r].at = "expire"
  BY DEF Remote!Prolong, Remote!FailToProlong
<1>4. backend = "redis"
  BY <1>3 DEF R!IInv, R!InFlight
<1>5. call[r].ttl = WindowMs
  BY <1>2, <1>3 DEF Remote!TypeOK, Remote!Waits, Remote!Idle
<1>6. ASSUME Remote!Prolong(r), entry[ip] # Absent
      PROVE  /\ entry'[ip] # Absent
             /\ entry'[ip].value = entry[ip].value
             /\ entry'[ip].timestamp = entry[ip].timestamp
             /\ entry'[ip].until = now + WindowMs
             /\ \A j \in Ips \ {ip} : entry'[j] = entry[j]
  <2>1. entry' = [entry EXCEPT ![ip].until = now + WindowMs]
    BY <1>5, <1>6, LimiterAssumption DEF Remote!Prolong, Remote!Live, Remote!Until
  <2>2. DOMAIN entry = Ips /\ entry[ip] \in Remote!Items \cup Remote!Counters
    BY <1>2, <1>6 DEF Remote!TypeOK
  <2>3. DOMAIN entry[ip] = {"value", "timestamp", "ttl", "until", "write"}
    BY <2>2 DEF Remote!Items, Remote!Counters
  <2>4. entry'[ip] = [entry[ip] EXCEPT !.until = now + WindowMs]
    BY <2>1, <2>2
  <2>5. entry'[ip] \in Remote!Items \cup Remote!Counters
    <3>1. now + WindowMs \in Nat
      BY RemoteFound, LimiterAssumption
    <3> QED
      BY <2>2, <2>4, <3>1 DEF Remote!Items, Remote!Counters
  <2> QED
    BY <2>1, <2>2, <2>3, <2>4, <2>5, AbsentAssumption
<1>7. Remote!Prolong(r) /\ entry[ip] = Absent => entry' = entry
  BY DEF Remote!Prolong, Remote!Live
<1>8. call' = [call EXCEPT ![r] = [at |-> "idle"]]
  BY DEF Remote!Prolong, Remote!FailToProlong, Remote!Return, Remote!Idle
<1> QED
  BY <1>1, <1>3, <1>4, <1>6, <1>7, <1>8 DEF Remote!Prolong, Remote!FailToProlong

\* What the read of Deno KV does.
LEMMA DenoRead ==
    ASSUME R!IInv, NEW r \in Requests, NEW ip \in Ips, Remote!Read(r, ip, WindowMs)
    PROVE  /\ R!IInv'
           /\ backend = "deno-kv" /\ backend' = backend /\ now' = now
           /\ call' = [call EXCEPT ![r] = [at |-> "commit", key |-> ip, ttl |-> WindowMs,
                                           seen |-> entry[ip], life |-> life[ip]]]
           /\ entry' = entry
PROOF
<1>1. R!IInv'
  BY SameRemote, RemoteStep
<1> QED
  BY <1>1 DEF Remote!Read, Remote!Begin

\* What the commit does, whose check fails unless the counter is the one read.
LEMMA DenoCommit ==
    ASSUME R!IInv, NEW r \in Requests, NEW ip \in Ips, call[r].key = ip, Remote!Commit(r)
    PROVE  /\ R!IInv'
           /\ backend = "deno-kv" /\ backend' = backend /\ now' = now
           /\ call' = [call EXCEPT ![r] = [at |-> "idle"]]
           /\ call[r].at = "commit"
           /\ \/ entry' = entry
              \/ /\ call[r].seen = entry[ip]
                 /\ entry'[ip] # Absent
                 /\ entry'[ip].value = (IF entry[ip] = Absent THEN 0 ELSE entry[ip].value) + 1
                 /\ entry'[ip].timestamp = IF entry[ip] = Absent THEN now
                                           ELSE entry[ip].timestamp
                 /\ entry'[ip].until = now + WindowMs
                 /\ \A j \in Ips \ {ip} : entry'[j] = entry[j]
PROOF
<1> DEFINE seen == call[r].seen
<1>1. R!IInv'
  BY SameRemote, RemoteStep
<1>2. Remote!TypeOK /\ Remote!TypeOK'
  BY <1>1, SameRemote DEF R!IInv
<1>3. call[r].at = "commit"
  BY DEF Remote!Commit
<1>4. /\ backend = "deno-kv"
      /\ seen # Absent /\ entry[ip] # Absent /\ entry[ip].write = seen.write => entry[ip] = seen
  BY <1>3 DEF R!IInv, R!InFlight, R!Seen, R!Live
<1>5. call[r].ttl = WindowMs /\ seen \in Remote!Items \cup {Absent}
  BY <1>2, <1>3 DEF Remote!TypeOK, Remote!Waits, Remote!Idle
<1>6. CASE ~Remote!Unchanged(ip, seen)
  BY <1>1, <1>3, <1>4, <1>6 DEF Remote!Commit, Remote!Return, Remote!Idle
<1>7. CASE Remote!Unchanged(ip, seen)
  <2>1. seen = entry[ip]
    BY <1>4, <1>7 DEF Remote!Unchanged, Remote!Live
  <2>2. entry' = [entry EXCEPT ![ip] = Remote!NewValue(seen, WindowMs)] /\ DOMAIN entry = Ips
    BY <1>2, <1>5, <1>7 DEF Remote!Commit, Remote!Write, Remote!TypeOK
  <2>3. entry'[ip] = Remote!NewValue(seen, WindowMs) /\ \A j \in Ips \ {ip} : entry'[j] = entry[j]
    BY <2>2
  <2>4. seen # Absent => seen.ttl \in {WindowMs, NoExpiry}
    BY <1>5 DEF Remote!Items
  <2>5. Remote!NewValue(seen, WindowMs) =
          [value |-> IF seen = Absent THEN 1 ELSE seen.value + 1,
           timestamp |-> IF seen = Absent THEN now ELSE seen.timestamp,
           ttl |-> WindowMs, until |-> now + WindowMs, write |-> writes + 1]
    BY <2>4, LimiterAssumption DEF Remote!NewValue, Remote!Until
  <2>6. now \in Nat /\ WindowMs \in Nat /\ writes \in Nat
    BY <1>2, LimiterAssumption, RemoteFound DEF Remote!TypeOK
  <2>7. Remote!NewValue(seen, WindowMs) \in Remote!Items
    BY <1>5, <2>5, <2>6 DEF Remote!Items
  <2>8. entry'[ip] # Absent
    BY <2>3, <2>7, AbsentAssumption
  <2>9. entry'[ip].value = (IF entry[ip] = Absent THEN 0 ELSE entry[ip].value) + 1
    BY <2>1, <2>3, <2>5
  <2> QED
    BY <1>1, <1>3, <1>4, <2>1, <2>3, <2>5, <2>8, <2>9
    DEF Remote!Commit, Remote!Return, Remote!Idle
<1> QED
  BY <1>6, <1>7

\* What time does, and what Deno KV does with it.
LEMMA RemoteTick ==
    ASSUME R!IInv, Remote!Tick
    PROVE  /\ R!IInv'
           /\ backend' = backend /\ now' = now + 1 /\ call' = call
           /\ \A ip \in Ips :
                 entry'[ip] = IF /\ backend = "redis"
                                 /\ entry[ip] # Absent
                                 /\ entry[ip].until # NoExpiry
                                 /\ now + 1 >= entry[ip].until
                              THEN Absent ELSE entry[ip]
PROOF
<1>1. R!IInv'
  BY SameRemote, RemoteStep
<1> QED
  BY <1>1 DEF Remote!Tick, Remote!Gone, Remote!Over, Remote!Live

LEMMA DenoLapse ==
    ASSUME R!IInv, NEW ip \in Ips, Remote!Lapse(ip)
    PROVE  /\ R!IInv'
           /\ backend = "deno-kv" /\ backend' = backend /\ now' = now /\ call' = call
           /\ entry[ip] # Absent /\ entry[ip].until # NoExpiry /\ now >= entry[ip].until
           /\ entry'[ip] = Absent
           /\ \A j \in Ips \ {ip} : entry'[j] = entry[j]
PROOF
<1>1. R!IInv'
  BY SameRemote, RemoteStep
<1> QED
  BY <1>1 DEF Remote!Lapse, Remote!Gone, Remote!Over, Remote!Live

-----------------------------------------------------------------------------
(* The invariant.                                                            *)

\* The counter of ip, in whichever store, what it stands at and when it is over.
Counter(ip) == IF Shared THEN entry[ip] ELSE Store!Found(ip)
Alive(ip) == Counter(ip) # Absent
Value(ip) == IF Alive(ip) THEN Counter(ip).value ELSE 0
End(ip) == IF Shared THEN entry[ip].until ELSE Store!Found(ip).timestamp + WindowMs

\* The stores are as their own proofs have them.
StoresHold ==
    /\ P!DisabledIsEmpty
    /\ backend \in {"map", "redis", "deno-kv"}
    /\ Shared => R!IInv /\ ~setDisabled

\* Requests are counted in the order of time.
LogInOrder ==
    /\ log \in Seq(Requests)
    /\ \A i, j \in DOMAIN log : i <= j => Nth(i).at <= Nth(j).at

\* What a request knows agrees with where it stands, and the decision with the
\* count it was made by.
Decides(r) ==
    /\ req[r].stage = "new" => ~req[r].passed /\ ~req[r].told
    /\ req[r].stage # "new" => req[r].ip \in Ips /\ req[r].count >= 1
    /\ req[r].passed => req[r].stage \in {"inside", "answered"} /\ req[r].count < Limit
    /\ req[r].stage = "inside" => req[r].passed
    /\ req[r].stage \in {"limited", "answered"} /\ ~req[r].passed => req[r].count >= Limit
    /\ req[r].told => req[r].stage = "answered"
    /\ req[r].stage \in {"sent", "failed"} => Shared
    /\ req[r].stage = "failed" => backend = "redis"
    /\ backend = "redis" => req[r].stamp = Null

Decided == \A r \in Requests : Decides(r)

\* A request on its way waits for the second command of its own counter, and
\* over Deno KV takes the count it will have from what it read.
Waits(r) ==
    req[r].stage = "sent" =>
        /\ call[r].key = req[r].ip
        /\ call[r].at = IF backend = "redis" THEN "expire" ELSE "commit"
        /\ backend = "deno-kv" =>
              req[r].count = IF call[r].seen = Absent THEN 1 ELSE call[r].seen.value + 1

CallsAreSent == \A r \in Requests : Waits(r)

\* A counter has not counted more than there was, and its window has begun.
Sound(ip) ==
    Alive(ip) =>
        /\ Value(ip) <= Len(log)
        /\ backend = "redis" =>
             /\ entry[ip].timestamp = Null
             /\ End(ip) # NoExpiry => now < End(ip) /\ End(ip) <= now + WindowMs
        /\ backend # "redis" => Counter(ip).timestamp \in 0..now
        /\ backend = "deno-kv" => End(ip) # NoExpiry

CountersAreSound == \A ip \in Ips : Sound(ip)

\* The count of a request is at most that of an earlier one and the number
\* counted since, and just that within the window of a counter that is kept.
AddsUp(ip, i, j) ==
    LET n == Cardinality(PlacesOf(ip, i + 1, j))
    IN  /\ Nth(j).count <= Nth(i).count + n
        /\ Nth(i).stage # "failed" /\ ip \notin robbed /\ Nth(j).at < Nth(i).at + WindowMs
           => Nth(j).count = Nth(i).count + n

CountsAddUp ==
    ~setDisabled =>
        \A ip \in Ips \ lost : \A j \in DOMAIN log : \A i \in 1..j-1 :
            Nth(i).ip = ip /\ Nth(j).ip = ip => AddsUp(ip, i, j)

\* ... and so does what the counter stands at, which within the window is there.
Outlives(ip, i) ==
    Alive(ip) => End(ip) = NoExpiry \/ End(ip) >= Nth(i).at + WindowMs

Follows(ip, i) ==
    LET n == Cardinality(PlacesOf(ip, i + 1, Len(log)))
    IN  /\ Value(ip) <= Nth(i).count + n
        /\ Nth(i).stage # "failed" /\ ip \notin robbed /\ now < Nth(i).at + WindowMs
           => Alive(ip) /\ Value(ip) = Nth(i).count + n
        /\ Nth(i).stage \notin {"sent", "failed"} => Outlives(ip, i)

CountersFollow ==
    ~setDisabled =>
        \A ip \in Ips \ lost : \A i \in DOMAIN log : Nth(i).ip = ip => Follows(ip, i)

\* Some request is or will be told of the end of every counter, but for Deno KV.
ToldBy(r) == Second * req[r].reset + Second \div 2

Explains(r, ip) ==
    /\ req[r].ip = ip
    /\ End(ip) = NoExpiry => req[r].stage \in {"sent", "failed"}
    /\ End(ip) # NoExpiry =>
         /\ req[r].stage \notin {"new", "sent", "failed"}
         /\ req[r].stage = "stamped" /\ req[r].stamp # Null => req[r].stamp + WindowMs >= End(ip)
         /\ req[r].stage \in {"inside", "limited", "answered"} => ToldBy(r) >= End(ip)

Witnessed ==
    backend # "deno-kv" =>
        \A ip \in Ips : Alive(ip) => \E r \in Requests : Explains(r, ip)

Inv ==
    /\ TypeOK /\ StoresHold
    /\ LogInOrder /\ Decided /\ CallsAreSent /\ CountersAreSound
    /\ CountsAddUp /\ CountersFollow /\ Witnessed

-----------------------------------------------------------------------------
(* Types, named for the proofs.                                              *)

Records ==
    [stage : Stages, ip : Ips \cup {Null}, at : 0..now,
     count : 0..Cardinality(Requests), stamp : (0..now) \cup {Null},
     passed : BOOLEAN, reset : Nat, told : BOOLEAN]

LEMMA Typing ==
    ASSUME TypeOK, StoresHold
    PROVE  /\ now \in Nat /\ now \in 0..MaxNow /\ MaxNow \in Nat
           /\ WindowMs \in Nat \ {0} /\ WindowMs # NoExpiry
           /\ Cardinality(Requests) \in Nat
           /\ req \in [Requests -> Records]
           /\ \A r \in Requests :
                 /\ req[r].at \in Nat /\ req[r].at <= now
                 /\ req[r].count \in Nat
                 /\ req[r].stamp \in Nat \cup {Null}
                 /\ req[r].reset \in Nat
           /\ \A ip \in Ips :
                 /\ Value(ip) \in Nat
                 /\ Alive(ip) => End(ip) \in Nat \cup {NoExpiry}
                 /\ ~Shared /\ Alive(ip) => now < End(ip) /\ End(ip) \in Nat /\ End(ip) # NoExpiry
                 /\ setDisabled => ~Alive(ip)
PROOF
<1>1. /\ WindowMs \in Nat \ {0} /\ WindowMs # NoExpiry /\ NoExpiry \notin Nat
      /\ Cardinality(Requests) \in Nat /\ MaxNow \in Nat
  BY LimiterAssumption, StoresAssumed
<1>2. Store!TypeOK /\ now \in 0..MaxNow
  BY DEF TypeOK, Store!TypeOK
<1>3. req \in [Requests -> Records]
  BY DEF TypeOK, Records
<1>4. ASSUME NEW r \in Requests
      PROVE  /\ req[r].at \in Nat /\ req[r].at <= now
             /\ req[r].count \in Nat
             /\ req[r].stamp \in Nat \cup {Null}
             /\ req[r].reset \in Nat
  <2>1. /\ req[r].at \in 0..now /\ req[r].count \in 0..Cardinality(Requests)
        /\ req[r].stamp \in (0..now) \cup {Null} /\ req[r].reset \in Nat
    BY <1>3 DEF Records
  <2> QED
    BY <1>1, <1>2, <2>1
<1>5. ASSUME NEW ip \in Ips
      PROVE  /\ Value(ip) \in Nat
             /\ Alive(ip) => End(ip) \in Nat \cup {NoExpiry}
             /\ ~Shared /\ Alive(ip) => now < End(ip) /\ End(ip) \in Nat /\ End(ip) # NoExpiry
             /\ setDisabled => ~Alive(ip)
  <2>1. CASE Shared
    BY <2>1, RemoteFound DEF StoresHold, Value, Alive, End, Counter
  <2>2. CASE ~Shared
    <3>1. /\ setDisabled => Store!Found(ip) = Absent
          /\ Store!Found(ip) # Absent =>
                /\ Store!Found(ip).value \in 0..Cardinality(Requests)
                /\ Store!Found(ip).timestamp \in Nat
                /\ now < Store!Found(ip).timestamp + WindowMs
      BY <1>2, MapFound DEF StoresHold
    <3> QED
      BY <1>1, <2>2, <3>1 DEF Value, Alive, End, Counter
  <2> QED
    BY <2>1, <2>2
<1> QED
  BY <1>1, <1>2, <1>3, <1>4, <1>5

\* The log has no more places than there are requests, one less before the next.
LEMMA LogIsShort ==
    ASSUME TypeOK
    PROVE  /\ Len(log) \in Nat /\ Len(log) <= Cardinality(Requests)
           /\ \A r \in Requests \ Counted : Len(log) + 1 <= Cardinality(Requests)
PROOF
<1>1. IsFiniteSet(Requests) /\ Counted \subseteq Requests
  BY LimiterAssumption DEF Counted
<1>2. IsFiniteSet(Counted) /\ Cardinality(Counted) \in Nat
      /\ Cardinality(Counted) <= Cardinality(Requests)
  BY <1>1, FS_Subset, FS_CardinalityType
<1>3. ASSUME NEW r \in Requests \ Counted PROVE Cardinality(Counted) + 1 <= Cardinality(Requests)
  <2>1. Cardinality(Counted \cup {r}) = Cardinality(Counted) + 1
    BY <1>2, FS_AddElement
  <2>2. Cardinality(Counted \cup {r}) <= Cardinality(Requests)
    BY <1>1, FS_Subset
  <2> QED
    BY <2>1, <2>2
<1> QED
  BY <1>2, <1>3 DEF TypeOK

-----------------------------------------------------------------------------
(* The places of an address in the log.                                      *)

LEMMA PlacesFinite ==
    ASSUME NEW ip, NEW from \in Nat, NEW to \in Nat
    PROVE  /\ IsFiniteSet(PlacesOf(ip, from, to))
           /\ Cardinality(PlacesOf(ip, from, to)) \in Nat
           /\ PlacesOf(ip, from, to) # {} => Cardinality(PlacesOf(ip, from, to)) >= 1
           /\ from > to => Cardinality(PlacesOf(ip, from, to)) = 0
PROOF
<1>1. IsFiniteSet(from..to) /\ PlacesOf(ip, from, to) \subseteq from..to
  BY FS_Interval DEF PlacesOf
<1>2. IsFiniteSet(PlacesOf(ip, from, to))
  BY <1>1, FS_Subset
<1>3. Cardinality(PlacesOf(ip, from, to)) \in Nat
  BY <1>2, FS_CardinalityType
<1>4. Cardinality(PlacesOf(ip, from, to)) = 0 <=> PlacesOf(ip, from, to) = {}
  BY <1>2, FS_EmptySet
<1> QED
  BY <1>1, <1>2, <1>3, <1>4

\* What a request that is added to the log leaves of the places before it.
LEMMA Appends ==
    ASSUME TypeOK, LogInOrder, NEW n, n = Len(log), NEW r \in Requests \ Counted,
           NEW own, own = req'[r].ip, log' = Append(log, r),
           \A q \in Requests \ {r} : req'[q] = req[q], Counted' = Counted \cup {r}
    PROVE  /\ n \in Nat /\ DOMAIN log = 1..n /\ DOMAIN log' = 1..n+1 /\ Len(log') = n + 1
           /\ log' \in Seq(Requests) /\ Nth(n + 1)' = req'[r]
           /\ \A i \in 1..n : log[i] \in Counted /\ log[i] # r /\ Nth(i)' = Nth(i)
           /\ \A i \in 1..n+1 : log'[i] \in Counted'
           /\ Len(log') = Cardinality(Counted')
           /\ \A ip : \A i, j \in Nat :
                 i >= 1 /\ j <= n => PlacesOf(ip, i, j)' = PlacesOf(ip, i, j)
           /\ \A i \in 1..n :
                 Cardinality(PlacesOf(own, i + 1, n + 1)') =
                    Cardinality(PlacesOf(own, i + 1, n)) + 1
           /\ \A i \in 1..n : \A ip : ip # own =>
                 PlacesOf(ip, i + 1, n + 1)' = PlacesOf(ip, i + 1, n)
PROOF
<1>1. n \in Nat /\ DOMAIN log = 1..n /\ log \in Seq(Requests)
  BY DEF LogInOrder
<1>2. /\ DOMAIN log' = 1..n+1 /\ Len(log') = n + 1 /\ log'[n+1] = r
      /\ log' \in Seq(Requests)
      /\ \A i \in 1..n : log'[i] = log[i]
  BY <1>1
<1>3. \A i \in 1..n : log[i] \in Counted /\ log[i] # r /\ log[i] \in Requests
  BY <1>1 DEF TypeOK
<1>4. Nth(n + 1)' = req'[r] /\ \A i \in 1..n : Nth(i)' = Nth(i)
  BY <1>2, <1>3 DEF Nth
<1>5. Len(log') = Cardinality(Counted')
  <2>1. IsFiniteSet(Counted)
    BY LimiterAssumption, FS_Subset DEF Counted
  <2>2. Cardinality(Counted \cup {r}) = Cardinality(Counted) + 1
    BY <2>1, FS_AddElement
  <2> QED
    BY <1>2, <2>2 DEF TypeOK
<1>6. ASSUME NEW ip, NEW i \in Nat, NEW j \in Nat, i >= 1, j <= n
      PROVE  PlacesOf(ip, i, j)' = PlacesOf(ip, i, j)
  <2>1. \A k \in i..j : k \in 1..n
    BY <1>1, <1>6
  <2> QED
    BY <1>4, <2>1 DEF PlacesOf
<1>7. ASSUME NEW i \in 1..n, NEW ip
      PROVE  PlacesOf(ip, i + 1, n + 1)' =
                IF ip = own THEN PlacesOf(ip, i + 1, n) \cup {n + 1}
                ELSE PlacesOf(ip, i + 1, n)
  <2>1. (i + 1)..(n + 1) = ((i + 1)..n) \cup {n + 1}
    BY <1>1, <1>7
  <2>2. \A k \in (i + 1)..n : k \in 1..n /\ k # n + 1
    BY <1>1, <1>7
  <2> QED
    BY <1>4, <2>1, <2>2 DEF PlacesOf
<1>8. ASSUME NEW i \in 1..n
      PROVE  Cardinality(PlacesOf(own, i + 1, n + 1)') =
                Cardinality(PlacesOf(own, i + 1, n)) + 1
  <2>1. n + 1 \notin PlacesOf(own, i + 1, n)
    BY <1>1 DEF PlacesOf
  <2>2. IsFiniteSet(PlacesOf(own, i + 1, n))
    BY <1>1, i + 1 \in Nat, PlacesFinite
  <2>3. Cardinality(PlacesOf(own, i + 1, n) \cup {n + 1}) = Cardinality(PlacesOf(own, i + 1, n)) + 1
    BY <2>1, <2>2, FS_AddElement
  <2>4. PlacesOf(own, i + 1, n + 1)' = PlacesOf(own, i + 1, n) \cup {n + 1}
    BY <1>7
  <2> QED
    BY <2>3, <2>4
<1>9. \A i \in 1..n+1 : log'[i] \in Counted'
  BY <1>1, <1>2, <1>3
<1>10. \A i \in 1..n : \A ip : ip # own => PlacesOf(ip, i + 1, n + 1)' = PlacesOf(ip, i + 1, n)
  BY <1>7
<1> QED
  BY <1>1, <1>2, <1>3, <1>4, <1>5, <1>6, <1>8, <1>9, <1>10

-----------------------------------------------------------------------------
(* A step that counts a request, whatever the store.                         *)

CountStep(r, ip) ==
    /\ log' = Append(log, r)
    /\ \A q \in Requests \ {r} : req'[q] = req[q]
    /\ req'[r].ip = ip /\ req'[r].at = now
    /\ Counted' = Counted \cup {r}
    /\ now' = now /\ setDisabled' = setDisabled
    /\ robbed \subseteq robbed' /\ lost \subseteq lost'
    /\ ~setDisabled /\ ip \notin lost' =>
         /\ Alive(ip)' /\ Value(ip)' = Value(ip) + 1 /\ req'[r].count = Value(ip) + 1
         /\ \/ End(ip)' = NoExpiry
            \/ End(ip)' \in Nat /\ End(ip)' >= now + WindowMs
            \/ req'[r].stage = "sent" /\ Alive(ip) /\ End(ip)' = End(ip)
    /\ ~setDisabled =>
         \A j \in Ips \ {ip} :
            /\ Alive(j)' => Alive(j) /\ Value(j)' = Value(j) /\ End(j)' = End(j)
            /\ Alive(j) /\ ~Alive(j)' => j \in robbed'

\* The counts keep adding up, up to the new one and to its counter.
LEMMA CountKeeps ==
    ASSUME TypeOK, StoresHold, LogInOrder, CountsAddUp, CountersFollow,
           NEW r \in Requests \ Counted, NEW own \in Ips, CountStep(r, own)
    PROVE  /\ LogInOrder' /\ CountsAddUp' /\ CountersFollow'
           /\ Len(log') = Len(log) + 1
           /\ Len(log') = Cardinality(Counted')
           /\ \A i \in DOMAIN log' : log'[i] \in Counted'
PROOF
<1>1. PICK n : n = Len(log)
  OBVIOUS
<1>2. /\ log' = Append(log, r) /\ own = req'[r].ip /\ req'[r].at = now
      /\ \A q \in Requests \ {r} : req'[q] = req[q]
      /\ Counted' = Counted \cup {r}
      /\ now' = now /\ setDisabled' = setDisabled
      /\ robbed \subseteq robbed' /\ lost \subseteq lost'
  BY DEF CountStep
<1>3. /\ n \in Nat /\ DOMAIN log = 1..n /\ DOMAIN log' = 1..n+1 /\ Len(log') = n + 1
      /\ log' \in Seq(Requests) /\ Nth(n + 1)' = req'[r]
      /\ \A i \in 1..n : log[i] \in Counted /\ log[i] # r /\ Nth(i)' = Nth(i)
      /\ \A i \in 1..n+1 : log'[i] \in Counted'
      /\ Len(log') = Cardinality(Counted')
  BY <1>1, <1>2, Appends
<1>4. ASSUME NEW ip, NEW i \in 1..n, NEW j \in 1..n
      PROVE  PlacesOf(ip, i + 1, j)' = PlacesOf(ip, i + 1, j)
  <2>1. i + 1 \in Nat /\ j \in Nat /\ i + 1 >= 1 /\ j <= n
    BY <1>3
  <2> QED
    BY <1>1, <1>2, <2>1, Appends
<1>5. ASSUME NEW i \in 1..n
      PROVE  /\ Cardinality(PlacesOf(own, i + 1, n + 1)') =
                    Cardinality(PlacesOf(own, i + 1, n)) + 1
             /\ \A ip : ip # own => PlacesOf(ip, i + 1, n + 1)' = PlacesOf(ip, i + 1, n)
  BY <1>1, <1>2, Appends
<1>6. ASSUME NEW i \in 1..n
      PROVE  /\ Nth(i).at \in Nat /\ Nth(i).at <= now /\ Nth(i).count \in Nat
             /\ \A ip, j : Cardinality(PlacesOf(ip, i + 1, n)) \in Nat
  <2>1. i + 1 \in Nat /\ log[i] \in Requests
    BY <1>3 DEF Counted
  <2> QED
    BY <1>3, <2>1, Typing, PlacesFinite DEF Nth
<1>7. now \in Nat /\ WindowMs \in Nat /\ Value(own) \in Nat
  BY Typing
<1>8. LogInOrder'
  <2>1. ASSUME NEW i \in 1..n+1, NEW j \in 1..n+1, i <= j
        PROVE  Nth(i)'.at <= Nth(j)'.at
    <3>1. CASE j \in 1..n
      <4>1. i \in 1..n
        BY <1>3, <2>1, <3>1
      <4> QED
        BY <1>3, <2>1, <3>1, <4>1 DEF LogInOrder
    <3>2. CASE i \in 1..n /\ j = n + 1
      BY <1>2, <1>3, <1>6, <3>2
    <3>3. CASE i = n + 1 /\ j = n + 1
      BY <1>2, <1>3, <1>7, <3>3
    <3> QED
      BY <1>3, <2>1, <3>1, <3>2, <3>3
  <2> QED
    BY <1>3, <2>1 DEF LogInOrder
<1>9. CountsAddUp'
  <2> SUFFICES ASSUME ~setDisabled, NEW ip \in Ips \ lost', NEW j \in 1..n+1, NEW i \in 1..j-1,
                      Nth(i)'.ip = ip, Nth(j)'.ip = ip
               PROVE  AddsUp(ip, i, j)'
    BY <1>2, <1>3 DEF CountsAddUp
  <2>1. i \in 1..n /\ ip \notin lost /\ ip \in Ips /\ Nth(i)' = Nth(i)
    BY <1>2, <1>3
  <2>2. CASE j \in 1..n
    <3>1. Nth(j)' = Nth(j) /\ PlacesOf(ip, i + 1, j)' = PlacesOf(ip, i + 1, j)
      BY <1>3, <1>4, <2>1, <2>2
    <3>2. AddsUp(ip, i, j)
      BY <1>3, <2>1, <2>2, <3>1 DEF CountsAddUp
    <3> QED
      BY <1>2, <2>1, <3>1, <3>2 DEF AddsUp
  <2>3. CASE j = n + 1
    <3>1. ip = own /\ Nth(j)' = req'[r]
      BY <1>2, <1>3, <2>3
    <3>2. Follows(own, i)
      BY <1>3, <2>1, <3>1 DEF CountersFollow
    <3>3. req'[r].count = Value(own) + 1
      BY <2>1, <3>1 DEF CountStep
    <3>4. Cardinality(PlacesOf(own, i + 1, j)') = Cardinality(PlacesOf(own, i + 1, n)) + 1
      BY <1>5, <2>1, <2>3
    <3>5. Nth(j)'.count <= Nth(i)'.count + Cardinality(PlacesOf(own, i + 1, j)')
      BY <1>1, <1>6, <1>7, <2>1, <3>1, <3>2, <3>3, <3>4 DEF Follows
    <3>6. ASSUME Nth(i)'.stage # "failed", own \notin robbed', Nth(j)'.at < Nth(i)'.at + WindowMs
          PROVE  Nth(j)'.count = Nth(i)'.count + Cardinality(PlacesOf(own, i + 1, j)')
      <4>1. Value(own) = Nth(i).count + Cardinality(PlacesOf(own, i + 1, n))
        BY <1>1, <1>2, <2>1, <3>1, <3>2, <3>6 DEF Follows
      <4> QED
        BY <1>6, <1>7, <2>1, <3>1, <3>3, <3>4, <4>1
    <3> QED
      BY <3>1, <3>5, <3>6 DEF AddsUp
  <2> QED
    BY <1>3, <2>2, <2>3
<1>10. CountersFollow'
  <2> SUFFICES ASSUME ~setDisabled, NEW ip \in Ips \ lost', NEW i \in 1..n+1, Nth(i)'.ip = ip
               PROVE  Follows(ip, i)'
    BY <1>2, <1>3 DEF CountersFollow
  <2> DEFINE m == Cardinality(PlacesOf(ip, i + 1, n + 1)')
  <2>0. \/ End(own)' = NoExpiry
        \/ End(own)' \in Nat /\ End(own)' >= now + WindowMs
        \/ req'[r].stage = "sent" /\ Alive(own) /\ End(own)' = End(own)
        \/ ip # own
    BY DEF CountStep
  <2>1. CASE i \in 1..n /\ ip = own
    <3>1. Follows(own, i) /\ Nth(i)' = Nth(i)
      BY <1>2, <1>3, <2>1 DEF CountersFollow
    <3>2. Alive(own)' /\ Value(own)' = Value(own) + 1
      BY <2>1 DEF CountStep
    <3>3. m = Cardinality(PlacesOf(own, i + 1, n)) + 1
      BY <1>5, <2>1
    <3>4. Value(own)' <= Nth(i)'.count + m
      BY <1>1, <1>6, <1>7, <2>1, <3>1, <3>2, <3>3 DEF Follows
    <3>5. Nth(i)'.stage # "failed" /\ own \notin robbed' /\ now' < Nth(i)'.at + WindowMs
          => Value(own)' = Nth(i)'.count + m
      <4>1. Nth(i).stage # "failed" /\ own \notin robbed /\ now < Nth(i).at + WindowMs
            => Value(own) = Nth(i).count + Cardinality(PlacesOf(own, i + 1, n))
        BY <1>1, <3>1 DEF Follows
      <4> QED
        BY <1>2, <1>6, <1>7, <2>1, <3>1, <3>2, <3>3, <4>1
    <3>6. ASSUME Nth(i)'.stage \notin {"sent", "failed"} PROVE Outlives(own, i)'
      <4>1. Outlives(own, i)
        BY <3>1, <3>6 DEF Follows
      <4>2. End(own)' = NoExpiry \/ End(own)' >= Nth(i).at + WindowMs
        <5>1. CASE End(own)' = NoExpiry
          BY <5>1
        <5>2. CASE Alive(own) /\ End(own)' = End(own)
          BY <4>1, <5>2 DEF Outlives
        <5>3. CASE End(own)' \in Nat /\ End(own)' >= now + WindowMs
          BY <1>6, <1>7, <2>1, <5>3
        <5> QED
          BY <2>0, <2>1, <5>1, <5>2, <5>3
      <4> QED
        BY <3>1, <4>2 DEF Outlives
    <3> QED
      BY <1>3, <2>1, <3>2, <3>4, <3>5, <3>6 DEF Follows
  <2>2. CASE i \in 1..n /\ ip # own
    <3>1. Follows(ip, i) /\ Nth(i)' = Nth(i)
      BY <1>2, <1>3, <2>2 DEF CountersFollow
    <3>2. /\ Alive(ip)' => Alive(ip) /\ Value(ip)' = Value(ip) /\ End(ip)' = End(ip)
          /\ Alive(ip) /\ ~Alive(ip)' => ip \in robbed'
      BY <2>2 DEF CountStep
    <3>3. m = Cardinality(PlacesOf(ip, i + 1, n))
      BY <1>5, <2>2
    <3>4. ~Alive(ip)' => Value(ip)' = 0
      BY DEF Value
    <3>5. Value(ip)' <= Nth(i)'.count + m
      BY <1>1, <1>6, <2>2, <3>1, <3>2, <3>3, <3>4 DEF Follows
    <3>6. Nth(i)'.stage # "failed" /\ ip \notin robbed' /\ now' < Nth(i)'.at + WindowMs
          => Alive(ip)' /\ Value(ip)' = Nth(i)'.count + m
      BY <1>1, <1>2, <3>1, <3>2, <3>3 DEF Follows
    <3>7. Nth(i)'.stage \notin {"sent", "failed"} => Outlives(ip, i)'
      BY <3>1, <3>2 DEF Follows, Outlives
    <3> QED
      BY <1>3, <3>5, <3>6, <3>7 DEF Follows
  <2>3. CASE i = n + 1
    <3>1. ip = own /\ Nth(i)' = req'[r]
      BY <1>2, <1>3, <2>3
    <3>2. Alive(own)' /\ Value(own)' = Value(own) + 1 /\ req'[r].count = Value(own) + 1
      BY <3>1 DEF CountStep
    <3>3. m = 0
      <4>1. PlacesOf(ip, i + 1, n + 1)' = {}
        BY <1>3, <2>3 DEF PlacesOf
      <4> QED
        BY <4>1, FS_EmptySet
    <3>4. Nth(i)'.stage # "sent" => Outlives(own, i)'
      BY <1>2, <2>0, <3>1 DEF Outlives
    <3> QED
      BY <1>3, <1>7, <2>3, <3>1, <3>2, <3>3, <3>4 DEF Follows
  <2> QED
    BY <1>3, <2>1, <2>2, <2>3
<1> QED
  BY <1>1, <1>3, <1>8, <1>9, <1>10

-----------------------------------------------------------------------------
(* A step that counts nobody, whatever the store.                            *)

QuietStep ==
    /\ log' = log /\ setDisabled' = setDisabled /\ now' \in {now, now + 1}
    /\ robbed \subseteq robbed' /\ lost \subseteq lost'
    /\ Counted' = Counted
    /\ \A r \in Counted :
         /\ req'[r].ip = req[r].ip /\ req'[r].at = req[r].at /\ req'[r].count = req[r].count
         /\ req[r].stage = "failed" => req'[r].stage = "failed"
    /\ ~setDisabled =>
         \A ip \in Ips \ lost' :
            /\ Alive(ip)' => Alive(ip) /\ Value(ip)' = Value(ip)
            /\ \A i \in DOMAIN log : Nth(i).ip = ip =>
                 /\ Alive(ip) /\ ~Alive(ip)' /\ Nth(i).stage # "failed" =>
                       ip \in robbed' \/ now' >= Nth(i).at + WindowMs
                 /\ Nth(i)'.stage \notin {"sent", "failed"} => Outlives(ip, i)'

LEMMA QuietKeeps ==
    ASSUME TypeOK, StoresHold, LogInOrder, CountsAddUp, CountersFollow, QuietStep
    PROVE  /\ LogInOrder' /\ CountsAddUp' /\ CountersFollow'
           /\ Len(log') = Len(log)
           /\ Len(log') = Cardinality(Counted')
           /\ \A i \in DOMAIN log' : log'[i] \in Counted'
PROOF
<1>1. /\ log' = log /\ setDisabled' = setDisabled /\ now' \in {now, now + 1}
      /\ robbed \subseteq robbed' /\ lost \subseteq lost'
      /\ Counted' = Counted
  BY DEF QuietStep
<1>2. PICK n : n = Len(log)
  OBVIOUS
<1>3. /\ n \in Nat /\ DOMAIN log = 1..n
      /\ \A i \in 1..n : log[i] \in Counted /\ log[i] \in Requests
  <2>1. log \in Seq(Requests)
    BY DEF LogInOrder
  <2>2. n \in Nat /\ DOMAIN log = 1..n /\ \A i \in 1..n : log[i] \in Requests
    BY <1>2, <2>1
  <2>3. \A i \in DOMAIN log : log[i] \in Counted
    BY DEF TypeOK
  <2> QED
    BY <2>2, <2>3
<1>4. ASSUME NEW i \in 1..n
      PROVE  /\ Nth(i)'.ip = Nth(i).ip /\ Nth(i)'.at = Nth(i).at /\ Nth(i)'.count = Nth(i).count
             /\ Nth(i).stage = "failed" => Nth(i)'.stage = "failed"
             /\ Nth(i).at \in Nat /\ Nth(i).count \in Nat
             /\ \A ip : Cardinality(PlacesOf(ip, i + 1, n)) \in Nat
  <2>1. i + 1 \in Nat /\ log[i] \in Requests /\ log[i] \in Counted
    BY <1>3
  <2> QED
    BY <1>1, <1>3, <2>1, Typing, PlacesFinite DEF Nth, QuietStep
<1>5. ASSUME NEW ip, NEW i \in 1..n, NEW j \in 1..n
      PROVE  PlacesOf(ip, i + 1, j)' = PlacesOf(ip, i + 1, j)
  <2>1. \A k \in (i + 1)..j : k \in 1..n
    BY <1>3
  <2> QED
    BY <1>4, <2>1 DEF PlacesOf
<1>6. LogInOrder'
  BY <1>1, <1>3, <1>4 DEF LogInOrder
<1>7. CountsAddUp'
  <2> SUFFICES ASSUME ~setDisabled, NEW ip \in Ips \ lost', NEW j \in 1..n, NEW i \in 1..j-1,
                      Nth(i)'.ip = ip, Nth(j)'.ip = ip
               PROVE  AddsUp(ip, i, j)'
    BY <1>1, <1>3 DEF CountsAddUp
  <2>1. i \in 1..n
    BY <1>3
  <2>2. AddsUp(ip, i, j)
    BY <1>1, <1>3, <1>4, <2>1 DEF CountsAddUp
  <2> QED
    BY <1>1, <1>4, <1>5, <2>1, <2>2 DEF AddsUp
<1>8. CountersFollow'
  <2> SUFFICES ASSUME ~setDisabled, NEW ip \in Ips \ lost', NEW i \in 1..n, Nth(i)'.ip = ip
               PROVE  Follows(ip, i)'
    BY <1>1, <1>3 DEF CountersFollow
  <2> DEFINE m == Cardinality(PlacesOf(ip, i + 1, n))
  <2>1. Follows(ip, i) /\ Nth(i).ip = ip
    BY <1>1, <1>3, <1>4 DEF CountersFollow
  <2>2. /\ Alive(ip)' => Alive(ip) /\ Value(ip)' = Value(ip)
        /\ Alive(ip) /\ ~Alive(ip)' /\ Nth(i).stage # "failed" =>
              ip \in robbed' \/ now' >= Nth(i).at + WindowMs
        /\ Nth(i)'.stage \notin {"sent", "failed"} => Outlives(ip, i)'
    BY <1>3, <2>1 DEF QuietStep
  <2>3. ~Alive(ip)' => Value(ip)' = 0
    BY DEF Value
  <2>4. Value(ip)' <= Nth(i)'.count + m
    BY <1>2, <1>4, <2>1, <2>2, <2>3 DEF Follows
  <2>5. now \in Nat /\ WindowMs \in Nat
    BY Typing
  <2>6. ASSUME Nth(i)'.stage # "failed", ip \notin robbed', now' < Nth(i)'.at + WindowMs
        PROVE  Alive(ip)' /\ Value(ip)' = Nth(i)'.count + m
    <3>1. now < Nth(i).at + WindowMs /\ Nth(i).stage # "failed" /\ ip \notin robbed
      BY <1>1, <1>4, <2>5, <2>6
    <3>2. Alive(ip) /\ Value(ip) = Nth(i).count + m
      BY <1>2, <2>1, <3>1 DEF Follows
    <3>3. Alive(ip)'
      BY <1>1, <1>4, <2>2, <2>5, <2>6, <3>1, <3>2
    <3> QED
      BY <1>4, <2>2, <3>2, <3>3
  <2>7. PlacesOf(ip, i + 1, n)' = PlacesOf(ip, i + 1, n)
    BY <1>3, <1>5
  <2> QED
    BY <1>1, <1>2, <2>2, <2>4, <2>6, <2>7 DEF Follows
<1> QED
  BY <1>1, <1>6, <1>7, <1>8 DEF TypeOK

-----------------------------------------------------------------------------
(* What the actions have in common.                                          *)

\* A shared store leaves the map store of the process alone.
LEMMA MapRests ==
    ASSUME Store!TypeOK, P!DisabledIsEmpty, UNCHANGED mapVars, now' \in 0..MaxNow, now <= now'
    PROVE  Store!TypeOK' /\ P!DisabledIsEmpty' /\ setDisabled' = setDisabled
PROOF
<1>1. /\ cache' = cache /\ sweptAt' = sweptAt /\ setDisabled' = setDisabled
      /\ reply' = reply /\ fresher' = fresher
  BY DEF mapVars
<1>2. sweptAt' \in {Never} \cup (0..now')
  BY <1>1, LimiterAssumption DEF Store!TypeOK
<1>3. P!DisabledIsEmpty'
  BY <1>1 DEF P!DisabledIsEmpty, P!Held
<1>4. Store!TypeOK'
  BY <1>1, <1>2 DEF Store!TypeOK, Store!IsCache, Store!Held, Store!IsOrder
<1> QED
  BY <1>1, <1>3, <1>4

LEMMA SameCounter ==
    ASSUME NEW ip, backend' = backend, Counter(ip)' = Counter(ip)
    PROVE  /\ Alive(ip)' <=> Alive(ip)
           /\ Value(ip)' = Value(ip)
           /\ End(ip)' = End(ip)
  BY DEF Counter, Alive, Value, End, Shared

\* One request moves and the others stay.
OneMoves(r) ==
    /\ req' = [req EXCEPT ![r] = req'[r]]
    /\ \A q \in Requests \ {r} : call'[q] = call[q]
    /\ backend' = backend /\ now' = now
    /\ req'[r] \in Records

LEMMA RecordsMove ==
    ASSUME Inv, NEW r \in Requests, OneMoves(r)
    PROVE  /\ req' \in [Requests -> Records']
           /\ \A q \in Requests \ {r} : req'[q] = req[q]
           /\ Decides(r)' => Decided'
           /\ Waits(r)' => CallsAreSent'
           /\ Counted' = IF req'[r].stage # "new" /\ ~(req'[r].stage = "sent" /\ backend = "deno-kv")
                         THEN Counted \cup {r} ELSE Counted \ {r}
PROOF
<1>0. req \in [Requests -> Records]
  BY Typing DEF Inv
<1>1. /\ \A q \in Requests \ {r} : req'[q] = req[q] /\ call'[q] = call[q]
      /\ backend' = backend /\ now' = now /\ req'[r] \in Records
  BY <1>0 DEF OneMoves
<1>2. req' \in [Requests -> Records']
  <2>1. Records' = Records
    BY <1>1 DEF Records
  <2>2. req' \in [Requests -> Records]
    BY <1>0, <1>1 DEF OneMoves
  <2> QED
    BY <2>1, <2>2
<1>3. ASSUME Decides(r)' PROVE Decided'
  <2>1. \A q \in Requests \ {r} : Decides(q)'
    BY <1>1 DEF Inv, Decided, Decides, Shared
  <2> QED
    BY <1>3, <2>1 DEF Decided
<1>4. ASSUME Waits(r)' PROVE CallsAreSent'
  <2>1. \A q \in Requests \ {r} : Waits(q)'
    BY <1>1 DEF Inv, CallsAreSent, Waits
  <2> QED
    BY <1>4, <2>1 DEF CallsAreSent
<1>5. Counted' = IF req'[r].stage # "new" /\ ~(req'[r].stage = "sent" /\ backend = "deno-kv")
                 THEN Counted \cup {r} ELSE Counted \ {r}
  BY <1>1 DEF Counted
<1> QED
  BY <1>1, <1>2, <1>3, <1>4, <1>5

\* What a request does once it is counted, and what changes no counter.
StillStep(r) ==
    /\ OneMoves(r)
    /\ req'[r].ip = req[r].ip /\ req'[r].at = req[r].at /\ req'[r].count = req[r].count
    /\ {req[r].stage, req'[r].stage} \subseteq {"counted", "stamped", "inside", "limited", "answered"}
    /\ UNCHANGED <<entry, log, robbed, lost, setDisabled>>
    /\ Store!TypeOK' /\ StoresHold'
    /\ \A ip \in Ips : Counter(ip)' = Counter(ip)
    /\ Decides(r)'
    /\ backend # "deno-kv" =>
         \A ip \in Ips : Sound(ip) /\ Alive(ip) /\ Explains(r, ip) => Explains(r, ip)'

LEMMA StillKeeps ==
    ASSUME Inv, NEW r \in Requests, StillStep(r)
    PROVE  Inv'
PROOF
<1>1. /\ OneMoves(r) /\ Decides(r)'
      /\ req'[r].ip = req[r].ip /\ req'[r].at = req[r].at /\ req'[r].count = req[r].count
      /\ req[r].stage \notin {"new", "sent", "failed"} /\ req'[r].stage \notin {"new", "sent", "failed"}
      /\ entry' = entry /\ log' = log /\ robbed' = robbed /\ lost' = lost
      /\ setDisabled' = setDisabled /\ now' = now /\ backend' = backend
      /\ Store!TypeOK' /\ StoresHold'
  BY DEF StillStep, OneMoves
<1>2. \A ip \in Ips : (Alive(ip)' <=> Alive(ip)) /\ Value(ip)' = Value(ip) /\ End(ip)' = End(ip)
                      /\ Counter(ip)' = Counter(ip)
  BY <1>1, SameCounter DEF StillStep
<1>3. /\ req' \in [Requests -> Records'] /\ Decided' /\ CallsAreSent' /\ Counted' = Counted
      /\ \A q \in Requests \ {r} : req'[q] = req[q]
  <2>1. Waits(r)'
    BY <1>1 DEF Waits
  <2>2. Counted \cup {r} = Counted
    BY <1>1 DEF Counted
  <2> QED
    BY <1>1, <2>1, <2>2, RecordsMove
<1>4. ASSUME NEW i \in DOMAIN log
      PROVE  /\ Nth(i)'.at = Nth(i).at
             /\ Nth(i).stage \in {"sent", "failed"} <=> Nth(i)'.stage \in {"sent", "failed"}
  <2>1. log[i] \in Requests
    BY DEF Inv, TypeOK, Counted
  <2> QED
    BY <1>1, <1>3, <2>1 DEF Nth
<1>5. QuietStep
  <2>1. \A q \in Counted :
           /\ req'[q].ip = req[q].ip /\ req'[q].at = req[q].at /\ req'[q].count = req[q].count
           /\ req[q].stage = "failed" => req'[q].stage = "failed"
    BY <1>1, <1>3 DEF Counted
  <2>2. ASSUME ~setDisabled, NEW ip \in Ips \ lost, NEW i \in DOMAIN log, Nth(i).ip = ip,
               Nth(i)'.stage \notin {"sent", "failed"}
        PROVE  Outlives(ip, i)'
    <3>1. Follows(ip, i)
      BY <2>2 DEF Inv, CountersFollow
    <3> QED
      BY <1>2, <1>4, <2>2, <3>1 DEF Follows, Outlives
  <2> QED
    BY <1>1, <1>2, <1>3, <2>1, <2>2 DEF QuietStep
<1>6. /\ LogInOrder' /\ CountsAddUp' /\ CountersFollow'
      /\ Len(log') = Cardinality(Counted')
      /\ \A i \in DOMAIN log' : log'[i] \in Counted'
  BY <1>5, QuietKeeps DEF Inv
<1>7. CountersAreSound'
  <2>1. \A ip \in Ips : Sound(ip)'
    BY <1>1, <1>2 DEF Inv, CountersAreSound, Sound
  <2> QED
    BY <2>1 DEF CountersAreSound
<1>8. Witnessed'
  <2> SUFFICES ASSUME backend # "deno-kv", NEW ip \in Ips, Alive(ip)
               PROVE  \E q \in Requests : Explains(q, ip)'
    BY <1>1, <1>2 DEF Witnessed
  <2>1. PICK q \in Requests : Explains(q, ip)
    BY DEF Inv, Witnessed
  <2>2. CASE q = r
    BY <2>1, <2>2 DEF StillStep, Inv, CountersAreSound
  <2>3. CASE q # r
    BY <1>2, <1>3, <2>1, <2>3 DEF Explains, ToldBy
  <2> QED
    BY <2>2, <2>3
<1>9. TypeOK'
  <2>1. Shared' => Remote!TypeOK'
    BY <1>1, SameRemote DEF StoresHold, R!IInv
  <2>2. robbed' \subseteq Ips /\ lost' \subseteq Ips
    BY <1>1 DEF Inv, TypeOK
  <2> QED
    BY <1>1, <1>3, <1>6, <2>1, <2>2 DEF TypeOK, Records
<1> QED
  BY <1>1, <1>3, <1>6, <1>7, <1>8, <1>9 DEF Inv

-----------------------------------------------------------------------------
(* The steps of a request that is counted.                                   *)

LEMMA DivIs ==
    ASSUME NEW a \in Nat, NEW b \in Nat \ {0}
    PROVE  a \div b \in Nat /\ b * (a \div b) <= a /\ a < b * (a \div b) + b
  BY SMTT(30)

\* A client that waits half a second more than it is told waits long enough.
LEMMA Rounding ==
    ASSUME NEW t \in Nat
    PROVE  ToSeconds(t) \in Nat /\ Second * ToSeconds(t) + Second \div 2 >= t
PROOF
<1> DEFINE q == ToSeconds(t)
           h == Second \div 2
<1>1. 2 * t + Second \in Nat /\ 2 * Second \in Nat \ {0} /\ Second \in Nat \ {0}
  BY LimiterAssumption
<1>2. q \in Nat /\ 2 * t + Second < (2 * Second) * q + 2 * Second
  BY <1>1, DivIs DEF ToSeconds
<1>3. h \in Nat /\ Second < 2 * h + 2
  BY <1>1, DivIs
<1>4. (2 * Second) * q = 2 * (Second * q) /\ Second * q \in Nat
  BY <1>1, <1>2
<1> HIDE DEF q, h
<1>5. Second * q + h >= t
  BY <1>1, <1>2, <1>3, <1>4
<1> QED
  BY <1>2, <1>5 DEF q, h

\* The end of a counter lies within a window of now, but for Deno KV.
LEMMA EndIsNear ==
    ASSUME Inv, backend # "deno-kv", NEW ip \in Ips, Alive(ip), End(ip) # NoExpiry
    PROVE  End(ip) \in Nat /\ End(ip) <= now + WindowMs
PROOF
<1>1. Sound(ip) /\ End(ip) \in Nat /\ now \in Nat /\ WindowMs \in Nat
  BY Typing DEF Inv, CountersAreSound
<1>2. CASE Shared
  BY <1>1, <1>2 DEF Inv, StoresHold, Shared, Sound
<1>3. CASE ~Shared
  <2>1. Counter(ip).timestamp \in 0..now /\ End(ip) = Counter(ip).timestamp + WindowMs
    BY <1>1, <1>3 DEF Sound, Shared, Counter, End
  <2> QED
    BY <1>1, <2>1
<1> QED
  BY <1>2, <1>3

\* The timestamp is read; that of the counter, if it is there.
LEMMA StampKeeps ==
    ASSUME Inv, NEW r \in Requests, Stamp(r)
    PROVE  Inv'
PROOF
<1> DEFINE own == req[r].ip
<1>1. req[r].stage = "counted" /\ UNCHANGED <<log, robbed, lost>> /\ own \in Ips
  BY DEF Stamp, Inv, Decided, Decides
<1>2. req \in [Requests -> Records] /\ Sound(own)
  BY <1>1, Typing DEF Inv, CountersAreSound
<1>3. ASSUME NEW x, x \in (0..now) \cup {Null},
             req' = [req EXCEPT ![r].stage = "stamped", ![r].stamp = x],
             backend = "redis" => x = Null,
             Alive(own) => \/ x = Null /\ backend = "redis"
                           \/ ~Shared /\ x + WindowMs = End(own)
                           \/ backend = "deno-kv",
             now' = now, backend' = backend, setDisabled' = setDisabled,
             entry' = entry, call' = call, Store!TypeOK', StoresHold',
             \A ip \in Ips : Counter(ip)' = Counter(ip)
      PROVE  Inv'
  <2>1. req'[r] = [req[r] EXCEPT !.stage = "stamped", !.stamp = x]
    BY <1>2, <1>3
  <2>2. OneMoves(r)
    <3>1. req' = [req EXCEPT ![r] = [req[r] EXCEPT !.stage = "stamped", !.stamp = x]]
      BY <1>3
    <3>2. [req[r] EXCEPT !.stage = "stamped", !.stamp = x] \in Records
      BY <1>2, <1>3 DEF Records, Stages
    <3> QED
      BY <1>3, <2>1, <3>1, <3>2 DEF OneMoves
  <2>3. /\ req'[r].stage = "stamped" /\ req'[r].stamp = x
        /\ req'[r].ip = req[r].ip /\ req'[r].at = req[r].at /\ req'[r].count = req[r].count
        /\ req'[r].passed = req[r].passed /\ req'[r].told = req[r].told
    BY <1>2, <2>1 DEF Records
  <2>4. Decides(r)'
    BY <1>1, <1>3, <2>3 DEF Inv, Decided, Decides, Shared
  <2>5. ASSUME NEW ip \in Ips, Alive(ip), Explains(r, ip), backend # "deno-kv"
        PROVE  Explains(r, ip)'
    <3>1. ip = own /\ End(ip) # NoExpiry /\ End(ip)' = End(ip)
      BY <1>1, <1>3, <2>5, SameCounter DEF Explains
    <3>2. x # Null => x + WindowMs >= End(ip)
      BY <1>3, <2>5, <3>1, EndIsNear
    <3> QED
      BY <2>3, <2>5, <3>1, <3>2 DEF Explains
  <2>6. StillStep(r)
    BY <1>1, <1>3, <2>2, <2>3, <2>4, <2>5 DEF StillStep
  <2> QED
    BY <2>6, StillKeeps
<1>4. CASE ~Shared /\ Store!Timestamp(own) /\ UNCHANGED <<backend, sharedVars>>
           /\ req' = [req EXCEPT ![r].stage = "stamped", ![r].stamp = reply'.value]
  <2>1. /\ Store!TypeOK' /\ P!DisabledIsEmpty' /\ now' = now /\ setDisabled' = setDisabled
        /\ reply'.value = IF Store!Found(own) = Absent THEN Null ELSE Store!Found(own).timestamp
        /\ \A j \in Ips : Store!Found(j)' = Store!Found(j)
    BY <1>1, <1>4, MapTimestamp DEF Inv, TypeOK, StoresHold
  <2>2. entry' = entry /\ call' = call /\ backend' = backend
    BY <1>4 DEF sharedVars
  <2>3. StoresHold' /\ \A ip \in Ips : Counter(ip)' = Counter(ip)
    BY <1>4, <2>1, <2>2 DEF Inv, StoresHold, Shared, Counter
  <2>4. Alive(own) => /\ reply'.value = Counter(own).timestamp
                      /\ reply'.value \in 0..now
                      /\ reply'.value + WindowMs = End(own)
    BY <1>2, <1>4, <2>1 DEF Alive, Counter, End, Sound, Shared
  <2>5. reply'.value \in (0..now) \cup {Null}
    BY <1>4, <2>1, <2>4 DEF Alive, Counter
  <2> QED
    BY <1>3, <1>4, <2>1, <2>2, <2>3, <2>4, <2>5 DEF Shared
<1>5. CASE Shared /\ UNCHANGED storeVars
           /\ req' = [req EXCEPT ![r].stage = "stamped",
                     ![r].stamp = IF Remote!Live(own) THEN entry[own].timestamp ELSE Null]
  <2> DEFINE x == IF Remote!Live(own) THEN entry[own].timestamp ELSE Null
  <2>1. /\ UNCHANGED <<cache, sweptAt, setDisabled, reply, fresher>>
        /\ now' = now /\ backend' = backend /\ entry' = entry /\ call' = call
        /\ UNCHANGED <<writes, calls, took, told, life, endless, erased>>
    BY <1>5 DEF storeVars, mapVars, sharedVars
  <2>2. Store!TypeOK' /\ P!DisabledIsEmpty'
    <3>1. UNCHANGED mapVars /\ now' \in 0..MaxNow /\ now <= now'
      BY <2>1, Typing DEF mapVars, Inv
    <3> QED
      BY <3>1, MapRests DEF Inv, TypeOK, StoresHold
  <2>3. StoresHold' /\ \A ip \in Ips : Counter(ip)' = Counter(ip)
    <3>1. R!IInv'
      BY <1>5, <2>1, RemoteRests DEF Inv, StoresHold
    <3> QED
      BY <1>5, <2>1, <2>2, <3>1 DEF Inv, StoresHold, Shared, Counter
  <2>4. /\ x \in (0..now) \cup {Null}
        /\ backend = "redis" => x = Null
    BY <1>2, <1>5 DEF Sound, Alive, Counter, Remote!Live
  <2>5. backend \in {"redis", "deno-kv"}
    BY <1>5 DEF Inv, StoresHold, Shared
  <2> HIDE DEF x
  <2>6. req' = [req EXCEPT ![r].stage = "stamped", ![r].stamp = x]
    BY <1>5 DEF x
  <2>7. Alive(own) => (x = Null /\ backend = "redis") \/ backend = "deno-kv"
    BY <2>4, <2>5
  <2> QED
    BY <1>3, <2>1, <2>2, <2>3, <2>4, <2>6, <2>7
<1> QED
  BY <1>4, <1>5 DEF Stamp

\* What changes none of the stores.
LEMMA StoresRest ==
    ASSUME Inv, UNCHANGED storeVars
    PROVE  /\ Store!TypeOK' /\ StoresHold' /\ setDisabled' = setDisabled
           /\ now' = now /\ backend' = backend /\ entry' = entry /\ call' = call
           /\ \A ip \in Ips : Counter(ip)' = Counter(ip)
PROOF
<1>1. /\ UNCHANGED <<cache, sweptAt, setDisabled, reply, fresher>>
      /\ now' = now /\ backend' = backend /\ entry' = entry /\ call' = call
      /\ UNCHANGED <<writes, calls, took, told, life, endless, erased>>
  BY DEF storeVars, mapVars, sharedVars
<1>2. Store!TypeOK' /\ P!DisabledIsEmpty'
  <2>1. UNCHANGED mapVars /\ now' \in 0..MaxNow /\ now <= now'
    BY <1>1, Typing DEF mapVars, Inv
  <2> QED
    BY <2>1, MapRests DEF Inv, TypeOK, StoresHold
<1>3. Shared => R!IInv'
  BY <1>1, RemoteRests DEF Inv, StoresHold
<1>4. \A ip \in Ips : Counter(ip)' = Counter(ip)
  BY <1>1 DEF Counter, Shared, Store!Found, Store!IsExpired
<1> QED
  BY <1>1, <1>2, <1>3, <1>4 DEF Inv, StoresHold, Shared

\* The decision, whichever it is, with the reset that is announced.
LEMMA DecisionKeeps ==
    ASSUME Inv, NEW r \in Requests, Admit(r) \/ Refuse(r) \/ HandOver(r)
    PROVE  Inv'
PROOF
<1> DEFINE own == req[r].ip
           x == (IF req[r].stamp = Null THEN now ELSE req[r].stamp) + WindowMs
           reset == ToSeconds(x)
<1>1. req[r].stage = "stamped" /\ UNCHANGED <<storeVars, log, robbed, lost>> /\ own \in Ips
  BY DEF Admit, Refuse, HandOver, Inv, Decided, Decides
<1>2. req \in [Requests -> Records] /\ now \in Nat /\ WindowMs \in Nat /\ Limit \in Nat
      /\ req[r].stamp \in Nat \cup {Null} /\ req[r].count \in Nat
  BY Typing, LimiterAssumption DEF Inv
<1>3. x \in Nat
  BY <1>2, LimiterAssumption
<1>4. reset \in Nat /\ Second * reset + Second \div 2 >= x /\ ResetAt(r) = reset
  BY <1>3, Rounding DEF ResetAt
<1>5. /\ Store!TypeOK' /\ StoresHold' /\ setDisabled' = setDisabled
      /\ now' = now /\ backend' = backend /\ entry' = entry /\ call' = call
      /\ \A ip \in Ips : Counter(ip)' = Counter(ip)
  BY <1>1, StoresRest
<1>6. /\ OneMoves(r) /\ req'[r].reset = reset
      /\ req'[r].ip = req[r].ip /\ req'[r].at = req[r].at /\ req'[r].count = req[r].count
      /\ req'[r].stamp = req[r].stamp
      /\ \/ req'[r].stage = "inside" /\ req'[r].passed /\ req[r].count < Limit
            /\ req'[r].told = req[r].told
         \/ /\ req'[r].stage \in {"limited", "answered"} /\ req'[r].passed = req[r].passed
            /\ req[r].count >= Limit
            /\ req'[r].told => req'[r].stage = "answered" \/ req[r].told
  <2> HIDE DEF x, reset
  <2>1. PICK y : /\ req' = [req EXCEPT ![r] = y] /\ y \in Records
                 /\ y.reset = reset /\ y.ip = req[r].ip /\ y.at = req[r].at
                 /\ y.count = req[r].count /\ y.stamp = req[r].stamp
                 /\ \/ y.stage = "inside" /\ y.passed /\ req[r].count < Limit
                       /\ y.told = req[r].told
                    \/ /\ y.stage \in {"limited", "answered"} /\ y.passed = req[r].passed
                       /\ req[r].count >= Limit
                       /\ y.told => y.stage = "answered" \/ req[r].told
    <3>1. CASE Admit(r)
      <4> DEFINE y == [req[r] EXCEPT !.stage = "inside", !.reset = reset, !.passed = TRUE]
      <4>1. req' = [req EXCEPT ![r] = y] /\ req[r].count < Limit
        BY <1>4, <3>1 DEF Admit
      <4>2. y \in Records
        BY <1>2, <1>4 DEF Records, Stages
      <4>3. /\ y.stage = "inside" /\ y.passed = TRUE /\ y.told = req[r].told
            /\ y.reset = reset /\ y.ip = req[r].ip /\ y.at = req[r].at
            /\ y.count = req[r].count /\ y.stamp = req[r].stamp
        BY <1>2 DEF Records
      <4> HIDE DEF y
      <4> QED
        BY <4>1, <4>2, <4>3
    <3>2. CASE Refuse(r)
      <4> DEFINE y == [req[r] EXCEPT !.stage = "answered", !.reset = reset, !.told = TRUE]
      <4>1. req' = [req EXCEPT ![r] = y] /\ req[r].count >= Limit
        BY <1>4, <3>2 DEF Refuse
      <4>2. y \in Records
        BY <1>2, <1>4 DEF Records, Stages
      <4>3. /\ y.stage = "answered" /\ y.passed = req[r].passed /\ y.told = TRUE
            /\ y.reset = reset /\ y.ip = req[r].ip /\ y.at = req[r].at
            /\ y.count = req[r].count /\ y.stamp = req[r].stamp
        BY <1>2 DEF Records
      <4> HIDE DEF y
      <4> QED
        BY <4>1, <4>2, <4>3
    <3>3. CASE HandOver(r)
      <4> DEFINE y == [req[r] EXCEPT !.stage = "limited", !.reset = reset]
      <4>1. req' = [req EXCEPT ![r] = y] /\ req[r].count >= Limit
        BY <1>4, <3>3 DEF HandOver
      <4>2. y \in Records
        BY <1>2, <1>4 DEF Records, Stages
      <4>3. /\ y.stage = "limited" /\ y.passed = req[r].passed /\ y.told = req[r].told
            /\ y.reset = reset /\ y.ip = req[r].ip /\ y.at = req[r].at
            /\ y.count = req[r].count /\ y.stamp = req[r].stamp
        BY <1>2 DEF Records
      <4> HIDE DEF y
      <4> QED
        BY <4>1, <4>2, <4>3
    <3> QED
      BY <3>1, <3>2, <3>3
  <2>2. req'[r] = y
    BY <1>2, <2>1
  <2> QED
    BY <1>5, <2>1, <2>2 DEF OneMoves
<1>7. Decides(r)'
  BY <1>1, <1>2, <1>5, <1>6 DEF Inv, Decided, Decides
<1>8. ASSUME NEW ip \in Ips, Alive(ip), Explains(r, ip), backend # "deno-kv"
      PROVE  Explains(r, ip)'
  <2>1. ip = own /\ End(ip) # NoExpiry /\ End(ip)' = End(ip)
    BY <1>1, <1>5, <1>8, SameCounter DEF Explains
  <2>2. End(ip) \in Nat /\ End(ip) <= now + WindowMs
    BY <1>8, <2>1, EndIsNear
  <2>3. x >= End(ip)
    BY <1>1, <1>8, <2>1, <2>2 DEF Explains
  <2>4. ToldBy(r)' = Second * reset + Second \div 2
    BY <1>6 DEF ToldBy
  <2>5. Second * reset + Second \div 2 \in Nat
    <3>1. Second \in Nat /\ Second \div 2 \in Nat /\ Second * reset \in Nat
      BY <1>4, DivIs, LimiterAssumption
    <3> QED
      BY <3>1
  <2> HIDE DEF x, reset
  <2>6. Second * reset + Second \div 2 >= End(ip)
    BY <1>3, <1>4, <2>2, <2>3, <2>5
  <2> QED
    BY <1>1, <1>6, <2>1, <2>4, <2>6 DEF Explains
<1>9. StillStep(r)
  BY <1>1, <1>5, <1>6, <1>7, <1>8 DEF StillStep
<1> QED
  BY <1>9, StillKeeps

\* The answer.
LEMMA FinishKeeps ==
    ASSUME Inv, NEW r \in Requests, Finish(r)
    PROVE  Inv'
PROOF
<1>1. req[r].stage \in {"inside", "limited"} /\ UNCHANGED <<storeVars, log, robbed, lost>>
  BY DEF Finish
<1>2. req \in [Requests -> Records]
  BY Typing DEF Inv
<1>3. PICK heard \in BOOLEAN :
        req' = [req EXCEPT ![r].stage = "answered", ![r].told = heard]
  BY DEF Finish
<1>4. req'[r] = [req[r] EXCEPT !.stage = "answered", !.told = heard]
  BY <1>2, <1>3
<1>5. /\ Store!TypeOK' /\ StoresHold' /\ setDisabled' = setDisabled
      /\ now' = now /\ backend' = backend /\ entry' = entry /\ call' = call
      /\ \A ip \in Ips : Counter(ip)' = Counter(ip)
  BY <1>1, StoresRest
<1>6. OneMoves(r)
  <2>1. req' = [req EXCEPT ![r] = req'[r]]
    BY <1>2, <1>3, <1>4
  <2>2. req'[r] \in Records
    BY <1>2, <1>4 DEF Records, Stages
  <2> QED
    BY <1>5, <2>1, <2>2 DEF OneMoves
<1>7. /\ req'[r].stage = "answered" /\ req'[r].passed = req[r].passed
      /\ req'[r].ip = req[r].ip /\ req'[r].at = req[r].at /\ req'[r].count = req[r].count
      /\ req'[r].stamp = req[r].stamp /\ req'[r].reset = req[r].reset
  BY <1>2, <1>4 DEF Records
<1>8. Decides(r)'
  <2>1. req[r].stage = "inside" => req[r].passed
    BY DEF Inv, Decided, Decides
  <2> QED
    BY <1>1, <1>5, <1>7, <2>1 DEF Inv, Decided, Decides
<1>9. ASSUME NEW ip \in Ips, Alive(ip), Explains(r, ip)
      PROVE  Explains(r, ip)'
  <2>1. End(ip)' = End(ip)
    BY <1>5, <1>9, SameCounter
  <2> QED
    BY <1>1, <1>7, <1>9, <2>1 DEF Explains, ToldBy
<1>10. StillStep(r)
  BY <1>1, <1>5, <1>6, <1>7, <1>8, <1>9 DEF StillStep
<1> QED
  BY <1>10, StillKeeps

-----------------------------------------------------------------------------
(* The steps that count.                                                     *)

\* The parts of the invariant a counting step is left to show.
LEMMA CountingKeeps ==
    ASSUME Inv, NEW r \in Requests, NEW own \in Ips, r \notin Counted,
           CountStep(r, own), OneMoves(r), Decides(r)', Waits(r)',
           req'[r].stage # "new" /\ (req'[r].stage = "sent" => backend # "deno-kv"),
           Store!TypeOK', StoresHold', robbed' \subseteq Ips, lost' \subseteq Ips,
           \A ip \in Ips : Sound(ip)', Witnessed'
    PROVE  Inv'
PROOF
<1>1. /\ req' \in [Requests -> Records'] /\ Decided' /\ CallsAreSent'
  BY RecordsMove
<1>2. /\ LogInOrder' /\ CountsAddUp' /\ CountersFollow'
      /\ Len(log') = Cardinality(Counted')
      /\ \A i \in DOMAIN log' : log'[i] \in Counted'
  BY CountKeeps DEF Inv
<1>3. CountersAreSound'
  BY DEF CountersAreSound
<1>4. Shared' => Remote!TypeOK'
  BY SameRemote DEF StoresHold, R!IInv
<1>5. TypeOK'
  BY <1>1, <1>2, <1>4 DEF TypeOK, Records
<1> QED
  BY <1>1, <1>2, <1>3, <1>5 DEF Inv

\* No counter has counted more than the log, so the next count is no more than
\* the log with the next request, and than the requests there are.
LEMMA ValueIsSmall ==
    ASSUME Inv, NEW ip \in Ips
    PROVE  /\ Value(ip) \in Nat /\ Len(log) \in Nat
           /\ Value(ip) <= Len(log)
           /\ \A r \in Requests \ Counted : Value(ip) + 1 <= Cardinality(Requests)
           /\ Cardinality(Requests) \in Nat
PROOF
<1>1. Value(ip) \in Nat /\ Len(log) \in Nat /\ Cardinality(Requests) \in Nat
      /\ \A r \in Requests \ Counted : Len(log) + 1 <= Cardinality(Requests)
  BY Typing, LogIsShort DEF Inv
<1>2. Value(ip) <= Len(log)
  BY <1>1 DEF Inv, CountersAreSound, Sound, Value
<1> QED
  BY <1>1, <1>2

\* Over the map store.
LEMMA CountKeepsInv ==
    ASSUME Inv, NEW r \in Requests, NEW own \in Ips, Count(r, own)
    PROVE  Inv'
PROOF
<1> DEFINE y == [req[r] EXCEPT !.stage = "counted", !.ip = own, !.at = now, !.count = reply'.value]
<1>1. /\ req[r].stage = "new" /\ ~Shared /\ Store!Incr(own, 1, WindowMs)
      /\ backend' = backend /\ call' = call /\ entry' = entry
      /\ req' = [req EXCEPT ![r] = y] /\ log' = Append(log, r)
      /\ robbed' = robbed \cup
            {ip \in Ips \ {own} : Store!Found(ip) # Absent /\ cache'.items[ip] = Absent}
      /\ lost' = lost
  BY DEF Count, NoteEvictions, sharedVars
<1>2. /\ Store!TypeOK' /\ P!DisabledIsEmpty' /\ now' = now /\ setDisabled' = setDisabled
      /\ reply'.value = (IF Store!Found(own) = Absent THEN 0 ELSE Store!Found(own).value) + 1
      /\ reply'.value \in 0..Cardinality(Requests)
      /\ setDisabled => \A j \in Ips : Store!Found(j)' = Absent
      /\ ~setDisabled => /\ Store!Found(own)' # Absent
                         /\ Store!Found(own)'.value = reply'.value
                         /\ Store!Found(own)'.timestamp = now
      /\ \A j \in Ips \ {own} :
            \/ Store!Found(j)' = Store!Found(j)
            \/ Store!Found(j)' = Absent /\ cache'.items[j] = Absent
  BY <1>1, MapIncr DEF Inv, TypeOK, StoresHold
<1>3. /\ req \in [Requests -> Records] /\ now \in Nat /\ WindowMs \in Nat
      /\ now + WindowMs # NoExpiry
  BY Typing, LimiterAssumption DEF Inv
<1>4. \A ip : /\ Counter(ip) = Store!Found(ip) /\ Counter(ip)' = Store!Found(ip)'
              /\ End(ip) = Store!Found(ip).timestamp + WindowMs
              /\ End(ip)' = Store!Found(ip)'.timestamp + WindowMs
  BY <1>1 DEF Counter, End, Shared
<1>5. reply'.value = Value(own) + 1
  BY <1>2, <1>4 DEF Value, Alive
<1>6. ~setDisabled => Alive(own)' /\ Value(own)' = Value(own) + 1 /\ End(own)' = now + WindowMs
  BY <1>2, <1>4, <1>5 DEF Value, Alive
<1>7. ASSUME NEW j \in Ips \ {own}
      PROVE  /\ Alive(j)' => /\ Alive(j) /\ Value(j)' = Value(j) /\ End(j)' = End(j)
                             /\ Counter(j)' = Counter(j)
             /\ Alive(j) /\ ~Alive(j)' => j \in robbed'
  BY <1>1, <1>2, <1>4 DEF Alive, Value
<1>8. setDisabled => \A j \in Ips : ~Alive(j)'
  BY <1>2, <1>4 DEF Alive
<1>9. /\ req'[r] = y /\ y \in Records
      /\ y.stage = "counted" /\ y.ip = own /\ y.at = now /\ y.count = reply'.value
      /\ y.passed = req[r].passed /\ y.told = req[r].told /\ y.stamp = req[r].stamp
  <2>1. now \in 0..now
    BY <1>3
  <2> QED
    BY <1>1, <1>2, <1>3, <2>1 DEF Records, Stages
<1> HIDE DEF y
<1>10. OneMoves(r)
  BY <1>1, <1>2, <1>9 DEF OneMoves
<1>11. r \notin Counted
  BY <1>1 DEF Counted
<1>12. Counted' = Counted \cup {r} /\ \A q \in Requests \ {r} : req'[q] = req[q]
  BY <1>9, <1>10, RecordsMove
<1>13. CountStep(r, own)
  <2>1. now + WindowMs \in Nat /\ now + WindowMs >= now + WindowMs
    BY <1>3
  <2> QED
    BY <1>1, <1>2, <1>5, <1>6, <1>7, <1>9, <1>12, <2>1 DEF CountStep
<1>14. Decides(r)'
  <2>1. y.count >= 1
    BY <1>5, <1>9, ValueIsSmall
  <2> QED
    BY <1>1, <1>9, <2>1 DEF Inv, Decided, Decides
<1>15. Waits(r)'
  BY <1>9 DEF Waits
<1>16. StoresHold'
  BY <1>1, <1>2 DEF Inv, StoresHold, Shared
<1>17. ASSUME NEW ip \in Ips PROVE Sound(ip)'
  <2>1. Len(log') = Len(log) + 1
    BY <1>1 DEF Inv, LogInOrder
  <2>2. CASE ip = own
    BY <1>1, <1>2, <1>3, <1>4, <1>6, <1>8, <2>1, <2>2, ValueIsSmall DEF Sound, Shared
  <2>3. CASE ip # own
    BY <1>1, <1>2, <1>4, <1>7, <2>1, <2>3, ValueIsSmall DEF Sound, Shared, Inv, CountersAreSound
  <2> QED
    BY <2>2, <2>3
<1>18. ASSUME NEW ip \in Ips, Alive(ip)' PROVE \E q \in Requests : Explains(q, ip)'
  <2>1. CASE ip = own
    <3>1. End(ip)' = now + WindowMs
      BY <1>6, <1>8, <1>18, <2>1
    <3>2. Explains(r, ip)'
      BY <1>3, <1>9, <2>1, <3>1 DEF Explains
    <3> QED
      BY <3>2
  <2>2. CASE ip # own
    <3>1. Alive(ip) /\ End(ip)' = End(ip) /\ End(ip) # NoExpiry
      BY <1>1, <1>7, <1>18, <2>2, Typing DEF Inv
    <3>2. PICK q \in Requests : Explains(q, ip)
      BY <1>1, <3>1 DEF Inv, Witnessed, Shared
    <3>3. q # r
      BY <1>1, <3>1, <3>2 DEF Explains
    <3>4. Explains(q, ip)'
      BY <1>12, <3>1, <3>2, <3>3 DEF Explains, ToldBy
    <3> QED
      BY <3>4
  <2> QED
    BY <2>1, <2>2
<1>19. Witnessed'
  BY <1>18 DEF Witnessed
<1>20. robbed' \subseteq Ips /\ lost' \subseteq Ips
  BY <1>1 DEF Inv, TypeOK
<1> QED
  BY <1>9, <1>10, <1>11, <1>13, <1>14, <1>15, <1>16, <1>17, <1>19, <1>20, <1>2, CountingKeeps

LEMMA CallMoves ==
    ASSUME Remote!TypeOK, NEW r \in Requests, NEW x, call' = [call EXCEPT ![r] = x]
    PROVE  call'[r] = x /\ \A q \in Requests \ {r} : call'[q] = call[q]
PROOF
<1>1. DOMAIN call = Requests
  BY DEF Remote!TypeOK
<1> QED
  BY <1>1

\* Over Redis, where INCRBY counts.
LEMMA SendRedisKeeps ==
    ASSUME Inv, NEW r \in Requests, NEW own \in Ips, Send(r, own),
           Remote!IncrBy(r, own, WindowMs), log' = Append(log, r)
    PROVE  Inv'
PROOF
<1> DEFINE y == [req[r] EXCEPT !.stage = "sent", !.ip = own, !.at = now, !.count = entry'[own].value]
<1>1. backend = "redis"
  BY DEF Remote!IncrBy
<1>2. /\ req[r].stage = "new" /\ Shared
      /\ req' = [req EXCEPT ![r] = y]
      /\ UNCHANGED mapVars /\ robbed' = robbed /\ lost' = lost
  BY <1>1 DEF Send, Shared
<1>3. R!IInv /\ Remote!TypeOK /\ Store!TypeOK /\ P!DisabledIsEmpty
  BY <1>2, RemoteFound DEF Inv, TypeOK, StoresHold
<1>4. /\ R!IInv' /\ backend' = backend /\ now' = now
      /\ call' = [call EXCEPT ![r] = [at |-> "expire", key |-> own, ttl |-> WindowMs]]
      /\ entry'[own] # Absent /\ entry'[own].timestamp = Null
      /\ entry'[own].value = (IF entry[own] = Absent THEN 0 ELSE entry[own].value) + 1
      /\ entry'[own].until = IF entry[own] = Absent THEN NoExpiry ELSE entry[own].until
      /\ \A j \in Ips \ {own} : entry'[j] = entry[j]
  BY <1>3, RedisIncr
<1>5. call'[r] = [at |-> "expire", key |-> own, ttl |-> WindowMs]
      /\ \A q \in Requests \ {r} : call'[q] = call[q]
  BY <1>3, <1>4, CallMoves
<1>6. /\ req \in [Requests -> Records] /\ now \in Nat /\ now \in 0..MaxNow /\ WindowMs \in Nat
  BY Typing DEF Inv
<1>7. Store!TypeOK' /\ P!DisabledIsEmpty' /\ setDisabled' = setDisabled
  BY <1>2, <1>3, <1>4, <1>6, MapRests
<1>8. \A ip : /\ Counter(ip) = entry[ip] /\ Counter(ip)' = entry'[ip]
              /\ End(ip) = entry[ip].until /\ End(ip)' = entry'[ip].until
  BY <1>2, <1>4 DEF Counter, End, Shared
<1>9. /\ Alive(own)' /\ Value(own)' = Value(own) + 1 /\ entry'[own].value = Value(own) + 1
      /\ End(own)' = IF Alive(own) THEN End(own) ELSE NoExpiry
  BY <1>4, <1>8 DEF Value, Alive
<1>10. \A j \in Ips \ {own} : /\ Alive(j)' <=> Alive(j)
                              /\ Value(j)' = Value(j) /\ End(j)' = End(j) /\ Counter(j)' = Counter(j)
  BY <1>4, <1>8 DEF Alive, Value
<1>11. r \notin Counted
  BY <1>2 DEF Counted
<1>12. /\ req'[r] = y /\ y \in Records
       /\ y.stage = "sent" /\ y.ip = own /\ y.at = now /\ y.count = Value(own) + 1
       /\ y.passed = req[r].passed /\ y.told = req[r].told /\ y.stamp = req[r].stamp
  <2>1. now \in 0..now
    BY <1>6
  <2>2. Value(own) + 1 \in 0..Cardinality(Requests)
    BY <1>11, ValueIsSmall
  <2> QED
    BY <1>2, <1>6, <1>9, <2>1, <2>2 DEF Records, Stages
<1> HIDE DEF y
<1>13. OneMoves(r)
  BY <1>2, <1>4, <1>5, <1>12 DEF OneMoves
<1>14. Counted' = Counted \cup {r} /\ \A q \in Requests \ {r} : req'[q] = req[q]
  BY <1>1, <1>12, <1>13, RecordsMove
<1>15. CountStep(r, own)
  BY <1>2, <1>4, <1>7, <1>9, <1>10, <1>12, <1>14 DEF CountStep
<1>16. Decides(r)'
  <2>1. y.count >= 1
    BY <1>12, ValueIsSmall
  <2> QED
    BY <1>2, <1>4, <1>12, <2>1 DEF Inv, Decided, Decides, Shared
<1>17. Waits(r)'
  BY <1>1, <1>4, <1>5, <1>12 DEF Waits
<1>18. StoresHold'
  BY <1>4, <1>7 DEF Inv, StoresHold, Shared
<1>19. ASSUME NEW ip \in Ips PROVE Sound(ip)'
  <2>1. Len(log') = Len(log) + 1
    BY DEF Inv, LogInOrder
  <2>2. CASE ip = own
    <3>1. End(own)' # NoExpiry => now < End(own)' /\ End(own)' <= now + WindowMs
      BY <1>1, <1>9 DEF Inv, CountersAreSound, Sound
    <3> QED
      BY <1>1, <1>4, <1>9, <2>1, <2>2, <3>1, ValueIsSmall DEF Sound
  <2>3. CASE ip # own
    BY <1>1, <1>4, <1>10, <2>1, <2>3, ValueIsSmall DEF Sound, Inv, CountersAreSound
  <2> QED
    BY <2>2, <2>3
<1>20. ASSUME NEW ip \in Ips, Alive(ip)' PROVE \E q \in Requests : Explains(q, ip)'
  <2>1. CASE ip = own /\ End(ip)' = NoExpiry
    <3>1. Explains(r, ip)'
      BY <1>12, <2>1 DEF Explains
    <3> QED
      BY <3>1
  <2>2. CASE ip # own \/ End(ip)' # NoExpiry
    <3>1. Alive(ip) /\ End(ip)' = End(ip)
      BY <1>9, <1>10, <1>20, <2>2
    <3>2. PICK q \in Requests : Explains(q, ip)
      BY <1>1, <3>1 DEF Inv, Witnessed
    <3>3. q # r
      BY <1>2, <3>2 DEF Explains
    <3>4. Explains(q, ip)'
      BY <1>14, <3>1, <3>2, <3>3 DEF Explains, ToldBy
    <3> QED
      BY <3>4
  <2> QED
    BY <2>1, <2>2
<1>21. Witnessed'
  BY <1>20 DEF Witnessed
<1>22. robbed' \subseteq Ips /\ lost' \subseteq Ips
  BY <1>2 DEF Inv, TypeOK
<1> QED
  BY <1>1, <1>7, <1>11, <1>12, <1>13, <1>15, <1>16, <1>17, <1>18, <1>19, <1>21, <1>22, CountingKeeps

\* Over Deno KV, where only the commit counts, with what the read has found.
LEMMA CommitKeepsInv ==
    ASSUME Inv, NEW r \in Requests, Confirm(r), Remote!Commit(r),
           req' = [req EXCEPT ![r].stage = "counted", ![r].at = now],
           log' = Append(log, r),
           lost' = IF entry' = entry THEN lost \cup {req[r].ip} ELSE lost
    PROVE  Inv'
PROOF
<1>0. PICK own : own = req[r].ip
  OBVIOUS
<1> DEFINE y == [req[r] EXCEPT !.stage = "counted", !.at = now]
<1>1. /\ req[r].stage = "sent" /\ UNCHANGED mapVars /\ robbed' = robbed
      /\ own \in Ips /\ Shared
  BY <1>0 DEF Confirm, Inv, Decided, Decides
<1>2. R!IInv /\ Remote!TypeOK /\ Store!TypeOK /\ P!DisabledIsEmpty /\ call[r].key = own
  BY <1>0, <1>1, RemoteFound DEF Inv, TypeOK, StoresHold, CallsAreSent, Waits
<1>3. /\ R!IInv' /\ backend = "deno-kv" /\ backend' = backend /\ now' = now
      /\ call' = [call EXCEPT ![r] = [at |-> "idle"]]
      /\ \/ entry' = entry
         \/ /\ call[r].seen = entry[own]
            /\ entry'[own] # Absent
            /\ entry'[own].value = (IF entry[own] = Absent THEN 0 ELSE entry[own].value) + 1
            /\ entry'[own].timestamp = IF entry[own] = Absent THEN now ELSE entry[own].timestamp
            /\ entry'[own].until = now + WindowMs
            /\ \A j \in Ips \ {own} : entry'[j] = entry[j]
  BY <1>1, <1>2, DenoCommit
<1>4. \A q \in Requests \ {r} : call'[q] = call[q]
  BY <1>2, <1>3, CallMoves
<1>5. /\ req \in [Requests -> Records] /\ now \in Nat /\ now \in 0..MaxNow /\ WindowMs \in Nat
      /\ now + WindowMs \in Nat /\ now + WindowMs # NoExpiry
  BY Typing, LimiterAssumption DEF Inv
<1>6. Store!TypeOK' /\ P!DisabledIsEmpty' /\ setDisabled' = setDisabled
  BY <1>1, <1>2, <1>3, <1>5, MapRests
<1>7. \A ip : /\ Counter(ip) = entry[ip] /\ Counter(ip)' = entry'[ip]
              /\ End(ip) = entry[ip].until /\ End(ip)' = entry'[ip].until
  BY <1>1, <1>3 DEF Counter, End, Shared
<1>8. entry' # entry =>
        /\ Alive(own)' /\ Value(own)' = Value(own) + 1 /\ End(own)' = now + WindowMs
        /\ req[r].count = Value(own) + 1
        /\ Counter(own)'.timestamp = IF Alive(own) THEN Counter(own).timestamp ELSE now
  <2>1. req[r].count = IF call[r].seen = Absent THEN 1 ELSE call[r].seen.value + 1
    BY <1>1, <1>3 DEF Inv, CallsAreSent, Waits
  <2>2. entry' # entry => req[r].count = Value(own) + 1
    BY <1>3, <1>7, <2>1 DEF Value, Alive
  <2>3. entry' # entry => /\ Alive(own)' /\ Value(own)' = Value(own) + 1
                         /\ End(own)' = now + WindowMs
    BY <1>3, <1>7 DEF Value, Alive
  <2>4. entry' # entry =>
          Counter(own)'.timestamp = IF Alive(own) THEN Counter(own).timestamp ELSE now
    BY <1>3, <1>7 DEF Alive
  <2> QED
    BY <2>2, <2>3, <2>4
<1>9. \A j \in Ips : entry' = entry \/ j # own =>
        (Alive(j)' <=> Alive(j)) /\ Value(j)' = Value(j) /\ End(j)' = End(j) /\ Counter(j)' = Counter(j)
  BY <1>3, <1>7 DEF Alive, Value
<1>10. r \notin Counted
  BY <1>1, <1>3 DEF Counted
<1>11. /\ req'[r] = y /\ y \in Records
       /\ y.stage = "counted" /\ y.ip = own /\ y.at = now /\ y.count = req[r].count
       /\ y.passed = req[r].passed /\ y.told = req[r].told /\ y.stamp = req[r].stamp
  <2>1. now \in 0..now
    BY <1>5
  <2> QED
    BY <1>0, <1>5, <2>1 DEF Records, Stages
<1>12. req' = [req EXCEPT ![r] = y]
  BY <1>5
<1> HIDE DEF y
<1>13. OneMoves(r)
  BY <1>3, <1>4, <1>11, <1>12 DEF OneMoves
<1>14. Counted' = Counted \cup {r} /\ \A q \in Requests \ {r} : req'[q] = req[q]
  BY <1>3, <1>11, <1>13, RecordsMove
<1>15. entry' = entry => own \in lost'
  BY <1>0
<1>16. CountStep(r, own)
  <2>1. now + WindowMs >= now + WindowMs /\ lost \subseteq lost'
    BY <1>5
  <2> QED
    BY <1>1, <1>3, <1>5, <1>6, <1>8, <1>9, <1>11, <1>14, <1>15, <2>1 DEF CountStep
<1>17. Decides(r)'
  BY <1>0, <1>1, <1>3, <1>11 DEF Inv, Decided, Decides, Shared
<1>18. Waits(r)'
  BY <1>11 DEF Waits
<1>19. StoresHold'
  BY <1>1, <1>3, <1>6 DEF Inv, StoresHold, Shared
<1>20. ASSUME NEW ip \in Ips PROVE Sound(ip)'
  <2>1. Len(log') = Len(log) + 1
    BY DEF Inv, LogInOrder
  <2>2. now \in 0..now /\ Sound(ip)
    BY <1>5 DEF Inv, CountersAreSound
  <2>3. CASE ip = own /\ entry' # entry
    <3>1. Value(own)' <= Len(log')
      BY <1>8, <2>1, <2>3, ValueIsSmall
    <3>2. Counter(own)'.timestamp \in 0..now
      BY <1>3, <1>8, <2>2, <2>3 DEF Sound
    <3> QED
      BY <1>3, <1>5, <1>8, <2>3, <3>1, <3>2 DEF Sound
  <2>4. CASE ip # own \/ entry' = entry
    BY <1>3, <1>9, <2>1, <2>2, <2>4, ValueIsSmall DEF Sound
  <2> QED
    BY <2>3, <2>4
<1>21. Witnessed'
  BY <1>3 DEF Witnessed
<1>22. robbed' \subseteq Ips /\ lost' \subseteq Ips
  BY <1>0, <1>1 DEF Inv, TypeOK
<1> QED
  BY <1>1, <1>3, <1>6, <1>10, <1>11, <1>13, <1>16, <1>17, <1>18, <1>19, <1>20, <1>21, <1>22, CountingKeeps

-----------------------------------------------------------------------------
(* The steps between, and the clock.                                         *)

\* The parts of the invariant a step that counts nobody is left to show.
LEMMA QuietInv ==
    ASSUME Inv, QuietStep, req' \in [Requests -> Records'], Decided', CallsAreSent',
           Store!TypeOK', StoresHold', robbed' \subseteq Ips, lost' \subseteq Ips,
           \A ip \in Ips : Sound(ip)', Witnessed'
    PROVE  Inv'
PROOF
<1>1. /\ LogInOrder' /\ CountsAddUp' /\ CountersFollow'
      /\ Len(log') = Cardinality(Counted')
      /\ \A i \in DOMAIN log' : log'[i] \in Counted'
  BY QuietKeeps DEF Inv
<1>2. CountersAreSound'
  BY DEF CountersAreSound
<1>3. Shared' => Remote!TypeOK'
  BY SameRemote DEF StoresHold, R!IInv
<1>4. TypeOK'
  BY <1>1, <1>3 DEF TypeOK, Records
<1> QED
  BY <1>1, <1>2, <1>4 DEF Inv

\* Where an entry of the log stands, before and after.
LEMMA LogFollows ==
    ASSUME Inv, ~setDisabled, NEW ip \in Ips \ lost, NEW i \in DOMAIN log, Nth(i).ip = ip
    PROVE  /\ log[i] \in Counted /\ Follows(ip, i)
           /\ Nth(i).at \in Nat /\ Nth(i).at <= now
           /\ Nth(i).stage # "new"
           /\ backend = "deno-kv" => Nth(i).stage # "sent"
           /\ Nth(i).stage \in {"sent", "failed"} => Shared
PROOF
<1>1. log[i] \in Counted /\ log[i] \in Requests /\ Follows(ip, i)
  BY DEF Inv, TypeOK, CountersFollow, Counted
<1> QED
  BY <1>1, Typing DEF Inv, Nth, Counted, Decided, Decides

\* The read of Deno KV.
LEMMA SendDenoKeeps ==
    ASSUME Inv, NEW r \in Requests, NEW own \in Ips, Send(r, own),
           Remote!Read(r, own, WindowMs), log' = log
    PROVE  Inv'
PROOF
<1> DEFINE c == IF Remote!Live(own) THEN entry[own].value + 1 ELSE 1
           y == [req[r] EXCEPT !.stage = "sent", !.ip = own, !.at = now, !.count = c]
<1>1. backend = "deno-kv"
  BY DEF Remote!Read
<1>2. /\ req[r].stage = "new" /\ Shared
      /\ req' = [req EXCEPT ![r] = y]
      /\ UNCHANGED mapVars /\ robbed' = robbed /\ lost' = lost
  BY <1>1 DEF Send, Shared
<1>3. R!IInv /\ Remote!TypeOK /\ Store!TypeOK /\ P!DisabledIsEmpty
  BY <1>2, RemoteFound DEF Inv, TypeOK, StoresHold
<1>4. /\ R!IInv' /\ backend' = backend /\ now' = now /\ entry' = entry
      /\ call' = [call EXCEPT ![r] = [at |-> "commit", key |-> own, ttl |-> WindowMs,
                                      seen |-> entry[own], life |-> life[own]]]
  BY <1>3, DenoRead
<1>5. /\ call'[r] = [at |-> "commit", key |-> own, ttl |-> WindowMs,
                     seen |-> entry[own], life |-> life[own]]
      /\ \A q \in Requests \ {r} : call'[q] = call[q]
  BY <1>3, <1>4, CallMoves
<1>6. /\ req \in [Requests -> Records] /\ now \in Nat /\ now \in 0..MaxNow
  BY Typing DEF Inv
<1>7. Store!TypeOK' /\ P!DisabledIsEmpty' /\ setDisabled' = setDisabled
  BY <1>2, <1>3, <1>4, <1>6, MapRests
<1>8. \A ip : (Alive(ip)' <=> Alive(ip)) /\ Value(ip)' = Value(ip) /\ End(ip)' = End(ip)
              /\ Counter(ip)' = Counter(ip)
  <2>1. \A ip : Counter(ip)' = Counter(ip)
    BY <1>2, <1>4 DEF Counter, Shared
  <2> QED
    BY <1>4, <2>1, SameCounter
<1>9. r \notin Counted
  BY <1>2 DEF Counted
<1>10. c = Value(own) + 1 /\ c = IF entry[own] = Absent THEN 1 ELSE entry[own].value + 1
  BY <1>2 DEF Value, Alive, Counter, Remote!Live
<1>11. c \in 0..Cardinality(Requests) /\ c >= 1
  BY <1>9, <1>10, ValueIsSmall
<1> HIDE DEF c
<1>12. /\ req'[r] = y /\ y \in Records
       /\ y.stage = "sent" /\ y.ip = own /\ y.at = now /\ y.count = c
       /\ y.passed = req[r].passed /\ y.told = req[r].told
  <2>1. now \in 0..now
    BY <1>6
  <2> QED
    BY <1>2, <1>6, <1>11, <2>1 DEF Records, Stages
<1> HIDE DEF y
<1>13. OneMoves(r)
  BY <1>2, <1>4, <1>5, <1>12 DEF OneMoves
<1>14. Decides(r)'
  BY <1>1, <1>2, <1>4, <1>11, <1>12 DEF Inv, Decided, Decides, Shared
<1>15. Waits(r)'
  BY <1>1, <1>4, <1>5, <1>10, <1>12 DEF Waits
<1>16. /\ req' \in [Requests -> Records'] /\ Decided' /\ CallsAreSent' /\ Counted' = Counted
       /\ \A q \in Requests \ {r} : req'[q] = req[q]
  BY <1>1, <1>9, <1>12, <1>13, <1>14, <1>15, RecordsMove
<1>17. QuietStep
  <2>1. \A q \in Counted : req'[q] = req[q]
    BY <1>9, <1>16 DEF Counted
  <2>2. ASSUME ~setDisabled, NEW ip \in Ips \ lost, NEW i \in DOMAIN log, Nth(i).ip = ip,
               Nth(i)'.stage \notin {"sent", "failed"}
        PROVE  Outlives(ip, i)'
    <3>1. Follows(ip, i) /\ Nth(i)' = Nth(i)
      BY <2>1, <2>2, LogFollows DEF Nth
    <3> QED
      BY <1>8, <2>2, <3>1 DEF Follows, Outlives
  <2> QED
    BY <1>2, <1>4, <1>7, <1>8, <1>16, <2>1, <2>2 DEF QuietStep
<1>18. StoresHold'
  BY <1>4, <1>7 DEF Inv, StoresHold, Shared
<1>19. \A ip \in Ips : Sound(ip)'
  BY <1>4, <1>8 DEF Inv, CountersAreSound, Sound
<1>20. Witnessed'
  BY <1>1, <1>4 DEF Witnessed
<1>21. robbed' \subseteq Ips /\ lost' \subseteq Ips
  BY <1>2 DEF Inv, TypeOK
<1> QED
  BY <1>7, <1>16, <1>17, <1>18, <1>19, <1>20, <1>21, QuietInv

\* EXPIRE, and EXPIRE that fails.
LEMMA ExpireKeepsInv ==
    ASSUME Inv, NEW r \in Requests, Confirm(r), log' = log, lost' = lost,
           \/ Remote!Prolong(r) /\ req' = [req EXCEPT ![r].stage = "counted"]
           \/ Remote!FailToProlong(r) /\ req' = [req EXCEPT ![r].stage = "failed"]
    PROVE  Inv'
PROOF
<1>0. PICK own : own = req[r].ip
  OBVIOUS
<1>1. PICK s \in {"counted", "failed"} :
        /\ req' = [req EXCEPT ![r].stage = s]
        /\ s = "counted" => Remote!Prolong(r)
        /\ s = "failed" => Remote!FailToProlong(r)
  OBVIOUS
<1> DEFINE y == [req[r] EXCEPT !.stage = s]
<1>2. /\ req[r].stage = "sent" /\ UNCHANGED mapVars /\ robbed' = robbed
      /\ own \in Ips /\ Shared
  BY <1>0 DEF Confirm, Inv, Decided, Decides
<1>3. R!IInv /\ Remote!TypeOK /\ Store!TypeOK /\ P!DisabledIsEmpty /\ call[r].key = own
  BY <1>0, <1>2, RemoteFound DEF Inv, TypeOK, StoresHold, CallsAreSent, Waits
<1>4. /\ R!IInv' /\ backend = "redis" /\ backend' = backend /\ now' = now
      /\ call' = [call EXCEPT ![r] = [at |-> "idle"]]
      /\ s = "failed" => entry' = entry
      /\ s = "counted" /\ entry[own] = Absent => entry' = entry
      /\ s = "counted" /\ entry[own] # Absent =>
            /\ entry'[own] # Absent
            /\ entry'[own].value = entry[own].value
            /\ entry'[own].timestamp = entry[own].timestamp
            /\ entry'[own].until = now + WindowMs
            /\ \A j \in Ips \ {own} : entry'[j] = entry[j]
  BY <1>1, <1>2, <1>3, RedisExpire
<1>5. \A q \in Requests \ {r} : call'[q] = call[q]
  BY <1>3, <1>4, CallMoves
<1>6. /\ req \in [Requests -> Records] /\ now \in Nat /\ now \in 0..MaxNow
      /\ WindowMs \in Nat \ {0} /\ now + WindowMs \in Nat /\ now + WindowMs # NoExpiry
  BY Typing, LimiterAssumption DEF Inv
<1>7. Store!TypeOK' /\ P!DisabledIsEmpty' /\ setDisabled' = setDisabled
  BY <1>2, <1>3, <1>4, <1>6, MapRests
<1>8. \A ip : /\ Counter(ip) = entry[ip] /\ Counter(ip)' = entry'[ip]
              /\ End(ip) = entry[ip].until /\ End(ip)' = entry'[ip].until
  BY <1>2, <1>4 DEF Counter, End, Shared
<1>9. ASSUME NEW ip \in Ips
      PROVE  /\ Alive(ip)' <=> Alive(ip)
             /\ Value(ip)' = Value(ip)
             /\ Alive(ip) => entry'[ip].timestamp = entry[ip].timestamp
             /\ Alive(ip) => End(ip)' = IF s = "counted" /\ ip = own THEN now + WindowMs
                                        ELSE End(ip)
  BY <1>4, <1>8 DEF Alive, Value
<1>10. r \in Counted
  BY <1>2, <1>4 DEF Counted
<1>11. /\ req'[r] = y /\ y \in Records
       /\ y.stage = s /\ y.ip = own /\ y.at = req[r].at /\ y.count = req[r].count
       /\ y.passed = req[r].passed /\ y.told = req[r].told /\ y.stamp = req[r].stamp
  BY <1>0, <1>1, <1>6 DEF Records, Stages
<1>12. req' = [req EXCEPT ![r] = y]
  BY <1>1, <1>6
<1> HIDE DEF y
<1>13. OneMoves(r)
  BY <1>4, <1>5, <1>11, <1>12 DEF OneMoves
<1>14. Decides(r)'
  BY <1>0, <1>2, <1>4, <1>11 DEF Inv, Decided, Decides, Shared
<1>15. Waits(r)'
  BY <1>11 DEF Waits
<1>16. /\ req' \in [Requests -> Records'] /\ Decided' /\ CallsAreSent' /\ Counted' = Counted
       /\ \A q \in Requests \ {r} : req'[q] = req[q]
  <2>1. Counted \cup {r} = Counted
    BY <1>10
  <2> QED
    BY <1>4, <1>11, <1>13, <1>14, <1>15, <2>1, RecordsMove
<1>17. QuietStep
  <2>1. \A q \in Counted :
           /\ req'[q].ip = req[q].ip /\ req'[q].at = req[q].at /\ req'[q].count = req[q].count
           /\ req[q].stage = "failed" => req'[q].stage = "failed"
    BY <1>0, <1>2, <1>11, <1>16 DEF Counted
  <2>2. ASSUME ~setDisabled, NEW ip \in Ips \ lost, NEW i \in DOMAIN log, Nth(i).ip = ip,
               Nth(i)'.stage \notin {"sent", "failed"}
        PROVE  Outlives(ip, i)'
    <3>1. log[i] \in Counted /\ Follows(ip, i) /\ Nth(i).at \in Nat /\ Nth(i).at <= now
      BY <2>2, LogFollows
    <3>2. Nth(i)' = req'[log[i]] /\ Nth(i) = req[log[i]] /\ log[i] \in Requests
      BY <3>1 DEF Nth, Counted
    <3>3. Nth(i)'.at = Nth(i).at
      BY <2>1, <3>1, <3>2
    <3>4. CASE s = "counted" /\ ip = own
      BY <1>6, <1>9, <3>1, <3>3, <3>4 DEF Outlives
    <3>5. CASE ~(s = "counted" /\ ip = own)
      <4>1. log[i] # r
        BY <1>0, <1>11, <2>2, <3>2, <3>5
      <4>2. Outlives(ip, i)
        BY <1>16, <2>2, <3>1, <3>2, <4>1 DEF Follows
      <4> QED
        BY <1>9, <3>3, <3>5, <4>2 DEF Outlives
    <3> QED
      BY <3>4, <3>5
  <2> QED
    BY <1>2, <1>4, <1>7, <1>9, <1>16, <2>1, <2>2 DEF QuietStep
<1>18. StoresHold'
  BY <1>4, <1>7 DEF Inv, StoresHold, Shared
<1>19. ASSUME NEW ip \in Ips PROVE Sound(ip)'
  <2>1. now < now + WindowMs /\ now + WindowMs <= now + WindowMs
    BY <1>6
  <2>2. Sound(ip)
    BY DEF Inv, CountersAreSound
  <2> QED
    BY <1>4, <1>9, <2>1, <2>2 DEF Sound
<1>20. ASSUME NEW ip \in Ips, Alive(ip) PROVE \E q \in Requests : Explains(q, ip)'
  <2>1. PICK q \in Requests : Explains(q, ip)
    BY <1>4, <1>20 DEF Inv, Witnessed
  <2>2. CASE s = "counted" /\ ip = own
    <3>1. Explains(r, ip)'
      BY <1>6, <1>9, <1>11, <1>20, <2>2 DEF Explains
    <3> QED
      BY <3>1
  <2>3. CASE ~(s = "counted" /\ ip = own) /\ q # r
    <3>1. Explains(q, ip)'
      BY <1>9, <1>16, <1>20, <2>1, <2>3 DEF Explains, ToldBy
    <3> QED
      BY <3>1
  <2>4. CASE ~(s = "counted" /\ ip = own) /\ q = r
    <3>1. s = "failed" /\ ip = own
      BY <1>0, <2>1, <2>4 DEF Explains
    <3>2. Explains(r, ip)'
      BY <1>2, <1>9, <1>11, <1>20, <2>1, <2>4, <3>1 DEF Explains
    <3> QED
      BY <3>2
  <2> QED
    BY <2>2, <2>3, <2>4
<1>21. Witnessed'
  BY <1>9, <1>20 DEF Witnessed
<1>22. robbed' \subseteq Ips /\ lost' \subseteq Ips
  BY <1>2 DEF Inv, TypeOK
<1> QED
  BY <1>7, <1>16, <1>17, <1>18, <1>19, <1>21, <1>22, QuietInv

\* Time, over the map store.
LEMMA TickMapKeeps ==
    ASSUME Inv, ~Shared, Store!Tick, UNCHANGED <<backend, sharedVars, robbed, req, log, lost>>
    PROVE  Inv'
PROOF
<1>1. /\ backend' = backend /\ call' = call /\ entry' = entry
      /\ robbed' = robbed /\ req' = req /\ log' = log /\ lost' = lost
  BY DEF sharedVars
<1>2. /\ Store!TypeOK' /\ P!DisabledIsEmpty' /\ now' = now + 1 /\ setDisabled' = setDisabled
      /\ \A j \in Ips :
            IF Store!Found(j) # Absent /\ now + 1 < Store!Found(j).timestamp + WindowMs
            THEN Store!Found(j)' = Store!Found(j)
            ELSE Store!Found(j)' = Absent
  BY MapTick DEF Inv, TypeOK, StoresHold
<1>3. \A ip : /\ Counter(ip) = Store!Found(ip) /\ Counter(ip)' = Store!Found(ip)'
              /\ End(ip) = Store!Found(ip).timestamp + WindowMs
              /\ End(ip)' = Store!Found(ip)'.timestamp + WindowMs
  BY <1>1 DEF Counter, End, Shared
<1>4. \A ip \in Ips :
        /\ Alive(ip)' => Alive(ip) /\ Value(ip)' = Value(ip) /\ End(ip)' = End(ip)
                         /\ Counter(ip)' = Counter(ip)
        /\ Alive(ip) /\ ~Alive(ip)' => ~(now + 1 < End(ip))
  BY <1>2, <1>3 DEF Alive, Value
<1>5. now \in Nat /\ req \in [Requests -> Records] /\ WindowMs \in Nat
      /\ \A ip \in Ips : Alive(ip) => End(ip) \in Nat /\ End(ip) # NoExpiry
  BY Typing DEF Inv
<1>6. 0..now \subseteq 0..now' /\ now' \in {now, now + 1}
  BY <1>2, <1>5
<1>7. req' \in [Requests -> Records']
  BY <1>1, <1>5, <1>6 DEF Records
<1>8. Decided' /\ CallsAreSent'
  BY <1>1 DEF Inv, Decided, Decides, CallsAreSent, Waits, Shared
<1>9. QuietStep
  <2>1. Counted' = Counted
    BY <1>1 DEF Counted
  <2>2. ASSUME ~setDisabled, NEW ip \in Ips \ lost, NEW i \in DOMAIN log, Nth(i).ip = ip
        PROVE  /\ Alive(ip) /\ ~Alive(ip)' => now' >= Nth(i).at + WindowMs
               /\ Outlives(ip, i)'
    <3>1. Nth(i)' = Nth(i) /\ Nth(i).at \in Nat
      BY <1>1, <2>2, LogFollows DEF Nth
    <3>2. Outlives(ip, i)
      BY <1>1, <2>2, LogFollows DEF Follows
    <3>3. Alive(ip) => End(ip) >= Nth(i).at + WindowMs
      BY <1>5, <2>2, <3>2 DEF Outlives
    <3> QED
      BY <1>2, <1>4, <1>5, <2>2, <3>1, <3>3 DEF Outlives
  <2> QED
    BY <1>1, <1>2, <1>4, <1>6, <2>1, <2>2 DEF QuietStep
<1>10. StoresHold'
  BY <1>1, <1>2 DEF Inv, StoresHold, Shared
<1>11. \A ip \in Ips : Sound(ip)'
  <2>1. backend \notin {"redis", "deno-kv"}
    BY DEF Shared
  <2> QED
    BY <1>1, <1>4, <1>6, <2>1 DEF Inv, CountersAreSound, Sound
<1>12. Witnessed'
  <2>1. \A q, ip : End(ip)' = End(ip) /\ Explains(q, ip) => Explains(q, ip)'
    BY <1>1 DEF Explains, ToldBy
  <2> QED
    BY <1>1, <1>4, <2>1 DEF Inv, Witnessed
<1>13. robbed' \subseteq Ips /\ lost' \subseteq Ips
  BY <1>1 DEF Inv, TypeOK
<1> QED
  BY <1>2, <1>7, <1>8, <1>9, <1>10, <1>11, <1>12, <1>13, QuietInv

\* Time, over a shared store.
LEMMA TickSharedKeeps ==
    ASSUME Inv, Shared, Remote!Tick, UNCHANGED <<mapVars, req, log, lost>>,
           robbed' = robbed \cup
                {ip \in Ips : /\ Remote!Live(ip) /\ ~Remote!Live(ip)'
                             /\ \E r \in Requests : req[r].stage = "sent"
                                                  /\ req[r].ip = ip}
    PROVE  Inv'
PROOF
<1>1. req' = req /\ log' = log /\ lost' = lost
  OBVIOUS
<1>2. /\ R!IInv' /\ backend' = backend /\ now' = now + 1 /\ call' = call
      /\ \A ip \in Ips :
            entry'[ip] = IF /\ backend = "redis"
                            /\ entry[ip] # Absent
                            /\ entry[ip].until # NoExpiry
                            /\ now + 1 >= entry[ip].until
                         THEN Absent ELSE entry[ip]
  BY RemoteTick DEF Inv, StoresHold
<1>3. now \in Nat /\ MaxNow \in Nat /\ req \in [Requests -> Records] /\ WindowMs \in Nat
      /\ \A ip \in Ips : Alive(ip) => End(ip) \in Nat \cup {NoExpiry}
  BY Typing DEF Inv
<1>4. Store!TypeOK' /\ P!DisabledIsEmpty' /\ setDisabled' = setDisabled
  <2>1. now' \in 0..MaxNow /\ now <= now'
    BY <1>2, <1>3 DEF Remote!Tick
  <2> QED
    BY <2>1, MapRests DEF Inv, TypeOK, StoresHold
<1>5. \A ip : /\ Counter(ip) = entry[ip] /\ Counter(ip)' = entry'[ip]
              /\ End(ip) = entry[ip].until /\ End(ip)' = entry'[ip].until
  BY <1>2 DEF Counter, End, Shared
<1>6. \A ip \in Ips :
        /\ Alive(ip)' => /\ Alive(ip) /\ Value(ip)' = Value(ip) /\ End(ip)' = End(ip)
                         /\ Counter(ip)' = Counter(ip) /\ entry'[ip] = entry[ip]
        /\ Alive(ip)' /\ backend = "redis" /\ End(ip) # NoExpiry => ~(now + 1 >= End(ip))
        /\ Alive(ip) /\ ~Alive(ip)' =>
             /\ backend = "redis" /\ End(ip) # NoExpiry /\ now + 1 >= End(ip)
             /\ Remote!Live(ip) /\ ~Remote!Live(ip)'
  BY <1>2, <1>5 DEF Alive, Value, Remote!Live
<1>7. 0..now \subseteq 0..now' /\ now' \in {now, now + 1}
  BY <1>2, <1>3
<1>8. req' \in [Requests -> Records']
  BY <1>1, <1>3, <1>7 DEF Records
<1>9. Decided' /\ CallsAreSent'
  BY <1>1, <1>2 DEF Inv, Decided, Decides, CallsAreSent, Waits, Shared
<1>10. QuietStep
  <2>1. Counted' = Counted
    BY <1>1, <1>2 DEF Counted
  <2>2. ASSUME ~setDisabled, NEW ip \in Ips \ lost, NEW i \in DOMAIN log, Nth(i).ip = ip
        PROVE  /\ Alive(ip) /\ ~Alive(ip)' /\ Nth(i).stage # "failed" =>
                     ip \in robbed' \/ now' >= Nth(i).at + WindowMs
               /\ Nth(i)'.stage \notin {"sent", "failed"} => Outlives(ip, i)'
    <3>1. /\ Nth(i)' = Nth(i) /\ Nth(i).at \in Nat /\ Follows(ip, i)
          /\ log[i] \in Requests /\ Nth(i) = req[log[i]]
      BY <1>1, <2>2, LogFollows DEF Nth, Counted
    <3>2. CASE Nth(i).stage = "sent"
      <4>1. Alive(ip) /\ ~Alive(ip)' => ip \in robbed'
        BY <1>6, <2>2, <3>1, <3>2
      <4> QED
        BY <3>1, <3>2, <4>1
    <3>3. CASE Nth(i).stage \notin {"sent", "failed"}
      <4>1. Outlives(ip, i)
        BY <3>1, <3>3 DEF Follows
      <4>2. Alive(ip) => End(ip) = NoExpiry \/ (End(ip) \in Nat /\ End(ip) >= Nth(i).at + WindowMs)
        BY <1>3, <4>1 DEF Outlives
      <4>3. Alive(ip) /\ ~Alive(ip)' => now' >= Nth(i).at + WindowMs
        BY <1>2, <1>3, <1>6, <3>1, <4>2
      <4>4. Outlives(ip, i)'
        BY <1>6, <3>1, <4>2 DEF Outlives
      <4> QED
        BY <4>3, <4>4
    <3>4. CASE Nth(i).stage = "failed"
      BY <3>1, <3>4
    <3> QED
      BY <3>2, <3>3, <3>4
  <2> QED
    BY <1>1, <1>4, <1>6, <1>7, <2>1, <2>2 DEF QuietStep
<1>11. StoresHold'
  BY <1>2, <1>4 DEF Inv, StoresHold, Shared
<1>12. ASSUME NEW ip \in Ips, Alive(ip)' PROVE Sound(ip)'
  <2>1. Sound(ip) /\ Alive(ip) /\ End(ip) \in Nat \cup {NoExpiry}
    BY <1>3, <1>6, <1>12 DEF Inv, CountersAreSound
  <2>2. backend = "redis" /\ End(ip) # NoExpiry => now' < End(ip) /\ End(ip) <= now' + WindowMs
    BY <1>2, <1>3, <1>6, <1>12, <2>1 DEF Sound
  <2> QED
    BY <1>1, <1>2, <1>6, <1>7, <1>12, <2>1, <2>2 DEF Sound
<1>13. \A ip \in Ips : Sound(ip)'
  BY <1>12 DEF Sound
<1>14. Witnessed'
  <2>1. \A q, ip : End(ip)' = End(ip) /\ Explains(q, ip) => Explains(q, ip)'
    BY <1>1 DEF Explains, ToldBy
  <2> QED
    BY <1>2, <1>6, <2>1 DEF Inv, Witnessed
<1>15. robbed' \subseteq Ips /\ lost' \subseteq Ips
  BY <1>1 DEF Inv, TypeOK
<1> QED
  BY <1>4, <1>8, <1>9, <1>10, <1>11, <1>13, <1>14, <1>15, QuietInv

\* Deno KV drops a counter whose window is over.
LEMMA LapseKeepsInv ==
    ASSUME Inv, NEW own \in Ips, Lapse(own)
    PROVE  Inv'
PROOF
<1>1. /\ req' = req /\ log' = log /\ lost' = lost /\ robbed' = robbed
      /\ UNCHANGED mapVars /\ Remote!Lapse(own) /\ Shared
  BY DEF Lapse, Remote!Lapse, Shared
<1>2. /\ R!IInv' /\ backend = "deno-kv" /\ backend' = backend /\ now' = now /\ call' = call
      /\ entry[own] # Absent /\ entry[own].until # NoExpiry /\ now >= entry[own].until
      /\ entry'[own] = Absent
      /\ \A j \in Ips \ {own} : entry'[j] = entry[j]
  BY <1>1, DenoLapse DEF Inv, StoresHold
<1>3. now \in Nat /\ now \in 0..MaxNow /\ req \in [Requests -> Records] /\ WindowMs \in Nat
      /\ \A ip \in Ips : Alive(ip) => End(ip) \in Nat \cup {NoExpiry}
  BY Typing DEF Inv
<1>4. Store!TypeOK' /\ P!DisabledIsEmpty' /\ setDisabled' = setDisabled
  BY <1>1, <1>2, <1>3, MapRests DEF Inv, TypeOK, StoresHold
<1>5. \A ip : /\ Counter(ip) = entry[ip] /\ Counter(ip)' = entry'[ip]
              /\ End(ip) = entry[ip].until /\ End(ip)' = entry'[ip].until
  BY <1>1, <1>2 DEF Counter, End, Shared
<1>6. \A ip \in Ips :
        /\ Alive(ip)' => /\ Alive(ip) /\ Value(ip)' = Value(ip) /\ End(ip)' = End(ip)
                         /\ Counter(ip)' = Counter(ip)
        /\ Alive(ip) /\ ~Alive(ip)' => End(ip) # NoExpiry /\ now >= End(ip)
  BY <1>2, <1>5 DEF Alive, Value
<1>7. req' \in [Requests -> Records'] /\ Decided' /\ CallsAreSent'
  BY <1>1, <1>2, <1>3 DEF Records, Inv, Decided, Decides, CallsAreSent, Waits, Shared
<1>8. QuietStep
  <2>1. Counted' = Counted
    BY <1>1, <1>2 DEF Counted
  <2>2. ASSUME ~setDisabled, NEW ip \in Ips \ lost, NEW i \in DOMAIN log, Nth(i).ip = ip
        PROVE  /\ Alive(ip) /\ ~Alive(ip)' /\ Nth(i).stage # "failed" =>
                     now' >= Nth(i).at + WindowMs
               /\ Nth(i)'.stage \notin {"sent", "failed"} => Outlives(ip, i)'
    <3>1. Nth(i)' = Nth(i) /\ Nth(i).at \in Nat /\ Follows(ip, i) /\ Nth(i).stage # "sent"
      BY <1>1, <1>2, <2>2, LogFollows DEF Nth
    <3>2. Nth(i).stage # "failed" => Outlives(ip, i)
      BY <3>1 DEF Follows
    <3> QED
      BY <1>2, <1>3, <1>6, <2>2, <3>1, <3>2 DEF Outlives
  <2> QED
    BY <1>1, <1>2, <1>4, <1>6, <2>1, <2>2 DEF QuietStep
<1>9. StoresHold'
  BY <1>2, <1>4 DEF Inv, StoresHold, Shared
<1>10. \A ip \in Ips : Sound(ip)'
  BY <1>1, <1>2, <1>6 DEF Inv, CountersAreSound, Sound
<1>11. Witnessed'
  BY <1>2 DEF Witnessed
<1>12. robbed' \subseteq Ips /\ lost' \subseteq Ips
  BY <1>1 DEF Inv, TypeOK
<1> QED
  BY <1>4, <1>7, <1>8, <1>9, <1>10, <1>11, <1>12, QuietInv

-----------------------------------------------------------------------------
(* Every behaviour.                                                          *)

\* Nothing is counted, found or on its way at first.
LEMMA InitInv == Init => Inv
PROOF
<1> SUFFICES ASSUME Init PROVE Inv
  OBVIOUS
<1>1. /\ Store!Init /\ Remote!Empty /\ backend \in StoreTypes /\ (Shared => ~setDisabled)
      /\ req = [r \in Requests |-> NewRequest] /\ log = <<>> /\ robbed = {} /\ lost = {}
  BY DEF Init
<1>2. P!Init /\ Store!TypeOK
  BY <1>1, SameStore, StoresAssumed, P!InitType
<1>3. \A ip \in Ips : cache.items[ip] = Absent /\ entry[ip] = Absent
  BY <1>1 DEF Store!Init, Store!EmptyCache, Remote!Empty
<1>4. Shared => R!IInv
  BY <1>1, SameRemote, StoresAssumed, R!InitHolds DEF Shared
<1>5. StoresHold
  BY <1>1, <1>3, <1>4, LimiterAssumption DEF StoresHold, P!DisabledIsEmpty, P!Held
<1>6. \A ip \in Ips : ~Alive(ip)
  BY <1>3 DEF Alive, Counter, Store!Found, Store!IsExpired
<1>7. now = 0 /\ Cardinality(Requests) \in Nat
  BY <1>1, StoresAssumed DEF Store!Init
<1>8. req \in [Requests -> Records] /\ \A r \in Requests : req[r] = NewRequest
  BY <1>1, <1>7 DEF Records, NewRequest, Stages
<1>9. Counted = {} /\ Cardinality(Counted) = 0
  <2>1. Counted = {}
    BY <1>8 DEF Counted, NewRequest
  <2> QED
    BY <2>1, FS_EmptySet
<1>10. Len(log) = 0 /\ DOMAIN log = {} /\ log \in Seq(Requests)
  BY <1>1
<1>11. TypeOK
  <2>1. Shared => Remote!TypeOK
    BY <1>4, SameRemote DEF R!IInv
  <2> QED
    BY <1>1, <1>2, <1>8, <1>9, <1>10, <2>1 DEF TypeOK, Records
<1>12. LogInOrder /\ CountsAddUp /\ CountersFollow
  BY <1>10 DEF LogInOrder, CountsAddUp, CountersFollow
<1>13. Decided /\ CallsAreSent
  BY <1>8 DEF Decided, Decides, CallsAreSent, Waits, NewRequest
<1>14. CountersAreSound /\ Witnessed
  BY <1>6 DEF CountersAreSound, Sound, Witnessed
<1> QED
  BY <1>5, <1>11, <1>12, <1>13, <1>14 DEF Inv

LEMMA StutterKeeps ==
    ASSUME Inv, UNCHANGED vars
    PROVE  Inv'
PROOF
<1>1. UNCHANGED storeVars /\ req' = req /\ log' = log /\ robbed' = robbed /\ lost' = lost
  BY DEF vars
<1>2. /\ Store!TypeOK' /\ StoresHold' /\ setDisabled' = setDisabled
      /\ now' = now /\ backend' = backend /\ entry' = entry /\ call' = call
      /\ \A ip \in Ips : Counter(ip)' = Counter(ip)
  BY <1>1, StoresRest
<1>3. \A ip \in Ips : (Alive(ip)' <=> Alive(ip)) /\ Value(ip)' = Value(ip) /\ End(ip)' = End(ip)
  BY <1>2, SameCounter
<1>4. req' \in [Requests -> Records'] /\ Decided' /\ CallsAreSent'
  BY <1>1, <1>2, Typing DEF Records, Inv, Decided, Decides, CallsAreSent, Waits, Shared
<1>5. QuietStep
  <2>1. Counted' = Counted
    BY <1>1, <1>2 DEF Counted
  <2>2. ASSUME ~setDisabled, NEW ip \in Ips \ lost, NEW i \in DOMAIN log, Nth(i).ip = ip,
               Nth(i)'.stage \notin {"sent", "failed"}
        PROVE  Outlives(ip, i)'
    <3>1. Nth(i)' = Nth(i) /\ Follows(ip, i)
      BY <1>1, <2>2, LogFollows DEF Nth
    <3> QED
      BY <1>3, <2>2, <3>1 DEF Follows, Outlives
  <2> QED
    BY <1>1, <1>2, <1>3, <2>1, <2>2 DEF QuietStep
<1>6. \A ip \in Ips : Sound(ip)'
  BY <1>1, <1>2, <1>3 DEF Inv, CountersAreSound, Sound
<1>7. Witnessed'
  <2>1. \A q : \A ip \in Ips : Explains(q, ip) => Explains(q, ip)'
    BY <1>1, <1>3 DEF Explains, ToldBy
  <2> QED
    BY <1>2, <1>3, <2>1 DEF Inv, Witnessed
<1>8. robbed' \subseteq Ips /\ lost' \subseteq Ips
  BY <1>1 DEF Inv, TypeOK
<1> QED
  BY <1>2, <1>4, <1>5, <1>6, <1>7, <1>8, QuietInv

LEMMA NextInv == Inv /\ [Next]_vars => Inv'
PROOF
<1> SUFFICES ASSUME Inv, [Next]_vars PROVE Inv'
  OBVIOUS
<1>1. ASSUME NEW r \in Requests, NEW ip \in Ips, Count(r, ip) PROVE Inv'
  BY <1>1, CountKeepsInv
<1>2. ASSUME NEW r \in Requests, NEW ip \in Ips, Send(r, ip) PROVE Inv'
  <2>1. CASE Remote!IncrBy(r, ip, WindowMs) /\ log' = Append(log, r)
    BY <1>2, <2>1, SendRedisKeeps
  <2>2. CASE Remote!Read(r, ip, WindowMs) /\ log' = log
    BY <1>2, <2>2, SendDenoKeeps
  <2> QED
    BY <1>2, <2>1, <2>2 DEF Send
<1>3. ASSUME NEW r \in Requests, Confirm(r) PROVE Inv'
  <2>1. CASE /\ log' = log /\ lost' = lost
             /\ \/ Remote!Prolong(r) /\ req' = [req EXCEPT ![r].stage = "counted"]
                \/ Remote!FailToProlong(r) /\ req' = [req EXCEPT ![r].stage = "failed"]
    BY <1>3, <2>1, ExpireKeepsInv
  <2>2. CASE /\ Remote!Commit(r)
             /\ req' = [req EXCEPT ![r].stage = "counted", ![r].at = now]
             /\ log' = Append(log, r)
             /\ lost' = IF entry' = entry THEN lost \cup {req[r].ip} ELSE lost
    BY <1>3, <2>2, CommitKeepsInv
  <2> QED
    BY <1>3, <2>1, <2>2 DEF Confirm
<1>4. ASSUME NEW r \in Requests, Stamp(r) PROVE Inv'
  BY <1>4, StampKeeps
<1>5. ASSUME NEW r \in Requests, Admit(r) \/ Refuse(r) \/ HandOver(r) PROVE Inv'
  BY <1>5, DecisionKeeps
<1>6. ASSUME NEW r \in Requests, Finish(r) PROVE Inv'
  BY <1>6, FinishKeeps
<1>7. ASSUME NEW ip \in Ips, Lapse(ip) PROVE Inv'
  BY <1>7, LapseKeepsInv
<1>8. CASE Tick
  BY <1>8, TickMapKeeps, TickSharedKeeps DEF Tick
<1>9. CASE UNCHANGED vars
  BY <1>9, StutterKeeps
<1> QED
  BY <1>1, <1>2, <1>3, <1>4, <1>5, <1>6, <1>7, <1>8, <1>9 DEF Next

LEMMA SpecInv == Spec => []Inv
  BY InitInv, NextInv, PTL DEF Spec

\* Whatever the requests, the limit and the store, the counts are those of the
\* log and no counter exceeds the requests there are.
THEOREM TypeCorrect == Spec => []TypeOK
PROOF
<1>1. Inv => TypeOK
  BY DEF Inv
<1> QED
  BY <1>1, SpecInv, PTL

\* What is known of two requests of one address of which nothing was lost.
LEMMA TwoPlaces ==
    ASSUME Inv, ~setDisabled, NEW ip \in Ips \ lost,
           NEW j \in DOMAIN log, NEW i \in 1..j-1, Nth(i).ip = ip, Nth(j).ip = ip
    PROVE  /\ i \in DOMAIN log /\ log[i] \in Requests /\ log[j] \in Requests
           /\ AddsUp(ip, i, j)
           /\ Nth(i).at <= Nth(j).at /\ Nth(i).at \in Nat /\ Nth(j).at \in Nat
           /\ Nth(i).count \in Nat /\ Nth(j).count \in Nat
           /\ Cardinality(PlacesOf(ip, i + 1, j)) \in Nat
           /\ Cardinality(PlacesOf(ip, i + 1, j)) >= 1
PROOF
<1>1. PICK n \in Nat : DOMAIN log = 1..n
  BY DEF Inv, LogInOrder
<1>2. j \in 1..n /\ i \in 1..n /\ i < j /\ i + 1 \in Nat /\ j \in Nat
  BY <1>1
<1>3. log[i] \in Requests /\ log[j] \in Requests
  BY <1>1, <1>2 DEF Inv, TypeOK, Counted
<1>4. AddsUp(ip, i, j) /\ Nth(i).at <= Nth(j).at
  BY <1>1, <1>2 DEF Inv, CountsAddUp, LogInOrder
<1>5. Cardinality(PlacesOf(ip, i + 1, j)) \in Nat /\ Cardinality(PlacesOf(ip, i + 1, j)) >= 1
  <2>1. j \in PlacesOf(ip, i + 1, j)
    BY <1>2 DEF PlacesOf
  <2> QED
    BY <1>2, <2>1, PlacesFinite
<1> QED
  BY <1>1, <1>2, <1>3, <1>4, <1>5, Typing DEF Inv, Nth

\* The headline of a limiter, for any number of requests, addresses and servers:
\* no window lets Limit of an address through while its counter is kept.
THEOREM LimitHolds == Spec => []AtMostLimitPerWindow
PROOF
<1>1. Inv => AtMostLimitPerWindow
  <2> SUFFICES ASSUME Inv, ~setDisabled, NEW k \in DOMAIN log, Nth(k).ip \notin robbed \cup lost,
                      NEW window, window = {j \in PlacesOf(Nth(k).ip, 1, k) :
                                              Nth(j).at + WindowMs > Nth(k).at /\ Passed(j)},
                      window # {}
               PROVE  Cardinality(window) < Limit
    BY DEF AtMostLimitPerWindow
  <2> DEFINE ip == Nth(k).ip
  <2>1. PICK n \in Nat : DOMAIN log = 1..n
    BY DEF Inv, LogInOrder
  <2>2. Limit \in Nat /\ WindowMs \in Nat
    BY LimiterAssumption
  <2>3. ASSUME NEW j \in window
        PROVE  /\ j \in DOMAIN log /\ j <= k /\ j \in Nat /\ Nth(j).ip = ip
               /\ Nth(j).at + WindowMs > Nth(k).at /\ Nth(j).at <= Nth(k).at
               /\ Nth(j).at \in Nat /\ Nth(k).at \in Nat
               /\ Nth(j).stage # "failed"
               /\ Nth(j).count \in 1..Limit-1
    <3>1. /\ j \in DOMAIN log /\ j <= k /\ j \in Nat /\ Nth(j).ip = ip
          /\ Nth(j).at + WindowMs > Nth(k).at /\ Nth(j).passed
      BY <2>1 DEF PlacesOf, Passed
    <3>2. log[j] \in Requests /\ log[k] \in Requests /\ req[log[j]].stage # "new"
      BY <3>1 DEF Inv, TypeOK, Counted
    <3>3. Nth(j).at <= Nth(k).at
      BY <3>1 DEF Inv, LogInOrder
    <3>4. Nth(j).stage # "failed" /\ Nth(j).count < Limit /\ Nth(j).count >= 1
      BY <3>1, <3>2 DEF Inv, Decided, Decides, Nth
    <3>5. Nth(j).at \in Nat /\ Nth(k).at \in Nat /\ Nth(j).count \in Nat
      BY <3>2, Typing DEF Inv, Nth
    <3> QED
      BY <2>2, <3>1, <3>3, <3>4, <3>5
  <2>4. ip \in Ips \ lost /\ ip \notin robbed
    <3>1. log[k] \in Requests /\ req[log[k]].stage # "new"
      BY DEF Inv, TypeOK, Counted
    <3> QED
      BY <3>1 DEF Inv, Decided, Decides, Nth
  <2>5. ASSUME NEW i \in window, NEW j \in window, i < j
        PROVE  Nth(i).count < Nth(j).count
    <3>1. i \in 1..j-1
      BY <2>1, <2>3, <2>5
    <3>2. /\ AddsUp(ip, i, j) /\ Nth(i).count \in Nat /\ Nth(j).count \in Nat
          /\ Cardinality(PlacesOf(ip, i + 1, j)) \in Nat
          /\ Cardinality(PlacesOf(ip, i + 1, j)) >= 1
      BY <2>3, <2>4, <3>1, TwoPlaces
    <3>3. Nth(j).at < Nth(i).at + WindowMs
      BY <2>2, <2>3
    <3>4. Nth(j).count = Nth(i).count + Cardinality(PlacesOf(ip, i + 1, j))
      BY <2>3, <2>4, <3>2, <3>3 DEF AddsUp
    <3> QED
      BY <3>2, <3>4
  <2>6. Limit - 1 \in Nat /\ IsFiniteSet(1..Limit-1) /\ Cardinality(1..Limit-1) = Limit - 1
    <3>1. Limit - 1 \in Nat
      BY <2>2, <2>3
    <3> QED
      BY <3>1, FS_Interval
  <2> DEFINE f == [j \in window |-> Nth(j).count]
  <2>7. f \in Injection(window, 1..Limit-1)
    <3>1. \A i, j \in window : f[i] = f[j] => i = j
      BY <2>3, <2>5
    <3> QED
      BY <2>3, <3>1 DEF Injection, IsInjective
  <2>8. Cardinality(window) <= Limit - 1 /\ Cardinality(window) \in Nat
    BY <2>6, <2>7, FS_Injection, FS_CardinalityType
  <2> QED
    BY <2>2, <2>8
<1> QED
  BY <1>1, SpecInv, PTL

\* The header is exact for any number of requests: neither fewer nor, within the
\* window, more than X-Rate-Limit-Remaining of the next ones pass.
THEOREM RemainderHolds == Spec => []RemainingIsExact
PROOF
<1>1. Inv => RemainingIsExact
  <2> SUFFICES ASSUME Inv, ~setDisabled, NEW j \in DOMAIN log, NEW i \in 1..j-1,
                      Nth(i).ip = Nth(j).ip, Nth(i).told, Nth(i).ip \notin lost,
                      NEW nth, nth = Cardinality(PlacesOf(Nth(j).ip, i + 1, j))
               PROVE  /\ nth <= Remaining(Nth(i).count) => ~Refused(j)
                      /\ Nth(j).at < Nth(i).at + WindowMs /\ Nth(j).ip \notin robbed /\ Passed(j)
                         => nth <= Remaining(Nth(i).count)
    BY DEF RemainingIsExact
  <2> DEFINE ip == Nth(j).ip
  <2>1. log[j] \in Requests /\ req[log[j]].stage # "new"
    BY DEF Inv, TypeOK, Counted
  <2>2. ip \in Ips \ lost /\ Decides(log[j])
    BY <2>1 DEF Inv, Decided, Decides, Nth
  <2>3. /\ log[i] \in Requests
        /\ AddsUp(ip, i, j)
        /\ Nth(i).count \in Nat /\ Nth(j).count \in Nat
        /\ nth \in Nat /\ nth >= 1
    BY <2>2, TwoPlaces
  <2>4. Nth(i).stage # "failed"
    BY <2>3 DEF Inv, Decided, Decides, Nth
  <2>5. /\ Nth(j).count <= Nth(i).count + nth
        /\ ip \notin robbed /\ Nth(j).at < Nth(i).at + WindowMs
           => Nth(j).count = Nth(i).count + nth
    BY <2>3, <2>4 DEF AddsUp
  <2>6. Limit \in Nat
    BY LimiterAssumption
  <2>7. ASSUME nth <= Remaining(Nth(i).count) PROVE ~Refused(j)
    <3>1. Nth(j).count < Limit
      BY <2>3, <2>5, <2>6, <2>7 DEF Remaining
    <3>2. Refused(j) => Nth(j).count >= Limit
      BY <2>2 DEF Refused, Nth, Decides
    <3> QED
      BY <2>3, <2>6, <3>1, <3>2
  <2>8. ASSUME Nth(j).at < Nth(i).at + WindowMs, ip \notin robbed, Passed(j)
        PROVE  nth <= Remaining(Nth(i).count)
    <3>1. Nth(j).count < Limit
      BY <2>2, <2>8 DEF Passed, Nth, Decides
    <3> QED
      BY <2>3, <2>5, <2>6, <2>8, <3>1 DEF Remaining
  <2> QED
    BY <2>7, <2>8
<1> QED
  BY <1>1, SpecInv, PTL

\* Who has waited out what it was told finds no counter left.
LEMMA WaitedOutIsOver ==
    ASSUME Inv, NEW ip \in Ips, WaitedOut(ip), backend # "deno-kv"
    PROVE  ~Alive(ip)
PROOF
<1> SUFFICES ASSUME Alive(ip) PROVE FALSE
  OBVIOUS
<1>1. PICK q \in Requests : Explains(q, ip)
  BY DEF Inv, Witnessed
<1>2. req[q].stage = "answered" /\ now >= ToldBy(q)
  BY <1>1 DEF WaitedOut, Reached, Explains, ToldBy
<1>3. End(ip) # NoExpiry /\ ToldBy(q) >= End(ip)
  BY <1>1, <1>2 DEF Explains
<1>4. now \in Nat /\ End(ip) \in Nat
  BY <1>3, Typing DEF Inv
<1>5. ToldBy(q) \in Nat
  <2>1. req[q].reset \in Nat /\ Second \in Nat
    BY Typing, LimiterAssumption DEF Inv
  <2>2. Second \div 2 \in Nat /\ Second * req[q].reset \in Nat
    BY <2>1, DivIs
  <2> QED
    BY <2>2 DEF ToldBy
<1>6. now < End(ip)
  <2>1. CASE Shared
    BY <1>3, <2>1 DEF Inv, StoresHold, Shared, CountersAreSound, Sound
  <2>2. CASE ~Shared
    BY <2>2, Typing DEF Inv
  <2> QED
    BY <2>1, <2>2
<1> QED
  BY <1>2, <1>3, <1>4, <1>5, <1>6

\* A counter that is over is counted from one.
LEMMA CountsFromOne ==
    ASSUME Inv, NEW q \in Requests, NEW own \in Ips, Count(q, own) \/ Send(q, own),
           backend # "deno-kv", ~Alive(own)
    PROVE  /\ req'[q].count = 1 /\ req'[q].ip = own
           /\ \A r \in Requests \ {q} : req'[r] = req[r]
PROOF
<1>1. req \in [Requests -> Records]
  BY Typing DEF Inv
<1>2. CASE Count(q, own)
  <2>1. /\ ~Shared /\ Store!Incr(own, 1, WindowMs)
        /\ req' = [req EXCEPT ![q] = [@ EXCEPT !.stage = "counted", !.ip = own,
                                               !.at = now, !.count = reply'.value]]
    BY <1>2 DEF Count
  <2>2. Store!Found(own) = Absent
    BY <2>1 DEF Alive, Counter
  <2>3. reply'.value = (IF Store!Found(own) = Absent THEN 0 ELSE Store!Found(own).value) + 1
    BY <2>1, MapIncr DEF Inv, TypeOK, StoresHold
  <2>4. reply'.value = 1
    BY <2>2, <2>3
  <2> QED
    BY <1>1, <2>1, <2>4 DEF Records
<1>3. CASE Send(q, own)
  <2>1. Remote!IncrBy(q, own, WindowMs) /\ backend = "redis"
    BY <1>3 DEF Send, Remote!IncrBy, Remote!Read, Inv, StoresHold, Shared
  <2>2. R!IInv /\ entry[own] = Absent
    BY <2>1 DEF Inv, StoresHold, Shared, Alive, Counter
  <2>3. entry'[own].value = 1
    BY <2>1, <2>2, RedisIncr
  <2>4. req' = [req EXCEPT ![q] = [@ EXCEPT !.stage = "sent", !.ip = own, !.at = now,
                                            !.count = entry'[own].value]]
    BY <1>3, <2>1 DEF Send
  <2> QED
    BY <1>1, <2>3, <2>4 DEF Records
<1> QED
  BY <1>2, <1>3

\* The promise of X-Rate-Limit-Reset holds of every step: whoever waits for it
\* starts a new window.
THEOREM WaitingSuffices == Spec => WaitingOutTheResetStartsAfresh
PROOF
<1>1. Inv /\ [Next]_vars => StartsAfresh
  <2> SUFFICES ASSUME Inv, [Next]_vars, NEW r \in Requests, NEW ip \in Ips,
                      WaitedOut(ip), backend # "deno-kv",
                      req[r].stage = "new", req'[r].stage # "new", req'[r].ip = ip
               PROVE  req'[r].count = 1
    BY DEF StartsAfresh
  <2>1. DOMAIN req = Requests /\ ~Alive(ip)
    BY Typing, WaitedOutIsOver DEF Inv
  <2>2. ASSUME NEW q \in Requests, NEW own \in Ips, Count(q, own) \/ Send(q, own)
        PROVE  req'[r].count = 1
    <3>1. req'[q].ip = own
      <4>1. CASE Count(q, own)
        BY <2>1, <4>1, Typing DEF Count, Inv, Records
      <4>2. CASE Send(q, own)
        BY <2>1, <4>2, Typing DEF Send, Inv, Records
      <4> QED
        BY <2>2, <4>1, <4>2
    <3>2. \A p \in Requests \ {q} : req'[p] = req[p]
      BY <2>1, <2>2 DEF Count, Send
    <3>3. q = r /\ own = ip
      BY <3>1, <3>2
    <3> QED
      BY <2>1, <2>2, <3>3, CountsFromOne
  <2>3. ASSUME NEW q \in Requests,
               Confirm(q) \/ Stamp(q) \/ Admit(q) \/ Refuse(q) \/ HandOver(q) \/ Finish(q)
        PROVE  FALSE
    <3>1. req[q].stage # "new" /\ \A p \in Requests \ {q} : req'[p] = req[p]
      BY <2>1, <2>3 DEF Confirm, Stamp, Admit, Refuse, HandOver, Finish
    <3> QED
      BY <3>1
  <2>4. ASSUME req' = req PROVE FALSE
    BY <2>4
  <2> QED
    BY <2>2, <2>3, <2>4 DEF Next, Lapse, Tick, vars
<1> QED
  BY <1>1, SpecInv, PTL DEF Spec, WaitingOutTheResetStartsAfresh

-----------------------------------------------------------------------------
(* What the limiter does to the stores is what they allow any caller.        *)

\* Each step is a call of the map store, a tick of its clock, or none of its
\* business.
LEMMA MapSteps == Inv /\ [Next]_vars => [P!Next]_(P!vars)
PROOF
<1> SUFFICES ASSUME Inv, [Next]_vars PROVE P!Next \/ UNCHANGED P!vars
  OBVIOUS
<1>1. ASSUME NEW r \in Requests, NEW ip \in Ips, Count(r, ip) PROVE P!Next
  BY <1>1, SameStore DEF Count, P!Next
<1>2. ASSUME NEW r \in Requests, NEW ip \in Ips, Send(r, ip) PROVE UNCHANGED P!vars
  BY <1>2 DEF Send, Remote!IncrBy, Remote!Read, mapVars, P!vars
<1>3. ASSUME NEW r \in Requests, Confirm(r) PROVE UNCHANGED P!vars
  BY <1>3 DEF Confirm, Remote!Prolong, Remote!FailToProlong, Remote!Commit, mapVars, P!vars
<1>4. ASSUME NEW r \in Requests, Stamp(r) PROVE P!Next \/ UNCHANGED P!vars
  <2>1. req[r].ip \in Ips
    BY <1>4 DEF Stamp, Inv, Decided, Decides
  <2>2. CASE Store!Timestamp(req[r].ip)
    BY <2>1, <2>2, SameStore DEF P!Next
  <2>3. CASE UNCHANGED storeVars
    BY <2>3 DEF storeVars, mapVars, P!vars
  <2> QED
    BY <1>4, <2>2, <2>3 DEF Stamp
<1>5. ASSUME NEW r \in Requests, Admit(r) \/ Refuse(r) \/ HandOver(r) \/ Finish(r)
      PROVE  UNCHANGED P!vars
  BY <1>5 DEF Admit, Refuse, HandOver, Finish, storeVars, mapVars, P!vars
<1>6. ASSUME NEW ip \in Ips, Lapse(ip) PROVE UNCHANGED P!vars
  BY <1>6 DEF Lapse, Remote!Lapse, mapVars, P!vars
<1>7. CASE Tick
  <2>1. CASE Store!Tick
    BY <2>1, SameStore DEF P!Next
  <2>2. CASE Remote!Tick /\ UNCHANGED mapVars
    BY <2>2 DEF Remote!Tick, mapVars, P!Tick, P!Next
  <2> QED
    BY <1>7, <2>1, <2>2 DEF Tick
<1>8. CASE UNCHANGED vars
  BY <1>8 DEF vars, storeVars, mapVars, P!vars
<1> QED
  BY <1>1, <1>2, <1>3, <1>4, <1>5, <1>6, <1>7, <1>8 DEF Next

\* ... and, over a shared store, a command of that store or none.
LEMMA SharedSteps == Shared /\ [Next]_vars => [R!Next]_(R!vars) /\ Shared'
PROOF
<1> SUFFICES ASSUME Shared, [Next]_vars
             PROVE  (R!Next \/ UNCHANGED R!vars) /\ backend' = backend
  BY DEF Shared
<1>1. ASSUME NEW r \in Requests, NEW ip \in Ips, Count(r, ip) PROVE FALSE
  BY <1>1 DEF Count
<1>2. ASSUME NEW r \in Requests, NEW ip \in Ips, Send(r, ip)
      PROVE  R!Next /\ backend' = backend
  BY <1>2, SameRemote DEF Send, Remote!IncrBy, Remote!Read
<1>3. ASSUME NEW r \in Requests, Confirm(r) PROVE R!Next /\ backend' = backend
  BY <1>3, SameRemote DEF Confirm, Remote!Prolong, Remote!FailToProlong, Remote!Commit
<1>4. ASSUME NEW r \in Requests,
             Stamp(r) \/ Admit(r) \/ Refuse(r) \/ HandOver(r) \/ Finish(r)
      PROVE  UNCHANGED R!vars /\ backend' = backend
  BY <1>4 DEF Stamp, Admit, Refuse, HandOver, Finish, storeVars, sharedVars, R!vars
<1>5. ASSUME NEW ip \in Ips, Lapse(ip) PROVE R!Next /\ backend' = backend
  BY <1>5, SameRemote DEF Lapse, Remote!Lapse
<1>6. CASE Tick
  BY <1>6, SameRemote DEF Tick, Remote!Tick
<1>7. CASE UNCHANGED vars
  BY <1>7 DEF vars, storeVars, sharedVars, R!vars
<1> QED
  BY <1>1, <1>2, <1>3, <1>4, <1>5, <1>6, <1>7 DEF Next

\* Whatever the requests, a behaviour of the limiter is one of its map store, so
\* that all that is proved of MapStore holds under the limiter.
THEOREM LimiterKeepsMapStore == Spec => P!Spec
PROOF
<1>1. Init => P!Init
  BY SameStore DEF Init
<1> QED
  BY <1>1, MapSteps, SpecInv, PTL DEF Spec, P!Spec

\* ... with it the promise of the abstract store: the counters of a limiter are
\* lost at their end, or one at a time to the counter of another address.
THEOREM CountersKeepThePromise == Spec => P!PromiseSpec
  BY LimiterKeepsMapStore, StoresAssumed, P!KeepsPromise, PTL

\* Over a shared store a behaviour of any number of requests is one of that
\* store, with the requests as its callers.
THEOREM LimiterKeepsRemoteStores == Spec /\ Shared => R!Spec
PROOF
<1>1. Init /\ Shared => R!Init
  BY SameRemote DEF Init, Shared
<1> QED
  BY <1>1, SharedSteps, PTL DEF Spec, R!Spec

\* ... so a counter that several servers increment holds the number of increments
\* that took effect since it began.
THEOREM SharedCountersAreExact == Spec /\ Shared => []R!NoIncrementIsUndone
  BY LimiterKeepsRemoteStores, StoresAssumed, R!IncrementsCorrect, PTL
=============================================================================
