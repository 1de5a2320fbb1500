---------------------------- MODULE RateLimiter ----------------------------
(***************************************************************************)
(* The rate limiter of core/middlewares/rateLimiter.ts over MapStore, the  *)
(* store the server uses unless STORE_TYPE says otherwise, and over the    *)
(* stores of RemoteStores, which several servers share.                    *)
(*                                                                         *)
(* A request runs in turns: it increments the counter of its ip, reads the *)
(* counter's timestamp, decides, and is answered once the middlewares      *)
(* below it are done.  Between two turns any other request, and the clock, *)
(* may move: the counter it reads may have been renewed, have expired or   *)
(* have been evicted by the counters of other addresses.  In a shared      *)
(* store the increment itself takes two turns.                             *)
(***************************************************************************)
EXTENDS Naturals, FiniteSets, Sequences

CONSTANTS
    Requests,   \* the requests of a behaviour
    Ips,        \* the client addresses
    Limit,      \* RATE_LIMITER_LIMIT
    WindowMs,   \* RATE_LIMITER_WINDOW_MS, which is some time
    Second,     \* how many ticks of the clock make a second
    StoreTypes, \* the values of STORE_TYPE
    Capacity, EmptyKey, Absent, Null, NoExpiry, Never, SweepEvery, MaxNow

ASSUME LimiterAssumption ==
    /\ IsFiniteSet(Requests) /\ IsFiniteSet(Ips)
    /\ Limit \in Nat /\ WindowMs \in Nat \ {0}
    /\ Second \in Nat \ {0}
    /\ StoreTypes \subseteq {"map", "redis", "deno-kv"}
    /\ Capacity \in Nat /\ SweepEvery \in Nat /\ MaxNow \in Nat
    /\ NoExpiry \notin Nat /\ Never \notin Nat /\ Null \notin Nat

VARIABLES
    now, cache, sweptAt, setDisabled, reply, fresher,   \* the map store
    backend,  \* CurrentStoreType
    entry, writes, call, calls, took, told, life, endless, erased,  \* the shared
                                                                    \* store
    req,    \* each request: where it stands and what it knows
    log,    \* history: the requests in the order they were counted
    robbed, \* history: the addresses whose counter was gone too early, evicted
            \* alive or over before Redis was asked to prolong it
    lost    \* history: the addresses an increment of which Deno KV lost

mapVars == <<cache, sweptAt, setDisabled, reply, fresher>>
sharedVars == <<entry, writes, call, calls, took, told, life, endless, erased>>
storeVars == <<now, backend, mapVars, sharedVars>>

vars == <<storeVars, req, log, robbed, lost>>

Store == INSTANCE MapStore WITH
    Keys <- Ips, Ttls <- {WindowMs}, Increments <- {1},
    MaxValue <- Cardinality(Requests)

Remote == INSTANCE RemoteStores WITH
    Backends <- StoreTypes \ {"map"}, Callers <- Requests, Keys <- Ips,
    Ttls <- {WindowMs}, MaxCalls <- Cardinality(Requests)

ASSUME AbsentAssumption == Absent \notin Store!Items \cup Remote!Items \cup Remote!Counters

Shared == backend # "map"

Stages == {"new", "sent", "failed", "counted", "stamped", "inside", "limited", "answered"}
-----------------------------------------------------------------------------
\* Mutant of ToSeconds: the seconds are cut off.
ToSecondsDown(t) == t \div Second

\* Seconds since the epoch, rounded to the nearest: X-Rate-Limit-Reset.
ToSeconds(t) == (2 * t + Second) \div (2 * Second)

\* Mutant of Remaining: this request is not taken into account.
RemainingBefore(count) == IF count <= Limit THEN Limit - count ELSE 0

\* X-Rate-Limit-Remaining.
Remaining(count) == IF count + 1 <= Limit THEN Limit - count - 1 ELSE 0

NewRequest ==
    [stage |-> "new", ip |-> Null, at |-> 0, count |-> 0, stamp |-> Null,
     passed |-> FALSE, reset |-> 0, told |-> FALSE]

Init ==
    /\ Store!Init /\ Remote!Empty
    /\ backend \in StoreTypes
    /\ Shared => ~setDisabled
    /\ req = [r \in Requests |-> NewRequest]
    /\ log = <<>>
    /\ robbed = {} /\ lost = {}

\* History: the counters that a write of another key has pushed out alive.
NoteEvictions(written) ==
    /\ robbed' = robbed \cup
          {ip \in Ips \ {written} : /\ Store!Found(ip) # Absent
                                    /\ cache'.items[ip] = Absent}
    /\ UNCHANGED lost

\* Mutant of Count: a request is counted again on its way.
CountAgain(r, ip) ==
    /\ req[r].stage \in {"new", "counted"}
    /\ ~Shared /\ Store!Incr(ip, 1, WindowMs) /\ UNCHANGED <<backend, sharedVars>>
    /\ req' = [req EXCEPT ![r] = [@ EXCEPT !.stage = "counted", !.ip = ip,
                                           !.at = now, !.count = reply'.value]]
    /\ log' = Append(log, r)
    /\ NoteEvictions(ip)

\* The request reaches the limiter: Store.incr, and the await of its result.
Count(r, ip) ==
    /\ req[r].stage = "new"
    /\ ~Shared /\ Store!Incr(ip, 1, WindowMs) /\ UNCHANGED <<backend, sharedVars>>
    /\ req' = [req EXCEPT ![r] = [@ EXCEPT !.stage = "counted", !.ip = ip,
                                           !.at = now, !.count = reply'.value]]
    /\ log' = Append(log, r)
    /\ NoteEvictions(ip)

\* Over a shared store: incr sends the first of its two commands.  Redis counts
\* the request at once.
Send(r, ip) ==
    /\ req[r].stage = "new"
    /\ \/ /\ Remote!IncrBy(r, ip, WindowMs)
          /\ log' = Append(log, r)
       \/ /\ Remote!Read(r, ip, WindowMs)
          /\ UNCHANGED log
    /\ req' = [req EXCEPT ![r] =
           [@ EXCEPT !.stage = "sent", !.ip = ip, !.at = now,
                     !.count = IF backend = "redis" THEN entry'[ip].value
                               ELSE IF Remote!Live(ip) THEN entry[ip].value + 1
                               ELSE 1]]
    /\ UNCHANGED <<mapVars, robbed, lost>>

\* ... and the second.  EXPIRE may fail, and the request with it; the write of
\* Deno KV may be refused, which nobody notices.
Confirm(r) ==
    /\ req[r].stage = "sent"
    /\ \/ /\ Remote!Prolong(r)
          /\ req' = [req EXCEPT ![r].stage = "counted"]
          /\ UNCHANGED <<log, lost>>
       \/ /\ Remote!FailToProlong(r)
          /\ req' = [req EXCEPT ![r].stage = "failed"]
          /\ UNCHANGED <<log, lost>>
       \/ /\ Remote!Commit(r)
          /\ req' = [req EXCEPT ![r].stage = "counted", ![r].at = now]
          /\ log' = Append(log, r)
          /\ lost' = IF entry' = entry THEN lost \cup {req[r].ip} ELSE lost
    /\ UNCHANGED <<mapVars, robbed>>

\* Store.timestamp, and the await of its result.
Stamp(r) ==
    /\ req[r].stage = "counted"
    /\ \/ /\ ~Shared /\ Store!Timestamp(req[r].ip)
          /\ req' = [req EXCEPT ![r].stage = "stamped", ![r].stamp = reply'.value]
          /\ UNCHANGED <<backend, sharedVars>>
       \/ /\ Shared
          /\ req' = [req EXCEPT ![r].stage = "stamped",
                 ![r].stamp = IF Remote!Live(req[r].ip)
                              THEN entry[req[r].ip].timestamp ELSE Null]
          /\ UNCHANGED storeVars
    /\ UNCHANGED <<log, robbed, lost>>

\* `?? Date.now()` is evaluated when the awaited timestamp is back.
ResetAt(r) ==
    ToSeconds((IF req[r].stamp = Null THEN now ELSE req[r].stamp) + WindowMs)

\* Mutant of Admit: the limit itself is let through.
AdmitLimit(r) ==
    /\ req[r].stage = "stamped"
    /\ req[r].count <= Limit
    /\ req' = [req EXCEPT ![r].stage = "inside", ![r].reset = ResetAt(r),
                          ![r].passed = TRUE]
    /\ UNCHANGED <<storeVars, log, robbed, lost>>

\* Below the limit the next middleware is called.
Admit(r) ==
    /\ req[r].stage = "stamped"
    /\ req[r].count < Limit
    /\ req' = [req EXCEPT ![r].stage = "inside", ![r].reset = ResetAt(r),
                          ![r].passed = TRUE]
    /\ UNCHANGED <<storeVars, log, robbed, lost>>

\* At the limit ctx.throw answers at once, its error carrying the headers ...
Refuse(r) ==
    /\ req[r].stage = "stamped"
    /\ req[r].count >= Limit
    /\ req' = [req EXCEPT ![r].stage = "answered", ![r].reset = ResetAt(r),
                          ![r].told = TRUE]
    /\ UNCHANGED <<storeVars, log, robbed, lost>>

\* ... unless the middleware was given its own onRateLimit.
HandOver(r) ==
    /\ req[r].stage = "stamped"
    /\ req[r].count >= Limit
    /\ req' = [req EXCEPT ![r].stage = "limited", ![r].reset = ResetAt(r)]
    /\ UNCHANGED <<storeVars, log, robbed, lost>>

\* What was awaited is done.  The headers reach the client, except when it
\* threw something errorHandler takes no headers from: a Response object, or
\* anything thrown by onRateLimit.
Finish(r) ==
    /\ req[r].stage \in {"inside", "limited"}
    /\ \E heard \in BOOLEAN :
         req' = [req EXCEPT ![r].stage = "answered", ![r].told = heard]
    /\ UNCHANGED <<storeVars, log, robbed, lost>>

\* A counter of Redis may be over while the EXPIRE that would have prolonged it
\* is on its way.
Tick ==
    /\ \/ ~Shared /\ Store!Tick /\ UNCHANGED <<backend, sharedVars, robbed>>
       \/ /\ Shared /\ Remote!Tick /\ UNCHANGED mapVars
          /\ robbed' = robbed \cup
                {ip \in Ips : /\ Remote!Live(ip) /\ ~Remote!Live(ip)'
                             /\ \E r \in Requests : req[r].stage = "sent"
                                                  /\ req[r].ip = ip}
    /\ UNCHANGED <<req, log, lost>>

\* Deno KV drops a counter whose time has passed.
Lapse(ip) ==
    /\ Remote!Lapse(ip)
    /\ UNCHANGED <<mapVars, req, log, robbed, lost>>

Next ==
    \/ \E r \in Requests, ip \in Ips : Count(r, ip)
    \/ \E r \in Requests, ip \in Ips : Send(r, ip)
    \/ \E r \in Requests : Confirm(r)
    \/ \E r \in Requests : Stamp(r)
    \/ \E r \in Requests : Admit(r)
    \/ \E r \in Requests : Refuse(r)
    \/ \E r \in Requests : HandOver(r)
    \/ \E r \in Requests : Finish(r)
    \/ \E ip \in Ips : Lapse(ip)
    \/ Tick

Spec == Init /\ [][Next]_vars
-----------------------------------------------------------------------------
Counted ==
    {r \in Requests : req[r].stage # "new"
                      /\ ~(req[r].stage = "sent" /\ backend = "deno-kv")}

TypeOK ==
    /\ Store!TypeOK
    /\ Shared => Remote!TypeOK
    /\ req \in [Requests ->
          [stage : Stages, ip : Ips \cup {Null}, at : 0..now,
           count : 0..Cardinality(Requests), stamp : (0..now) \cup {Null},
           passed : BOOLEAN, reset : Nat, told : BOOLEAN]]
    /\ Len(log) = Cardinality(Counted)
    /\ \A i \in DOMAIN log : log[i] \in Counted
    /\ robbed \subseteq Ips /\ lost \subseteq Ips

\* The i-th request that was counted, and what was decided of it.
Nth(i) == req[log[i]]
Passed(i) == Nth(i).passed
Refused(i) == Nth(i).stage \in {"limited", "answered"} /\ ~Nth(i).passed

\* The places in the log that ip has between two places.
PlacesOf(ip, from, to) == {i \in from..to : Nth(i).ip = ip}

\* No address gets more than Limit - 1 requests through in any window, however
\* its requests interleave and on however many servers, as long as its counter
\* is kept: the store is writable, other addresses do not push the counter out,
\* Redis prolongs it in time and Deno KV loses no increment.
AtMostLimitPerWindow ==
    ~setDisabled =>
        \A i \in DOMAIN log : Nth(i).ip \notin robbed \cup lost =>
            LET window == {j \in PlacesOf(Nth(i).ip, 1, i) :
                             Nth(j).at + WindowMs > Nth(i).at /\ Passed(j)}
            IN  window = {} \/ Cardinality(window) < Limit

\* X-Rate-Limit-Remaining is exact: of the requests an address makes next, that
\* many pass and, inside the window, no more, whatever else is in flight; unless
\* Deno KV has lost an increment of the address.
RemainingIsExact ==
    ~setDisabled =>
        \A j \in DOMAIN log : \A i \in 1..j-1 :
            /\ Nth(i).ip = Nth(j).ip
            /\ Nth(i).told
            /\ Nth(i).ip \notin lost
            => LET nth == Cardinality(PlacesOf(Nth(j).ip, i + 1, j))
               IN  /\ nth <= Remaining(Nth(i).count) => ~Refused(j)
                   /\ /\ Nth(j).at < Nth(i).at + WindowMs
                      /\ Nth(j).ip \notin robbed
                      /\ Passed(j)
                      => nth <= Remaining(Nth(i).count)

\* A client with nothing in flight that waits for the last X-Rate-Limit-Reset it
\* was told, and half a second for its rounding, starts a new window, although
\* every request, refused or not, prolongs the window it falls in.  Not so over
\* Deno KV, whose incr prolongs the window and keeps its first timestamp, so that
\* the reset it is told may be over long before.
Reached(ip) == {r \in Requests : req[r].ip = ip}

WaitedOut(ip) ==
    \A r \in Reached(ip) :
        /\ req[r].stage = "answered"
        /\ req[r].told
        /\ now >= Second * req[r].reset + Second \div 2

StartsAfresh ==
    \A r \in Requests, ip \in Ips :
        /\ WaitedOut(ip)
        /\ backend # "deno-kv"
        /\ req[r].stage = "new" /\ req'[r].stage # "new" /\ req'[r].ip = ip
        => req'[r].count = 1

WaitingOutTheResetStartsAfresh == [][StartsAfresh]_vars

\* The refusal says "You've reached your request limits!", and it announces Limit in
\* X-Rate-Limit-Limit.  So Limit requests of an address should have been counted,
\* whatever became of them, before one is refused.
LimitRequestsAreServed ==
    \A i \in DOMAIN log :
        Refused(i) => Cardinality(PlacesOf(Nth(i).ip, 1, i - 1)) >= Limit
=============================================================================
