-------------------------- MODULE RequestPipeline --------------------------
(***************************************************************************)
(* How core/server.ts serves a request: the middlewares, the pre hooks,    *)
(* the choice of a handler by version, the idempotency lock, the handler,  *)
(* the post hooks, the response, and errorHandler above them all.          *)
(*                                                                         *)
(* Every action is the code between two awaits of one request; requests    *)
(* interleave there.  What is awaited may succeed or throw.  The lock is   *)
(* the external queue library: it is granted to one request at a time,     *)
(* lapses when its ttl runs out, and its waiter may be turned away.        *)
(***************************************************************************)
EXTENDS Naturals, FiniteSets, Sequences

CONSTANTS
    Requests,   \* the requests, all to one route
    Keys,       \* the idempotency keys its handler may compute
    HookCount,  \* how many hooks with both a pre and a post are registered
    Null        \* no key, no holder, no answer

ASSUME PipelineAssumption ==
    /\ IsFiniteSet(Requests)
    /\ HookCount \in Nat
    /\ Null \notin Keys /\ Null \notin Requests

VARIABLES
    stage,     \* where each request stands
    hook,      \* the next hook of each request, pre or post
    found,     \* whether a handler answers to the requested version
    key,       \* the idempotency key, Null for none
    thrown,    \* what was thrown in the service of each request, if anything
    answer,    \* what was written to the response, in order
    inFlight,  \* the gauge httpRequestInFlight
    lock,      \* external: the holder of each lock
    lapsed,    \* history: the requests whose lock ran out under them
    trail      \* history: what each request has completed, in order

vars == <<stage, hook, found, key, thrown, answer, inFlight, lock, lapsed, trail>>

Stages == {"new", "pre", "build", "key", "waiting", "handling", "post",
           "responding", "releasing", "failing", "done", "stranded"}

\* undefined, null and the like may be thrown too, and are told from errors.
Throwable == {"error", "falsy"}

\* The requests between the inc and the dec of handle.
Handling == {r \in Requests : stage[r] \in {"handling", "post", "responding"}}
-----------------------------------------------------------------------------
Init ==
    /\ stage = [r \in Requests |-> "new"]
    /\ hook = [r \in Requests |-> 1]
    /\ found = [r \in Requests |-> FALSE]
    /\ key = [r \in Requests |-> Null]
    /\ thrown = [r \in Requests |-> "nothing"]
    /\ answer = [r \in Requests |-> <<>>]
    /\ inFlight = 0
    /\ lock = [k \in Keys |-> Null]
    /\ lapsed = {}
    /\ trail = [r \in Requests |-> <<>>]

GoTo(r, s) == stage' = [stage EXCEPT ![r] = s]

Note(r, what) == trail' = [trail EXCEPT ![r] = Append(@, what)]

\* Something above handle throws: errorHandler is next.
Throw(r) ==
    /\ GoTo(r, "failing")
    /\ \E x \in Throwable : thrown' = [thrown EXCEPT ![r] = x]

\* The middlewares below errorHandler let the request through to its route, or
\* throw.  What responseTime, the logger or useTranslator, which stand above it,
\* might throw would not be answered by it and is left out.
Arrive(r) ==
    /\ stage[r] = "new"
    /\ \/ /\ GoTo(r, IF HookCount = 0 THEN "build" ELSE "pre")
          /\ UNCHANGED thrown
       \/ Throw(r)
    /\ UNCHANGED <<hook, found, key, answer, inFlight, lock, lapsed, trail>>

\* Mutant of PreHook: what a hook throws is dropped.
PreHookCaught(r) ==
    /\ stage[r] = "pre"
    /\ GoTo(r, IF hook[r] = HookCount THEN "build" ELSE "pre")
    /\ hook' = [hook EXCEPT ![r] = IF @ = HookCount THEN 1 ELSE @ + 1]
    /\ Note(r, "pre") \/ UNCHANGED trail
    /\ UNCHANGED <<found, key, thrown, answer, inFlight, lock, lapsed>>

\* One pre hook after the other; the first to throw ends the request.
PreHook(r) ==
    /\ stage[r] = "pre"
    /\ \/ /\ GoTo(r, IF hook[r] = HookCount THEN "build" ELSE "pre")
          /\ hook' = [hook EXCEPT ![r] = IF @ = HookCount THEN 1 ELSE @ + 1]
          /\ Note(r, "pre")
          /\ UNCHANGED thrown
       \/ Throw(r) /\ UNCHANGED <<hook, trail>>
    /\ UNCHANGED <<found, key, answer, inFlight, lock, lapsed>>

\* buildRequestHandler finds a handler for the version, or none, or throws.
Build(r) ==
    /\ stage[r] = "build"
    /\ \/ /\ \E b \in BOOLEAN : found' = [found EXCEPT ![r] = b]
          /\ GoTo(r, "key")
          /\ UNCHANGED thrown
       \/ Throw(r) /\ UNCHANGED found
    /\ UNCHANGED <<hook, key, answer, inFlight, lock, lapsed, trail>>

\* handle() begins: the gauge is raised and the handler called.
BeginHandle(r) ==
    /\ GoTo(r, "handling")
    /\ inFlight' = inFlight + 1

\* Mutant of Identify: the handler does not wait for the lock it asks for.
IdentifyBeside(r) ==
    /\ stage[r] = "key"
    /\ BeginHandle(r)
    /\ \/ UNCHANGED key
       \/ /\ found[r]
          /\ \E k \in Keys : key' = [key EXCEPT ![r] = k]
    /\ UNCHANGED <<hook, found, thrown, answer, lock, lapsed, trail>>

\* idempotencyKey: without a handler or a key handle() is called at once, with
\* a key the lock is asked for.
Identify(r) ==
    /\ stage[r] = "key"
    /\ \/ /\ BeginHandle(r)
          /\ UNCHANGED <<key, thrown>>
       \/ /\ found[r]
          /\ \E k \in Keys : key' = [key EXCEPT ![r] = k]
          /\ GoTo(r, "waiting")
          /\ UNCHANGED <<thrown, inFlight>>
       \/ /\ found[r]
          /\ Throw(r)
          /\ UNCHANGED <<key, inFlight>>
    /\ UNCHANGED <<hook, found, answer, lock, lapsed, trail>>

\* External: the lock is granted and its callback calls handle().
Grant(r) ==
    /\ stage[r] = "waiting"
    /\ lock[key[r]] = Null
    /\ lock' = [lock EXCEPT ![key[r]] = r]
    /\ BeginHandle(r)
    /\ UNCHANGED <<hook, found, key, thrown, answer, lapsed, trail>>

\* External: wait has passed.  The promise of acquireLock is not awaited, so
\* nobody settles the promise the request is waiting for.
TurnAway(r) ==
    /\ stage[r] = "waiting"
    /\ GoTo(r, "stranded")
    /\ UNCHANGED <<hook, found, key, thrown, answer, inFlight, lock, lapsed, trail>>

\* External: the ttl of a held lock has passed.
Lapse(r) ==
    /\ key[r] # Null
    /\ lock[key[r]] = r
    /\ lock' = [lock EXCEPT ![key[r]] = Null]
    /\ lapsed' = lapsed \cup {r}
    /\ UNCHANGED <<stage, hook, found, key, thrown, answer, inFlight, trail>>

\* Mutant of EndHandle: no finally, the gauge is lowered on success only.
EndHandleWell(r, x) ==
    /\ inFlight' = IF x = "nothing" THEN inFlight - 1 ELSE inFlight
    /\ thrown' = [thrown EXCEPT ![r] = x]
    /\ GoTo(r, IF key[r] # Null THEN "releasing"
               ELSE IF x = "nothing" THEN "done" ELSE "failing")

\* handle() ends, well or throwing x: the finally block lowers the gauge.
EndHandle(r, x) ==
    /\ inFlight' = inFlight - 1
    /\ thrown' = [thrown EXCEPT ![r] = x]
    /\ GoTo(r, IF key[r] # Null THEN "releasing"
               ELSE IF x = "nothing" THEN "done" ELSE "failing")

HandleThrows(r) == \E x \in Throwable : EndHandle(r, x)

\* The handler returns or throws; with no handler there is nothing to call.
Handle(r) ==
    /\ stage[r] = "handling"
    /\ \/ /\ GoTo(r, IF HookCount = 0 THEN "responding" ELSE "post")
          /\ IF found[r] THEN Note(r, "handler") ELSE UNCHANGED trail
          /\ UNCHANGED <<thrown, inFlight>>
       \/ /\ found[r]
          /\ HandleThrows(r)
          /\ UNCHANGED trail
    /\ UNCHANGED <<hook, found, key, answer, lock, lapsed>>

PostHook(r) ==
    /\ stage[r] = "post"
    /\ \/ /\ GoTo(r, IF hook[r] = HookCount THEN "responding" ELSE "post")
          /\ hook' = [hook EXCEPT ![r] = @ + 1]
          /\ Note(r, "post")
          /\ UNCHANGED <<thrown, inFlight>>
       \/ HandleThrows(r) /\ UNCHANGED <<hook, trail>>
    /\ UNCHANGED <<found, key, answer, lock, lapsed>>

\* respondWith, when the handler returned something; it throws, before it has
\* written anything, when that is not a response object.
Respond(r) ==
    /\ stage[r] = "responding"
    /\ \/ /\ found[r]
          /\ answer' = [answer EXCEPT ![r] = Append(@, "response")]
          /\ EndHandle(r, "nothing")
       \/ /\ EndHandle(r, "nothing")
          /\ UNCHANGED answer
       \/ /\ found[r]
          /\ HandleThrows(r)
          /\ UNCHANGED answer
    /\ UNCHANGED <<hook, found, key, lock, lapsed, trail>>

\* Mutants of Release: the error of the handler is forgotten; the promise is
\* rejected whether there is an error or not; an error of release is not caught.
ReleaseForgets(r) ==
    /\ stage[r] = "releasing"
    /\ \/ /\ lock[key[r]] = r
          /\ lock' = [lock EXCEPT ![key[r]] = Null]
       \/ UNCHANGED lock
    /\ GoTo(r, "done")
    /\ UNCHANGED <<hook, found, key, thrown, answer, inFlight, lapsed, trail>>

ReleaseRejects(r) ==
    /\ stage[r] = "releasing"
    /\ lock' = [lock EXCEPT ![key[r]] = Null]
    /\ GoTo(r, "failing")
    /\ UNCHANGED <<hook, found, key, thrown, answer, inFlight, lapsed, trail>>

ReleaseUncaught(r) ==
    /\ stage[r] = "releasing"
    /\ lock[key[r]] = r
    /\ lock' = [lock EXCEPT ![key[r]] = Null]
    /\ GoTo(r, IF thrown[r] = "error" THEN "failing" ELSE "done")
    /\ UNCHANGED <<hook, found, key, thrown, answer, inFlight, lapsed, trail>>

\* release() is awaited and its errors are dropped; then the promise settles.
\* `if (error)` takes what is falsy for no error.
Release(r) ==
    /\ stage[r] = "releasing"
    /\ \/ /\ lock[key[r]] = r
          /\ lock' = [lock EXCEPT ![key[r]] = Null]
       \/ UNCHANGED lock
    /\ GoTo(r, IF thrown[r] = "error" THEN "failing" ELSE "done")
    /\ UNCHANGED <<hook, found, key, thrown, answer, inFlight, lapsed, trail>>

\* errorHandler answers with the error, or with the response that was thrown.
\* undefined and null have no properties: it fails, and leaves them to oak.
HandleError(r) ==
    /\ stage[r] = "failing"
    /\ \/ answer' = [answer EXCEPT ![r] = Append(@, "error")]
       \/ thrown[r] = "falsy" /\ UNCHANGED answer
    /\ GoTo(r, "done")
    /\ UNCHANGED <<hook, found, key, thrown, inFlight, lock, lapsed, trail>>

Proceed(r) ==
    \/ Arrive(r) \/ PreHook(r) \/ Build(r) \/ Identify(r) \/ Handle(r)
    \/ PostHook(r) \/ Respond(r) \/ Release(r) \/ HandleError(r)

Next ==
    \/ \E r \in Requests : Proceed(r)
    \/ \E r \in Requests : Grant(r)
    \/ \E r \in Requests : TurnAway(r)
    \/ \E r \in Requests : Lapse(r)

\* The event loop runs every continuation; what user code awaits settles; the
\* library lets every waiter have an end, as its option `wait` says.
Fairness ==
    \A r \in Requests :
        /\ WF_vars(Proceed(r))
        /\ WF_vars(Grant(r) \/ TurnAway(r))

Spec == Init /\ [][Next]_vars /\ Fairness
-----------------------------------------------------------------------------
TypeOK ==
    /\ stage \in [Requests -> Stages]
    /\ hook \in [Requests -> 1..HookCount + 1]
    /\ found \in [Requests -> BOOLEAN]
    /\ key \in [Requests -> Keys \cup {Null}]
    /\ thrown \in [Requests -> Throwable \cup {"nothing"}]
    /\ answer \in [Requests -> {<<>>, <<"response">>, <<"error">>}]
    /\ inFlight \in 0..Cardinality(Requests)
    /\ lock \in [Keys -> Requests \cup {Null}]
    /\ lapsed \subseteq Requests
    /\ trail \in [Requests -> Seq({"pre", "handler", "post"})]

\* The gauge http_requests_in_flight is the number of requests being handled:
\* every way out of handle() passes the finally block, and only once.
GaugeIsExact == inFlight = Cardinality(Handling)

\* A request whose service threw an error anywhere (a hook, the key, the handler)
\* is answered with it and with nothing else, also when it has to pass through
\* the release of the lock; one in whose service nothing was thrown never is.
\* What is thrown and falsy is lost at the lock, where the request then seems to
\* have succeeded, or may break errorHandler; it never follows a response.
FailuresAreAnswered ==
    \A r \in Requests : stage[r] = "done" =>
        /\ thrown[r] = "error" => answer[r] = <<"error">>
        /\ thrown[r] = "nothing" => answer[r] # <<"error">>
        /\ thrown[r] = "falsy" => answer[r] \in {<<>>, <<"error">>}

\* Hooks are a permission check: nothing of the handler runs before all pre
\* hooks have passed, it runs once at most, and post hooks come last.
ServedInOrder ==
    \A r \in Requests : \A i, j \in DOMAIN trail[r] :
        /\ trail[r][i] = "handler" => (trail[r][j] = "pre" <=> j < i)
        /\ trail[r][i] # "pre" =>
              Cardinality({n \in 1..i : trail[r][n] = "pre"}) = HookCount
        /\ trail[r][i] = "post" /\ i < j => trail[r][j] = "post"

\* Two requests with one idempotency key are handled one after the other,
\* unless the lock of one of them ran out while it was held.
SequentialByKey ==
    \A r, q \in Handling :
        r # q /\ key[r] # Null /\ key[r] = key[q] => {r, q} \cap lapsed # {}

\* Every request comes to an end, however it fails on its way and however late
\* its lock lapses or refuses to be released; but one that the lock turns away
\* is stranded: nothing is left that would answer it.
EveryRequestEnds ==
    \A r \in Requests : <>(stage[r] \in {"done", "stranded"})

\* hooks.md: "post-hooks are executed after the request handler has finished its
\* execution".
PostHooksFollowTheHandler ==
    \A r \in Requests : \A j \in DOMAIN trail[r] :
        trail[r][j] = "post" => \E i \in 1..j : trail[r][i] = "handler"
=============================================================================
