# Specifications of Epic API

TLA+ specifications of this repository, the Epic API framework for Deno: the
stores, the rate limiter, the way a request is served, the life of the server
process, and the command line scripts that manage a project's modules and
plugins, generate its SDKs and deploy it. TLC checks each on a small instance;
TLAPS proves the safety properties of each for every value of the constants.

Paths below are relative to the root of the repository (`src/` in
`PROJECT.json`, which maps every definition to the lines it models).

## How to run

    tlc -workers 2 -config MapStore.cfg MCMapStore     # any row of "Runs"
    tlapm MapStoreProofs.tla                           # any *Proofs module

## The system

Epic API is one Deno process per server. Modules (controllers, models, hooks,
middlewares, jobs, plugins) are found through `.sequence.json` files and
imported at the start; `core/server.ts` builds an oak application from them.
All concurrency inside the process is that of the event loop: code between two
`await`s is atomic, and everything else may come in between. Several processes
meet in a remote store (Redis, Deno KV) and, on a developer's machine, in the
files of the project and in docker.

| Component | State | Operations | Hard behaviour | Correct when |
|---|---|---|---|---|
| Map store and LRU cache (`core/common/store/map.ts`, `store/utils/lru.ts`) | a `Map` whose order is the recency of use, items with timestamp and lifetime, the time of the last sweep | set, get, del, has, timestamp, incr; a throttled sweep inside set | eviction, expiry and sweep meet in one call; sequences of calls | look-ups find the last write while it lives; only the least recent item is evicted; the sweep leaves nothing |
| Rate limiter (`core/middlewares/rateLimiter.ts`) | a counter per address in the store; what a request has read so far | count, read the timestamp, admit or refuse | other requests and servers, the clock, evictions, failed and lost increments between two awaits; rounding of the reset | admits no more than it should per window, and what the headers announce is true |
| Request pipeline (`core/server.ts`, `errorHandler.ts`, `respondWith.ts`) | where each request stands, the gauge of requests in flight, the idempotency locks | middlewares, pre hooks, choice of a handler, lock, handler, post hooks, answer | every await may throw, also what is falsy; two requests with one key; a lock that lapses or is refused | each request ends; failures, and only they, are answered as such; hooks guard the handler; the gauge is exact |
| Server lifecycle (`core/server.ts`, `serve.ts`, `database.ts`) | connections, the current abort controller, the cleanups of jobs, the port | start, restart, end on a signal | a signal during a restart or another end; failures halfway | cleanups run and keep their connections; a signal ends the process; at rest the last start serves, on whichever port |
| Remote stores (`core/common/store/redis.ts`, `denoKv.ts`, `store.ts`) | the database, shared by processes | set, del, incr; the reads | a call is several commands; expiry in between; EXPIRE that fails | increments do not undo each other; keys expire; deleted stays deleted |
| Read-through cache (`core/common/store/base.ts`) | what each caller is computing; the store's | cache: look up, compute, set | the key is deleted while the value is computed | after a deletion only what a computation that it overtook has left is older than it |
| Sequence files and module commands (`core/common/loader.ts`, `core/scripts/*Module.ts`, `*Template.ts`, `generate*.ts`) | `.sequence.json` and the files of a directory; the copy each command holds | create, rename, delete | two terminals; a command killed between file and list | what is listed can be imported, what is there is listed |
| SDK generators (`core/scripts/generateSDK.ts`, `generateDenoSDK.ts`) | the folders of a version in `public`, what is in them, the archive | generate for npm, for Deno | abandoned halfway, and run again or by the other generator; listed before or after the package is made | a listed version is whole, and of one generation |
| Deployment (`core/scripts/deployDocker.ts`, `lib/run.ts`, `terraform`) | the recorded versions, docker's images and tags, the registry, what runs | a deployment by type or version, with parts skipped | exit codes nobody reads; a record written long after it was read; failure between push and record | a pushed tag is not moved; what was deployed runs |
| Plugin commands (`core/scripts/*Plugin.ts`, `updateCore.ts`) | the list, the folders, the import map, the declarations, the clones in `_temp` | add, remove, update, update of the core | as above, over five places; the import map is read once per process | the five agree on every plugin no command is busy with |
| Module loader (`core/common/loader.ts`) | the imported modules | load in the order of the list | a module that fails to import is skipped | the order of the list is the order of effect |
| Route factories and versions (`core/common/route/decorator.ts`, `versioned.ts`, `semver.ts`) | a memo of the handler per route | build a handler | two first requests run the factory twice | one handler object per route unless asked for a fresh one |
| Event bus (`core/common/events.ts`) | listeners per event, a gauge | listen, dispatch, remove | listeners that change the set during a dispatch | each listener of the moment is called once |
| Transaction queue (`core/common/transactionQueue.ts`) | one index per execution | add, exec, next | next called twice or not awaited | callbacks run in order, once |
| Inspector proxy (`core/middlewares/v8Inspector.ts`) | messages kept until the far socket opens | relay | closing before opening | messages arrive in order, sockets close together |

They interact as follows. `serve.ts` starts the server and owns the signals
(ServerLifecycle); each request the server accepts goes through the middlewares,
the rate limiter among them, to its route and handler (RequestPipeline), and
the limiter counts in whichever store is configured (MapStore or
RemoteStores). StoreBase.cache is a caller of the same stores (CacheAside). The
scripts share no memory with the server: they leave behind
the `.sequence.json` files and folders the loader reads at the next start. The
SDK generators run among the other commands and need the modules these have
listed; deployments touch none of that, and meet in docker.

## The modules

| Module | What it is | Uses |
|---|---|---|
| `ExpiringStore` | abstract: what callers may expect of a store in one process | |
| `LruCache` | `utils/lru.ts` as operators over a value: items and the order of the Map | |
| `MapStore` | `map.ts`; implements `ExpiringStore` | extends `LruCache`, instantiates `ExpiringStore` |
| `RateLimiter` | `rateLimiter.ts` over whichever store `STORE_TYPE` names | instantiates `MapStore` and `RemoteStores`, one key per address |
| `RequestPipeline` | a request from the middlewares to its answer | |
| `ServerLifecycle` | start, restart, end | |
| `RemoteStores` | `redis.ts` and `denoKv.ts`; the backend is chosen in `Init`, as `store.ts` does when it is loaded | |
| `CacheAside` | `StoreBase.cache` over the remote stores | extends `RemoteStores` |
| `SequenceFile` | `Sequence` of `loader.ts` as operators over a value | |
| `ModuleScripts` | commands on modules, templates and generated folders | extends `SequenceFile` |
| `SdkScripts` | the generators of SDKs, step by step, among those commands | extends `ModuleScripts` |
| `DeployDocker` | deployments of one machine | |
| `PluginScripts` | commands on plugins | extends `SequenceFile` |
| `MapStoreProofs`, `RequestPipelineProofs`, `ServerLifecycleProofs`, `DeployDockerProofs`, `PluginScriptsProofs` | theorems | extend the module they are about |
| `RateLimiterProofs` | theorems | extends `RateLimiter`, instantiates `MapStoreProofs` and `RemoteStoresProofs` for what its stores keep |
| `RemoteStoresProofs` | theorems about `RemoteStores` and `CacheAside` | extends `CacheAside` |
| `ModuleScriptsProofs` | theorems about `ModuleScripts` and `SdkScripts` | extends `SdkScripts` |
| `MC*` | model values and symmetry for TLC; `MCModuleScripts` also puts `SdkScripts` and `DeployDocker` side by side | extend the module of their run |

### How state and actions correspond to the code

**MapStore.** `cache` is the `Map` with the LRU order (`older`, a strict order
of the held keys, stands for the insertion order that `lru.ts` keeps by
deleting and setting anew); `sweptAt` is the `ExecutionTime` in the closure of
`throttle`. No method awaits before its end, so each is one action: `Get`,
`Timestamp` and `Incr` touch the key and drop it when it is over; `Set` and
`Incr` store, evict, and run the throttled sweep. With `DISABLE_MAP_STORE_SET`
nothing is stored, yet `Incr` answers a count. `reply` is what the promise of
the last call resolves to.

**RateLimiter.** A request is counted (`Count`, which is `MapStore!Incr`), reads
the timestamp (`Stamp`), and is admitted, refused, or handed to `onRateLimit`;
`Finish` is what lies below. Each is the code between two awaits, and the store
and the clock move in between. `backend` is the store the process was started
with. Over the map store counting is one step; over a shared store the requests
are those of several servers, and `incr` is two commands: `Send`
(`RemoteStores!IncrBy` or `Read`) and `Confirm`, which is EXPIRE, possibly failing
and the request with it (stage `failed`), or Deno KV's commit, possibly refused
without notice. A Redis counter has no timestamp, so its reset is told from the
current time.

**RequestPipeline.** `stage` says what a request awaits. Every step may throw;
`errorHandler` is the one place that answers. The lock of the queue library is
external: `Grant`, `TurnAway` (its `wait` passed) and `Lapse` (its `ttl`
passed). `BeginHandle` and `EndHandle` are the two ends of `handle()`, with the
`finally` that lowers the gauge. What is thrown is an error or something falsy
(`throw undefined`). The latter is lost where a lock is released, since
`if (error)` takes it for success, and `errorHandler` itself may fail over it.
FailuresAreAnswered promises an answer for errors, and of what is falsy only that
no response of the handler has gone before.

**ServerLifecycle.** One process per call: the start in `serve.ts`, restarts,
signals. Each start is a generation, and a run is a job started by a
generation, so that a cleanup called twice is told from two cleanups. What
fails inside the start is not caught and ends the process (`Crash`); what fails
inside the end is logged and skips the rest, and cleanups nobody waits for any
more are no longer followed. The loop around `listen` (`server.ts:457`) is
`Listen` and `Answer`: on a port that is free the start is done; on one that an
earlier server of the process still holds, or another program, it asks
(phase `asking`) if the error is that of Windows, and throws otherwise; a yes
tries the next port (`incr`), a no throws. So a generation listens on a port of
its own, and an aborted one may do so beside the last. oak's `listen` and its
closing, and the user, are external.

**RemoteStores.** One action per command sent to the database. Redis: `IncrBy`
then `Expire`, a whole number of seconds or an error. Deno KV: `Read` then
`Commit` with a check, and one delete per key. Redis drops a key at its time;
Deno KV at some time after it. `get`, `has` and `timestamp` change nothing and
are left out. Values written by `set` are all alike.

**CacheAside.** A caller of `cache` looks up (`Lookup`, when it finds nothing;
what it finds changes nothing), computes, and sets (`Fill`) or not (`GiveUp`);
the calls of the others are those of RemoteStores, wrapped so that the histories
follow. Outside production `cache` only computes, which is left out.

**SdkScripts.** A generation is a `GenerateSDK` command of ModuleScripts in its
steps: make the folder (refused if it is there), copy the extensions, write the
sources (every listed module must import), and for npm build, move, list; for
Deno list, build, move. Both leave their package in `www`. What is written is
known by the generation that wrote it. Every step of a generation is a step of
the command it refines, or none, which `SdkKeepsModules` proves.

**DeployDocker.** A deployment reads the recorded versions once, takes the one
that follows, or the one asked for, its missing parts taken from the recorded one
(`Completed`), then `BuildImage`, `TagImage`, `Push`, `Save` (the versions of all
environments, as they were read) and `Apply`. `spawn` looks at no exit code: the
failures that go unnoticed are alternatives of each step and mark the deployment
`doubtful`. An image is known by the deployment that built it. terraform changes
what runs only when the tag does.

**ModuleScripts, PluginScripts.** Each command is a process that takes its copy
of the sequence when it starts (before its prompts) and writes it back whole.
An action is one file operation; between any two another terminal may move, or
the command may end (`Fail`), which stands for a kill, an error and a declined
prompt. A copy or a removal of a folder may end halfway. A file or folder is
the version it came from; the contents, the order of names, `excludes`, and
branches are left out, and what an update leaves of an older version's files.
generateERD ends without listing when git finds nothing new (`UpToDate`).
One write of one file is taken to be atomic.

## Runs

All are small on purpose: each bound is the least at which the cases below
happen, and the proofs, where there are any, need no bounds on their constants.

| Run | Checks | Bounds, and why they are enough |
|---|---|---|
| `MapStore` | TypeOK, CapacityBound, OrderIsRecency, SweepIsThorough, OnlyTheLeastRecentIsEvicted; PromiseSpec: it implements ExpiringStore | three keys over a capacity of two: every order of use at an eviction; four instants, a throttle of two: items that end before, at and after a sweep |
| `RateLimiter` | TypeOK, AtMostLimitPerWindow, RemainingIsExact, WaitingOutTheResetStartsAfresh | each of the three stores; three requests of two addresses in a store with room for one: evicted counters; a window of three ticks, a second, so that Redis can be asked to prolong it and the reset is rounded both ways; two increments of Deno KV that overlap and a third that sees one of them |
| `RequestPipeline` | TypeOK, GaugeIsExact, FailuresAreAnswered, SequentialByKey, ServedInOrder; EveryRequestEnds | three requests that may share one key: a holder, a waiter and one that comes after a lapse; one hook with a pre and a post, as states multiply with every hook: failures before, in and after either; any number of hooks is what the proofs are for |
| `ServerLifecycle` | TypeOK, NoCleanupForgotten, CleanupsKeepTheirConnections, TerminatedMeansDisconnected, AtRestItServes; SignalsExit, RestartsServeAgain | a restart and two signals: every overlap of two ends, and of an end with a start; a job of each kind; one port to fall back to (`MaxIncr`): a restart beside its draining predecessor, and a start that has given way to another program |
| `RemoteStores` (over CacheAside) | CacheTypeOK, NoIncrementIsUndone, OnlyTheEndlessStay, DeletedIsGone, CachedIsFresh | a caller of `cache` and two of the store; four calls: two that overlap and two that interfere; two keys: a del of both; two milliseconds to a second: lifetimes Redis accepts and refuses |
| `ModuleScripts` (over SdkScripts and DeployDocker) | SdkTypeOK, InOrderUnlessLoose, ListedItemsHaveFiles, ListedSdksAreWhole; CompleteMeansRunning, TagsAreNotMoved | three commands in two terminals: two that race and one that mends, also a generation over an abandoned one; two names, one of them a version: a rename, and another folder of `public`; two environments. Or three deployments in two terminals: one that fails, one that overlaps and one after; patch and minor versions, one asked for by its minor part, one not asked for at all, building skipped |
| `PluginScripts` | TypeOK, WholeUnlessLoose, ListedPluginsHaveFiles, GlobalPluginsKeepTheirSource, DeclarationsResolve | three commands in two terminals, with a list of one plugin and of two; two versions |

The run ModuleScripts holds commands or deployments, never both: they share no
state, so a behaviour of both is one of each, interleaved. A project whose one
module is `b` is left out of its initial states, since it differs from one with
`a` in the name alone, which no command on modules minds, and so is one with both
templates, which one command makes of one with `a`, leaving two that may race.

`CHECK_DEADLOCK FALSE` stands in every run but MapStore's: a behaviour stops
when its requests are answered, its process has exited, or its calls or
commands are used up. MapStore has a call to make in every state.

### Disagreements found

Five runs each show the code to differ from what the repository says of it.

| Run | Property | What happens |
|---|---|---|
| `RateLimiterAnnounced` | LimitRequestsAreServed | the limiter announces `Limit` and refuses the `Limit`-th request it counts, be those before it answered or in flight (`rateLimiter.ts:51`); with `Count > Limit` the property holds |
| `RequestPipelineNoHandler` | PostHooksFollowTheHandler | `hooks.md` has post hooks after the handler; for a version without handler they run alone (`server.ts:237`) |
| `ServerLifecycleJobs` | CleanupsFollowSignals | `jobs.md` has cleanups on a signal; a restart calls them too (`server.ts:491`) |
| `RemoteStoresIncr` | EveryIncrementCounts | on Deno KV an increment whose check failed is returned as done (`denoKv.ts:91`) |
| `PluginScriptsUpdate` | UpdatesBringTheClone | an update interrupted between the pull and the copy is passed over by the next, which says it succeeded (`updatePlugin.ts:127`) |

### What the histories are for

Some variables record the past and are read by no action: `fresher` (recency),
`log`, `robbed` and `lost` (the order of counting; counters pushed out or over
before Redis was asked to prolong them; increments lost by Deno KV), `trail` and
`lapsed`, `spoiled` and `overlapped`, `took`, `told`, `life`, `endless` and
`erased`, `basis` (when what a key holds was computed) and `crossed` (keys filled
by a computation a del overtook), and in the scripts `loose`, `raced`, `deleting`,
`elsewhere`, `open` (pushed and not recorded), `astray` (environments deployed to
at the same time, or with an old version) and `complete`. `robbed`, `lost`,
`crossed` and those of the scripts but the last are the exceptions a property
names, each as narrow as the code allows: a name is loose only between a command that touched it and one that
finishes it, and a command elsewhere in the directory must not disturb it.

## Fairness

- *RequestPipeline.* Weak fairness of every step of a request: the event loop
  runs each continuation, and what user code awaits is assumed to settle. Weak
  fairness of "granted or turned away": the lock library ends every wait after
  its option `wait`. No fairness of `Lapse`.
- *ServerLifecycle.* Weak fairness of every step of a call: what it awaits
  settles, a cleanup too. `Close`, which needs oak's clients to go away, the
  arrival of restarts and signals, and `Answer` are not fair: nobody may ever
  answer the question about the port, and then the restart neither listens nor
  dies. RestartsServeAgain therefore leads to that question as well, and starts
  anew from its answer.
- The stores, the limiter and the scripts have safety properties only.

EveryRequestEnds counts a request the lock turned away as ended although it
is never answered: nobody settles the promise it awaits (`server.ts:290`).
That is how the code is, and the hazards list it.

## Proofs

Proved for every value of the constants, from the assumptions each module
names (`CacheAssumption`, `StoreAssumption`, `AbsentAssumption`, `LimiterAssumption`,
`PipelineAssumption`, `LifecycleAssumption`, `RemoteAssumption`, `EnvAssumption`,
`ModuleAssumption`, `VersionAssumption`, `DeployAssumption`, `PluginAssumption`: sets
of requests, calls and keys are finite where they are counted, bounds are natural
numbers, and the special values are not ordinary ones; a lifetime in Redis, and so
the limiter's window, is not zero, since EXPIRE with zero deletes).

*MapStoreProofs* begins with lemmas about the operators of LruCache: what deleting,
touching and setting do to a cache of any size, that a non-empty cache has an
oldest key, and that setting makes room. It ends with what one call does to what
is found under each key (`IncrEffect`, `TimestampEffect`, `TickEffect`), for the
limiter. `TypeCorrect` carries the order: `older` is a strict total
order of the held keys. Upon it, `CapacityCorrect`, `RecencyCorrect` (the order
is the recency of use), `EvictionCorrect` (an action property, from the former:
the victim is the oldest, and the oldest is the least recent) and
`SweepCorrect`. The induction for the recency needs that a store whose writes
are disabled is empty, since `incr` then counts as a use and stores nothing; the
one for the sweep that an item stored after the last sweep is not older than it. `KeepsPromise` is the refinement: with
the items that are not over as `contents`, every step is a step of
`ExpiringStore` or a stutter; the sweep and the dropping of expired items are
invisible, and a write loses one live item at most.

*RateLimiterProofs* takes the two stores as their own proofs leave them: it
instantiates MapStoreProofs and RemoteStoresProofs at the limiter's constants,
shows that their assumptions hold there (`StoresAssumed`), and cites their
invariants and what their calls do. From then on there is one counter per address,
in whichever store (`Counter`, `Value`, `End`). The invariant says that counting
adds up: of two requests of an address the later has the earlier's count and one
for each request between them, at most, and exactly so inside the window of a
counter that is kept (`CountsAddUp`); and the counter itself is the next term of that
series (`CountersFollow`), which is what makes it inductive, since the next request
takes its count from there. That a counter does not end before the window of a
request it counted is the part `Outlives`. `LimitHolds` follows because the counts of the
requests a window lets through are distinct numbers below `Limit`. `Witnessed` is
for the reset: whenever a counter lives, some request of its address was told, or
is about to be told, a time not before its end, so a client that has waited for
all of them finds none; the rounding costs the half second of `WaitedOut`
(`Rounding`). Last, `LimiterKeepsMapStore` and `LimiterKeepsRemoteStores` show each step
of the limiter to be a step of its store or none, so every theorem about the
stores holds under it, two of them stated for the counters
(`CountersKeepThePromise`, `SharedCountersAreExact`).

*ServerLifecycleProofs.* The calls of a process overlap, so the invariant counts
them. `OneAtATime`: restarts follow one another, and only signals run beside;
`StartsAreCounted`: each start but the first belongs to one restart, so the number
of starts names the current generation, whose controller is `ControllerIsTheLast`.
`CleanedByCalls`: no cleanup has been called more often than there are calls of end.
`AbortedByEnds` says who aborts which generation, and that a generation which is
starting does not listen yet, so that with nothing under way the last one alone
takes connections; `Connected` and `Disconnected` which
call accounts for a connection that is missing, or there; `RunsAreKept`,
`RunsHaveBegun` and `EndsCleanAll` follow a run from its job's start to the ends
that owe it a cleanup. CleanupsKeepTheirConnections is then a case of `Connected`,
and AtRestItServes of `AbortedByEnds` and `Connected` with nobody under way.

*RequestPipelineProofs.* The inductive invariant is `TypeOK`, `GaugeIsExact` and
`Coherent`: a request being handled holds the lock of its key or has lapsed, a
failure is on its way exactly in the stages that lead to `errorHandler`, and an
answer is there only at the end. SequentialByKey is not inductive alone, since it
says nothing of who holds a lock. `HooksInTurn`, proved beside it, bounds the
index of the next hook; with it `TrailsInTurn`, that a trail is the pre hooks
passed so far, then the handler if there was one, then post hooks, gives
ServedInOrder, of which the number of hooks passed is a cardinality. `GaugeIsExact` counts a set, so its steps cite lemmas on
the cardinality of `Handling` when a request enters or leaves.

*RemoteStoresProofs.* The invariant is `TypeOK` with the three safety properties
and four parts: no entry has a version of the future (`Versions`); a key that is
gone owes nothing to earlier increments (`Starts`); a caller that has read a
version which is still there knows what it holds, and what a `del` under way has
deleted is gone or written anew (`InFlight`); Deno KV keeps the lifetime an item
was given (`Lifetimes`). The check of `Commit` then makes the increment apply to
exactly the value that was read. For CacheAside the invariant adds `Fresh` (a
computation under way began after every del of its key that has returned, or was
overtaken) and `Refilled` (the same for what is there again while a del is still
under way). `CacheKeepsStores` shows each of its steps to be a step of
RemoteStores or none.

*ModuleScriptsProofs* and *PluginScriptsProofs* share their argument. A command
holds a copy of the file, so the invariant says what the copy is worth: on every
name in order it agrees with the file, and for a command that runs alone it is
the file (`Copied`). Commands beside one another know of each other (`Apart`) and
what they were given is marked in the histories (`Marked`), so whatever one of
them writes back touches only what the others may find disturbed: that is the
lemma `Beside`, and the reason why a step need only be looked at from the command
that takes it (`OneDirectory`, `OneCommand`). `Progress` is the proof outline of a
lone command, an assertion at each of its awaits; `Backed` says that the copy
lists nothing that lacks its file, since a later command writes it back whole.
PluginScripts adds what has been read of the import map (`Mapped`) and the
plugins of the list that are done (`Finished`), which a lone command, when it
ends well, puts in order. For SdkScripts the invariant adds
that a generation has its stage and its command in step (`Placed`), that the
pieces it has written are its own and no other generation of the version is
beside it unless they raced (`Owned`, `Exclusive`), that sources lie only in
folders that were made (`InFolders`), and what another command may write back
into the list of `public` (`Relists`). Both begin with lemmas on what adding, deleting
and keeping the included props do to the lists.

*DeployDockerProofs.* Versions are ordered (`Below`), and the argument is that
nothing pushed is above what is recorded, but for what is open or astray
(`TagsRecorded`, `RunsRecorded`), while a deployment's version is above it until
recorded (`Fresh`); so the tag it pushes is new. `LogsRead` says what its copy of
the record is worth, `Apart` and `Crossing` that deployments beside one another
know of it, `Mine` that without an excuse the image under its tag is its own.

Only model-checked: all liveness (EveryRequestEnds, SignalsExit,
RestartsServeAgain), which is out of the prover's reach.

## What is not modelled, and why

Pure functions of one request or one call (responses, validators, hashing,
sizes, query parameters), declarations made once at import (controllers, metrics),
text (templates), and scripts that only call Postman or print. `PROJECT.json` lists each with its reason. Inside what is modelled:

- the empty string as a cache key: once it is the oldest nothing is evicted any
  more (`lru.ts:35`), so CapacityBound excludes it;
- a limiter whose window is zero, which no counter survives (`LimiterAssumption`);
- the reset the limiter announces over Deno KV, whose incr keeps the first
  timestamp and begins the lifetime anew (`denoKv.ts:87`): modelled, but
  WaitingOutTheResetStartsAfresh does not hold of it and says so;
- a Redis counter that is over before EXPIRE reaches it (`robbed`): modelled, but
  it admits too many only with four requests and a limit of three, beyond the run;
- what an SDK says (`schemaToTsType`, the templates), of a deployment the
  organisation and the suffix of a tag, the check of the work tree, the commit at
  the end;
- the data of the diagram, which generateERD writes into its folder
  (`generateERD.ts:330`), and of updateCore all but the merge of the import map:
  the files it copies and the merge of `deno.json` (`updateCore.ts:139`);
- a failure of responseTime, the logger or useTranslator, which are registered
  above errorHandler (`server.ts:49`) and so would not be answered by it;
- first requests of a route that run its factory twice (`decorator.ts:65`), and
  the other components listed as not modelled: each is in the plan or pure;
- plugins listed for another environment only, whose source the next command
  drops (`loader.ts:361`): GlobalPluginsKeepTheirSource says for whom it cannot
  happen;
- a `.sequence.json` that does not parse, which the scripts skip.

## Plan

In this order; each is small enough for one module.

1. `HandlerFactory`: the memo of factory results under overlapping first
   requests, and the choice of a version. In the run of RequestPipeline it
   multiplies the states several times; it wants an instance of its own.
2. `EventBus`, `TransactionQueue`, `InspectorProxy`: three small protocols.
3. `RouteOrder`: the sorting of routes against a definition of matching, and
   the loader's order of imports.

Where components interact or share an instance they are composed in one run (the
limiter over every store, the cache beside other callers, the generators among
the other commands).
