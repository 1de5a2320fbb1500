-------------------------- MODULE ServerLifecycle --------------------------
(***************************************************************************)
(* Starting, restarting and ending the server: createAppServer of          *)
(* core/server.ts with the background jobs, called by serve.ts.            *)
(*                                                                         *)
(* serve.ts starts the server and then installs its signal handlers, each  *)
(* of which ends the server and exits.  A restart is an end and a start;   *)
(* like the tests, its caller waits for the server to listen before it     *)
(* asks for another.  A signal may arrive at any time after the first      *)
(* start, in the middle of a restart or of another signal's end too.       *)
(* Every action is the code between two awaits of one call.                *)
(***************************************************************************)
EXTENDS Naturals, FiniteSets

CONSTANTS
    Main,       \* the call of start in serve.ts
    Restarts,   \* the calls of restart
    Signals,    \* the signals the process receives
    PreJobs,    \* the jobs run before the server is prepared ...
    PostJobs,   \* ... and after; each returns a cleanup
    MaxIncr     \* bound: how many ports after PORT a start is told to try

ASSUME LifecycleAssumption ==
    /\ Main \notin Restarts \cup Signals
    /\ Restarts \cap Signals = {}
    /\ PreJobs \cap PostJobs = {}
    /\ \A S \in {Restarts, Signals, PreJobs, PostJobs} : IsFiniteSet(S)
    /\ MaxIncr \in Nat

Calls == {Main} \cup Restarts \cup Signals
Jobs == PreJobs \cup PostJobs

\* Each start is a generation; a run is one execution of a job by a start.
Generations == 0..Cardinality(Restarts) + 1
Runs == Generations \X Jobs

\* PORT + n, by n.
Ports == 0..MaxIncr

VARIABLES
    phase,       \* what each call awaits next
    generation,  \* the start a call is making
    incr,        \* how many ports after PORT a call has gone on to
    starts,      \* how many starts there have been
    controller,  \* Context.abortController, by its generation; 0: undefined
    cleanups,    \* Context.jobCleanups
    started,     \* the runs that have begun
    running,     \* the cleanups each call of end waits for
    cleaned,     \* how often the cleanup of a run has been called
    aborted,     \* the generations whose controller was aborted
    listening,   \* the generations that listen, each with its port
    store, database,   \* whether Store and Database are connected
    alive,       \* the process has not exited
    spoiled,     \* history: the calls of end in which something threw
    overlapped   \* history: the calls of end that met with a start

vars == <<phase, incr, generation, starts, controller, cleanups, started, running,
          cleaned, aborted, listening, store, database, alive, spoiled,
          overlapped>>

context == <<controller, cleanups, started, cleaned, aborted>>
resources == <<store, database>>
history == <<spoiled, overlapped>>

StartPhases == {"connectStore", "connectDatabase", "boot", "preJobs", "prepare",
                "postJobs", "listen", "asking"}
EndPhases == {"cleaning", "dropDatabase", "dropStore", "report"}
Phases == StartPhases \cup EndPhases \cup {"idle", "done"}

\* The ports the process holds; another program may hold any other.
Held == {l[2] : l \in listening}

Starting == {c \in Calls : phase[c] \in StartPhases}
Ending == {c \in Calls : phase[c] \in EndPhases}
-----------------------------------------------------------------------------
Init ==
    /\ phase = [c \in Calls |-> IF c = Main THEN "connectStore" ELSE "idle"]
    /\ generation = [c \in Calls |-> IF c = Main THEN 1 ELSE 0]
    /\ incr = [c \in Calls |-> 0]
    /\ starts = 1
    /\ controller = 0
    /\ cleanups = {}
    /\ started = {}
    /\ running = [c \in Calls |-> {}]
    /\ cleaned = [u \in Runs |-> 0]
    /\ aborted = {} /\ listening = {}
    /\ store = FALSE /\ database = FALSE
    /\ alive = TRUE
    /\ spoiled = {} /\ overlapped = {}

At(c, p) == alive /\ phase[c] = p

GoTo(c, p) == phase' = [phase EXCEPT ![c] = p]

\* An error inside start rejects nothing: it is unhandled and ends the process.
Crash ==
    /\ alive' = FALSE
    /\ listening' = {}
    /\ UNCHANGED <<phase, incr, generation, starts, context, running, resources, history>>
-----------------------------------------------------------------------------
(* StartServer *)

ConnectStore(c) ==
    /\ At(c, "connectStore")
    /\ \/ /\ store' = TRUE
          /\ GoTo(c, "connectDatabase")
          /\ overlapped' = overlapped \cup Ending
          /\ UNCHANGED <<incr, generation, starts, context, running, listening,
                         database, alive, spoiled>>
       \/ Crash

ConnectDatabase(c) ==
    /\ At(c, "connectDatabase")
    /\ \/ /\ database' = TRUE
          /\ GoTo(c, "boot")
          /\ overlapped' = overlapped \cup Ending
          /\ UNCHANGED <<incr, generation, starts, context, running, listening,
                         store, alive, spoiled>>
       \/ Crash

\* I18next, Queue and the job modules are loaded; then the new Context is made
\* and, in the same turn, every pre job is called.
Boot(c) ==
    /\ At(c, "boot")
    /\ \/ /\ controller' = generation[c]
          /\ started' = started \cup ({generation[c]} \X PreJobs)
          /\ GoTo(c, "preJobs")
          /\ UNCHANGED <<incr, generation, starts, cleanups, running, cleaned, aborted,
                         listening, resources, alive, history>>
       \/ Crash

\* Promise.all of the pre jobs: their cleanups are kept.
PreJobsDone(c) ==
    /\ At(c, "preJobs")
    /\ \/ /\ cleanups' = cleanups \cup ({generation[c]} \X PreJobs)
          /\ GoTo(c, "prepare")
          /\ UNCHANGED <<incr, generation, starts, controller, started, running, cleaned,
                         aborted, listening, resources, alive, history>>
       \/ Crash

\* prepareAppServer, and the call of every post job.
Prepare(c) ==
    /\ At(c, "prepare")
    /\ \/ /\ started' = started \cup ({generation[c]} \X PostJobs)
          /\ GoTo(c, "postJobs")
          /\ UNCHANGED <<incr, generation, starts, controller, cleanups, running, cleaned,
                         aborted, listening, resources, alive, history>>
       \/ Crash

\* Mutant of PostJobsDone: the cleanups kept before are replaced.
PostJobsDoneAlone(c) ==
    /\ At(c, "postJobs")
    /\ cleanups' = {generation[c]} \X PostJobs
    /\ GoTo(c, "listen")
    /\ UNCHANGED <<incr, generation, starts, controller, started, running, cleaned,
                   aborted, listening, resources, alive, history>>

PostJobsDone(c) ==
    /\ At(c, "postJobs")
    /\ \/ /\ cleanups' = cleanups \cup ({generation[c]} \X PostJobs)
          /\ GoTo(c, "listen")
          /\ UNCHANGED <<incr, generation, starts, controller, started, running, cleaned,
                         aborted, listening, resources, alive, history>>
       \/ Crash

\* Mutant of Listen: an error is caught and not thrown again.
ListenCaught(c) ==
    /\ At(c, "listen")
    /\ listening' = IF incr[c] \in Held THEN listening
                    ELSE listening \cup {<<generation[c], incr[c]>>}
    /\ GoTo(c, "done")
    /\ UNCHANGED <<incr, generation, starts, context, running, resources, alive,
                   history>>

\* The application, external, listens, an aborted controller or not, on a port no
\* earlier server of the process holds; Main then installs the signal handlers.
\* A port that is held, by such a server or by another program, is asked about on
\* Windows, whose "os error 10048" it is.  Any other error is thrown.
Listen(c) ==
    /\ At(c, "listen")
    /\ \/ /\ incr[c] \notin Held
          /\ listening' = listening \cup {<<generation[c], incr[c]>>}
          /\ GoTo(c, "done")
          /\ UNCHANGED <<incr, generation, starts, context, running, resources,
                         alive, history>>
       \/ /\ GoTo(c, "asking")
          /\ UNCHANGED <<incr, generation, starts, context, running, listening,
                         resources, alive, history>>
       \/ Crash

\* Confirm.prompt: at a yes the next port is tried, at a no the error is thrown.
Answer(c) ==
    /\ At(c, "asking")
    /\ \/ /\ incr[c] < MaxIncr
          /\ incr' = [incr EXCEPT ![c] = @ + 1]
          /\ GoTo(c, "listen")
          /\ UNCHANGED <<generation, starts, context, running, listening,
                         resources, alive, history>>
       \/ Crash

\* External: an aborted server lets go of its port when it has answered the
\* requests it was handling.
Close(g) ==
    /\ alive
    /\ g \in aborted
    /\ \E l \in listening : l[1] = g /\ listening' = listening \ {l}
    /\ UNCHANGED <<phase, incr, generation, starts, context, running, resources,
                   alive, history>>
-----------------------------------------------------------------------------
(* RestartServer and EndServer *)

\* Mutant of BeginEnd: the database is disconnected before the cleanups are done.
BeginEndEager(c) ==
    /\ alive
    /\ aborted' = aborted \cup {controller}
    /\ running' = [running EXCEPT ![c] = cleanups]
    /\ cleaned' = [u \in Runs |-> cleaned[u] + IF u \in cleanups THEN 1 ELSE 0]
    /\ GoTo(c, "cleaning")
    /\ overlapped' = IF Starting = {} THEN overlapped ELSE overlapped \cup {c}
    /\ database' = FALSE
    /\ UNCHANGED <<incr, generation, starts, controller, cleanups, started, listening,
                   store, alive, spoiled>>

\* EndServer, up to its first await: the server is aborted and every cleanup
\* kept so far is called.  Nothing empties jobCleanups.
BeginEnd(c) ==
    /\ alive
    /\ aborted' = aborted \cup {controller}
    /\ running' = [running EXCEPT ![c] = cleanups]
    /\ cleaned' = [u \in Runs |-> cleaned[u] + IF u \in cleanups THEN 1 ELSE 0]
    /\ GoTo(c, "cleaning")
    /\ overlapped' = IF Starting = {} THEN overlapped ELSE overlapped \cup {c}
    /\ UNCHANGED <<incr, generation, starts, controller, cleanups, started, listening,
                   resources, alive, spoiled>>

\* restart, by a caller that has seen every earlier start to its end.
Restart(c) ==
    /\ phase[c] = "idle" /\ phase[Main] = "done"
    /\ \A d \in Restarts : phase[d] \in {"idle", "done"}
    /\ BeginEnd(c)

\* A signal, once serve.ts listens to signals.
Signal(c) ==
    /\ phase[c] = "idle" /\ phase[Main] = "done"
    /\ BeginEnd(c)

\* A cleanup, which is an async function, settles.  The first to fail ends the
\* wait for the others, which go on unheeded, and leads past both disconnects.
CleanupSettles(c) ==
    /\ At(c, "cleaning")
    /\ \/ /\ \E u \in running[c] : running' = [running EXCEPT ![c] = @ \ {u}]
          /\ UNCHANGED <<phase, history>>
       \/ /\ running[c] # {}
          /\ running' = [running EXCEPT ![c] = {}]
          /\ GoTo(c, "report")
          /\ spoiled' = spoiled \cup {c}
          /\ UNCHANGED overlapped
    /\ UNCHANGED <<incr, generation, starts, context, listening, resources, alive>>

\* Mutant of CleanupsDone: what is waited for is a second call of each cleanup.
CleanupsDoneTwice(c) ==
    /\ At(c, "cleaning") /\ running[c] = {}
    /\ cleaned' = [u \in Runs |-> cleaned[u] + IF u \in cleanups THEN 1 ELSE 0]
    /\ GoTo(c, "dropDatabase")
    /\ UNCHANGED <<incr, generation, starts, controller, cleanups, started, aborted,
                   running, listening, resources, alive, history>>

CleanupsDone(c) ==
    /\ At(c, "cleaning") /\ running[c] = {}
    /\ GoTo(c, "dropDatabase")
    /\ UNCHANGED <<incr, generation, starts, context, running, listening, resources,
                   alive, history>>

\* Mutant of DropDatabase: the store is left connected.
DropDatabaseOnly(c) ==
    /\ At(c, "dropDatabase")
    /\ GoTo(c, "report")
    /\ \/ /\ database' = FALSE
          /\ UNCHANGED spoiled
       \/ /\ spoiled' = spoiled \cup {c}
          /\ UNCHANGED database
    /\ UNCHANGED <<incr, generation, starts, context, running, listening, store, alive,
                   overlapped>>

\* A disconnect, or an error that is logged and skips what is left.
DropDatabase(c) ==
    /\ At(c, "dropDatabase")
    /\ \/ /\ database' = FALSE
          /\ GoTo(c, "dropStore")
          /\ UNCHANGED spoiled
       \/ /\ GoTo(c, "report")
          /\ spoiled' = spoiled \cup {c}
          /\ UNCHANGED database
    /\ UNCHANGED <<incr, generation, starts, context, running, listening, store, alive,
                   overlapped>>

DropStore(c) ==
    /\ At(c, "dropStore")
    /\ \/ /\ store' = FALSE
          /\ UNCHANGED spoiled
       \/ /\ spoiled' = spoiled \cup {c}
          /\ UNCHANGED store
    /\ GoTo(c, "report")
    /\ UNCHANGED <<incr, generation, starts, context, running, listening, database, alive,
                   overlapped>>

\* Mutant of Report: a signal does not exit.
ReportAndStay(c) ==
    /\ At(c, "report")
    /\ IF c \in Signals
       THEN /\ GoTo(c, "done")
            /\ UNCHANGED <<generation, starts>>
       ELSE /\ GoTo(c, "connectStore")
            /\ starts' = starts + 1
            /\ generation' = [generation EXCEPT ![c] = starts + 1]
    /\ UNCHANGED <<incr, context, running, listening, resources, alive, history>>

\* "Server terminated successfully!": a signal exits, a restart starts again.
Report(c) ==
    /\ At(c, "report")
    /\ IF c \in Signals
       THEN /\ GoTo(c, "done")
            /\ alive' = FALSE
            /\ listening' = {}
            /\ UNCHANGED <<generation, starts>>
       ELSE /\ GoTo(c, "connectStore")
            /\ starts' = starts + 1
            /\ generation' = [generation EXCEPT ![c] = starts + 1]
            /\ UNCHANGED <<alive, listening>>
    /\ UNCHANGED <<incr, context, running, resources, history>>

Proceed(c) ==
    \/ ConnectStore(c) \/ ConnectDatabase(c) \/ Boot(c) \/ PreJobsDone(c)
    \/ Prepare(c) \/ PostJobsDone(c) \/ Listen(c)
    \/ CleanupSettles(c) \/ CleanupsDone(c) \/ DropDatabase(c) \/ DropStore(c)
    \/ Report(c)

Next ==
    \/ \E c \in Calls : Proceed(c)
    \/ \E c \in Calls : Answer(c)
    \/ \E c \in Restarts : Restart(c)
    \/ \E c \in Signals : Signal(c)
    \/ \E g \in Generations : Close(g)

\* Every call goes on, and what it awaits settles, but for the user's answer.
Fairness == \A c \in Calls : WF_vars(Proceed(c))

Spec == Init /\ [][Next]_vars /\ Fairness
-----------------------------------------------------------------------------
\* The servers that take new connections.
Serving == {l \in listening : l[1] \notin aborted}

TypeOK ==
    /\ phase \in [Calls -> Phases]
    /\ generation \in [Calls -> 0..starts]
    /\ incr \in [Calls -> Ports]
    /\ starts \in Generations
    /\ controller \in 0..starts
    /\ cleanups \subseteq started
    /\ started \subseteq Runs
    /\ running \in [Calls -> SUBSET cleanups]
    /\ cleaned \in [Runs -> 0..Cardinality(Calls)]
    /\ aborted \subseteq 1..controller
    /\ listening \subseteq ({controller} \cup aborted) \X Ports
    /\ store \in BOOLEAN /\ database \in BOOLEAN /\ alive \in BOOLEAN
    /\ spoiled \subseteq Restarts \cup Signals
    /\ overlapped \subseteq Restarts \cup Signals

\* Every job that was started, by whichever start, has had its cleanup called
\* by the time a signal ends the process, also when a cleanup or a disconnect
\* fails or other ends run beside it; unless it met with a start, whose later
\* jobs it cannot know.
NoCleanupForgotten ==
    \A c \in Signals :
        phase[c] = "done" /\ c \notin overlapped => \A u \in started : cleaned[u] >= 1

\* While an end waits for the cleanups only another call can have taken the
\* database or the store from under them.
CleanupsKeepTheirConnections ==
    \A c \in Calls :
        phase[c] = "cleaning" /\ alive /\ ~(store /\ database) =>
            \E d \in Calls \ {c} :
                phase[d] \in {"dropStore", "report", "connectStore", "connectDatabase"}

\* At "Server terminated successfully!" both connections are closed, unless
\* something threw or a start was connecting meanwhile.
TerminatedMeansDisconnected ==
    \A c \in Calls :
        phase[c] = "report" /\ alive /\ c \notin spoiled \cup overlapped =>
            ~store /\ ~database

\* Between calls the server serves: on one port the last start takes connections,
\* and whatever else listens is an earlier start that was
\* aborted.  Its controller is the current one and its store and database are
\* connected, also when the end before it failed halfway.
AtRestItServes ==
    alive /\ Starting = {} /\ Ending = {} =>
        /\ \E p \in Ports : Serving = {<<starts, p>>}
        /\ controller = starts
        /\ store /\ database

\* A signal ends the process, even when cleanups or disconnects fail or other
\* calls are under way, provided every cleanup settles.
SignalsExit == \A c \in Signals : phase[c] = "cleaning" ~> ~alive

\* A restart, from whichever of its steps, leads to a server that listens on some
\* port, to a question about the port, which only the user ends, or to the end of
\* the process; also when one question was answered already.
RestartsServeAgain ==
    \A c \in Restarts :
        phase[c] \in (StartPhases \cup EndPhases) \ {"asking"} ~>
            \/ ~alive \/ phase[c] = "asking"
            \/ phase[c] = "done" /\ \E p \in Ports : <<generation[c], p>> \in listening

\* jobs.md on the function a job returns: "This code executes when the app
\* receives "SIGINT" | "SIGTERM" | "SIGBREAK" signal".
CleanupsFollowSignals ==
    \A u \in Runs :
        cleaned[u] <= Cardinality({c \in Signals : phase[c] # "idle"})
=============================================================================
