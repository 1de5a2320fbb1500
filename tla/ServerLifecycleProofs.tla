------------------------ MODULE ServerLifecycleProofs ------------------------
(***************************************************************************)
(* Proofs about starting, restarting and ending the server: the types and  *)
(* the safety invariants of ServerLifecycle, for any number of restarts,   *)
(* signals and jobs.                                                       *)
(***************************************************************************)
EXTENDS ServerLifecycle, FiniteSetTheorems, TLAPS

(* The inductive invariant, in parts.                                      *)

\* The phases of a start before its Context is made.
Unbooted == {"connectStore", "connectDatabase", "boot"}

\* Main starts before anything else is called, restarts follow one another, and
\* a signal only ends; one that is done has taken the process with it.
OneAtATime ==
    /\ phase[Main] \in StartPhases \cup {"done"}
    /\ phase[Main] # "done" => \A c \in Restarts \cup Signals : phase[c] = "idle"
    /\ \A c, d \in Restarts :
         phase[c] \notin {"idle", "done"} /\ phase[d] \notin {"idle", "done"} => c = d
    /\ \A c \in Signals :
         /\ phase[c] \in EndPhases \cup {"idle", "done"}
         /\ phase[c] = "done" => ~alive

\* The restarts that have begun their start.
Restarted == {c \in Restarts : generation[c] # 0}

\* Every start but that of Main belongs to one restart, the last to the one that
\* is starting.
StartsAreCounted ==
    /\ starts = 1 + Cardinality(Restarted)
    /\ \A c \in Restarts : phase[c] \in EndPhases \cup {"idle"} => generation[c] = 0
    /\ \A c \in Starting : generation[c] = starts
    /\ phase[Main] # "done" => starts = 1
    /\ \A c \in Restarts : phase[c] \in StartPhases => starts >= 2

\* The controller is that of the last start that has made its Context.
ControllerIsTheLast ==
    controller = IF \E c \in Calls : phase[c] \in Unbooted THEN starts - 1 ELSE starts

\* The calls of end that have begun.
Called == {c \in Restarts \cup Signals : phase[c] # "idle"}

\* Each of them calls a cleanup once.
CleanedByCalls == \A u \in Runs : cleaned[u] <= Cardinality(Called)

\* A restart aborts the generation before its own.  The last generation does not
\* listen while it is starting, is aborted only by an end under way, and is the
\* only one to take connections when nothing is.
AbortedByEnds ==
    /\ phase[Main] # "done" => listening = {} /\ aborted = {}
    /\ \A c \in Restarts : /\ phase[c] \in EndPhases => starts \in aborted
                           /\ phase[c] \in StartPhases => starts - 1 \in aborted
    /\ alive /\ starts \in aborted => Ending # {}
    /\ Starting # {} => \A l \in listening : l[1] # starts
    /\ alive /\ Starting = {} /\ Ending = {} =>
         \E p \in Ports : Serving = {<<starts, p>>}

\* A connection is missing only while some call stands between dropping it and
\* making it again.
Connected ==
    /\ alive /\ ~store =>
         \E d \in Calls : phase[d] \in {"report", "connectStore"}
    /\ alive /\ ~database =>
         \E d \in Calls :
             phase[d] \in {"dropStore", "report", "connectStore", "connectDatabase"}

\* What an end has dropped stays dropped until a start makes it anew.
Disconnected ==
    \A c \in Calls \ overlapped : alive =>
        /\ phase[c] = "dropStore" => ~database
        /\ phase[c] = "report" /\ c \notin spoiled => ~store /\ ~database

\* A call that has made its part of an end, or is about to.
Ended(c) == phase[c] \in EndPhases \/ (c \in Signals /\ phase[c] = "done")

\* The cleanup of a run that has begun is kept as soon as its jobs are done ...
RunsAreKept ==
    \A u \in started \ cleanups :
        \E d \in Calls :
            \/ /\ phase[d] = "preJobs" /\ u \in {generation[d]} \X PreJobs
            \/ /\ phase[d] = "postJobs" /\ u \in {generation[d]} \X PostJobs

\* ... and every job a call waits for has begun.
RunsHaveBegun ==
    \A d \in Calls :
        /\ phase[d] = "preJobs" => {generation[d]} \X PreJobs \subseteq started
        /\ phase[d] = "postJobs" => {generation[d]} \X PostJobs \subseteq started

\* An end that met no start has called every cleanup there is, and while it is
\* under way no start gets past connecting the store.
EndsCleanAll ==
    \A c \in Calls \ overlapped :
        Ended(c) =>
            /\ \A u \in started : cleaned[u] >= 1
            /\ alive => \A d \in Starting : phase[d] = "connectStore"

Inv ==
    /\ TypeOK
    /\ OneAtATime /\ StartsAreCounted /\ ControllerIsTheLast /\ CleanedByCalls
    /\ AbortedByEnds /\ Connected /\ Disconnected
    /\ RunsAreKept /\ RunsHaveBegun /\ EndsCleanAll
-----------------------------------------------------------------------------
(* Lemmas.                                                                 *)

\* The calls that may begin, and what a start is the generation of.
LEMMA RestartsAreFinite ==
    /\ IsFiniteSet(Restarts) /\ IsFiniteSet(Signals) /\ IsFiniteSet(Calls)
    /\ Cardinality(Restarts) \in Nat /\ Cardinality(Calls) \in Nat
    /\ Generations = 0..Cardinality(Restarts) + 1
PROOF
<1>1. IsFiniteSet(Restarts) /\ IsFiniteSet(Signals)
  BY LifecycleAssumption
<1>2. IsFiniteSet({Main})
  BY FS_Singleton
<1>3. IsFiniteSet(Calls)
  BY <1>1, <1>2, FS_Union DEF Calls
<1> QED
  BY <1>1, <1>3, FS_CardinalityType DEF Generations

\* There is at most one start at a time, and none beside the end of a restart.
LEMMA OneStart ==
    ASSUME OneAtATime
    PROVE  /\ \A c, d \in Starting : c = d
           /\ \A c \in Restarts : phase[c] \in EndPhases => Starting = {}
           /\ \A c \in Starting \cup Ending : c # Main => phase[Main] = "done"
           /\ Main \notin Ending /\ Starting \cap Signals = {}
           /\ Starting \cap Ending = {}
PROOF
  BY LifecycleAssumption
  DEF OneAtATime, Starting, Ending, StartPhases, EndPhases, Calls

\* A crash leaves nothing that the invariant asks of a living process.
LEMMA CrashKeeps == Inv /\ Crash => Inv'
PROOF
<1> SUFFICES ASSUME Inv, Crash
             PROVE  Inv'
  OBVIOUS
<1>1. /\ alive' = FALSE /\ listening' = {}
      /\ UNCHANGED <<phase, incr, generation, starts, controller, cleanups, started,
                     running, cleaned, aborted, store, database, spoiled,
                     overlapped>>
  BY DEF Crash, context, resources, history
<1>2. /\ Starting' = Starting /\ Ending' = Ending
      /\ Restarted' = Restarted /\ Called' = Called
      /\ \A c \in Calls : Ended(c)' = Ended(c)
  BY <1>1 DEF Starting, Ending, Restarted, Called, Ended
<1>3. TypeOK'
  BY <1>1 DEF Inv, TypeOK
<1>4. OneAtATime'
  BY <1>1 DEF Inv, OneAtATime
<1>5. StartsAreCounted' /\ ControllerIsTheLast' /\ CleanedByCalls'
  BY <1>1, <1>2 DEF Inv, StartsAreCounted, ControllerIsTheLast, CleanedByCalls
<1>6. AbortedByEnds' /\ Connected' /\ Disconnected'
  BY <1>1, <1>2 DEF Inv, AbortedByEnds, Connected, Disconnected
<1>7. RunsAreKept' /\ RunsHaveBegun' /\ EndsCleanAll'
  BY <1>1, <1>2 DEF Inv, RunsAreKept, RunsHaveBegun, EndsCleanAll
<1> QED
  BY <1>3, <1>4, <1>5, <1>6, <1>7 DEF Inv

\* A call that moves on, and no other.
LEMMA Moves ==
    ASSUME TypeOK, NEW c \in Calls, NEW p \in Phases, GoTo(c, p)
    PROVE  /\ phase' \in [Calls -> Phases]
           /\ phase'[c] = p
           /\ \A d \in Calls \ {c} : phase'[d] = phase[d]
           /\ Starting' = IF p \in StartPhases THEN Starting \cup {c} ELSE Starting \ {c}
           /\ Ending' = IF p \in EndPhases THEN Ending \cup {c} ELSE Ending \ {c}
PROOF
<1>1. /\ phase' \in [Calls -> Phases]
      /\ phase'[c] = p
      /\ \A d \in Calls \ {c} : phase'[d] = phase[d]
  BY DEF TypeOK, GoTo
<1> QED
  BY <1>1 DEF Starting, Ending

\* There has been a start, and there are no more than the restarts allow.
LEMMA StartsArePositive ==
    ASSUME TypeOK, StartsAreCounted
    PROVE  /\ starts \in Nat \ {0}
           /\ IsFiniteSet(Restarted)
           /\ Cardinality(Restarted) \in Nat
PROOF
<1>1. Restarted \subseteq Restarts
  BY DEF Restarted
<1>2. IsFiniteSet(Restarted) /\ Cardinality(Restarted) \in Nat
  BY <1>1, RestartsAreFinite, FS_Subset, FS_CardinalityType
<1> QED
  BY <1>2 DEF StartsAreCounted

\* The store is connected.
LEMMA ConnectStoreKeeps ==
    ASSUME Inv, NEW c \in Calls, ConnectStore(c), ~Crash
    PROVE  Inv'
PROOF
<1>1. /\ alive /\ alive' /\ phase[c] = "connectStore"
      /\ GoTo(c, "connectDatabase")
      /\ store' = TRUE /\ overlapped' = overlapped \cup Ending
      /\ UNCHANGED <<incr, generation, starts, controller, cleanups, started, running,
                     cleaned, aborted, listening, database, spoiled>>
  BY DEF ConnectStore, At, context
<1>2. /\ phase' \in [Calls -> Phases]
      /\ phase'[c] = "connectDatabase"
      /\ \A d \in Calls \ {c} : phase'[d] = phase[d]
      /\ Starting' = Starting /\ Ending' = Ending /\ c \in Starting \ Ending
  BY <1>1, Moves DEF Inv, Phases, StartPhases, EndPhases, Starting, Ending
<1>3. /\ \A d \in Starting : d = c
      /\ c \notin Signals
      /\ Main \notin Ending
  BY <1>2, OneStart DEF Inv
<1>4. TypeOK'
  BY <1>1, <1>2, <1>3 DEF Inv, TypeOK, Ending, Calls
<1>5. OneAtATime'
  BY <1>1, <1>2, <1>3, LifecycleAssumption DEF Inv, OneAtATime, StartPhases, EndPhases, Calls
<1>6. StartsAreCounted'
  BY <1>1, <1>2, LifecycleAssumption DEF Inv, StartsAreCounted, StartPhases, EndPhases, Restarted, Calls
<1>7. ControllerIsTheLast'
  BY <1>1, <1>2 DEF Inv, ControllerIsTheLast, Unbooted
<1>8. CleanedByCalls'
  <2>1. Called' = Called
    BY <1>1, <1>2 DEF Called, Calls
  <2> QED
    BY <1>1, <2>1 DEF Inv, CleanedByCalls
<1>9. AbortedByEnds'
  BY <1>1, <1>2 DEF Inv, AbortedByEnds, StartPhases, EndPhases, Calls
<1>10. Connected'
  BY <1>1, <1>2 DEF Inv, Connected
<1>11. Disconnected'
  BY <1>1, <1>2 DEF Inv, Disconnected, Ending, EndPhases
<1>12. RunsAreKept'
  BY <1>1, <1>2 DEF Inv, RunsAreKept
<1>13. RunsHaveBegun'
  BY <1>1, <1>2 DEF Inv, RunsHaveBegun
<1>14. EndsCleanAll'
  <2>1. \A d \in Calls \ overlapped' : ~Ended(d)'
    BY <1>1, <1>2, <1>3 DEF Ended, Ending, OneAtATime, Inv
  <2> QED
    BY <2>1 DEF EndsCleanAll
<1> QED
  BY <1>4, <1>5, <1>6, <1>7, <1>8, <1>9, <1>10, <1>11, <1>12, <1>13, <1>14 DEF Inv

\* The database is connected.
LEMMA ConnectDatabaseKeeps ==
    ASSUME Inv, NEW c \in Calls, ConnectDatabase(c), ~Crash
    PROVE  Inv'
PROOF
<1>1. /\ alive /\ alive' /\ phase[c] = "connectDatabase"
      /\ GoTo(c, "boot")
      /\ database' = TRUE /\ overlapped' = overlapped \cup Ending
      /\ UNCHANGED <<incr, generation, starts, controller, cleanups, started, running,
                     cleaned, aborted, listening, store, spoiled>>
  BY DEF ConnectDatabase, At, context
<1>2. /\ phase' \in [Calls -> Phases]
      /\ phase'[c] = "boot"
      /\ \A d \in Calls \ {c} : phase'[d] = phase[d]
      /\ Starting' = Starting /\ Ending' = Ending /\ c \in Starting \ Ending
  BY <1>1, Moves DEF Inv, Phases, StartPhases, EndPhases, Starting, Ending
<1>3. /\ \A d \in Starting : d = c
      /\ c \notin Signals
      /\ Main \notin Ending
  BY <1>2, OneStart DEF Inv
<1>4. TypeOK'
  BY <1>1, <1>2, <1>3 DEF Inv, TypeOK, Ending, Calls
<1>5. OneAtATime'
  BY <1>1, <1>2, <1>3, LifecycleAssumption
  DEF Inv, OneAtATime, StartPhases, EndPhases, Calls
<1>6. StartsAreCounted'
  BY <1>1, <1>2, LifecycleAssumption
  DEF Inv, StartsAreCounted, StartPhases, EndPhases, Restarted, Calls
<1>7. ControllerIsTheLast'
  BY <1>1, <1>2 DEF Inv, ControllerIsTheLast, Unbooted
<1>8. CleanedByCalls'
  <2>1. Called' = Called
    BY <1>1, <1>2 DEF Called, Calls
  <2> QED
    BY <1>1, <2>1 DEF Inv, CleanedByCalls
<1>9. AbortedByEnds'
  BY <1>1, <1>2 DEF Inv, AbortedByEnds, StartPhases, EndPhases, Calls
<1>10. Connected'
  BY <1>1, <1>2 DEF Inv, Connected
<1>11. Disconnected'
  BY <1>1, <1>2 DEF Inv, Disconnected, Ending, EndPhases
<1>12. RunsAreKept'
  BY <1>1, <1>2 DEF Inv, RunsAreKept
<1>13. RunsHaveBegun'
  BY <1>1, <1>2 DEF Inv, RunsHaveBegun
<1>14. EndsCleanAll'
  <2>1. \A d \in Calls \ overlapped' : ~Ended(d)'
    BY <1>1, <1>2, <1>3 DEF Ended, Ending, OneAtATime, Inv
  <2> QED
    BY <2>1 DEF EndsCleanAll
<1> QED
  BY <1>4, <1>5, <1>6, <1>7, <1>8, <1>9, <1>10, <1>11, <1>12, <1>13, <1>14 DEF Inv

\* The Context of the start is made and its pre jobs begin.
LEMMA BootKeeps ==
    ASSUME Inv, NEW c \in Calls, Boot(c), ~Crash
    PROVE  Inv'
PROOF
<1>1. /\ alive /\ alive' /\ phase[c] = "boot"
      /\ GoTo(c, "preJobs")
      /\ controller' = generation[c]
      /\ started' = started \cup ({generation[c]} \X PreJobs)
      /\ UNCHANGED <<incr, generation, starts, cleanups, running, cleaned, aborted,
                     listening, store, database, spoiled, overlapped>>
  BY DEF Boot, At, resources, history
<1>2. /\ phase' \in [Calls -> Phases]
      /\ phase'[c] = "preJobs"
      /\ \A d \in Calls \ {c} : phase'[d] = phase[d]
      /\ Starting' = Starting /\ Ending' = Ending /\ c \in Starting \ Ending
  BY <1>1, Moves DEF Inv, Phases, StartPhases, EndPhases, Starting, Ending
<1>3. /\ \A d \in Starting : d = c
      /\ c \notin Signals
      /\ Main \notin Ending
  BY <1>2, OneStart DEF Inv
<1>4. /\ generation[c] = starts /\ controller = starts - 1 /\ starts \in Nat \ {0}
      /\ controller' = starts
  BY <1>1, <1>2, RestartsAreFinite
  DEF Inv, TypeOK, StartsAreCounted, ControllerIsTheLast, Unbooted, Starting
<1>5. TypeOK'
  <2>1. started' \subseteq Runs
    BY <1>1, <1>4 DEF Inv, TypeOK, Runs, Jobs
  <2>2. aborted' \subseteq 1..controller'
    BY <1>1, <1>4 DEF Inv, TypeOK
  <2>3. listening' \subseteq ({controller'} \cup aborted') \X Ports
    <3>1. CASE c = Main
      BY <1>1, <3>1 DEF Inv, AbortedByEnds
    <3>2. CASE c # Main
      <4>1. controller \in aborted
        BY <1>1, <1>3, <1>4, <3>2 DEF Inv, AbortedByEnds, StartPhases, Calls
      <4> QED
        BY <1>1, <4>1 DEF Inv, TypeOK
    <3> QED
      BY <3>1, <3>2
  <2> QED
    BY <1>1, <1>2, <1>4, <2>1, <2>2, <2>3 DEF Inv, TypeOK
<1>6. OneAtATime'
  BY <1>1, <1>2, <1>3, LifecycleAssumption
  DEF Inv, OneAtATime, StartPhases, EndPhases, Calls
<1>7. StartsAreCounted'
  BY <1>1, <1>2, LifecycleAssumption
  DEF Inv, StartsAreCounted, StartPhases, EndPhases, Restarted, Calls
<1>8. ControllerIsTheLast'
  BY <1>1, <1>2, <1>3, <1>4 DEF Inv, ControllerIsTheLast, Unbooted, Starting, StartPhases
<1>9. CleanedByCalls'
  <2>1. Called' = Called
    BY <1>1, <1>2 DEF Called, Calls
  <2> QED
    BY <1>1, <2>1 DEF Inv, CleanedByCalls
<1>10. AbortedByEnds'
  BY <1>1, <1>2 DEF Inv, AbortedByEnds, StartPhases, EndPhases, Calls
<1>11. Connected'
  BY <1>1, <1>2 DEF Inv, Connected
<1>12. Disconnected'
  BY <1>1, <1>2 DEF Inv, Disconnected
<1>13. RunsAreKept'
  BY <1>1, <1>2 DEF Inv, RunsAreKept
<1>14. RunsHaveBegun'
  BY <1>1, <1>2, <1>3 DEF Inv, RunsHaveBegun
<1>15. EndsCleanAll'
  <2>1. \A d \in Calls \ overlapped' : ~Ended(d)'
    BY <1>1, <1>2, <1>3 DEF Inv, EndsCleanAll, Ended, EndPhases
  <2> QED
    BY <2>1 DEF EndsCleanAll
<1> QED
  BY <1>5, <1>6, <1>7, <1>8, <1>9, <1>10, <1>11, <1>12, <1>13, <1>14, <1>15 DEF Inv

\* The cleanups of the pre jobs are kept.
LEMMA PreJobsDoneKeeps ==
    ASSUME Inv, NEW c \in Calls, PreJobsDone(c), ~Crash
    PROVE  Inv'
PROOF
<1>1. /\ alive /\ alive' /\ phase[c] = "preJobs"
      /\ GoTo(c, "prepare")
      /\ cleanups' = cleanups \cup ({generation[c]} \X PreJobs)
      /\ UNCHANGED <<incr, generation, starts, controller, started, running, cleaned,
                     aborted, listening, store, database, spoiled, overlapped>>
  BY DEF PreJobsDone, At, resources, history
<1>2. /\ phase' \in [Calls -> Phases]
      /\ phase'[c] = "prepare"
      /\ \A d \in Calls \ {c} : phase'[d] = phase[d]
      /\ Starting' = Starting /\ Ending' = Ending /\ c \in Starting \ Ending
  BY <1>1, Moves DEF Inv, Phases, StartPhases, EndPhases, Starting, Ending
<1>3. /\ \A d \in Starting : d = c
      /\ c \notin Signals
      /\ Main \notin Ending
  BY <1>2, OneStart DEF Inv
<1>4. TypeOK'
  <2>1. cleanups' \subseteq started'
    BY <1>1 DEF Inv, TypeOK, RunsHaveBegun
  <2> QED
    BY <1>1, <1>2, <2>1 DEF Inv, TypeOK
<1>5. OneAtATime'
  BY <1>1, <1>2, <1>3, LifecycleAssumption
  DEF Inv, OneAtATime, StartPhases, EndPhases, Calls
<1>6. StartsAreCounted'
  BY <1>1, <1>2, LifecycleAssumption
  DEF Inv, StartsAreCounted, StartPhases, EndPhases, Restarted, Calls
<1>7. ControllerIsTheLast'
  BY <1>1, <1>2 DEF Inv, ControllerIsTheLast, Unbooted
<1>8. CleanedByCalls'
  <2>1. Called' = Called
    BY <1>1, <1>2 DEF Called, Calls
  <2> QED
    BY <1>1, <2>1 DEF Inv, CleanedByCalls
<1>9. AbortedByEnds'
  BY <1>1, <1>2 DEF Inv, AbortedByEnds, StartPhases, EndPhases, Calls
<1>10. Connected'
  BY <1>1, <1>2 DEF Inv, Connected
<1>11. Disconnected'
  BY <1>1, <1>2 DEF Inv, Disconnected
<1>12. RunsAreKept'
  BY <1>1, <1>2 DEF Inv, RunsAreKept
<1>13. RunsHaveBegun'
  BY <1>1, <1>2 DEF Inv, RunsHaveBegun
<1>14. EndsCleanAll'
  <2>1. \A d \in Calls \ overlapped' : ~Ended(d)'
    BY <1>1, <1>2, <1>3 DEF Inv, EndsCleanAll, Ended, EndPhases
  <2> QED
    BY <2>1 DEF EndsCleanAll
<1> QED
  BY <1>4, <1>5, <1>6, <1>7, <1>8, <1>9, <1>10, <1>11, <1>12, <1>13, <1>14 DEF Inv

\* The application is prepared and the post jobs begin.
LEMMA PrepareKeeps ==
    ASSUME Inv, NEW c \in Calls, Prepare(c), ~Crash
    PROVE  Inv'
PROOF
<1>1. /\ alive /\ alive' /\ phase[c] = "prepare"
      /\ GoTo(c, "postJobs")
      /\ started' = started \cup ({generation[c]} \X PostJobs)
      /\ UNCHANGED <<incr, generation, starts, controller, cleanups, running, cleaned,
                     aborted, listening, store, database, spoiled, overlapped>>
  BY DEF Prepare, At, resources, history
<1>2. /\ phase' \in [Calls -> Phases]
      /\ phase'[c] = "postJobs"
      /\ \A d \in Calls \ {c} : phase'[d] = phase[d]
      /\ Starting' = Starting /\ Ending' = Ending /\ c \in Starting \ Ending
  BY <1>1, Moves DEF Inv, Phases, StartPhases, EndPhases, Starting, Ending
<1>3. /\ \A d \in Starting : d = c
      /\ c \notin Signals
      /\ Main \notin Ending
  BY <1>2, OneStart DEF Inv
<1>4. generation[c] \in Generations
  BY <1>2, RestartsAreFinite DEF Inv, TypeOK, StartsAreCounted
<1>5. TypeOK'
  <2>1. started' \subseteq Runs
    BY <1>1, <1>4 DEF Inv, TypeOK, Runs, Jobs
  <2> QED
    BY <1>1, <1>2, <2>1 DEF Inv, TypeOK
<1>6. OneAtATime'
  BY <1>1, <1>2, <1>3, LifecycleAssumption
  DEF Inv, OneAtATime, StartPhases, EndPhases, Calls
<1>7. StartsAreCounted'
  BY <1>1, <1>2, LifecycleAssumption
  DEF Inv, StartsAreCounted, StartPhases, EndPhases, Restarted, Calls
<1>8. ControllerIsTheLast'
  BY <1>1, <1>2 DEF Inv, ControllerIsTheLast, Unbooted
<1>9. CleanedByCalls'
  <2>1. Called' = Called
    BY <1>1, <1>2 DEF Called, Calls
  <2> QED
    BY <1>1, <2>1 DEF Inv, CleanedByCalls
<1>10. AbortedByEnds'
  BY <1>1, <1>2 DEF Inv, AbortedByEnds, StartPhases, EndPhases, Calls
<1>11. Connected'
  BY <1>1, <1>2 DEF Inv, Connected
<1>12. Disconnected'
  BY <1>1, <1>2 DEF Inv, Disconnected
<1>13. RunsAreKept'
  BY <1>1, <1>2 DEF Inv, RunsAreKept
<1>14. RunsHaveBegun'
  BY <1>1, <1>2, <1>3 DEF Inv, RunsHaveBegun
<1>15. EndsCleanAll'
  <2>1. \A d \in Calls \ overlapped' : ~Ended(d)'
    BY <1>1, <1>2, <1>3 DEF Inv, EndsCleanAll, Ended, EndPhases
  <2> QED
    BY <2>1 DEF EndsCleanAll
<1> QED
  BY <1>5, <1>6, <1>7, <1>8, <1>9, <1>10, <1>11, <1>12, <1>13, <1>14, <1>15 DEF Inv

\* The cleanups of the post jobs are kept.
LEMMA PostJobsDoneKeeps ==
    ASSUME Inv, NEW c \in Calls, PostJobsDone(c), ~Crash
    PROVE  Inv'
PROOF
<1>1. /\ alive /\ alive' /\ phase[c] = "postJobs"
      /\ GoTo(c, "listen")
      /\ cleanups' = cleanups \cup ({generation[c]} \X PostJobs)
      /\ UNCHANGED <<incr, generation, starts, controller, started, running, cleaned,
                     aborted, listening, store, database, spoiled, overlapped>>
  BY DEF PostJobsDone, At, resources, history
<1>2. /\ phase' \in [Calls -> Phases]
      /\ phase'[c] = "listen"
      /\ \A d \in Calls \ {c} : phase'[d] = phase[d]
      /\ Starting' = Starting /\ Ending' = Ending /\ c \in Starting \ Ending
  BY <1>1, Moves DEF Inv, Phases, StartPhases, EndPhases, Starting, Ending
<1>3. /\ \A d \in Starting : d = c
      /\ c \notin Signals
      /\ Main \notin Ending
  BY <1>2, OneStart DEF Inv
<1>4. TypeOK'
  <2>1. cleanups' \subseteq started'
    BY <1>1 DEF Inv, TypeOK, RunsHaveBegun
  <2> QED
    BY <1>1, <1>2, <2>1 DEF Inv, TypeOK
<1>5. OneAtATime'
  BY <1>1, <1>2, <1>3, LifecycleAssumption
  DEF Inv, OneAtATime, StartPhases, EndPhases, Calls
<1>6. StartsAreCounted'
  BY <1>1, <1>2, LifecycleAssumption
  DEF Inv, StartsAreCounted, StartPhases, EndPhases, Restarted, Calls
<1>7. ControllerIsTheLast'
  BY <1>1, <1>2 DEF Inv, ControllerIsTheLast, Unbooted
<1>8. CleanedByCalls'
  <2>1. Called' = Called
    BY <1>1, <1>2 DEF Called, Calls
  <2> QED
    BY <1>1, <2>1 DEF Inv, CleanedByCalls
<1>9. AbortedByEnds'
  BY <1>1, <1>2 DEF Inv, AbortedByEnds, StartPhases, EndPhases, Calls
<1>10. Connected'
  BY <1>1, <1>2 DEF Inv, Connected
<1>11. Disconnected'
  BY <1>1, <1>2 DEF Inv, Disconnected
<1>12. RunsAreKept'
  BY <1>1, <1>2 DEF Inv, RunsAreKept
<1>13. RunsHaveBegun'
  BY <1>1, <1>2 DEF Inv, RunsHaveBegun
<1>14. EndsCleanAll'
  <2>1. \A d \in Calls \ overlapped' : ~Ended(d)'
    BY <1>1, <1>2, <1>3 DEF Inv, EndsCleanAll, Ended, EndPhases
  <2> QED
    BY <2>1 DEF EndsCleanAll
<1> QED
  BY <1>4, <1>5, <1>6, <1>7, <1>8, <1>9, <1>10, <1>11, <1>12, <1>13, <1>14 DEF Inv

\* A start asks about its port, or tries the next.
LEMMA AskingKeeps ==
    ASSUME Inv, alive, alive', NEW c \in Calls, NEW p \in {"listen", "asking"},
           phase[c] \in {"listen", "asking"}, GoTo(c, p), incr' \in [Calls -> Ports],
           UNCHANGED <<generation, starts, controller, cleanups, started, running,
                       cleaned, aborted, listening, store, database, spoiled,
                       overlapped>>
    PROVE  Inv'
PROOF
<1>1. phase[c] \in StartPhases
  BY DEF StartPhases
<1>2. /\ phase' \in [Calls -> Phases]
      /\ phase'[c] = p
      /\ \A d \in Calls \ {c} : phase'[d] = phase[d]
      /\ Starting' = Starting /\ Ending' = Ending /\ c \in Starting \ Ending
  BY <1>1, Moves DEF Inv, Phases, StartPhases, EndPhases, Starting, Ending
<1>3. /\ \A d \in Starting : d = c
      /\ c \notin Signals
      /\ Main \notin Ending
  BY <1>2, OneStart DEF Inv
<1>4. TypeOK'
  BY <1>1, <1>2 DEF Inv, TypeOK
<1>5. OneAtATime'
  BY <1>1, <1>2, <1>3, LifecycleAssumption
  DEF Inv, OneAtATime, StartPhases, EndPhases, Calls
<1>6. StartsAreCounted'
  BY <1>1, <1>2, LifecycleAssumption
  DEF Inv, StartsAreCounted, StartPhases, EndPhases, Restarted, Calls
<1>7. ControllerIsTheLast'
  BY <1>1, <1>2 DEF Inv, ControllerIsTheLast, Unbooted
<1>8. CleanedByCalls'
  <2>1. Called' = Called
    BY <1>1, <1>2 DEF Called, Calls
  <2> QED
    BY <1>1, <2>1 DEF Inv, CleanedByCalls
<1>9. AbortedByEnds'
  BY <1>1, <1>2 DEF Inv, AbortedByEnds, StartPhases, EndPhases, Calls
<1>10. Connected'
  BY <1>1, <1>2 DEF Inv, Connected
<1>11. Disconnected'
  BY <1>1, <1>2 DEF Inv, Disconnected
<1>12. RunsAreKept'
  BY <1>1, <1>2 DEF Inv, RunsAreKept
<1>13. RunsHaveBegun'
  BY <1>1, <1>2 DEF Inv, RunsHaveBegun
<1>14. EndsCleanAll'
  <2>1. \A d \in Calls \ overlapped' : ~Ended(d)'
    BY <1>1, <1>2, <1>3 DEF Inv, EndsCleanAll, Ended, EndPhases
  <2> QED
    BY <2>1 DEF EndsCleanAll
<1> QED
  BY <1>4, <1>5, <1>6, <1>7, <1>8, <1>9, <1>10, <1>11, <1>12, <1>13, <1>14 DEF Inv

\* The server listens, and the start is done.
LEMMA ListensKeeps ==
    ASSUME Inv, NEW c \in Calls, Listen(c), ~Crash, ~GoTo(c, "asking")
    PROVE  Inv'
PROOF
<1>1. /\ alive /\ alive' /\ phase[c] = "listen"
      /\ GoTo(c, "done")
      /\ listening' = listening \cup {<<generation[c], incr[c]>>}
      /\ UNCHANGED <<incr, generation, starts, controller, cleanups, started, running,
                     cleaned, aborted, store, database, spoiled, overlapped>>
  BY DEF Listen, At, context, resources, history
<1>2. /\ phase' \in [Calls -> Phases]
      /\ phase'[c] = "done"
      /\ \A d \in Calls \ {c} : phase'[d] = phase[d]
      /\ Starting' = Starting \ {c} /\ Ending' = Ending /\ c \in Starting \ Ending
  BY <1>1, Moves DEF Inv, Phases, StartPhases, EndPhases, Starting, Ending
<1>3. /\ \A d \in Starting : d = c
      /\ c \notin Signals
      /\ Main \notin Ending
  BY <1>2, OneStart DEF Inv
<1>4. generation[c] = starts /\ controller = starts
  BY <1>1, <1>2, <1>3
  DEF Inv, StartsAreCounted, ControllerIsTheLast, Unbooted, Starting, StartPhases
<1>5. TypeOK'
  BY <1>1, <1>2, <1>4 DEF Inv, TypeOK
<1>6. OneAtATime'
  BY <1>1, <1>2, <1>3, LifecycleAssumption
  DEF Inv, OneAtATime, StartPhases, EndPhases, Calls
<1>7. StartsAreCounted'
  BY <1>1, <1>2, LifecycleAssumption
  DEF Inv, StartsAreCounted, StartPhases, EndPhases, Restarted, Calls
<1>8. ControllerIsTheLast'
  BY <1>1, <1>2 DEF Inv, ControllerIsTheLast, Unbooted
<1>9. CleanedByCalls'
  <2>1. Called' = Called
    BY <1>1, <1>2 DEF Called, Calls
  <2> QED
    BY <1>1, <2>1 DEF Inv, CleanedByCalls
<1>10. AbortedByEnds'
  <2>1. phase'[Main] = "done"
    BY <1>1, <1>2, <1>3, OneStart DEF Inv, OneAtATime, Calls
  <2>2. Starting' = {} /\ Starting # {}
    BY <1>2, <1>3
  <2>3. starts \notin aborted => Serving' = {<<starts, incr[c]>>}
    BY <1>1, <1>4, <2>2 DEF Inv, AbortedByEnds, TypeOK, Serving
  <2>4. incr[c] \in Ports /\ Ports' = Ports
    BY DEF Inv, TypeOK, Ports
  <2> QED
    BY <1>1, <1>2, <1>4, <2>1, <2>2, <2>3, <2>4
    DEF Inv, AbortedByEnds, StartPhases, EndPhases, Calls
<1>11. Connected'
  BY <1>1, <1>2 DEF Inv, Connected
<1>12. Disconnected'
  BY <1>1, <1>2 DEF Inv, Disconnected
<1>13. RunsAreKept'
  BY <1>1, <1>2 DEF Inv, RunsAreKept
<1>14. RunsHaveBegun'
  BY <1>1, <1>2 DEF Inv, RunsHaveBegun
<1>15. EndsCleanAll'
  <2>1. \A d \in Calls \ overlapped' : ~Ended(d)'
    BY <1>1, <1>2, <1>3 DEF Inv, EndsCleanAll, Ended, EndPhases
  <2> QED
    BY <2>1 DEF EndsCleanAll
<1> QED
  BY <1>5, <1>6, <1>7, <1>8, <1>9, <1>10, <1>11, <1>12, <1>13, <1>14, <1>15 DEF Inv

\* A start listens, is asked about its port, or answers.
LEMMA ListenKeeps ==
    ASSUME Inv, NEW c \in Calls, Listen(c) \/ Answer(c), ~Crash
    PROVE  Inv'
PROOF
<1>1. CASE Listen(c) /\ ~GoTo(c, "asking")
  BY <1>1, ListensKeeps
<1>2. CASE Listen(c) /\ GoTo(c, "asking")
  <2>1. /\ alive /\ alive' /\ phase[c] = "listen"
        /\ UNCHANGED <<incr, generation, starts, controller, cleanups, started,
                       running, cleaned, aborted, listening, store, database,
                       spoiled, overlapped>>
    <3>1. "done" # "asking" /\ phase \in [Calls -> Phases]
      BY DEF Inv, TypeOK
    <3> QED
      BY <1>2, <3>1 DEF Listen, GoTo, At, context, resources, history
  <2> QED
    BY <1>2, <2>1, AskingKeeps DEF Inv, TypeOK
<1>3. CASE Answer(c)
  <2>1. /\ alive /\ alive' /\ phase[c] = "asking"
        /\ GoTo(c, "listen")
        /\ incr[c] < MaxIncr /\ incr' = [incr EXCEPT ![c] = @ + 1]
        /\ UNCHANGED <<generation, starts, controller, cleanups, started, running,
                       cleaned, aborted, listening, store, database, spoiled,
                       overlapped>>
    BY <1>3 DEF Answer, At, context, resources, history
  <2>2. incr' \in [Calls -> Ports]
    BY <2>1, LifecycleAssumption DEF Inv, TypeOK, Ports
  <2> QED
    BY <2>1, <2>2, AskingKeeps
<1> QED
  BY <1>1, <1>2, <1>3

\* An aborted server lets go of its port: never the last one, when nothing is
\* under way.
LEMMA CloseKeeps ==
    ASSUME Inv, NEW g \in Generations, Close(g)
    PROVE  Inv'
PROOF
<1>1. /\ alive /\ alive'
      /\ listening' \subseteq listening /\ Serving' = Serving
      /\ UNCHANGED <<phase, incr, generation, starts, controller, cleanups, started,
                     running, cleaned, aborted, store, database, spoiled,
                     overlapped>>
  BY DEF Close, Serving, context, resources, history
<1>2. /\ Starting' = Starting /\ Ending' = Ending
      /\ Restarted' = Restarted /\ Called' = Called
      /\ \A c \in Calls : Ended(c)' = Ended(c)
  BY <1>1 DEF Starting, Ending, Restarted, Called, Ended
<1>3. TypeOK' /\ OneAtATime'
  BY <1>1 DEF Inv, TypeOK, OneAtATime
<1>4. StartsAreCounted' /\ ControllerIsTheLast' /\ CleanedByCalls'
  BY <1>1, <1>2 DEF Inv, StartsAreCounted, ControllerIsTheLast, CleanedByCalls
<1>5. AbortedByEnds'
  BY <1>1, <1>2 DEF Inv, AbortedByEnds
<1>6. Connected' /\ Disconnected'
  BY <1>1, <1>2 DEF Inv, Connected, Disconnected
<1>7. RunsAreKept' /\ RunsHaveBegun' /\ EndsCleanAll'
  BY <1>1, <1>2 DEF Inv, RunsAreKept, RunsHaveBegun, EndsCleanAll
<1> QED
  BY <1>3, <1>4, <1>5, <1>6, <1>7 DEF Inv

\* The end of a restart or of a signal begins.
LEMMA BeginEndKeeps ==
    ASSUME Inv, NEW c \in Calls,
           (c \in Restarts /\ Restart(c)) \/ (c \in Signals /\ Signal(c))
    PROVE  Inv'
PROOF
<1>1. /\ alive /\ alive' /\ phase[c] = "idle" /\ phase[Main] = "done"
      /\ c # Main
      /\ GoTo(c, "cleaning")
      /\ aborted' = aborted \cup {controller}
      /\ running' = [running EXCEPT ![c] = cleanups]
      /\ cleaned' = [u \in Runs |-> cleaned[u] + IF u \in cleanups THEN 1 ELSE 0]
      /\ overlapped' = IF Starting = {} THEN overlapped ELSE overlapped \cup {c}
      /\ UNCHANGED <<incr, generation, starts, controller, cleanups, started, listening,
                     store, database, spoiled>>
      /\ c \in Restarts => \A d \in Restarts : phase[d] \in {"idle", "done"}
      /\ c \in Restarts \cup Signals
  BY LifecycleAssumption DEF Restart, Signal, BeginEnd, resources
<1>2. /\ phase' \in [Calls -> Phases]
      /\ phase'[c] = "cleaning"
      /\ \A d \in Calls \ {c} : phase'[d] = phase[d]
      /\ Starting' = Starting /\ Ending' = Ending \cup {c}
  BY <1>1, Moves DEF Inv, Phases, StartPhases, EndPhases, Starting, Ending
<1>3. /\ starts \in Nat \ {0}
      /\ controller \in 1..starts
      /\ Starting = {} => controller = starts
  <2>1. starts \in Nat \ {0}
    BY StartsArePositive DEF Inv
  <2>2. ASSUME NEW d \in Calls, phase[d] \in Unbooted
        PROVE  d \in Starting /\ starts >= 2
    <3>1. d \in Starting
      BY <2>2 DEF Starting, Unbooted, StartPhases
    <3>2. d \in Restarts
      BY <1>1, <3>1, OneStart DEF Inv, Starting, StartPhases, Calls
    <3> QED
      BY <3>1, <3>2 DEF Inv, StartsAreCounted, Starting
  <2> QED
    BY <2>1, <2>2 DEF Inv, ControllerIsTheLast
<1>4. CleanedByCalls' /\ Cardinality(Called') <= Cardinality(Calls)
  <2>1. Called' = Called \cup {c} /\ c \notin Called
    BY <1>1, <1>2 DEF Called, Calls
  <2>2. Called \subseteq Calls /\ Called' \subseteq Calls
    BY DEF Called, Calls
  <2>3. IsFiniteSet(Called) /\ Cardinality(Called) \in Nat
    BY <2>2, RestartsAreFinite, FS_Subset, FS_CardinalityType
  <2>4. Cardinality(Called') = Cardinality(Called) + 1
    BY <2>1, <2>3, FS_AddElement
  <2>5. \A u \in Runs : cleaned'[u] <= cleaned[u] + 1 /\ cleaned[u] \in Nat
    BY <1>1, RestartsAreFinite DEF Inv, TypeOK
  <2>6. \A u \in Runs : cleaned'[u] \in Nat
    BY <1>1, <2>5
  <2> QED
    BY <2>2, <2>3, <2>4, <2>5, <2>6, RestartsAreFinite, FS_Subset DEF Inv, CleanedByCalls
<1>5. TypeOK'
  <2>1. cleaned' \in [Runs -> 0..Cardinality(Calls)]
    <3>1. \A u \in Runs : cleaned'[u] \in Nat /\ cleaned'[u] <= Cardinality(Called')
      BY <1>1, <1>4, RestartsAreFinite DEF Inv, TypeOK, CleanedByCalls
    <3>2. Cardinality(Called') \in Nat
      <4>1. Called' \subseteq Calls
        BY DEF Called, Calls
      <4> QED
        BY <4>1, RestartsAreFinite, FS_Subset, FS_CardinalityType
    <3> QED
      BY <1>1, <1>4, <3>1, <3>2, RestartsAreFinite
  <2>2. aborted' \subseteq 1..controller'
    BY <1>1, <1>3 DEF Inv, TypeOK
  <2> QED
    BY <1>1, <1>2, <1>3, <2>1, <2>2 DEF Inv, TypeOK
<1>6. OneAtATime'
  BY <1>1, <1>2, LifecycleAssumption DEF Inv, OneAtATime, EndPhases, Calls
<1>7. StartsAreCounted'
  BY <1>1, <1>2, LifecycleAssumption
  DEF Inv, StartsAreCounted, StartPhases, EndPhases, Restarted, Calls
<1>8. ControllerIsTheLast'
  BY <1>1, <1>2 DEF Inv, ControllerIsTheLast, Unbooted
<1>9. AbortedByEnds'
  <2>1. c \in Restarts => Starting = {}
    BY <1>1, LifecycleAssumption
    DEF Inv, OneAtATime, Starting, StartPhases, EndPhases, Calls
  <2> QED
    BY <1>1, <1>2, <1>3, <2>1 DEF Inv, AbortedByEnds, StartPhases, EndPhases, Calls
<1>10. Connected'
  BY <1>1, <1>2 DEF Inv, Connected
<1>11. Disconnected'
  BY <1>1, <1>2 DEF Inv, Disconnected
<1>12. RunsAreKept'
  BY <1>1, <1>2 DEF Inv, RunsAreKept
<1>13. RunsHaveBegun'
  BY <1>1, <1>2 DEF Inv, RunsHaveBegun
<1>14. EndsCleanAll'
  <2>1. Starting = {} => started = cleanups
    BY DEF Inv, TypeOK, RunsAreKept, Starting, StartPhases
  <2>2. \A u \in Runs : /\ cleaned[u] \in Nat
                        /\ cleaned'[u] >= cleaned[u]
                        /\ u \in cleanups => cleaned'[u] >= 1
    BY <1>1, RestartsAreFinite DEF Inv, TypeOK
  <2>3. started \subseteq Runs
    BY DEF Inv, TypeOK
  <2> SUFFICES ASSUME NEW d \in Calls \ overlapped', Ended(d)'
               PROVE  /\ \A u \in started' : cleaned'[u] >= 1
                      /\ alive' => \A e \in Starting' : phase'[e] = "connectStore"
    BY DEF EndsCleanAll
  <2>4. CASE d = c
    BY <1>1, <1>2, <2>1, <2>2, <2>3, <2>4
  <2>5. CASE d # c
    <3>1. d \in Calls \ overlapped /\ Ended(d)
      BY <1>1, <1>2, <2>5 DEF Ended
    <3>2. \A e \in Starting : e # c
      BY <1>1 DEF Starting, StartPhases
    <3>3. /\ \A u \in started : cleaned[u] >= 1
          /\ \A e \in Starting : phase[e] = "connectStore"
      BY <1>1, <3>1 DEF Inv, EndsCleanAll
    <3> QED
      BY <1>1, <1>2, <2>2, <2>3, <3>2, <3>3 DEF Starting
  <2> QED
    BY <2>4, <2>5
<1> QED
  BY <1>4, <1>5, <1>6, <1>7, <1>8, <1>9, <1>10, <1>11, <1>12, <1>13, <1>14 DEF Inv

\* A cleanup settles; the first to fail leads to the report.
LEMMA CleanupSettlesKeeps ==
    ASSUME Inv, NEW c \in Calls, CleanupSettles(c)
    PROVE  Inv'
PROOF
<1>1. /\ alive /\ alive'
      /\ running' \in [Calls -> SUBSET cleanups]
      /\ \/ UNCHANGED <<phase, spoiled>>
         \/ phase[c] = "cleaning" /\ GoTo(c, "report") /\ spoiled' = spoiled \cup {c}
      /\ UNCHANGED <<incr, generation, starts, controller, cleanups, started, cleaned,
                     aborted, listening, store, database, overlapped>>
  BY DEF CleanupSettles, At, context, resources, history, Inv, TypeOK
<1>2. /\ phase' \in [Calls -> Phases]
      /\ \A d \in Calls : \/ phase'[d] = phase[d]
                          \/ d = c /\ phase[d] = "cleaning" /\ phase'[d] = "report"
                                   /\ c \in spoiled'
      /\ Starting' = Starting /\ Ending' = Ending
      /\ spoiled \subseteq spoiled' /\ spoiled' \subseteq spoiled \cup {c}
      /\ phase'[c] # phase[c] => c \in Ending
  <2>1. CASE UNCHANGED <<phase, spoiled>>
    BY <2>1 DEF Inv, TypeOK, Starting, Ending
  <2>2. CASE ~ UNCHANGED <<phase, spoiled>>
    BY <1>1, <2>2, Moves DEF Inv, Phases, StartPhases, EndPhases, Starting, Ending
  <2> QED
    BY <2>1, <2>2
<1>3. \A d \in Calls : Ended(d)' <=> Ended(d)
  BY <1>2 DEF Ended, EndPhases
<1>4. TypeOK'
  <2>1. spoiled' \subseteq Restarts \cup Signals
    <3>1. CASE phase'[c] = phase[c]
      BY <1>1, <1>2, <3>1, Moves DEF Inv, TypeOK, GoTo
    <3>2. CASE phase'[c] # phase[c]
      BY <1>2, <3>2, OneStart DEF Inv, TypeOK, Calls
    <3> QED
      BY <3>1, <3>2
  <2> QED
    BY <1>1, <1>2, <2>1 DEF Inv, TypeOK
<1>5. OneAtATime'
  BY <1>1, <1>2 DEF Inv, OneAtATime, StartPhases, EndPhases, Calls
<1>6. StartsAreCounted'
  BY <1>1, <1>2 DEF Inv, StartsAreCounted, StartPhases, EndPhases, Restarted, Calls
<1>7. ControllerIsTheLast'
  BY <1>1, <1>2 DEF Inv, ControllerIsTheLast, Unbooted
<1>8. CleanedByCalls'
  <2>1. Called' = Called
    BY <1>1, <1>2 DEF Called, Calls
  <2> QED
    BY <1>1, <2>1 DEF Inv, CleanedByCalls
<1>9. AbortedByEnds'
  BY <1>1, <1>2 DEF Inv, AbortedByEnds, Serving, StartPhases, EndPhases, Calls
<1>10. Connected'
  BY <1>1, <1>2 DEF Inv, Connected
<1>11. Disconnected'
  BY <1>1, <1>2 DEF Inv, Disconnected
<1>12. RunsAreKept'
  BY <1>1, <1>2 DEF Inv, RunsAreKept
<1>13. RunsHaveBegun'
  BY <1>1, <1>2 DEF Inv, RunsHaveBegun
<1>14. EndsCleanAll'
  BY <1>1, <1>2, <1>3 DEF Inv, EndsCleanAll, Starting
<1> QED
  BY <1>4, <1>5, <1>6, <1>7, <1>8, <1>9, <1>10, <1>11, <1>12, <1>13, <1>14 DEF Inv

\* An end goes from one of its phases to the next, having dropped what it had to.
LEMMA EndMovesKeep ==
    ASSUME Inv, NEW c \in Calls,
           CleanupsDone(c) \/ DropDatabase(c) \/ DropStore(c)
    PROVE  Inv'
PROOF
<1>1. /\ alive /\ alive'
      /\ \/ /\ phase[c] = "cleaning" /\ GoTo(c, "dropDatabase")
            /\ UNCHANGED <<store, database, spoiled>>
         \/ /\ phase[c] = "dropDatabase" /\ GoTo(c, "dropStore")
            /\ database' = FALSE
            /\ UNCHANGED <<store, spoiled>>
         \/ /\ phase[c] = "dropDatabase" /\ GoTo(c, "report")
            /\ spoiled' = spoiled \cup {c}
            /\ UNCHANGED <<store, database>>
         \/ /\ phase[c] = "dropStore" /\ GoTo(c, "report")
            /\ store' = FALSE
            /\ UNCHANGED <<database, spoiled>>
         \/ /\ phase[c] = "dropStore" /\ GoTo(c, "report")
            /\ spoiled' = spoiled \cup {c}
            /\ UNCHANGED <<store, database>>
      /\ UNCHANGED <<incr, generation, starts, controller, cleanups, started, running,
                     cleaned, aborted, listening, overlapped>>
  BY DEF CleanupsDone, DropDatabase, DropStore, At, context, resources, history
<1>2. PICK p \in EndPhases : GoTo(c, p)
  BY <1>1 DEF EndPhases
<1>3. /\ phase' \in [Calls -> Phases]
      /\ phase'[c] = p /\ phase[c] \in EndPhases
      /\ \A d \in Calls \ {c} : phase'[d] = phase[d]
      /\ Starting' = Starting /\ Ending' = Ending /\ c \in Ending \ Starting
  BY <1>1, <1>2, Moves DEF Inv, Phases, StartPhases, EndPhases, Starting, Ending
<1>4. /\ c # Main
      /\ c \in Restarts \cup Signals
      /\ \A d \in Calls : Ended(d)' <=> Ended(d)
  BY <1>2, <1>3, OneStart DEF Inv, Calls, Ended, EndPhases
<1>5. TypeOK'
  BY <1>1, <1>3, <1>4 DEF Inv, TypeOK
<1>6. OneAtATime'
  BY <1>1, <1>3, <1>4, LifecycleAssumption
  DEF Inv, OneAtATime, StartPhases, EndPhases, Calls
<1>7. StartsAreCounted'
  BY <1>1, <1>3, <1>4, LifecycleAssumption
  DEF Inv, StartsAreCounted, StartPhases, EndPhases, Restarted, Calls
<1>8. ControllerIsTheLast'
  BY <1>1, <1>3 DEF Inv, ControllerIsTheLast, Unbooted, EndPhases
<1>9. CleanedByCalls'
  <2>1. Called' = Called
    BY <1>1, <1>3 DEF Called, Calls, EndPhases
  <2> QED
    BY <1>1, <2>1 DEF Inv, CleanedByCalls
<1>10. AbortedByEnds'
  BY <1>1, <1>3, <1>4 DEF Inv, AbortedByEnds, StartPhases, EndPhases, Calls
<1>11. \/ /\ phase[c] = "cleaning" /\ phase'[c] = "dropDatabase"
          /\ UNCHANGED <<store, database, spoiled>>
       \/ /\ phase[c] = "dropDatabase" /\ phase'[c] = "dropStore"
          /\ database' = FALSE
          /\ UNCHANGED <<store, spoiled>>
       \/ /\ phase[c] = "dropDatabase" /\ phase'[c] = "report"
          /\ spoiled' = spoiled \cup {c}
          /\ UNCHANGED <<store, database>>
       \/ /\ phase[c] = "dropStore" /\ phase'[c] = "report"
          /\ store' = FALSE
          /\ UNCHANGED <<database, spoiled>>
       \/ /\ phase[c] = "dropStore" /\ phase'[c] = "report"
          /\ spoiled' = spoiled \cup {c}
          /\ UNCHANGED <<store, database>>
  BY <1>1 DEF GoTo, Inv, TypeOK
<1>12. Connected'
  BY <1>1, <1>3, <1>11 DEF Inv, Connected
<1>13. Disconnected'
  BY <1>1, <1>3, <1>11 DEF Inv, Disconnected
<1>14. RunsAreKept'
  BY <1>1, <1>3 DEF Inv, RunsAreKept, EndPhases
<1>15. RunsHaveBegun'
  BY <1>1, <1>3 DEF Inv, RunsHaveBegun, EndPhases
<1>16. EndsCleanAll'
  BY <1>1, <1>3, <1>4 DEF Inv, EndsCleanAll, Starting
<1> QED
  BY <1>5, <1>6, <1>7, <1>8, <1>9, <1>10, <1>12, <1>13, <1>14, <1>15, <1>16 DEF Inv

\* A signal reports, and the process exits.
LEMMA ExitKeeps ==
    ASSUME Inv, NEW c \in Signals, Report(c)
    PROVE  Inv'
PROOF
<1>1. /\ alive /\ alive' = FALSE /\ phase[c] = "report"
      /\ GoTo(c, "done")
      /\ listening' = {}
      /\ UNCHANGED <<incr, generation, starts, controller, cleanups, started, running,
                     cleaned, aborted, store, database, spoiled, overlapped>>
      /\ c \in Calls
  BY DEF Report, At, context, resources, history, Calls
<1>2. /\ phase' \in [Calls -> Phases]
      /\ phase'[c] = "done"
      /\ \A d \in Calls \ {c} : phase'[d] = phase[d]
      /\ Starting' = Starting /\ Ending' = Ending \ {c} /\ c \in Ending \ Starting
      /\ c # Main /\ c \notin Restarts
  <2>1. /\ "done" \in Phases /\ "done" \notin StartPhases \cup EndPhases
        /\ "report" \in EndPhases /\ "report" \notin StartPhases
    BY DEF Phases, StartPhases, EndPhases
  <2>2. /\ phase' \in [Calls -> Phases] /\ phase'[c] = "done"
        /\ \A d \in Calls \ {c} : phase'[d] = phase[d]
        /\ Starting' = Starting \ {c} /\ Ending' = Ending \ {c}
    BY <1>1, <2>1, Moves DEF Inv
  <2>3. c \in Ending \ Starting
    BY <1>1, <2>1 DEF Starting, Ending
  <2> QED
    BY <2>2, <2>3, LifecycleAssumption
<1>3. phase[Main] = "done"
  BY <1>2, OneStart DEF Inv
<1>4. \A d \in Calls : Ended(d)' <=> Ended(d)
  BY <1>1, <1>2 DEF Ended, EndPhases
<1>5. TypeOK'
  BY <1>1, <1>2 DEF Inv, TypeOK
<1>6. OneAtATime'
  BY <1>1, <1>2, <1>3, LifecycleAssumption
  DEF Inv, OneAtATime, StartPhases, EndPhases, Calls
<1>7. StartsAreCounted'
  BY <1>1, <1>2, LifecycleAssumption
  DEF Inv, StartsAreCounted, StartPhases, EndPhases, Restarted, Calls
<1>8. ControllerIsTheLast'
  BY <1>1, <1>2 DEF Inv, ControllerIsTheLast, Unbooted
<1>9. CleanedByCalls'
  <2>1. Called' = Called
    BY <1>1, <1>2 DEF Called, Calls
  <2> QED
    BY <1>1, <2>1 DEF Inv, CleanedByCalls
<1>10. AbortedByEnds'
  BY <1>1, <1>2, <1>3, LifecycleAssumption
  DEF Inv, AbortedByEnds, StartPhases, EndPhases, Calls
<1>11. Connected' /\ Disconnected'
  BY <1>1 DEF Connected, Disconnected
<1>12. RunsAreKept'
  BY <1>1, <1>2 DEF Inv, RunsAreKept
<1>13. RunsHaveBegun'
  BY <1>1, <1>2 DEF Inv, RunsHaveBegun
<1>14. EndsCleanAll'
  BY <1>1, <1>4 DEF Inv, EndsCleanAll
<1> QED
  BY <1>5, <1>6, <1>7, <1>8, <1>9, <1>10, <1>11, <1>12, <1>13, <1>14 DEF Inv

\* A restart reports, and starts the server again as a new generation.
LEMMA StartAgainKeeps ==
    ASSUME Inv, NEW c \in Calls \ Signals, Report(c)
    PROVE  Inv'
PROOF
<1>1. /\ alive /\ alive' /\ phase[c] = "report"
      /\ GoTo(c, "connectStore")
      /\ starts' = starts + 1
      /\ generation' = [generation EXCEPT ![c] = starts + 1]
      /\ UNCHANGED <<incr, controller, cleanups, started, running, cleaned, aborted,
                     listening, store, database, spoiled, overlapped>>
  BY DEF Report, At, context, resources, history
<1>2. /\ phase' \in [Calls -> Phases]
      /\ phase'[c] = "connectStore"
      /\ \A d \in Calls \ {c} : phase'[d] = phase[d]
      /\ Starting' = Starting \cup {c} /\ Ending' = Ending \ {c}
      /\ c \in Ending \ Starting
  BY <1>1, Moves DEF Inv, Phases, StartPhases, EndPhases, Starting, Ending
<1>3. /\ c \in Restarts /\ c # Main
      /\ phase[Main] = "done"
      /\ Starting = {}
  BY <1>1, <1>2, OneStart DEF Inv, Calls, EndPhases
<1>4. /\ starts \in Nat \ {0}
      /\ controller = starts /\ starts \in aborted
      /\ generation[c] = 0
  BY <1>1, <1>3, RestartsAreFinite
  DEF Inv, TypeOK, StartsAreCounted, ControllerIsTheLast, AbortedByEnds, Unbooted,
      Starting, StartPhases, EndPhases
<1>5. Cardinality(Restarted') = Cardinality(Restarted) + 1
  <2>1. generation'[c] = starts + 1 /\ \A d \in Calls \ {c} : generation'[d] = generation[d]
    BY <1>1 DEF Inv, TypeOK
  <2>2. Restarted' = Restarted \cup {c} /\ c \notin Restarted
    BY <1>3, <1>4, <2>1 DEF Restarted, Calls
  <2>3. IsFiniteSet(Restarted)
    BY RestartsAreFinite, FS_Subset DEF Restarted
  <2> QED
    BY <2>2, <2>3, FS_AddElement
<1>6. starts' \in Generations
  <2>1. /\ Restarted' \subseteq Restarts
        /\ Cardinality(Restarted') <= Cardinality(Restarts)
    BY RestartsAreFinite, FS_Subset DEF Restarted
  <2> QED
    BY <1>1, <1>4, <1>5, <2>1, RestartsAreFinite, StartsArePositive
    DEF Inv, StartsAreCounted
<1>7. TypeOK'
  <2>1. generation' \in [Calls -> 0..starts']
    BY <1>1, <1>4 DEF Inv, TypeOK
  <2>2. controller' \in 0..starts'
    BY <1>1, <1>4
  <2> QED
    BY <1>1, <1>2, <1>6, <2>1, <2>2 DEF Inv, TypeOK
<1>8. OneAtATime'
  BY <1>1, <1>2, <1>3, LifecycleAssumption
  DEF Inv, OneAtATime, StartPhases, EndPhases, Calls
<1>9. StartsAreCounted'
  <2>1. generation'[c] = starts'
    BY <1>1 DEF Inv, TypeOK
  <2>2. \A d \in Restarts \ {c} : generation'[d] = generation[d]
    BY <1>1 DEF Inv, TypeOK, Calls
  <2>3. starts' = 1 + Cardinality(Restarted')
    BY <1>1, <1>5, StartsArePositive DEF Inv, StartsAreCounted
  <2>4. \A d \in Starting' : d = c
    BY <1>2, <1>3
  <2>5. \A d \in Restarts : phase'[d] \in EndPhases \cup {"idle"} => generation'[d] = 0
    BY <1>2, <2>2 DEF Inv, StartsAreCounted, EndPhases, Calls
  <2>6. \A d \in Restarts : phase'[d] \in StartPhases => d \in Starting'
    BY DEF Starting, Calls
  <2>7. phase'[Main] = "done"
    BY <1>2, <1>3 DEF Calls
  <2> QED
    BY <1>1, <1>4, <2>1, <2>3, <2>4, <2>5, <2>6, <2>7 DEF StartsAreCounted
<1>10. ControllerIsTheLast'
  BY <1>1, <1>2, <1>4 DEF ControllerIsTheLast, Unbooted
<1>11. CleanedByCalls'
  <2>1. Called' = Called
    BY <1>1, <1>2 DEF Called, Calls
  <2> QED
    BY <1>1, <2>1 DEF Inv, CleanedByCalls
<1>12. AbortedByEnds'
  <2>1. starts' \notin aborted'
    BY <1>1, <1>4 DEF Inv, TypeOK
  <2>2. starts' - 1 \in aborted'
    BY <1>1, <1>4
  <2>3. \A d \in Restarts : d # c => phase'[d] \in {"idle", "done"}
    BY <1>1, <1>2, <1>3 DEF Inv, OneAtATime, Calls
  <2>4. \A l \in listening' : l[1] # starts'
    BY <1>1, <1>4 DEF Inv, TypeOK
  <2> QED
    BY <1>1, <1>2, <1>3, <2>1, <2>2, <2>3, <2>4
    DEF AbortedByEnds, StartPhases, EndPhases, Calls
<1>13. Connected'
  BY <1>1, <1>2 DEF Inv, Connected
<1>14. Disconnected'
  BY <1>1, <1>2 DEF Inv, Disconnected
<1>15. RunsAreKept'
  <2>1. \A d \in Calls : phase[d] \in {"preJobs", "postJobs"} => d \in Starting
    BY DEF Starting, StartPhases
  <2> QED
    BY <1>1, <1>3, <2>1 DEF Inv, RunsAreKept
<1>16. RunsHaveBegun'
  <2>1. \A d \in Calls : phase'[d] \notin {"preJobs", "postJobs"}
    BY <1>2, <1>3 DEF Starting, StartPhases
  <2> QED
    BY <2>1 DEF RunsHaveBegun
<1>17. EndsCleanAll'
  BY <1>1, <1>2, <1>3 DEF Inv, EndsCleanAll, Ended, EndPhases
<1> QED
  BY <1>7, <1>8, <1>9, <1>10, <1>11, <1>12, <1>13, <1>14, <1>15, <1>16, <1>17 DEF Inv

-----------------------------------------------------------------------------
(* The inductive invariant.                                                *)

\* It holds when serve.ts calls start.
LEMMA InitInv == Init => Inv
PROOF
<1> SUFFICES ASSUME Init
             PROVE  Inv
  OBVIOUS
<1> USE DEF Init
<1>1. /\ Main \in Calls
      /\ \A c \in Restarts \cup Signals : c # Main /\ c \in Calls
      /\ \A c \in Calls \ {Main} : phase[c] = "idle" /\ generation[c] = 0
      /\ phase[Main] = "connectStore" /\ generation[Main] = 1
      /\ Starting = {Main} /\ Ending = {}
  BY LifecycleAssumption DEF Calls, Starting, Ending, StartPhases, EndPhases
<1>2. Restarted = {} /\ Called = {} /\ Cardinality({}) = 0
  BY <1>1, FS_EmptySet DEF Restarted, Called
<1>3. TypeOK
  <2>1. phase \in [Calls -> Phases] /\ generation \in [Calls -> 0..starts]
    BY DEF Phases, StartPhases
  <2>2. starts \in Generations /\ controller \in 0..starts
    BY RestartsAreFinite
  <2>3. cleaned \in [Runs -> 0..Cardinality(Calls)]
    BY RestartsAreFinite
  <2>4. incr \in [Calls -> Ports]
    BY LifecycleAssumption DEF Ports
  <2> QED
    BY <2>1, <2>2, <2>3, <2>4 DEF TypeOK
<1>4. OneAtATime
  BY <1>1 DEF OneAtATime, StartPhases
<1>5. StartsAreCounted
  BY <1>1, <1>2 DEF StartsAreCounted, StartPhases, EndPhases
<1>6. ControllerIsTheLast
  BY <1>1 DEF ControllerIsTheLast, Unbooted
<1>7. CleanedByCalls
  BY <1>2 DEF CleanedByCalls
<1>8. AbortedByEnds /\ Connected /\ Disconnected
  BY <1>1 DEF AbortedByEnds, Connected, Disconnected, StartPhases, EndPhases
<1>9. RunsAreKept /\ RunsHaveBegun /\ EndsCleanAll
  BY <1>1 DEF RunsAreKept, RunsHaveBegun, EndsCleanAll
<1> QED
  BY <1>3, <1>4, <1>5, <1>6, <1>7, <1>8, <1>9 DEF Inv

\* A step of the server keeps it.
LEMMA NextInv == Inv /\ [Next]_vars => Inv'
PROOF
<1> SUFFICES ASSUME Inv, [Next]_vars
             PROVE  Inv'
  OBVIOUS
<1>1. CASE Crash
  BY <1>1, CrashKeeps
<1>2. ASSUME NEW c \in Calls, Proceed(c), ~Crash
      PROVE  Inv'
  <2>1. CASE ConnectStore(c)
    BY <1>2, <2>1, ConnectStoreKeeps
  <2>2. CASE ConnectDatabase(c)
    BY <1>2, <2>2, ConnectDatabaseKeeps
  <2>3. CASE Boot(c)
    BY <1>2, <2>3, BootKeeps
  <2>4. CASE PreJobsDone(c)
    BY <1>2, <2>4, PreJobsDoneKeeps
  <2>5. CASE Prepare(c)
    BY <1>2, <2>5, PrepareKeeps
  <2>6. CASE PostJobsDone(c)
    BY <1>2, <2>6, PostJobsDoneKeeps
  <2>7. CASE Listen(c)
    BY <1>2, <2>7, ListenKeeps
  <2>8. CASE CleanupSettles(c)
    BY <2>8, CleanupSettlesKeeps
  <2>9. CASE CleanupsDone(c) \/ DropDatabase(c) \/ DropStore(c)
    BY <2>9, EndMovesKeep
  <2>10. CASE Report(c)
    BY <2>10, ExitKeeps, StartAgainKeeps
  <2> QED
    BY <1>2, <2>1, <2>2, <2>3, <2>4, <2>5, <2>6, <2>7, <2>8, <2>9, <2>10 DEF Proceed
<1>3. ASSUME NEW c \in Restarts, Restart(c)
      PROVE  Inv'
  BY <1>3, BeginEndKeeps DEF Calls
<1>4. ASSUME NEW c \in Signals, Signal(c)
      PROVE  Inv'
  BY <1>4, BeginEndKeeps DEF Calls
<1>5. ASSUME NEW g \in Generations, Close(g)
      PROVE  Inv'
  BY <1>5, CloseKeeps
<1>6. ASSUME NEW c \in Calls, Answer(c), ~Crash
      PROVE  Inv'
  BY <1>6, ListenKeeps
<1>7. CASE UNCHANGED vars
  <2>1. /\ UNCHANGED <<phase, incr, generation, starts, controller, cleanups, started,
                       running, cleaned, aborted, listening, store, database,
                       alive, spoiled, overlapped>>
        /\ Starting' = Starting /\ Ending' = Ending
        /\ Restarted' = Restarted /\ Called' = Called
        /\ \A c \in Calls : Ended(c)' = Ended(c)
    BY <1>7 DEF vars, Starting, Ending, Restarted, Called, Ended
  <2>2. TypeOK' /\ OneAtATime'
    BY <2>1 DEF Inv, TypeOK, OneAtATime
  <2>3. StartsAreCounted' /\ ControllerIsTheLast' /\ CleanedByCalls'
    BY <2>1 DEF Inv, StartsAreCounted, ControllerIsTheLast, CleanedByCalls
  <2>4. AbortedByEnds' /\ Connected' /\ Disconnected'
    BY <2>1 DEF Inv, AbortedByEnds, Serving, Connected, Disconnected
  <2>5. RunsAreKept' /\ RunsHaveBegun' /\ EndsCleanAll'
    BY <2>1 DEF Inv, RunsAreKept, RunsHaveBegun, EndsCleanAll
  <2> QED
    BY <2>2, <2>3, <2>4, <2>5 DEF Inv
<1> QED
  BY <1>1, <1>2, <1>3, <1>4, <1>5, <1>6, <1>7 DEF Next

LEMMA SpecInv == Spec => []Inv
PROOF
  BY InitInv, NextInv, PTL DEF Spec
-----------------------------------------------------------------------------
(* Theorems.                                                               *)

\* Every variable keeps its type: a start is aborted only after its controller
\* was made, only the controller's server or an aborted one listens, and a
\* call of end waits for cleanups that are kept.
THEOREM SpecTypeOK == Spec => []TypeOK
PROOF
<1>1. Inv => TypeOK
  BY DEF Inv
<1> QED
  BY <1>1, SpecInv, PTL

\* Whenever a signal ends the process, every job that any start has begun has had
\* its cleanup called, unless the end met with a start.
THEOREM NoCleanupIsForgotten == Spec => []NoCleanupForgotten
PROOF
<1>1. Inv => NoCleanupForgotten
  BY DEF Inv, EndsCleanAll, Ended, NoCleanupForgotten, Calls
<1> QED
  BY <1>1, SpecInv, PTL

\* While an end waits for its cleanups, the database and the store are there for
\* them, or another call has them in hand.
THEOREM ConnectionsAreKept == Spec => []CleanupsKeepTheirConnections
PROOF
<1>1. Inv => CleanupsKeepTheirConnections
  BY DEF Inv, Connected, CleanupsKeepTheirConnections
<1> QED
  BY <1>1, SpecInv, PTL

\* An end that nothing went wrong in and no start met reports with both the
\* database and the store disconnected.
THEOREM TerminationDisconnects == Spec => []TerminatedMeansDisconnected
PROOF
<1>1. Inv => TerminatedMeansDisconnected
  BY DEF Inv, Disconnected, TerminatedMeansDisconnected
<1> QED
  BY <1>1, SpecInv, PTL

\* When no call is under way, the last start serves, on one port and alone, beside
\* aborted servers at most; the controller is its own and its connections stand.
THEOREM ServesAtRest == Spec => []AtRestItServes
PROOF
<1>1. Inv => AtRestItServes
  <2> SUFFICES ASSUME Inv, alive, Starting = {}, Ending = {}
               PROVE  /\ \E p \in Ports : Serving = {<<starts, p>>}
                      /\ controller = starts
                      /\ store /\ database
    BY DEF AtRestItServes
  <2>1. \A c \in Calls : phase[c] \notin StartPhases \cup EndPhases
    BY DEF Starting, Ending
  <2>2. \E p \in Ports : Serving = {<<starts, p>>}
    BY DEF Inv, AbortedByEnds
  <2>3. controller = starts
    BY <2>1 DEF Inv, ControllerIsTheLast, Unbooted, StartPhases
  <2>4. store /\ database
    BY <2>1 DEF Inv, Connected, StartPhases, EndPhases
  <2> QED
    BY <2>2, <2>3, <2>4
<1> QED
  BY <1>1, SpecInv, PTL
=============================================================================
