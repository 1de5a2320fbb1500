------------------------ MODULE PluginScriptsProofs ------------------------
(***************************************************************************)
(* For any number of commands and terminals, and any plugins: the types of *)
(* PluginScripts, and that list, folders, import map and declarations stay *)
(* in agreement.                                                           *)
(***************************************************************************)
EXTENDS PluginScripts, TLAPS

(* The operators of SequenceFile.                                          *)

\* What is kept for an environment lists the same names, and keeps the props of
\* what all environments share.
LEMMA PickedIs ==
    ASSUME NEW s \in Sequences, NEW env \in EnvTypes
    PROVE  /\ Picked(s, env) \in Sequences
           /\ Picked(s, env).listed = s.listed
           /\ Listed(Picked(s, env)) = Listed(s)
           /\ s.props \cap s.listed["global"] \subseteq Picked(s, env).props
PROOF
<1>1. /\ Picked(s, env) \in Sequences
      /\ Picked(s, env).listed = s.listed
      /\ Picked(s, env).props = s.props \cap Includes(s, env)
  BY DEF Picked, Sequences
<1> QED
  BY <1>1 DEF Listed, Includes

\* Adding lists the name and nothing else.
LEMMA AddedIs ==
    ASSUME NEW s \in Sequences, NEW scope \in Scopes, NEW n \in Names
    PROVE  /\ Added(s, scope, n) \in Sequences
           /\ Added(s, scope, n).listed = [s.listed EXCEPT ![scope] = @ \cup {n}]
           /\ Added(s, scope, n).props = s.props
           /\ Listed(Added(s, scope, n)) = Listed(s) \cup {n}
PROOF
<1>1. /\ Added(s, scope, n) \in Sequences
      /\ Added(s, scope, n).listed = [s.listed EXCEPT ![scope] = @ \cup {n}]
      /\ Added(s, scope, n).props = s.props
  BY DEF Added, Sequences
<1>2. \A e \in Scopes : Added(s, scope, n).listed[e] =
        IF e = scope THEN s.listed[e] \cup {n} ELSE s.listed[e]
  BY <1>1 DEF Sequences
<1> QED
  BY <1>1, <1>2 DEF Listed

\* Deleting takes the name from one list.
LEMMA DeletedIs ==
    ASSUME NEW s \in Sequences, NEW scope \in Scopes, NEW n \in Names
    PROVE  /\ Deleted(s, scope, n) \in Sequences
           /\ Deleted(s, scope, n).listed = [s.listed EXCEPT ![scope] = @ \ {n}]
           /\ Deleted(s, scope, n).props = s.props
PROOF
  BY DEF Deleted, Sequences
-----------------------------------------------------------------------------
\* Commands that run at the same time know, in the history, of each other.
Apart ==
    \A p, q \in Procs : p # q /\ Running(p) /\ Running(q) => ~proc[p].alone

\* ... and what such a command is about is marked.
Marked(p) == ~proc[p].alone => proc[p].asked \subseteq raced \cap loose

\* A command that is not updateCore has a plugin in hand.
Busy(p) == proc[p].at # "next" /\ Cmd(p) # "core"

\* Which command stands where; what it has begun to change is loose.
Placed(p) ==
    /\ \A i \in DOMAIN proc[p].todo : proc[p].todo[i] \in proc[p].asked
    /\ Busy(p) => proc[p].todo # <<>>
    /\ proc[p].at \in {"copy", "list", "writeAgain"} =>
         Cmd(p) \in {"add", "update"}
    /\ At(p, "removeDir") => Cmd(p) = "remove"
    /\ Cmd(p) = "core" =>
         proc[p].at \in {"readMap", "writeMap"} /\ proc[p].done = {}
    /\ Busy(p) /\ ~At(p, "copy") => Current(p) \in loose
    /\ At(p, "copy") => clone[Current(p)] # 0

\* The object agrees with the file on every plugin in order, and is the file for
\* a command that runs alone.
Copied(p) ==
    /\ \A n \in Names \ loose, e \in Scopes :
         n \in proc[p].object.listed[e] <=> n \in file.listed[e]
    /\ proc[p].alone => proc[p].object.listed = file.listed
    /\ proc[p].object.listed["global"] \subseteq proc[p].object.props
    /\ Cmd(p) = "remove" =>
         \A n \in proc[p].asked :
            n \in Includes(proc[p].object, Env)
              \/ n \notin proc[p].object.listed[proc[p].scope]

\* So does the import map it has read, but for the entry about to be written.
Mapped(p) ==
    /\ At(p, "writeMap") \/ At(p, "writeAgain") =>
         proc[p].map \in [Names -> 0 .. Partial]
    /\ proc[p].map # Unread =>
         \A n \in Names :
           /\ n \notin loose => proc[p].map[n] = importMap[n]
           /\ proc[p].alone
                /\ ~(At(p, "writeMap") /\ Busy(p) /\ n = Current(p)) =>
                proc[p].map[n] = importMap[n]

\* How far a command that runs alone has come with the plugin in hand, ...
Progress(p) ==
    proc[p].alone /\ Busy(p) =>
        LET n == Current(p)
        IN  /\ Cmd(p) # "remove" /\ ~At(p, "copy") => dir[n] # 0
            /\ proc[p].at \in {"readMap", "writeMap", "writeAgain"}
                 /\ Cmd(p) # "remove" => n \in Listed(file)
            /\ proc[p].at \in {"writeMap", "writeAgain"} /\ Cmd(p) # "remove" =>
                 proc[p].map[n] = dir[n]
            /\ Cmd(p) = "remove" /\ n \in Listed(file) => n \in elsewhere
            /\ Cmd(p) = "remove" /\ At(p, "writeMap") => proc[p].map[n] = 0
            /\ At(p, "removeDir") => importMap[n] = 0

\* ... and what it has done with those before.
Finished(p) ==
    proc[p].alone =>
        \A n \in proc[p].done : ~(Busy(p) /\ n = Current(p)) =>
            /\ importMap[n] = dir[n]
            /\ Cmd(p) = "remove" =>
                 dir[n] = 0 /\ (n \in Listed(file) => n \in elsewhere)
            /\ Cmd(p) # "remove" => dir[n] # 0 /\ n \in Listed(file)

\* What a command may write back has its folder, or is excepted.
Covered(n) == dir[n] # 0 \/ n \in raced \cup elsewhere

Backed(p) == \A n \in Listed(proc[p].object) : Covered(n)

Sound(p) ==
    Running(p) =>
        /\ Marked(p) /\ Placed(p) /\ Copied(p) /\ Mapped(p)
        /\ Progress(p) /\ Finished(p) /\ Backed(p)

Whole ==
    /\ WholeUnlessLoose /\ ListedPluginsHaveFiles
    /\ GlobalPluginsKeepTheirSource /\ DeclarationsResolve

IInv == TypeOK /\ Apart /\ (\A p \in Procs : Sound(p)) /\ Whole
-----------------------------------------------------------------------------
Places ==
    {"next", "copy", "list", "readMap", "writeMap", "writeAgain", "removeDir"}

\* The fields of a command that runs.
LEMMA Fields ==
    ASSUME TypeOK, NEW p \in Procs, Running(p)
    PROVE  /\ proc[p] \in Commands /\ proc[p].at \in Places
           /\ proc[p].cmd \in {"add", "remove", "update", "core"}
           /\ proc[p].scope \in Scopes /\ proc[p].todo \in Seq(Names)
           /\ proc[p].asked \subseteq Names /\ proc[p].object \in Sequences
           /\ proc[p].map \in [Names -> 0 .. Partial] \cup {Unread}
           /\ proc[p].done \subseteq Names /\ proc[p].alone \in BOOLEAN
           /\ file \in Sequences
PROOF
<1>1. proc[p] \in Commands
  BY DEF TypeOK, Running, Idle
<1> QED
  BY <1>1 DEF Commands, Places, TypeOK

\* The plugin in hand, and those after it, are among those asked for.
LEMMA InHand ==
    ASSUME TypeOK, NEW p \in Procs, Running(p), Placed(p), proc[p].todo # <<>>
    PROVE  /\ Current(p) \in Names /\ Current(p) \in proc[p].asked
           /\ Tail(proc[p].todo) \in Seq(Names)
           /\ \A i \in DOMAIN Tail(proc[p].todo) :
                 Tail(proc[p].todo)[i] \in proc[p].asked
PROOF
<1> DEFINE todo == proc[p].todo
<1>1. /\ todo \in Seq(Names) /\ todo # <<>>
      /\ \A i \in DOMAIN todo : todo[i] \in proc[p].asked
  BY Fields DEF Placed
<1> HIDE DEF todo
<1>2. \A i \in DOMAIN Tail(todo) : i + 1 \in DOMAIN todo /\ Tail(todo)[i] = todo[i + 1]
  BY <1>1
<1>3. todo # <<>> => 1 \in DOMAIN todo /\ Head(todo) = todo[1] /\ Head(todo) \in Names
  BY <1>1
<1>4. Tail(todo) \in Seq(Names)
  BY <1>1
<1>5. \A i \in DOMAIN Tail(todo) : Tail(todo)[i] \in proc[p].asked
  BY <1>1, <1>2
<1> QED
  BY <1>1, <1>3, <1>4, <1>5 DEF todo, Current

\* A command that ends leaves the others as they are.
LEMMA Ended ==
    ASSUME TypeOK, NEW p \in Procs, Ends(p)
    PROVE  /\ proc' \in [Procs -> {Idle} \cup Commands]
           /\ ~Running(p)'
           /\ \A q \in Procs \ {p} : proc'[q] = proc[q]
  BY DEF TypeOK, Ends, Running, Idle

\* The fields a command keeps whatever it does.
Keeps(p) ==
    /\ proc'[p].cmd = proc[p].cmd /\ proc'[p].scope = proc[p].scope
    /\ proc'[p].asked = proc[p].asked /\ proc'[p].alone = proc[p].alone
    /\ \A q \in Procs \ {p} : proc'[q] = proc[q]

\* A command that goes on with the plugin in hand keeps all but its place.
LEMMA GoneOn ==
    ASSUME TypeOK, NEW p \in Procs, Running(p), NEW place \in Places,
           Goes(p, place)
    PROVE  /\ proc' \in [Procs -> {Idle} \cup Commands]
           /\ Running(p)' /\ proc'[p].at = place /\ Keeps(p)
           /\ proc'[p].todo = proc[p].todo /\ proc'[p].done = proc[p].done
           /\ proc'[p].object = proc[p].object /\ proc'[p].map = proc[p].map
PROOF
<1>1. proc[p] \in Commands
  BY Fields
<1>2. /\ proc'[p] = [proc[p] EXCEPT !.at = place]
      /\ \A q \in Procs \ {p} : proc'[q] = proc[q]
  BY DEF TypeOK, Goes
<1>3. proc'[p] \in Commands /\ proc'[p].at = place /\ place # "idle"
  BY <1>1, <1>2 DEF Commands, Places
<1>4. proc' \in [Procs -> {Idle} \cup Commands]
  BY <1>2, <1>3 DEF TypeOK, Goes
<1> QED
  BY <1>1, <1>2, <1>3, <1>4 DEF Commands, Running, Keeps

\* A command done with a plugin takes up the next.
LEMMA GoneToNext ==
    ASSUME TypeOK, NEW p \in Procs, Running(p), Placed(p), proc[p].todo # <<>>,
           NextPlugin(p)
    PROVE  /\ proc' \in [Procs -> {Idle} \cup Commands]
           /\ Running(p)' /\ proc'[p].at = "next" /\ Keeps(p)
           /\ proc'[p].todo = Tail(proc[p].todo)
           /\ proc'[p].done = proc[p].done \cup {Current(p)}
           /\ proc'[p].object = proc[p].object /\ proc'[p].map = proc[p].map
PROOF
<1>1. proc[p] \in Commands
  BY Fields
<1>2. /\ proc'[p] = [proc[p] EXCEPT !.at = "next", !.todo = Tail(@),
                                    !.done = @ \cup {Current(p)}]
      /\ \A q \in Procs \ {p} : proc'[q] = proc[q]
  BY DEF TypeOK, NextPlugin
<1>3. proc'[p] \in Commands /\ proc'[p].at = "next"
  <2>1. Tail(proc[p].todo) \in Seq(Names) /\ Current(p) \in Names
    BY InHand
  <2>2. proc[p].done \cup {Current(p)} \in SUBSET Names
    BY <1>1, <2>1 DEF Commands
  <2> DEFINE todo == Tail(proc[p].todo)
             done == proc[p].done \cup {Current(p)}
  <2>3. proc'[p] = [proc[p] EXCEPT !.at = "next", !.todo = todo, !.done = done]
    BY <1>1, <1>2 DEF Commands
  <2>4. todo \in Seq(Names) /\ done \in SUBSET Names
    BY <2>1, <2>2
  <2> HIDE DEF todo, done
  <2> QED
    BY <1>1, <2>3, <2>4 DEF Commands
<1>4. proc' \in [Procs -> {Idle} \cup Commands]
  BY <1>2, <1>3 DEF TypeOK, NextPlugin
<1> QED
  BY <1>1, <1>2, <1>3, <1>4 DEF Commands, Running, Keeps
-----------------------------------------------------------------------------
\* What the step of a command has to respect when it is not alone: what is in
\* order, what has a folder or an excuse, and the clones that are there.
Respects ==
    /\ loose \subseteq loose' /\ raced \subseteq raced'
    /\ \A n \in Names \ loose' :
          /\ importMap'[n] = importMap[n]
          /\ \A e \in Scopes : n \in file'.listed[e] <=> n \in file.listed[e]
    /\ \A n \in Names : /\ Covered(n) => Covered(n)'
                        /\ clone[n] # 0 => clone'[n] # 0

\* Then it harms none of the others.
LEMMA Beside ==
    ASSUME TypeOK, NEW q \in Procs, Sound(q), proc'[q] = proc[q], Running(q),
           ~proc[q].alone, Respects
    PROVE  Sound(q)'
PROOF
<1>1. /\ Running(q)' /\ Cmd(q)' = Cmd(q) /\ Current(q)' = Current(q)
      /\ Busy(q)' <=> Busy(q)
      /\ \A place \in Places : At(q, place)' <=> At(q, place)
  BY DEF Running, At, Cmd, Current, Busy
<1>2. Marked(q)' /\ Copied(q)' /\ Progress(q)' /\ Finished(q)'
  BY <1>1 DEF Sound, Marked, Copied, Progress, Finished, Respects, Cmd
<1>3. Placed(q)'
  <2>1. Busy(q) => Current(q) \in Names
    BY InHand DEF Sound, Placed
  <2>2. Placed(q) /\ (At(q, "copy") => Busy(q))
    BY DEF Sound, Placed, At, Busy, Cmd
  <2> QED
    BY <1>1, <2>1, <2>2 DEF Placed, Respects, Places, Cmd
<1>4. Mapped(q)'
  BY <1>1 DEF Sound, Mapped, Respects, Places
<1>5. Backed(q)'
  <2>1. Listed(proc[q].object) \subseteq Names
    BY Fields DEF Sequences, Listed
  <2> QED
    BY <2>1 DEF Sound, Backed, Respects
<1> QED
  BY <1>2, <1>3, <1>4, <1>5 DEF Sound

\* So what a step of one command has to show.
LEMMA OneCommand ==
    ASSUME IInv, NEW p \in Procs, Running(p), TypeOK', Sound(p)', Whole',
           \A q \in Procs \ {p} : proc'[q] = proc[q],
           Running(p)' => proc'[p].alone = proc[p].alone,
           ~proc[p].alone => Respects
    PROVE  IInv'
PROOF
<1>1. Apart'
  BY DEF IInv, Apart, Running
<1>2. ASSUME NEW q \in Procs \ {p} PROVE Sound(q)'
  <2>1. CASE ~Running(q)
    BY <2>1 DEF Sound, Running
  <2>2. CASE Running(q)
    <3>1. ~proc[q].alone /\ ~proc[p].alone
      BY <2>2 DEF IInv, Apart
    <3> QED
      BY <3>1, <2>2, Beside DEF IInv
  <2> QED
    BY <2>1, <2>2
<1> QED
  BY <1>1, <1>2 DEF IInv

\* A command that ends has only the workspace to answer for.
LEMMA OneCommandEnds ==
    ASSUME IInv, NEW p \in Procs, Running(p), Ends(p), TypeOK', Whole',
           ~proc[p].alone => Respects
    PROVE  IInv'
  BY Ended, OneCommand DEF IInv, Sound

\* What is listed has a name.
LEMMA ListedAreNames ==
    ASSUME TypeOK PROVE Listed(file) \subseteq Names
  BY DEF TypeOK, Sequences, Listed
-----------------------------------------------------------------------------
(* The steps of one command. *)

\* A step that changes nothing but the command's place.
LEMMA Quiet ==
    ASSUME IInv, NEW p \in Procs, Running(p), Sound(p)',
           UNCHANGED <<workspace, started, history>>,
           proc' \in [Procs -> {Idle} \cup Commands],
           \A q \in Procs \ {p} : proc'[q] = proc[q],
           Running(p)' => proc'[p].alone = proc[p].alone
    PROVE  IInv'
PROOF
<1>1. TypeOK' /\ Respects
  BY DEF IInv, TypeOK, Respects, Covered, workspace, history
<1>2. Whole'
  BY DEF IInv, Whole, WholeUnlessLoose, ListedPluginsHaveFiles,
     GlobalPluginsKeepTheirSource, DeclarationsResolve, workspace, history
<1> QED
  BY <1>1, <1>2, OneCommand

LEMMA FailKeeps ==
    ASSUME IInv, NEW p \in Procs, Fail(p)
    PROVE  IInv'
PROOF
<1>1. /\ Running(p) /\ Ends(p) /\ TypeOK /\ Sound(p) /\ Placed(p)
      /\ UNCHANGED <<file, importMap, declared, clone, started, raced, elsewhere>>
      /\ proc' \in [Procs -> {Idle} \cup Commands] /\ ~Running(p)'
      /\ \A q \in Procs \ {p} : proc'[q] = proc[q]
  BY Ended DEF IInv, Fail, Sound
<1>2. CASE UNCHANGED <<dir, loose>>
  <2>1. UNCHANGED <<workspace, started, history>>
    BY <1>1, <1>2 DEF workspace, history
  <2> QED
    BY <1>1, <2>1, Quiet DEF Sound
<1>3. CASE /\ At(p, "copy") \/ Removing(p)
           /\ dir' = [dir EXCEPT ![Current(p)] = Partial]
           /\ loose' = loose \cup {Current(p)}
  <2>1. proc[p].todo # <<>>
    BY <1>1, <1>3 DEF Placed, Busy, At, Removing, Cmd
  <2>2. PICK n \in Names : n = Current(p)
    BY <1>1, <2>1, InHand
  <2>3. Partial \in 0 .. Partial /\ Partial # 0
    BY PluginAssumption DEF Partial
  <2>4. /\ dir' \in [Names -> 0 .. Partial] /\ dir'[n] = Partial
        /\ \A m \in Names \ {n} : dir'[m] = dir[m]
        /\ loose' = loose \cup {n}
    BY <1>1, <1>3, <2>2, <2>3 DEF TypeOK
  <2>5. TypeOK'
    BY <1>1, <2>4 DEF TypeOK
  <2>6. \A m \in Names : Covered(m) => Covered(m)'
    BY <1>1, <2>3, <2>4 DEF Covered
  <2>7. Respects
    BY <1>1, <2>4, <2>6 DEF Respects
  <2>8. WholeUnlessLoose' /\ DeclarationsResolve' /\ GlobalPluginsKeepTheirSource'
    BY <1>1, <2>4 DEF IInv, Whole, WholeUnlessLoose, DeclarationsResolve,
       GlobalPluginsKeepTheirSource
  <2>9. ListedPluginsHaveFiles'
    BY <1>1, <2>6, ListedAreNames
       DEF IInv, Whole, ListedPluginsHaveFiles, Covered
  <2> QED
    BY <1>1, <2>5, <2>7, <2>8, <2>9, OneCommandEnds DEF Whole
<1> QED
  BY <1>2, <1>3 DEF Fail

\* Fetching changes the clone only, and leaves one where there is one.
LEMMA CloneKeeps ==
    ASSUME IInv, NEW p \in Procs, Running(p), Sound(p)',
           NEW n \in Names, NEW v \in Versions \ {0},
           clone' = [clone EXCEPT ![n] = v],
           UNCHANGED <<file, dir, importMap, declared, started, history>>,
           proc' \in [Procs -> {Idle} \cup Commands],
           \A q \in Procs \ {p} : proc'[q] = proc[q],
           Running(p)' => proc'[p].alone = proc[p].alone
    PROVE  IInv'
PROOF
<1>1. clone' \in [Names -> Versions] /\ \A m \in Names : clone[m] # 0 => clone'[m] # 0
  BY DEF IInv, TypeOK
<1>2. TypeOK' /\ Respects
  BY <1>1 DEF IInv, TypeOK, Respects, Covered, history
<1>3. Whole'
  BY DEF IInv, Whole, WholeUnlessLoose, ListedPluginsHaveFiles,
     GlobalPluginsKeepTheirSource, DeclarationsResolve, history
<1> QED
  BY <1>2, <1>3, OneCommand

\* A command that fetched goes on to copy.
LEMMA FetchedSound ==
    ASSUME IInv, NEW p \in Procs, At(p, "next"), Goes(p, "copy"),
           Cmd(p) \in {"add", "update"}, proc[p].todo # <<>>,
           clone'[Current(p)] # 0,
           UNCHANGED <<file, dir, importMap, declared, started, history>>
    PROVE  Sound(p)'
PROOF
<1>1. /\ TypeOK /\ Running(p) /\ Sound(p) /\ Placed(p)
      /\ UNCHANGED <<loose, raced, elsewhere>>
  BY DEF IInv, At, Sound, history
<1>2. /\ Running(p)' /\ proc'[p].at = "copy" /\ Keeps(p)
      /\ proc'[p].todo = proc[p].todo /\ proc'[p].done = proc[p].done
      /\ proc'[p].object = proc[p].object /\ proc'[p].map = proc[p].map
  BY <1>1, GoneOn DEF Places
<1>3. Current(p)' = Current(p) /\ Cmd(p)' = Cmd(p) /\ ~Busy(p)
  BY <1>2 DEF Current, Cmd, Keeps, Busy, At
<1>4. Marked(p)' /\ Copied(p)' /\ Backed(p)'
  BY <1>1, <1>2 DEF Sound, Marked, Copied, Backed, Covered, Keeps, Cmd
<1>5. Placed(p)'
  BY <1>1, <1>2, <1>3 DEF Placed, Keeps, Busy, At, Cmd
<1>6. Mapped(p)'
  BY <1>1, <1>2, <1>3 DEF Sound, Mapped, Keeps, Busy, At, Cmd
<1>7. Progress(p)' /\ Finished(p)'
  BY <1>1, <1>2, <1>3 DEF Sound, Progress, Finished, Keeps, Busy, At, Cmd
<1> QED
  BY <1>4, <1>5, <1>6, <1>7 DEF Sound

LEMMA FetchToAddKeeps ==
    ASSUME IInv, NEW p \in Procs, FetchToAdd(p)
    PROVE  IInv'
PROOF
<1>1. /\ TypeOK /\ Running(p) /\ At(p, "next") /\ Cmd(p) = "add"
      /\ Sound(p) /\ Placed(p) /\ proc[p].todo # <<>>
      /\ UNCHANGED <<file, dir, importMap, declared, started, history>>
  BY DEF FetchToAdd, IInv, At, Sound
<1>2. PICK n \in Names : n = Current(p)
  BY <1>1, InHand
<1>3. CASE Ends(p) /\ UNCHANGED clone
  <2>1. /\ proc' \in [Procs -> {Idle} \cup Commands] /\ ~Running(p)'
        /\ \A q \in Procs \ {p} : proc'[q] = proc[q]
    BY <1>1, <1>3, Ended
  <2> QED
    BY <1>1, <1>3, <2>1, Quiet DEF Sound, workspace
<1>4. ASSUME NEW v \in Published(n), Goes(p, "copy"),
             clone' = [clone EXCEPT ![n] = IF @ = 0 THEN v ELSE @]
      PROVE  IInv'
  <2>1. PICK w \in Versions \ {0} : clone' = [clone EXCEPT ![n] = w]
    BY <1>1, <1>4 DEF Published, TypeOK
  <2>2. clone'[Current(p)] # 0
    BY <1>1, <1>2, <2>1 DEF TypeOK
  <2>3. /\ proc' \in [Procs -> {Idle} \cup Commands]
        /\ proc'[p].alone = proc[p].alone
        /\ \A q \in Procs \ {p} : proc'[q] = proc[q]
    BY <1>1, <1>4, GoneOn DEF Places, Keeps
  <2> QED
    BY <1>1, <1>4, <2>1, <2>2, <2>3, FetchedSound, CloneKeeps
<1> QED
  BY <1>2, <1>3, <1>4 DEF FetchToAdd

LEMMA FetchToUpdateKeeps ==
    ASSUME IInv, NEW p \in Procs, FetchToUpdate(p)
    PROVE  IInv'
PROOF
<1>1. /\ TypeOK /\ Running(p) /\ At(p, "next") /\ Cmd(p) = "update"
      /\ Sound(p) /\ Placed(p) /\ proc[p].todo # <<>>
      /\ UNCHANGED <<file, dir, importMap, declared, started, history>>
  BY DEF FetchToUpdate, IInv, At, Sound
<1>2. PICK n \in Names : n = Current(p)
  BY <1>1, InHand
<1>3. CASE Ends(p) /\ UNCHANGED clone
  <2>1. /\ proc' \in [Procs -> {Idle} \cup Commands] /\ ~Running(p)'
        /\ \A q \in Procs \ {p} : proc'[q] = proc[q]
    BY <1>1, <1>3, Ended
  <2> QED
    BY <1>1, <1>3, <2>1, Quiet DEF Sound, workspace
<1>4. ASSUME NEW v \in Published(n), clone' = [clone EXCEPT ![n] = v],
             Goes(p, "copy")
      PROVE  IInv'
  <2>1. v \in Versions \ {0} /\ clone'[Current(p)] # 0
    BY <1>1, <1>2, <1>4 DEF Published, TypeOK
  <2>2. /\ proc' \in [Procs -> {Idle} \cup Commands]
        /\ proc'[p].alone = proc[p].alone
        /\ \A q \in Procs \ {p} : proc'[q] = proc[q]
    BY <1>1, <1>4, GoneOn DEF Places, Keeps
  <2> QED
    BY <1>1, <1>4, <2>1, <2>2, FetchedSound, CloneKeeps
<1>5. ASSUME NEW v \in Published(n), clone' = [clone EXCEPT ![n] = v],
             proc' = [proc EXCEPT ![p].todo = Tail(@)]
      PROVE  IInv'
  <2>1. v \in Versions \ {0}
    BY <1>1, <1>5 DEF Published
  <2>2. proc[p] \in Commands
    BY <1>1, Fields
  <2>3. /\ proc'[p] = [proc[p] EXCEPT !.todo = Tail(@)]
        /\ \A q \in Procs \ {p} : proc'[q] = proc[q]
    BY <1>1, <1>5 DEF TypeOK
  <2>4. proc'[p] \in Commands
    BY <1>1, <2>2, <2>3, InHand DEF Commands
  <2>5. proc' \in [Procs -> {Idle} \cup Commands]
    BY <1>1, <1>5, <2>3, <2>4 DEF TypeOK
  <2>6. /\ Running(p)' /\ proc'[p].at = "next" /\ Keeps(p)
        /\ proc'[p].todo = Tail(proc[p].todo) /\ proc'[p].done = proc[p].done
        /\ proc'[p].object = proc[p].object /\ proc'[p].map = proc[p].map
    BY <1>1, <2>2, <2>3 DEF Commands, Running, Keeps, At
  <2>7. ~Busy(p)' /\ ~Busy(p) /\ Cmd(p)' = Cmd(p)
    BY <1>1, <2>6 DEF Busy, At, Cmd, Keeps
  <2>8. Marked(p)' /\ Copied(p)' /\ Backed(p)'
    BY <1>1, <2>6 DEF Sound, Marked, Copied, Backed, Covered, Keeps, Cmd, history
  <2>9. Placed(p)'
    BY <1>1, <2>6, <2>7, InHand DEF Placed, Keeps, At
  <2>10. Mapped(p)'
    BY <1>1, <2>6, <2>7 DEF Sound, Mapped, Keeps, At, history
  <2>11. Progress(p)' /\ Finished(p)'
    BY <1>1, <2>6, <2>7 DEF Sound, Progress, Finished, Keeps, Cmd, history
  <2>12. Sound(p)'
    BY <2>8, <2>9, <2>10, <2>11 DEF Sound
  <2> QED
    BY <1>1, <1>5, <2>1, <2>5, <2>6, <2>12, CloneKeeps DEF Keeps
<1> QED
  BY <1>1, <1>2, <1>3, <1>4, <1>5 DEF FetchToUpdate

LEMMA CopyKeeps ==
    ASSUME IInv, NEW p \in Procs, Copy(p)
    PROVE  IInv'
PROOF
<1>1. /\ TypeOK /\ Running(p) /\ At(p, "copy") /\ Sound(p) /\ Placed(p)
      /\ UNCHANGED <<file, importMap, declared, clone, started, raced, elsewhere>>
  BY DEF Copy, IInv, At, Sound
<1>2. Busy(p) /\ Cmd(p) \in {"add", "update"} /\ proc[p].todo # <<>>
  BY <1>1 DEF Placed, Busy, At, Cmd
<1>3. PICK n \in Names : n = Current(p) /\ n \in proc[p].asked
  BY <1>1, <1>2, InHand
<1>4. clone[n] # 0 /\ clone[n] \in 0 .. Partial
  BY <1>1, <1>3, PluginAssumption DEF Placed, TypeOK, Versions, Partial
<1>5. /\ dir' \in [Names -> 0 .. Partial] /\ dir'[n] = clone[n]
      /\ \A m \in Names \ {n} : dir'[m] = dir[m]
      /\ loose' = loose \cup {n}
  BY <1>1, <1>3, <1>4 DEF Copy, TypeOK
<1>6. /\ proc' \in [Procs -> {Idle} \cup Commands]
      /\ Running(p)' /\ proc'[p].at = "list" /\ Keeps(p)
      /\ proc'[p].todo = proc[p].todo /\ proc'[p].done = proc[p].done
      /\ proc'[p].object = proc[p].object /\ proc'[p].map = proc[p].map
  BY <1>1, GoneOn DEF Copy, Places
<1>7. TypeOK'
  BY <1>1, <1>5, <1>6 DEF TypeOK
<1>8. \A m \in Names : Covered(m) => Covered(m)'
  BY <1>1, <1>4, <1>5 DEF Covered
<1>9. Respects
  BY <1>1, <1>5, <1>8 DEF Respects
<1>10. Current(p)' = n /\ Cmd(p)' = Cmd(p) /\ Busy(p)'
  BY <1>2, <1>3, <1>6 DEF Current, Cmd, Keeps, Busy, At
<1>11. Marked(p)' /\ Copied(p)'
  BY <1>1, <1>5, <1>6, <1>10 DEF Sound, Marked, Copied, Keeps
<1>12. Backed(p)'
  <2>1. Listed(proc[p].object) \subseteq Names
    BY <1>1, Fields DEF Sequences, Listed
  <2> QED
    BY <1>1, <1>6, <1>8, <2>1 DEF Sound, Backed
<1>13. Placed(p)' /\ Mapped(p)'
  BY <1>1, <1>2, <1>3, <1>5, <1>6, <1>10 DEF Sound, Placed, Mapped, Keeps, At
<1>14. Progress(p)' /\ Finished(p)'
  BY <1>1, <1>2, <1>3, <1>4, <1>5, <1>6, <1>10, Fields
     DEF Sound, Progress, Finished, Keeps, At
<1>15. WholeUnlessLoose' /\ DeclarationsResolve' /\ GlobalPluginsKeepTheirSource'
  BY <1>1, <1>5 DEF IInv, Whole, WholeUnlessLoose, DeclarationsResolve,
     GlobalPluginsKeepTheirSource
<1>16. ListedPluginsHaveFiles'
  BY <1>1, <1>8, ListedAreNames DEF IInv, Whole, ListedPluginsHaveFiles, Covered
<1> QED
  BY <1>1, <1>6, <1>7, <1>9, <1>11, <1>12, <1>13, <1>14, <1>15, <1>16, OneCommand
     DEF Sound, Whole, Keeps

\* Adding with props keeps the sources of what all environments list.
LEMMA AddedWithPropsIs ==
    ASSUME NEW s \in Sequences, NEW scope \in Scopes, NEW n \in Names,
           s.listed["global"] \subseteq s.props
    PROVE  LET t == AddedWithProps(s, scope, n)
           IN  /\ t \in Sequences
               /\ t.listed = [s.listed EXCEPT ![scope] = @ \cup {n}]
               /\ Listed(t) = Listed(s) \cup {n}
               /\ t.listed["global"] \subseteq t.props
PROOF
<1> DEFINE a == Added(s, scope, n)
           t == AddedWithProps(s, scope, n)
<1>1. /\ a \in Sequences /\ a.props = s.props
      /\ a.listed = [s.listed EXCEPT ![scope] = @ \cup {n}]
      /\ Listed(a) = Listed(s) \cup {n}
  BY AddedIs
<1>2. t = [a EXCEPT !.props = @ \cup {n}]
  BY DEF AddedWithProps
<1> HIDE DEF a, t
<1>3. t \in Sequences /\ t.listed = a.listed /\ t.props = a.props \cup {n}
  BY <1>1, <1>2 DEF Sequences
<1>4. t.listed["global"] \subseteq s.listed["global"] \cup {n}
  BY <1>1, <1>3 DEF Sequences, Scopes
<1> QED
  BY <1>1, <1>3, <1>4 DEF Listed, t

\* What the file holds once a command has written an object back.
LEMMA Persisted ==
    ASSUME NEW object \in Sequences, file' = Picked(object, Env),
           object.listed["global"] \subseteq object.props
    PROVE  /\ file' \in Sequences /\ file'.listed = object.listed
           /\ Listed(file') = Listed(object)
           /\ GlobalPluginsKeepTheirSource'
PROOF
<1>1. /\ Picked(object, Env) \in Sequences
      /\ Picked(object, Env).listed = object.listed
      /\ Listed(Picked(object, Env)) = Listed(object)
      /\ object.props \cap object.listed["global"] \subseteq Picked(object, Env).props
  BY PickedIs, PluginAssumption
<1> QED
  BY <1>1 DEF GlobalPluginsKeepTheirSource

LEMMA ListKeeps ==
    ASSUME IInv, NEW p \in Procs, List(p)
    PROVE  IInv'
PROOF
<1>1. /\ TypeOK /\ Running(p) /\ At(p, "list") /\ Sound(p) /\ Placed(p)
      /\ UNCHANGED <<dir, importMap, declared, clone, started, history>>
  BY DEF List, IInv, At, Sound
<1>2. Busy(p) /\ Cmd(p) \in {"add", "update"} /\ proc[p].todo # <<>>
  BY <1>1 DEF Placed, Busy, At, Cmd
<1>3. PICK n \in Names : n = Current(p) /\ n \in proc[p].asked /\ n \in loose
  BY <1>1, <1>2, InHand DEF Placed, At
<1>4. PICK scope \in Scopes : scope = Target(p)
  BY <1>1, Fields DEF Target, Scopes
<1>5. PICK object : object = AddedWithProps(proc[p].object, scope, n)
  OBVIOUS
<1>6. /\ object \in Sequences
      /\ object.listed = [proc[p].object.listed EXCEPT ![scope] = @ \cup {n}]
      /\ Listed(object) = Listed(proc[p].object) \cup {n}
      /\ object.listed["global"] \subseteq object.props
  BY <1>1, <1>5, Fields, AddedWithPropsIs DEF Sound, Copied
<1>7. /\ file' \in Sequences /\ file'.listed = object.listed
      /\ Listed(file') = Listed(object) /\ GlobalPluginsKeepTheirSource'
  BY <1>3, <1>4, <1>5, <1>6, Persisted DEF List
<1>8. \A m \in Names \ {n}, e \in Scopes :
         m \in object.listed[e] <=> m \in proc[p].object.listed[e]
  BY <1>1, <1>6, Fields DEF Sequences
<1>9. /\ proc' \in [Procs -> {Idle} \cup Commands]
      /\ Running(p)' /\ proc'[p].at = "readMap" /\ Keeps(p)
      /\ proc'[p].todo = proc[p].todo /\ proc'[p].done = proc[p].done
      /\ proc'[p].object = object /\ proc'[p].map = proc[p].map
  <2>1. proc' = [proc EXCEPT ![p].at = "readMap", ![p].object = object]
    BY <1>3, <1>4, <1>5 DEF List
  <2>2. proc[p] \in Commands
    BY <1>1, Fields
  <2>3. /\ proc'[p] = [proc[p] EXCEPT !.at = "readMap", !.object = object]
        /\ \A q \in Procs \ {p} : proc'[q] = proc[q]
    BY <1>1, <2>1 DEF TypeOK
  <2>4. proc'[p] \in Commands
    BY <1>6, <2>2, <2>3 DEF Commands
  <2>5. proc' \in [Procs -> {Idle} \cup Commands]
    BY <1>1, <2>1, <2>3, <2>4 DEF TypeOK
  <2> QED
    BY <2>2, <2>3, <2>5 DEF Commands, Running, Keeps
<1>10. TypeOK'
  BY <1>1, <1>7, <1>9 DEF TypeOK, history
<1>11. UNCHANGED <<loose, raced, elsewhere>> /\ \A m \in Names : Covered(m)' <=> Covered(m)
  BY <1>1 DEF history, Covered
<1>12. \A m \in Names \ loose, e \in Scopes :
          m \in file'.listed[e] <=> m \in file.listed[e]
  BY <1>1, <1>3, <1>7, <1>8 DEF Sound, Copied
<1>13. Respects
  BY <1>1, <1>11, <1>12 DEF Respects
<1>14. Current(p)' = n /\ Cmd(p)' = Cmd(p) /\ Busy(p)'
  BY <1>2, <1>3, <1>9 DEF Current, Cmd, Keeps, Busy, At
<1>15. Covered(n)
  BY <1>1, <1>2, <1>3, Fields DEF Sound, Marked, Progress, Covered, At
<1>16. Backed(p)'
  <2>1. Listed(object) \subseteq Names
    BY <1>6 DEF Sequences, Listed
  <2> QED
    BY <1>1, <1>6, <1>9, <1>11, <1>15, <2>1 DEF Sound, Backed
<1>17. Marked(p)' /\ Mapped(p)'
  BY <1>1, <1>9, <1>11, <1>14 DEF Sound, Marked, Mapped, Keeps, At
<1>17a. Copied(p)'
  BY <1>2, <1>6, <1>7, <1>9, <1>14 DEF Copied, Keeps
<1>18. Placed(p)'
  BY <1>1, <1>2, <1>3, <1>9, <1>11, <1>14 DEF Placed, Keeps, At
<1>19. Progress(p)'
  BY <1>1, <1>2, <1>3, <1>6, <1>7, <1>9, <1>14 DEF Sound, Progress, Keeps, At
<1>20. Finished(p)'
  <2>1. proc[p].alone => \A m \in Names \ {n} : m \in Listed(file') <=> m \in Listed(file)
    BY <1>1, <1>6, <1>7 DEF Sound, Copied, Listed
  <2> QED
    BY <1>1, <1>2, <1>3, <1>9, <1>11, <1>14, <2>1, Fields
       DEF Sound, Finished, Keeps
<1>21. WholeUnlessLoose' /\ DeclarationsResolve'
  <2>1. \A m \in Names \ loose : m \in Listed(file') <=> m \in Listed(file)
    BY <1>12 DEF Listed
  <2> QED
    BY <1>1, <1>11, <1>12, <2>1 DEF IInv, Whole, WholeUnlessLoose,
       DeclarationsResolve, Scopes
<1>22. ListedPluginsHaveFiles'
  BY <1>7, <1>9, <1>16 DEF Backed, ListedPluginsHaveFiles, Covered, Listed
<1> QED
  BY <1>1, <1>7, <1>9, <1>10, <1>13, <1>16, <1>17, <1>17a, <1>18, <1>19, <1>20, <1>21,
     <1>22, OneCommand DEF Sound, Whole, Keeps

\* What removePlugin's step does to the object it holds and to the file.
Unlisted(p, n, scope, object) ==
    /\ object \in Sequences
    /\ object.listed["global"] \subseteq object.props
    /\ Listed(object) \subseteq Listed(proc[p].object)
    /\ \A m \in Names \ {n}, e \in Scopes :
         m \in object.listed[e] <=> m \in proc[p].object.listed[e]
    /\ n \notin object.listed[scope]
    /\ \A e \in Scopes : n \in object.listed[e] => n \in proc[p].object.listed[e]
    /\ file' \in Sequences /\ GlobalPluginsKeepTheirSource'
    /\ proc[p].alone => file'.listed = object.listed
    /\ \A m \in Names \ loose', e \in Scopes :
         m \in file'.listed[e] <=> m \in object.listed[e]
    /\ Listed(file') \subseteq Listed(object) \/ file' = file
    /\ proc' \in [Procs -> {Idle} \cup Commands]
    /\ Running(p)' /\ proc'[p].at = "readMap" /\ Keeps(p)
    /\ proc'[p].todo = proc[p].todo /\ proc'[p].done = proc[p].done
    /\ proc'[p].object = object /\ proc'[p].map = proc[p].map

\* Unlisting leaves the plugin in no list, but for those of other environments.
LEMMA UnlistKeeps ==
    ASSUME IInv, NEW p \in Procs, Unlist(p)
    PROVE  IInv'
PROOF
<1>1. /\ TypeOK /\ Running(p) /\ At(p, "next") /\ Cmd(p) = "remove"
      /\ Sound(p) /\ Placed(p) /\ proc[p].todo # <<>>
      /\ UNCHANGED <<dir, importMap, declared, clone, started, raced>>
  BY DEF Unlist, IInv, At, Sound
<1>2. PICK n \in Names : n = Current(p) /\ n \in proc[p].asked
  BY <1>1, InHand
<1>3. PICK scope \in Scopes : scope = proc[p].scope
  BY <1>1, Fields
<1>4. /\ proc[p].object \in Sequences /\ proc[p].alone \in BOOLEAN
      /\ proc[p].object.listed["global"] \subseteq proc[p].object.props
      /\ proc[p].alone => proc[p].object.listed = file.listed
  BY <1>1, Fields DEF Sound, Copied
<1>5. /\ loose' = loose \cup {n} /\ loose' \in SUBSET Names
      /\ elsewhere' = IF ListedElsewhere(p) THEN elsewhere \cup {n} ELSE elsewhere
      /\ elsewhere' \in SUBSET Names /\ elsewhere \subseteq elsewhere'
      /\ \A m \in Names : Covered(m) => Covered(m)'
  BY <1>1, <1>2 DEF Unlist, TypeOK, Covered
<1>6. \E object : Unlisted(p, n, scope, object)
  <2>1. CASE n \in Includes(proc[p].object, Env)
    <3>1. PICK object : object = Deleted(proc[p].object, scope, n)
      OBVIOUS
    <3>2. /\ object \in Sequences /\ object.props = proc[p].object.props
          /\ object.listed = [proc[p].object.listed EXCEPT ![scope] = @ \ {n}]
      BY <1>4, <3>1, DeletedIs
    <3>3. /\ object.listed["global"] \subseteq object.props
          /\ \A m \in Names \ {n}, e \in Scopes :
               m \in object.listed[e] <=> m \in proc[p].object.listed[e]
          /\ n \notin object.listed[scope]
          /\ \A e \in Scopes : object.listed[e] \subseteq proc[p].object.listed[e]
      BY <1>4, <3>2 DEF Sequences, Scopes
    <3>4. file' = Picked(object, Env)
      BY <1>2, <1>3, <2>1, <3>1 DEF Unlist
    <3>5. /\ file' \in Sequences /\ file'.listed = object.listed
          /\ Listed(file') = Listed(object) /\ GlobalPluginsKeepTheirSource'
      BY <3>2, <3>3, <3>4, Persisted
    <3>6. proc' = [proc EXCEPT ![p].at = "readMap", ![p].object = object]
      BY <1>2, <1>3, <2>1, <3>1 DEF Unlist
    <3>7. proc[p] \in Commands
      BY <1>1, Fields
    <3>8. /\ proc'[p] = [proc[p] EXCEPT !.at = "readMap", !.object = object]
          /\ \A q \in Procs \ {p} : proc'[q] = proc[q]
      BY <1>1, <3>6 DEF TypeOK
    <3>9. proc'[p] \in Commands
      BY <3>2, <3>7, <3>8 DEF Commands
    <3>10. proc' \in [Procs -> {Idle} \cup Commands]
      BY <1>1, <3>6, <3>8, <3>9 DEF TypeOK
    <3>11. /\ Running(p)' /\ proc'[p].at = "readMap" /\ Keeps(p)
           /\ proc'[p].todo = proc[p].todo /\ proc'[p].done = proc[p].done
           /\ proc'[p].object = object /\ proc'[p].map = proc[p].map
      BY <3>7, <3>8 DEF Commands, Running, Keeps
    <3>12. Listed(object) \subseteq Listed(proc[p].object)
      BY <3>3 DEF Listed
    <3>13. \A e \in Scopes :
              n \in object.listed[e] => n \in proc[p].object.listed[e]
      BY <3>3
    <3> QED
      BY <3>2, <3>3, <3>5, <3>10, <3>11, <3>12, <3>13 DEF Unlisted
  <2>2. CASE n \notin Includes(proc[p].object, Env)
    <3>1. Goes(p, "readMap") /\ file' = file
      BY <1>2, <2>2 DEF Unlist
    <3>2. /\ proc' \in [Procs -> {Idle} \cup Commands]
          /\ Running(p)' /\ proc'[p].at = "readMap" /\ Keeps(p)
          /\ proc'[p].todo = proc[p].todo /\ proc'[p].done = proc[p].done
          /\ proc'[p].object = proc[p].object /\ proc'[p].map = proc[p].map
      BY <1>1, <3>1, GoneOn DEF Places
    <3>3. n \notin proc[p].object.listed[scope]
      BY <1>1, <1>2, <1>3, <2>2 DEF Sound, Copied
    <3>4. file' \in Sequences /\ GlobalPluginsKeepTheirSource'
      BY <1>1, <3>1 DEF IInv, TypeOK, Whole, GlobalPluginsKeepTheirSource
    <3>5. \A m \in Names \ loose', e \in Scopes :
             m \in file'.listed[e] <=> m \in proc[p].object.listed[e]
      BY <1>1, <1>5, <3>1 DEF Sound, Copied
    <3> QED
      BY <1>4, <3>1, <3>2, <3>3, <3>4, <3>5 DEF Unlisted
  <2> QED
    BY <2>1, <2>2
<1>7. PICK object : Unlisted(p, n, scope, object)
  BY <1>6
<1> USE DEF Unlisted
<1>8. TypeOK'
  BY <1>1, <1>5, <1>7 DEF TypeOK
<1>9. \A m \in Names \ loose', e \in Scopes :
         m \in file'.listed[e] <=> m \in file.listed[e]
  BY <1>1, <1>5, <1>7 DEF Sound, Copied
<1>10. Respects
  BY <1>1, <1>5, <1>9 DEF Respects
<1>11. /\ Current(p)' = n /\ Cmd(p)' = Cmd(p) /\ ~Busy(p) /\ Busy(p)'
       /\ n \in loose'
  BY <1>1, <1>2, <1>5, <1>7 DEF Current, Cmd, Keeps, Busy, At
<1>12. Backed(p)'
  <2>1. Listed(proc[p].object) \subseteq Names
    BY <1>4 DEF Sequences, Listed
  <2> QED
    BY <1>1, <1>5, <1>7, <2>1 DEF Sound, Backed
<1>13. Marked(p)' /\ Mapped(p)'
  BY <1>1, <1>5, <1>7, <1>11 DEF Sound, Marked, Mapped, Keeps, At
<1>14. Copied(p)'
  <2>1. ASSUME NEW m \in proc[p].asked
        PROVE  m \in Includes(object, Env) \/ m \notin object.listed[scope]
    <3>1. m \in Names
      BY <1>1, Fields
    <3>2. /\ m \in Includes(proc[p].object, Env)
               \/ m \notin proc[p].object.listed[scope]
          /\ {"global", Env} \subseteq Scopes
      BY <1>1, <1>3, PluginAssumption DEF Sound, Copied, Scopes
    <3> QED
      BY <1>7, <3>1, <3>2 DEF Includes
  <2> QED
    BY <1>3, <1>7, <1>11, <2>1 DEF Copied, Keeps
<1>15. Placed(p)'
  BY <1>1, <1>7, <1>11 DEF Placed, Keeps, At, Cmd
<1>16. Progress(p)'
  <2>1. ASSUME proc[p].alone, n \in Listed(file')
        PROVE  n \in elsewhere'
    <3>1. PICK e \in Scopes : n \in object.listed[e]
      BY <1>7, <2>1 DEF Listed
    <3>2. e # scope /\ n \in file.listed[e]
      BY <1>4, <1>7, <2>1, <3>1
    <3>3. ListedElsewhere(p)
      BY <1>2, <1>3, <3>2 DEF ListedElsewhere
    <3> QED
      BY <1>5, <3>3
  <2> QED
    BY <1>1, <1>7, <1>11, <2>1 DEF Progress, Keeps, At, Cmd
<1>17. Finished(p)'
  <2>1. proc[p].alone =>
          \A m \in Names \ {n} : m \in Listed(file') => m \in Listed(file)
    BY <1>4, <1>7 DEF Listed
  <2>2. proc[p].done \subseteq Names
    BY <1>1, Fields
  <2> QED
    BY <1>1, <1>5, <1>7, <1>11, <2>1, <2>2 DEF Sound, Finished, Keeps
<1>18. WholeUnlessLoose' /\ DeclarationsResolve'
  <2>1. \A m \in Names \ loose' : m \in Listed(file') <=> m \in Listed(file)
    BY <1>9 DEF Listed
  <2> QED
    BY <1>1, <1>5, <1>9, <2>1 DEF IInv, Whole, WholeUnlessLoose,
       DeclarationsResolve, Scopes
<1>19. ListedPluginsHaveFiles'
  <2>1. CASE Listed(file') \subseteq Listed(object)
    BY <1>7, <1>12, <2>1 DEF Backed, ListedPluginsHaveFiles, Covered
  <2>2. CASE file' = file
    BY <1>1, <1>5, <2>2 DEF IInv, Whole, ListedPluginsHaveFiles
  <2> QED
    BY <1>7, <2>1, <2>2
<1> QED
  BY <1>1, <1>7, <1>8, <1>10, <1>12, <1>13, <1>14, <1>15, <1>16, <1>17, <1>18,
     <1>19, OneCommand DEF Sound, Whole, Keeps

\* The map read, or read before, is changed for the plugin in hand only.
LEMMA ReadMapKeeps ==
    ASSUME IInv, NEW p \in Procs, ReadMap(p)
    PROVE  IInv'
PROOF
<1>1. /\ TypeOK /\ Running(p) /\ At(p, "readMap") /\ Sound(p) /\ Placed(p)
      /\ UNCHANGED <<workspace, started, history>>
      /\ UNCHANGED <<file, dir, importMap, declared, clone, loose, raced, elsewhere>>
      /\ proc[p] \in Commands
  BY Fields DEF ReadMap, IInv, At, Sound, workspace, history
<1>2. CASE Ends(p)
  <2>1. /\ proc' \in [Procs -> {Idle} \cup Commands] /\ ~Running(p)'
        /\ \A q \in Procs \ {p} : proc'[q] = proc[q]
    BY <1>1, <1>2, Ended
  <2> QED
    BY <1>1, <2>1, Quiet DEF Sound
<1>3. ASSUME NEW map \in [Names -> 0 .. Partial],
             proc' = [proc EXCEPT ![p].at = "writeMap", ![p].map = map],
             \A m \in Names :
                \/ Busy(p) /\ m = Current(p)
                \/ map[m] = importMap[m]
                \/ proc[p].map # Unread /\ map[m] = proc[p].map[m],
             Busy(p) => map[Current(p)] = Entry(p)
      PROVE  IInv'
  <2>1. /\ proc'[p] = [proc[p] EXCEPT !.at = "writeMap", !.map = map]
        /\ \A q \in Procs \ {p} : proc'[q] = proc[q]
    BY <1>1, <1>3 DEF TypeOK
  <2>2. proc'[p] \in Commands
    <3>1. map \in [Names -> 0 .. Partial] \cup {Unread}
      BY <1>3
    <3> QED
      BY <1>1, <2>1, <3>1 DEF Commands
  <2>3. proc' \in [Procs -> {Idle} \cup Commands]
    BY <1>1, <1>3, <2>1, <2>2 DEF TypeOK
  <2>4. /\ Running(p)' /\ proc'[p].at = "writeMap" /\ Keeps(p)
        /\ proc'[p].todo = proc[p].todo /\ proc'[p].done = proc[p].done
        /\ proc'[p].object = proc[p].object /\ proc'[p].map = map
    BY <1>1, <2>1 DEF Commands, Running, Keeps
  <2>5. /\ Current(p)' = Current(p) /\ Cmd(p)' = Cmd(p)
        /\ Busy(p)' <=> Busy(p)
    BY <1>1, <2>4 DEF Current, Cmd, Keeps, Busy, At
  <2>6. Marked(p)' /\ Copied(p)' /\ Backed(p)' /\ Finished(p)'
    BY <1>1, <2>4, <2>5 DEF Sound, Marked, Copied, Backed, Finished, Covered, Keeps
  <2>7. Placed(p)'
    BY <1>1, <2>4, <2>5 DEF Placed, Keeps, At, Busy
  <2>8. Mapped(p)'
    <3>1. ASSUME NEW n \in Names, n \notin loose
          PROVE  map[n] = importMap[n]
      BY <1>1, <1>3, <3>1 DEF Sound, Placed, Mapped, At
    <3>2. ASSUME NEW n \in Names, proc[p].alone, ~(Busy(p) /\ n = Current(p))
          PROVE  map[n] = importMap[n]
      BY <1>1, <1>3, <3>2 DEF Sound, Mapped, At
    <3> QED
      BY <1>1, <1>3, <2>4, <2>5, <3>1, <3>2 DEF Mapped, Keeps, At
  <2>9. Progress(p)'
    BY <1>1, <1>3, <2>4, <2>5 DEF Sound, Progress, Keeps, At, Entry
  <2>10. Sound(p)'
    BY <2>6, <2>7, <2>8, <2>9 DEF Sound
  <2> QED
    BY <1>1, <2>3, <2>4, <2>10, Quiet DEF Keeps
<1>4. CASE /\ Cmd(p) = "core"
           /\ proc' = [proc EXCEPT ![p].at = "writeMap", ![p].map = importMap]
  BY <1>1, <1>3, <1>4 DEF TypeOK, Busy
<1>5. CASE /\ Cmd(p) # "core"
           /\ proc' = [proc EXCEPT ![p].at = "writeMap",
                         ![p].map = [Imported(p) EXCEPT ![Current(p)] = Entry(p)]]
  <2>1. Busy(p) /\ proc[p].todo # <<>>
    BY <1>1, <1>5 DEF Placed, Busy, At
  <2>2. PICK n \in Names : n = Current(p)
    BY <1>1, <2>1, InHand
  <2>3. Entry(p) \in 0 .. Partial
    BY <1>1, <2>2, PluginAssumption DEF Entry, TypeOK, Partial
  <2>4. Imported(p) \in [Names -> 0 .. Partial]
    BY <1>1 DEF Imported, TypeOK, Commands
  <2>5. PICK map \in [Names -> 0 .. Partial] :
          map = [Imported(p) EXCEPT ![n] = Entry(p)]
    BY <2>3, <2>4
  <2>6. /\ map[n] = Entry(p)
        /\ \A m \in Names \ {n} : map[m] = Imported(p)[m]
    BY <2>4, <2>5
  <2>7. \A m \in Names \ {n} :
           \/ map[m] = importMap[m]
           \/ proc[p].map # Unread /\ map[m] = proc[p].map[m]
    <3>1. CASE proc[p].map = Unread
      BY <2>6, <3>1 DEF Imported
    <3>2. CASE proc[p].map # Unread
      BY <2>6, <3>2 DEF Imported
    <3> QED
      BY <3>1, <3>2
  <2> QED
    BY <1>3, <1>5, <2>1, <2>2, <2>5, <2>6, <2>7
<1> QED
  BY <1>2, <1>4, <1>5 DEF ReadMap

\* A command overwrites the import map; what is in order it leaves as it is.
LEMMA WriteMapKeeps ==
    ASSUME IInv, NEW p \in Procs, WriteMap(p)
    PROVE  IInv'
PROOF
<1>1. /\ TypeOK /\ Running(p) /\ Sound(p) /\ Placed(p)
      /\ At(p, "writeMap") \/ At(p, "writeAgain")
      /\ importMap' = proc[p].map
      /\ UNCHANGED <<file, dir, declared, clone, started, loose, raced, elsewhere>>
  BY DEF WriteMap, IInv, At, Sound, history
<1>2. importMap' \in [Names -> 0 .. Partial]
  BY <1>1 DEF Sound, Mapped
<1>3. \A m \in Names :
        /\ proc[p].map # Unread
        /\ m \notin loose => importMap'[m] = importMap[m]
        /\ proc[p].alone /\ ~(Busy(p) /\ m = Current(p)) =>
             importMap'[m] = importMap[m]
  <2> SUFFICES ASSUME NEW m \in Names
               PROVE  /\ proc[p].map # Unread
                      /\ m \notin loose => importMap'[m] = importMap[m]
                      /\ proc[p].alone /\ ~(Busy(p) /\ m = Current(p)) =>
                           importMap'[m] = importMap[m]
    OBVIOUS
  <2>1. proc[p].map[m] # Unread[m]
    BY <1>1, <1>2, PluginAssumption DEF Unread, Partial
  <2>2. proc[p].map # Unread
    BY <2>1
  <2> QED
    BY <1>1, <2>2 DEF Sound, Mapped
<1>4. \A m \in Names : Covered(m)' <=> Covered(m)
  BY <1>1 DEF Covered
<1>5. Respects
  BY <1>1, <1>3, <1>4 DEF Respects
<1>6. Whole'
  BY <1>1, <1>3 DEF IInv, Whole, WholeUnlessLoose, ListedPluginsHaveFiles,
     GlobalPluginsKeepTheirSource, DeclarationsResolve
\* A command that goes on has in its map what is now in the file.
<1>7. ASSUME Running(p)', Keeps(p), proc'[p].object = proc[p].object,
             proc'[p].map = proc[p].map
      PROVE  Marked(p)' /\ Copied(p)' /\ Backed(p)' /\ Mapped(p)'
  <2>1. Marked(p)' /\ Copied(p)' /\ Backed(p)'
    BY <1>1, <1>7 DEF Sound, Marked, Copied, Backed, Covered, Keeps, Cmd
  <2>2. Mapped(p)'
    BY <1>1, <1>2, <1>7 DEF Mapped, Keeps
  <2> QED
    BY <2>1, <2>2
<1>8. CASE Ends(p)
  <2>1. TypeOK'
    BY <1>1, <1>2, <1>8, Ended DEF TypeOK
  <2> QED
    BY <1>1, <1>5, <1>6, <1>8, <2>1, OneCommandEnds
<1>9. ASSUME NEW place \in {"removeDir", "writeAgain"}, Goes(p, place),
             \/ Cmd(p) = "remove" /\ place = "removeDir"
             \/ Cmd(p) = "update" /\ place = "writeAgain"
      PROVE  IInv'
  <2>1. /\ proc' \in [Procs -> {Idle} \cup Commands]
        /\ Running(p)' /\ proc'[p].at = place /\ Keeps(p)
        /\ proc'[p].todo = proc[p].todo /\ proc'[p].done = proc[p].done
        /\ proc'[p].object = proc[p].object /\ proc'[p].map = proc[p].map
    BY <1>1, <1>9, GoneOn DEF Places
  <2>2. Current(p)' = Current(p) /\ Cmd(p)' = Cmd(p) /\ Busy(p) /\ Busy(p)'
    BY <1>1, <1>9, <2>1 DEF Current, Cmd, Keeps, Busy, At
  <2>3. PICK n \in Names : n = Current(p)
    BY <1>1, <2>2, InHand DEF Placed
  <2>4. TypeOK'
    BY <1>1, <1>2, <2>1 DEF TypeOK
  <2>5. Placed(p)'
    BY <1>1, <1>9, <2>1, <2>2 DEF Placed, Keeps, At
  <2>6. Progress(p)'
    <3>1. CASE Cmd(p) = "remove" /\ place = "removeDir"
      <4>1. At(p, "writeMap")
        BY <1>1, <3>1 DEF Placed, At
      <4> QED
        BY <1>1, <2>1, <2>2, <3>1, <4>1 DEF Sound, Progress, Keeps, At
    <3>2. CASE Cmd(p) = "update" /\ place = "writeAgain"
      BY <1>1, <2>1, <2>2, <3>2 DEF Sound, Progress, Keeps, At
    <3> QED
      BY <1>9, <3>1, <3>2
  <2>7. Finished(p)'
    <3>1. proc[p].done \subseteq Names
      BY <1>1, Fields
    <3> QED
      BY <1>1, <1>3, <2>1, <2>2, <2>3, <3>1 DEF Sound, Finished, Keeps
  <2>8. Sound(p)'
    BY <1>7, <2>1, <2>5, <2>6, <2>7 DEF Sound
  <2> QED
    BY <1>1, <1>5, <1>6, <2>1, <2>4, <2>8, OneCommand DEF Keeps
<1>10. CASE Cmd(p) \in {"add", "update"} /\ NextPlugin(p)
  <2>1. Busy(p) /\ proc[p].todo # <<>>
    BY <1>1, <1>10 DEF Placed, Busy, At
  <2>2. PICK n \in Names : n = Current(p)
    BY <1>1, <2>1, InHand
  <2>3. /\ proc' \in [Procs -> {Idle} \cup Commands]
        /\ Running(p)' /\ proc'[p].at = "next" /\ Keeps(p)
        /\ proc'[p].todo = Tail(proc[p].todo)
        /\ proc'[p].done = proc[p].done \cup {n}
        /\ proc'[p].object = proc[p].object /\ proc'[p].map = proc[p].map
    BY <1>1, <1>10, <2>1, <2>2, GoneToNext
  <2>4. Cmd(p)' = Cmd(p) /\ ~Busy(p)'
    BY <2>3 DEF Cmd, Keeps, Busy
  <2>5. TypeOK'
    BY <1>1, <1>2, <2>3 DEF TypeOK
  <2>6. Placed(p)'
    BY <1>1, <1>10, <2>1, <2>3, <2>4, InHand DEF Placed, Keeps, At
  <2>7. Progress(p)'
    BY <2>4 DEF Progress
  <2>8. Finished(p)'
    <3>1. proc[p].alone =>
            importMap'[n] = dir[n] /\ dir[n] # 0 /\ n \in Listed(file)
      BY <1>1, <1>10, <2>1, <2>2 DEF Sound, Progress, At
    <3>2. proc[p].done \subseteq Names
      BY <1>1, Fields
    <3> QED
      BY <1>1, <1>3, <1>10, <2>1, <2>2, <2>3, <2>4, <3>1, <3>2
         DEF Sound, Finished, Keeps
  <2>9. Sound(p)'
    BY <1>7, <2>3, <2>6, <2>7, <2>8 DEF Sound
  <2> QED
    BY <1>1, <1>5, <1>6, <2>3, <2>5, <2>9, OneCommand DEF Keeps
<1>11. Cmd(p) \in {"add", "remove", "update", "core"}
  BY <1>1, Fields DEF Cmd
<1> QED
  BY <1>1, <1>8, <1>9, <1>10, <1>11 DEF WriteMap, At

\* A folder leaves after its list; who may still list it is excepted.
LEMMA RemoveDirKeeps ==
    ASSUME IInv, NEW p \in Procs, RemoveDir(p)
    PROVE  IInv'
PROOF
<1>1. /\ TypeOK /\ Running(p) /\ At(p, "removeDir") /\ Sound(p) /\ Placed(p)
      /\ UNCHANGED <<file, importMap, declared, clone, started, history>>
      /\ UNCHANGED <<loose, raced, elsewhere>>
  BY DEF RemoveDir, IInv, At, Sound, history
<1>2. Busy(p) /\ Cmd(p) = "remove" /\ proc[p].todo # <<>>
  BY <1>1 DEF Placed, Busy, At, Cmd
<1>3. PICK n \in Names : n = Current(p) /\ n \in proc[p].asked /\ n \in loose
  BY <1>1, <1>2, InHand DEF Placed, At
<1>4. /\ dir' \in [Names -> 0 .. Partial] /\ dir'[n] = 0
      /\ \A m \in Names \ {n} : dir'[m] = dir[m]
  BY <1>1, <1>3, PluginAssumption DEF RemoveDir, TypeOK, Partial
<1>5. /\ ~proc[p].alone => n \in raced
      /\ proc[p].alone => (n \in Listed(file) => n \in elsewhere) /\ importMap[n] = 0
      /\ proc[p].alone => Listed(proc[p].object) = Listed(file)
  BY <1>1, <1>2, <1>3 DEF Sound, Marked, Progress, Copied, At, Listed
<1>6. \A m \in Names : Covered(m) /\ (m = n => ~proc[p].alone) => Covered(m)'
  BY <1>1, <1>4, <1>5 DEF Covered
<1>7. ~proc[p].alone => Respects
  BY <1>1, <1>6 DEF Respects
<1>8. WholeUnlessLoose' /\ DeclarationsResolve' /\ GlobalPluginsKeepTheirSource'
  BY <1>1, <1>3, <1>4 DEF IInv, Whole, WholeUnlessLoose, DeclarationsResolve,
     GlobalPluginsKeepTheirSource
<1>9. \A m \in Listed(file) : Covered(m)'
  <2>1. \A m \in Listed(file) : Covered(m)
    BY <1>1 DEF IInv, Whole, ListedPluginsHaveFiles, Covered
  <2> QED
    BY <1>1, <1>5, <1>6, <2>1, ListedAreNames DEF Covered
<1>10. ListedPluginsHaveFiles'
  BY <1>1, <1>9 DEF ListedPluginsHaveFiles, Covered
<1>11. CASE NextPlugin(p)
  <2>1. /\ proc' \in [Procs -> {Idle} \cup Commands]
        /\ Running(p)' /\ proc'[p].at = "next" /\ Keeps(p)
        /\ proc'[p].todo = Tail(proc[p].todo)
        /\ proc'[p].done = proc[p].done \cup {n}
        /\ proc'[p].object = proc[p].object /\ proc'[p].map = proc[p].map
    BY <1>1, <1>2, <1>3, <1>11, GoneToNext
  <2>2. Cmd(p)' = Cmd(p) /\ ~Busy(p)'
    BY <2>1 DEF Cmd, Keeps, Busy
  <2>3. TypeOK'
    BY <1>1, <1>4, <2>1 DEF TypeOK, history
  <2>4. Marked(p)' /\ Copied(p)'
    BY <1>1, <2>1, <2>2 DEF Sound, Marked, Copied, Keeps
  <2>5. Mapped(p)'
    BY <1>1, <2>1, <2>2 DEF Sound, Mapped, Keeps, At
  <2>6. Placed(p)'
    BY <1>1, <1>2, <2>1, <2>2, InHand DEF Placed, Keeps, At
  <2>7. Progress(p)'
    BY <2>2 DEF Progress
  <2>8. Finished(p)'
    <3>1. proc[p].done \subseteq Names
      BY <1>1, Fields
    <3> QED
      BY <1>1, <1>2, <1>3, <1>4, <1>5, <2>1, <2>2, <3>1
         DEF Sound, Finished, Keeps
  <2>9. Backed(p)'
    <3>1. Listed(proc[p].object) \subseteq Names
      BY <1>1, Fields DEF Sequences, Listed
    <3>2. CASE proc[p].alone
      BY <1>5, <1>9, <2>1, <3>2 DEF Backed
    <3>3. CASE ~proc[p].alone
      BY <1>1, <1>6, <2>1, <3>1, <3>3 DEF Sound, Backed
    <3> QED
      BY <3>2, <3>3
  <2>10. Sound(p)'
    BY <2>4, <2>5, <2>6, <2>7, <2>8, <2>9 DEF Sound
  <2> QED
    BY <1>1, <1>7, <1>8, <1>10, <2>1, <2>3, <2>10, OneCommand DEF Whole, Keeps
<1>12. CASE Ends(p)
  <2>1. TypeOK'
    BY <1>1, <1>4, <1>12, Ended DEF TypeOK, history
  <2> QED
    BY <1>1, <1>7, <1>8, <1>10, <1>12, <2>1, OneCommandEnds DEF Whole
<1> QED
  BY <1>11, <1>12 DEF RemoveDir

\* A command that ends well leaves what it was about in order.
LEMMA DeclareKeeps ==
    ASSUME IInv, NEW p \in Procs, Declare(p)
    PROVE  IInv'
PROOF
<1>1. /\ TypeOK /\ Running(p) /\ At(p, "next") /\ Sound(p)
      /\ Cmd(p) # "core" /\ Ends(p) /\ ~Busy(p)
      /\ UNCHANGED <<file, dir, importMap, clone, started, raced, elsewhere>>
  BY DEF Declare, IInv, At, Sound, Placed, Busy
<1>2. /\ declared' = {n \in Includes(proc[p].object, Env) \cap Declaring : dir[n] # 0}
      /\ loose' \subseteq loose
      /\ ~proc[p].alone => loose' = loose
      /\ \A n \in loose \ loose' :
            /\ proc[p].alone /\ n \in proc[p].done
            /\ Cmd(p) = "remove" => n \notin elsewhere
  BY DEF Declare
<1>3. TypeOK'
  BY <1>1, <1>2, Ended DEF TypeOK
<1>4. ~proc[p].alone => Respects
  BY <1>1, <1>2 DEF Respects, Covered
<1>5. \A n \in Names \ loose' :
        /\ importMap[n] = dir[n] /\ (n \in Listed(file) <=> dir[n] # 0)
        /\ n \in file.listed["global"] => n \in proc[p].object.listed["global"]
  <2> SUFFICES ASSUME NEW n \in Names, n \notin loose'
               PROVE  /\ importMap[n] = dir[n]
                      /\ (n \in Listed(file) <=> dir[n] # 0)
                      /\ n \in file.listed["global"] =>
                           n \in proc[p].object.listed["global"]
    OBVIOUS
  <2>1. CASE n \notin loose
    BY <1>1, <2>1 DEF IInv, Whole, WholeUnlessLoose, Sound, Copied, Scopes
  <2>2. CASE n \in loose
    <3>1. /\ proc[p].alone /\ n \in proc[p].done
          /\ Cmd(p) = "remove" => n \notin elsewhere
      BY <1>2, <2>2
    <3>2. proc[p].object.listed = file.listed
      BY <1>1, <3>1 DEF Sound, Copied
    <3> QED
      BY <1>1, <3>1, <3>2 DEF Sound, Finished
  <2> QED
    BY <2>1, <2>2
<1>6. WholeUnlessLoose'
  BY <1>1, <1>5 DEF WholeUnlessLoose
<1>7. DeclarationsResolve'
  <2>1. file.listed["global"] \subseteq Listed(file)
    BY DEF Listed, Scopes
  <2> QED
    BY <1>1, <1>2, <1>5, <2>1 DEF DeclarationsResolve, Includes
<1>8. ListedPluginsHaveFiles' /\ GlobalPluginsKeepTheirSource'
  BY <1>1 DEF IInv, Whole, ListedPluginsHaveFiles, GlobalPluginsKeepTheirSource
<1> QED
  BY <1>1, <1>3, <1>4, <1>6, <1>7, <1>8, OneCommandEnds DEF Whole

\* A command that starts marks what it and those beside it are about.
LEMMA StartKeeps ==
    ASSUME IInv, NEW p \in Procs, NEW scope \in Scopes, NEW force \in BOOLEAN,
           NEW cmd, NEW list \in Seq(Names), Start(p, cmd, scope, force, list),
           \/ cmd \in {"add", "remove", "update"}
           \/ cmd = "core" /\ list = <<>>
    PROVE  IInv'
PROOF
<1> DEFINE others == {q \in Procs : Running(q)}
           mine == IF cmd = "core" THEN {} ELSE {list[i] : i \in DOMAIN list}
           names == mine \cup UNION {proc[q].asked : q \in others}
           object == Picked(file, Env)
           new == [at |-> IF cmd = "core" THEN "readMap" ELSE "next",
                   cmd |-> cmd, scope |-> scope, force |-> force,
                   todo |-> IF cmd = "core" THEN <<>> ELSE list,
                   asked |-> mine, object |-> object, map |-> Unread,
                   done |-> {}, alone |-> others = {}]
<1>1. /\ ~Running(p) /\ started < MaxCommands /\ started' = started + 1
      /\ cmd \in {"remove", "update"} => mine \subseteq Includes(object, Env)
      /\ proc' = [q \in Procs |->
                    CASE q = p -> new
                      [] q \in others -> [proc[q] EXCEPT !.alone = FALSE]
                      [] OTHER -> proc[q]]
      /\ raced' = IF others = {} THEN raced
                  ELSE raced \cup mine \cup UNION {proc[q].asked : q \in others}
      /\ loose' = IF others = {} THEN loose
                  ELSE loose \cup mine \cup UNION {proc[q].asked : q \in others}
      /\ UNCHANGED <<file, dir, importMap, declared, clone, elsewhere>>
  BY DEF Start, workspace
<1>2. /\ object \in Sequences /\ object.listed = file.listed
      /\ Listed(object) = Listed(file)
      /\ object.listed["global"] \subseteq object.props
  <2>1. file \in Sequences /\ file.listed["global"] \subseteq file.props
    BY DEF IInv, TypeOK, Whole, GlobalPluginsKeepTheirSource
  <2> QED
    BY <2>1, PickedIs, PluginAssumption
<1>3. p \notin others
  BY <1>1
<1>4. mine \subseteq Names
  OBVIOUS
<1>5. new \in Commands
  <2>1. <<>> \in Seq(Names) /\ new.todo \in Seq(Names)
    OBVIOUS
  <2> QED
    BY <1>2, <1>4, <2>1 DEF Commands
<1> HIDE DEF object
<1>6. /\ others = {} => new.alone = TRUE
      /\ others # {} => new.alone = FALSE
  OBVIOUS
<1>7. /\ proc'[p] = new
      /\ \A q \in others : proc'[q] = [proc[q] EXCEPT !.alone = FALSE]
      /\ \A q \in Procs \ (others \cup {p}) : proc'[q] = proc[q]
  BY <1>1, <1>3
<1>8. \A q \in others :
        /\ proc[q] \in Commands /\ proc'[q] \in Commands
        /\ Running(q) /\ Running(q)' /\ ~proc'[q].alone
        /\ proc'[q].at = proc[q].at /\ proc'[q].cmd = proc[q].cmd
        /\ proc'[q].scope = proc[q].scope /\ proc'[q].todo = proc[q].todo
        /\ proc'[q].asked = proc[q].asked /\ proc'[q].object = proc[q].object
        /\ proc'[q].map = proc[q].map /\ proc'[q].done = proc[q].done
  <2> SUFFICES ASSUME NEW q \in others
               PROVE  /\ proc[q] \in Commands /\ proc'[q] \in Commands
                      /\ Running(q) /\ Running(q)' /\ ~proc'[q].alone
                      /\ proc'[q].at = proc[q].at /\ proc'[q].cmd = proc[q].cmd
                      /\ proc'[q].scope = proc[q].scope
                      /\ proc'[q].todo = proc[q].todo
                      /\ proc'[q].asked = proc[q].asked
                      /\ proc'[q].object = proc[q].object
                      /\ proc'[q].map = proc[q].map
                      /\ proc'[q].done = proc[q].done
    OBVIOUS
  <2>1. proc[q] \in Commands /\ proc'[q] = [proc[q] EXCEPT !.alone = FALSE]
    BY <1>7, Fields DEF IInv
  <2> QED
    BY <2>1 DEF Commands, Running
<1>9. names \subseteq Names
  BY <1>4, <1>8, Fields DEF IInv
<1>10. /\ raced' \in SUBSET Names /\ loose' \in SUBSET Names
       /\ raced \subseteq raced' /\ loose \subseteq loose'
       /\ others # {} => names \subseteq raced' \cap loose'
  BY <1>1, <1>9 DEF IInv, TypeOK
<1>11. \A m \in Names : Covered(m) => Covered(m)'
  BY <1>1, <1>10 DEF Covered
<1>12. TypeOK'
  <2>1. proc' \in [Procs -> {Idle} \cup Commands]
    BY <1>1, <1>5, <1>7, <1>8 DEF IInv, TypeOK
  <2>2. started' \in 0 .. MaxCommands
    BY <1>1, PluginAssumption DEF IInv, TypeOK
  <2> QED
    BY <2>1, <2>2, <1>1, <1>10 DEF IInv, TypeOK
<1>13. Respects
  BY <1>1, <1>10, <1>11 DEF Respects
<1>14. Apart'
  <2> SUFFICES ASSUME NEW q \in Procs, NEW r \in Procs, q # r,
                      Running(q)', Running(r)'
               PROVE  ~proc'[q].alone
    BY DEF Apart
  <2>1. CASE q \in others
    BY <2>1, <1>8
  <2>2. CASE q = p
    <3>1. r \in others
      BY <2>2, <1>7 DEF Running
    <3> QED
      BY <3>1, <2>2, <1>6, <1>7
  <2>3. CASE q \notin others \cup {p}
    BY <2>3, <1>7 DEF Running
  <2> QED
    BY <2>1, <2>2, <2>3
<1>15. Sound(p)'
  <2>1. /\ proc'[p].at = IF cmd = "core" THEN "readMap" ELSE "next"
        /\ proc'[p].cmd = cmd /\ proc'[p].scope = scope
        /\ proc'[p].todo = IF cmd = "core" THEN <<>> ELSE list
        /\ proc'[p].asked = mine /\ proc'[p].object = object
        /\ proc'[p].map = Unread /\ proc'[p].done = {}
    BY <1>7
  <2>2. Cmd(p)' = cmd /\ ~Busy(p)'
    BY <2>1 DEF Cmd, Busy
  <2>3. Marked(p)'
    <3>1. CASE others = {}
      <4>1. new.alone = TRUE /\ proc'[p] = new
        BY <3>1, <1>6, <1>7
      <4> HIDE DEF new, others
      <4>2. proc'[p].alone = TRUE
        BY <4>1
      <4> QED
        BY <4>2 DEF Marked
    <3>2. CASE others # {}
      BY <3>2, <2>1, <1>10 DEF Marked
    <3> QED
      BY <3>1, <3>2
  <2>4. Placed(p)'
    BY <2>1, <2>2 DEF Placed, At
  <2> HIDE DEF mine, new, others
  <2>5. Copied(p)'
    BY <2>1, <2>2, <1>1, <1>2 DEF Copied
  <2>6. Mapped(p)'
    BY <2>1 DEF Mapped, At
  <2>7. Progress(p)' /\ Finished(p)'
    BY <2>1, <2>2 DEF Progress, Finished
  <2>8. Backed(p)'
    <3>1. \A m \in Listed(file) : m \in Names /\ Covered(m)
      BY ListedAreNames DEF IInv, Whole, ListedPluginsHaveFiles, Covered
    <3> QED
      BY <2>1, <1>2, <1>11, <3>1 DEF Backed
  <2> QED
    BY <2>3, <2>4, <2>5, <2>6, <2>7, <2>8 DEF Sound
\* For the others the step is one beside them: as if they had not been alone.
<1>16. ASSUME NEW q \in others PROVE Sound(q)'
  <2>1. Sound(q) /\ Placed(q) /\ proc[q].asked \subseteq raced' \cap loose'
    BY <1>8, <1>10 DEF IInv, Sound
  <2>2. /\ Running(q) /\ Running(q)' /\ Cmd(q)' = Cmd(q) /\ Current(q)' = Current(q)
        /\ Busy(q)' <=> Busy(q)
        /\ \A place \in Places : At(q, place)' <=> At(q, place)
    BY <1>8 DEF Running, At, Cmd, Current, Busy
  <2>3. Marked(q)' /\ Progress(q)' /\ Finished(q)'
    BY <1>8, <2>1 DEF Marked, Progress, Finished
  <2>4. Placed(q)'
    BY <1>1, <1>8, <1>10, <2>1, <2>2 DEF Placed, Places, Cmd
  <2>5. Copied(q)' /\ Mapped(q)'
    BY <1>1, <1>8, <1>10, <2>1, <2>2 DEF Sound, Copied, Mapped, Places
  <2>6. Backed(q)'
    <3>1. Listed(proc[q].object) \subseteq Names
      BY <2>2, Fields DEF IInv, Sequences, Listed
    <3> QED
      BY <1>8, <1>11, <2>1, <2>2, <3>1 DEF Sound, Backed
  <2> QED
    BY <2>3, <2>4, <2>5, <2>6 DEF Sound
<1>17. ASSUME NEW q \in Procs \ (others \cup {p}) PROVE Sound(q)'
  BY <1>7 DEF Sound, Running
<1>18. Whole'
  BY <1>1, <1>10 DEF IInv, Whole, WholeUnlessLoose, ListedPluginsHaveFiles,
     GlobalPluginsKeepTheirSource, DeclarationsResolve
<1> QED
  BY <1>12, <1>14, <1>15, <1>16, <1>17, <1>18 DEF IInv
-----------------------------------------------------------------------------
LEMMA InitHolds == Init => IInv
PROOF
<1> SUFFICES ASSUME Init PROVE IInv
  OBVIOUS
<1>1. PICK plugins \in SUBSET Mapping, kept \in SUBSET Names :
        /\ file = [listed |-> [e \in Scopes |->
                       IF e = "global" THEN plugins ELSE {}],
                   props |-> plugins]
        /\ dir = [n \in Names |-> IF n \in plugins THEN 1 ELSE 0]
        /\ importMap = dir
        /\ clone = [n \in Names |-> IF n \in kept THEN 1 ELSE 0]
        /\ declared = plugins \cap Declaring
  <2>1. PICK plugins \in SUBSET Mapping : \E kept \in {{}, plugins} :
        /\ file = [listed |-> [e \in Scopes |->
                       IF e = "global" THEN plugins ELSE {}],
                   props |-> plugins]
        /\ dir = [n \in Names |-> IF n \in plugins THEN 1 ELSE 0]
        /\ importMap = dir
        /\ clone = [n \in Names |-> IF n \in kept THEN 1 ELSE 0]
        /\ declared = plugins \cap Declaring
    BY DEF Init
  <2>2. {} \in SUBSET Names /\ plugins \in SUBSET Names
    BY PluginAssumption
  <2> QED
    BY <2>1, <2>2
<1>2. \A p \in Procs : ~Running(p)
  BY DEF Init, Running, Idle
<1>3. plugins \subseteq Names /\ MaxVersion \in Nat \ {0} /\ MaxCommands \in Nat
  BY PluginAssumption
<1>4. /\ file \in Sequences /\ Listed(file) = plugins
      /\ file.listed["global"] = plugins /\ file.props = plugins
  BY <1>1, <1>3 DEF Sequences, Listed, Scopes
<1>5. dir \in [Names -> 0 .. Partial] /\ \A n \in Names : dir[n] # 0 <=> n \in plugins
  BY <1>1, <1>3 DEF Partial
<1>6. clone \in [Names -> Versions]
  BY <1>1, <1>3 DEF Versions
<1>7. TypeOK
  BY <1>1, <1>3, <1>4, <1>5, <1>6 DEF Init, TypeOK
<1>8. Whole
  BY <1>1, <1>3, <1>4, <1>5 DEF Whole, WholeUnlessLoose, ListedPluginsHaveFiles,
     GlobalPluginsKeepTheirSource, DeclarationsResolve
<1> QED
  BY <1>2, <1>7, <1>8 DEF IInv, Apart, Sound

\* Every command starts as StartKeeps asks.
LEMMA StartsKeep ==
    ASSUME IInv, NEW p \in Procs,
           \/ \E cmd \in {"add", "remove"}, scope \in Scopes, list \in Lists :
                 Start(p, cmd, scope, FALSE, list)
           \/ \E force \in BOOLEAN, list \in Lists :
                 Start(p, "update", "global", force, list)
           \/ Start(p, "core", "global", FALSE, <<>>)
    PROVE  IInv'
PROOF
<1>1. Lists \subseteq Seq(Names) /\ <<>> \in Seq(Names) /\ "global" \in Scopes
  BY PluginAssumption DEF Scopes
<1> QED
  BY <1>1, StartKeeps

LEMMA StepKeeps == IInv /\ [Next]_vars => IInv'
PROOF
<1> SUFFICES ASSUME IInv, [Next]_vars PROVE IInv'
  OBVIOUS
<1>1. ASSUME NEW p \in Procs, Run(p) PROVE IInv'
  BY <1>1, StartsKeep, FetchToAddKeeps, FetchToUpdateKeeps, CopyKeeps, ListKeeps,
     UnlistKeeps, ReadMapKeeps, WriteMapKeeps, RemoveDirKeeps, DeclareKeeps,
     FailKeeps DEF Run
<1>2. CASE UNCHANGED vars
  <2>1. TypeOK' /\ Apart' /\ Whole'
    BY <1>2 DEF vars, workspace, history, IInv, TypeOK, Apart, Running, Whole,
       WholeUnlessLoose, ListedPluginsHaveFiles, GlobalPluginsKeepTheirSource,
       DeclarationsResolve
  <2>2. ASSUME NEW p \in Procs PROVE Sound(p)'
    BY <1>2 DEF vars, workspace, history, IInv, Sound, Running, At, Cmd, Current,
       Busy, Marked, Placed, Copied, Mapped, Progress, Finished, Covered, Backed
  <2> QED
    BY <2>1, <2>2 DEF IInv
<1> QED
  BY <1>1, <1>2 DEF Next

\* The invariant holds of every reachable state.
THEOREM Invariant == Spec => []IInv
  BY InitHolds, StepKeeps, PTL DEF Spec

\* Whatever commands run and fail, the file, the folders, the import map and the
\* commands are well typed, and only plugins that can be are declared.
THEOREM TypeCorrect == Spec => []TypeOK
PROOF
<1>1. IInv => TypeOK
  BY DEF IInv
<1> QED
  BY <1>1, Invariant, PTL

\* For any number of commands, terminals and plugins, list, folder and import map
\* agree on a plugin that no command has left unfinished.
THEOREM WholeCorrect == Spec => []WholeUnlessLoose
PROOF
<1>1. IInv => WholeUnlessLoose
  BY DEF IInv, Whole
<1> QED
  BY <1>1, Invariant, PTL

\* What is listed has its folder, but for the two exceptions.
THEOREM FilesCorrect == Spec => []ListedPluginsHaveFiles
PROOF
<1>1. IInv => ListedPluginsHaveFiles
  BY DEF IInv, Whole
<1> QED
  BY <1>1, Invariant, PTL

\* No command drops the source of a plugin listed for all environments.
THEOREM SourcesCorrect == Spec => []GlobalPluginsKeepTheirSource
PROOF
<1>1. IInv => GlobalPluginsKeepTheirSource
  BY DEF IInv, Whole
<1> QED
  BY <1>1, Invariant, PTL

\* A plugin in order is declared if it should be, and only if its folder is there.
THEOREM DeclarationsCorrect == Spec => []DeclarationsResolve
PROOF
<1>1. IInv => DeclarationsResolve
  BY DEF IInv, Whole
<1> QED
  BY <1>1, Invariant, PTL
=============================================================================
