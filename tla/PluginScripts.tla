--------------------------- MODULE PluginScripts ---------------------------
(***************************************************************************)
(* The commands that manage the plugins of a project, core/scripts:        *)
(* addPlugin.ts, removePlugin.ts and updatePlugin.ts, and what updateCore  *)
(* does to the import map.                                                 *)
(*                                                                         *)
(* Each command is a process of its own.  It reads plugins/.sequence.json  *)
(* when it starts and writes the whole file back from its own object; the  *)
(* import map it reads once, since the runtime hands out a JSON module it  *)
(* has imported before, and writes back whole too.  Between any two of its *)
(* awaits another command may run, and it may fail or be killed.           *)
(*                                                                         *)
(* A file is what version of the plugin it came from.  What an update      *)
(* leaves behind of an older version, branches, and the plugins that have  *)
(* no deno.json are left out.                                              *)
(***************************************************************************)
EXTENDS SequenceFile, Sequences, FiniteSets

CONSTANTS
    Procs,       \* the terminals commands are started in
    Declaring,   \* plugins that have an index.d.ts
    Mapping,     \* plugins that have an import_map.json
    Env,         \* ENV_TYPE on the machine
    Lists,       \* the lists of plugins commands are given
    MaxVersion,  \* bound: versions published on a plugin's branch
    MaxCommands  \* bound: how many commands are started

ASSUME PluginAssumption ==
    /\ Declaring \subseteq Names /\ Mapping \subseteq Names
    /\ Env \in EnvTypes /\ Lists \subseteq Seq(Names) \ {<<>>}
    /\ MaxVersion \in Nat \ {0} /\ MaxCommands \in Nat

VARIABLES
    file,       \* plugins/.sequence.json
    dir,        \* the version in plugins/<name>; 0 when there is no such folder
    importMap,  \* the version whose imports are the scope of the plugin, or 0
    declared,   \* the references of plugins.d.ts
    clone,      \* the version of _temp/<name>; 0 when there is no clone
    proc,       \* the command each terminal runs
    started,    \* how many commands were started
    loose,      \* history: plugins no command has left in order since one
                \* began to change them
    raced,      \* history: plugins of commands that ran at the same time
    elsewhere   \* history: plugins removed while another environment listed them

workspace == <<file, dir, importMap, declared, clone>>
history == <<loose, raced, elsewhere>>
vars == <<workspace, proc, started, history>>

Versions == 0 .. MaxVersion

\* A folder with some of the files of a version, and perhaps older ones.
Partial == MaxVersion + 1

Idle == [at |-> "idle"]

\* ImportMap, before the import.
Unread == [n \in Names |-> MaxVersion + 2]

Commands ==
    [at : {"next", "copy", "list", "readMap", "writeMap", "writeAgain",
           "removeDir"},
     cmd : {"add", "remove", "update", "core"}, scope : Scopes,
     force : BOOLEAN, todo : Seq(Names), asked : SUBSET Names, object : Sequences,
     map : [Names -> 0 .. Partial] \cup {Unread}, done : SUBSET Names,
     alone : BOOLEAN]

TypeOK ==
    /\ file \in Sequences
    /\ dir \in [Names -> 0 .. Partial] /\ importMap \in [Names -> 0 .. Partial]
    /\ clone \in [Names -> Versions]
    /\ declared \subseteq Declaring
    /\ proc \in [Procs -> {Idle} \cup Commands]
    /\ started \in 0 .. MaxCommands
    /\ loose \subseteq Names /\ raced \subseteq Names
    /\ elsewhere \subseteq Names

\* Some plugins are installed for all environments, some with their clone.
Init ==
    /\ \E plugins \in SUBSET Mapping : \E kept \in {{}, plugins} :
         /\ file = [listed |-> [e \in Scopes |->
                        IF e = "global" THEN plugins ELSE {}],
                    props |-> plugins]
         /\ dir = [n \in Names |-> IF n \in plugins THEN 1 ELSE 0]
         /\ importMap = dir
         /\ clone = [n \in Names |-> IF n \in kept THEN 1 ELSE 0]
         /\ declared = plugins \cap Declaring
    /\ proc = [p \in Procs |-> Idle]
    /\ started = 0
    /\ loose = {} /\ raced = {} /\ elsewhere = {}
-----------------------------------------------------------------------------
Running(p) == proc[p].at # "idle"
At(p, place) == Running(p) /\ proc[p].at = place

Cmd(p) == proc[p].cmd
Current(p) == Head(proc[p].todo)

Goes(p, place) == proc' = [proc EXCEPT ![p].at = place]
Ends(p) == proc' = [proc EXCEPT ![p] = Idle]

\* The loop is done with the current plugin.
NextPlugin(p) ==
    proc' = [proc EXCEPT ![p].at = "next", ![p].todo = Tail(@),
                         ![p].done = @ \cup {Current(p)}]

\* Loader.load, the options, and the prompts, which take their time.  remove
\* and update accept only what the process takes to be included.
Start(p, cmd, scope, force, list) ==
    LET object == Picked(file, Env)
        asked == IF cmd = "core" THEN {} ELSE {list[i] : i \in DOMAIN list}
        others == {q \in Procs : Running(q)}
        theirs == UNION {proc[q].asked : q \in others}
    IN  /\ ~Running(p) /\ started < MaxCommands
        /\ cmd \in {"remove", "update"} => asked \subseteq Includes(object, Env)
        /\ started' = started + 1
        /\ proc' = [q \in Procs |->
             CASE q = p ->
                 [at |-> IF cmd = "core" THEN "readMap" ELSE "next",
                  cmd |-> cmd, scope |-> scope, force |-> force,
                  todo |-> IF cmd = "core" THEN <<>> ELSE list,
                  asked |-> asked, object |-> object, map |-> Unread,
                  done |-> {}, alone |-> others = {}]
             [] q \in others -> [proc[q] EXCEPT !.alone = FALSE]
             [] OTHER -> proc[q]]
        /\ raced' = IF others = {} THEN raced ELSE raced \cup asked \cup theirs
        /\ loose' = IF others = {} THEN loose ELSE loose \cup asked \cup theirs
        /\ UNCHANGED <<workspace, elsewhere>>

\* It is about to remove a folder that is there.
Removing(p) == At(p, "removeDir") /\ dir[Current(p)] # 0

\* The process is killed, or what it awaits fails, which may be in the middle
\* of copying or removing a folder.
Fail(p) ==
    /\ Running(p)
    /\ Ends(p)
    /\ \/ UNCHANGED <<dir, loose>>
       \/ /\ At(p, "copy") \/ Removing(p)
          /\ dir' = [dir EXCEPT ![Current(p)] = Partial]
          /\ loose' = loose \cup {Current(p)}
    /\ UNCHANGED <<file, importMap, declared, clone, started, raced, elsewhere>>
-----------------------------------------------------------------------------
\* What git finds on GitHub, a version no older than the one it found before.
Published(n) == {v \in Versions \ {0} : v >= clone[n]}

\* addPlugin lists the plugin without having copied it.
FetchToAddListing(p) ==
    /\ At(p, "next") /\ Cmd(p) = "add" /\ proc[p].todo # <<>>
    /\ Goes(p, "list")
    /\ UNCHANGED <<workspace, started, history>>

\* addPlugin: what is included already is refused, and a clone that is there
\* already is taken as it is.
FetchToAdd(p) ==
    /\ At(p, "next") /\ Cmd(p) = "add" /\ proc[p].todo # <<>>
    /\ \/ /\ Current(p) \in Includes(proc[p].object, Env)
          /\ Ends(p)
          /\ UNCHANGED clone
       \/ /\ Current(p) \notin Includes(proc[p].object, Env)
          /\ \E v \in Published(Current(p)) :
               clone' = [clone EXCEPT ![Current(p)] = IF @ = 0 THEN v ELSE @]
          /\ Goes(p, "copy")
    /\ UNCHANGED <<file, dir, importMap, declared, started, history>>

\* updatePlugin: it looks up the source, pulls or clones, and passes over a
\* plugin whose clone was up to date already.
FetchToUpdate(p) ==
    /\ At(p, "next") /\ Cmd(p) = "update" /\ proc[p].todo # <<>>
    /\ \/ /\ Current(p) \notin proc[p].object.props
          /\ Ends(p)
          /\ UNCHANGED clone
       \/ /\ Current(p) \in proc[p].object.props
          /\ \E v \in Published(Current(p)) :
               /\ clone' = [clone EXCEPT ![Current(p)] = v]
               /\ IF clone[Current(p)] = v /\ ~proc[p].force
                  THEN proc' = [proc EXCEPT ![p].todo = Tail(@)]
                  ELSE Goes(p, "copy")
    /\ UNCHANGED <<file, dir, importMap, declared, started, history>>

\* setupPlugin copies the files of the clone.
Copy(p) ==
    /\ At(p, "copy")
    /\ dir' = [dir EXCEPT ![Current(p)] = clone[Current(p)]]
    /\ loose' = loose \cup {Current(p)}
    /\ Goes(p, "list")
    /\ UNCHANGED <<file, importMap, declared, clone, started, raced,
                   elsewhere>>

\* ... and adds the plugin to the sequence; an update passes no environment.
Target(p) == IF Cmd(p) = "update" THEN "global" ELSE proc[p].scope

List(p) ==
    LET object == AddedWithProps(proc[p].object, Target(p), Current(p))
    IN  /\ At(p, "list")
        /\ file' = Picked(object, Env)
        /\ proc' = [proc EXCEPT ![p].at = "readMap", ![p].object = object]
        /\ UNCHANGED <<dir, importMap, declared, clone, started,
                       history>>

\* removePlugin takes the name, if it is still included, from the list of the
\* environment it was given.
ListedElsewhere(p) ==
    \E e \in Scopes \ {proc[p].scope} : Current(p) \in file.listed[e]

Unlist(p) ==
    LET object == Deleted(proc[p].object, proc[p].scope, Current(p))
        included == Current(p) \in Includes(proc[p].object, Env)
    IN  /\ At(p, "next") /\ Cmd(p) = "remove" /\ proc[p].todo # <<>>
        /\ IF included
           THEN /\ file' = Picked(object, Env)
                /\ proc' = [proc EXCEPT ![p].at = "readMap",
                                        ![p].object = object]
           ELSE Goes(p, "readMap") /\ UNCHANGED file
        /\ loose' = loose \cup {Current(p)}
        /\ elsewhere' = IF ListedElsewhere(p)
                        THEN elsewhere \cup {Current(p)} ELSE elsewhere
        /\ UNCHANGED <<dir, importMap, declared, clone, started,
                       raced>>

\* addPluginToImportMap, removePluginFromImportMap and mergeImports import the
\* map, the first time from the file, and change the object.
Imported(p) == IF proc[p].map = Unread THEN importMap ELSE proc[p].map

CanMap(n) == n \in Mapping /\ dir[n] # 0

\* removePlugin leaves the entry in the import map.
EntryKept(p) == dir[Current(p)]

Entry(p) == IF Cmd(p) = "remove" THEN 0 ELSE dir[Current(p)]

ReadMap(p) ==
    /\ At(p, "readMap")
    /\ \/ /\ Cmd(p) = "core"
          /\ proc' = [proc EXCEPT ![p].at = "writeMap", ![p].map = importMap]
       \/ /\ Cmd(p) # "core"
          /\ Cmd(p) = "remove" \/ CanMap(Current(p))
          /\ proc' = [proc EXCEPT ![p].at = "writeMap",
                        ![p].map = [Imported(p) EXCEPT ![Current(p)] = Entry(p)]]
       \/ /\ Cmd(p) \in {"add", "update"}
          /\ ~CanMap(Current(p))
          /\ Ends(p)
    /\ UNCHANGED <<workspace, started, history>>

\* ... and write it.  An update does so once more after setupPlugin.
WriteMap(p) ==
    /\ At(p, "writeMap") \/ At(p, "writeAgain")
    /\ importMap' = proc[p].map
    /\ CASE Cmd(p) = "core" -> Ends(p)
         [] Cmd(p) = "remove" -> Goes(p, "removeDir")
         [] Cmd(p) = "update" /\ At(p, "writeMap") -> Goes(p, "writeAgain")
         [] OTHER -> NextPlugin(p)
    /\ UNCHANGED <<file, dir, declared, clone, started, history>>

RemoveDir(p) ==
    /\ At(p, "removeDir")
    /\ IF Removing(p) THEN NextPlugin(p) ELSE Ends(p)
    /\ dir' = [dir EXCEPT ![Current(p)] = 0]
    /\ UNCHANGED <<file, importMap, declared, clone, started, history>>

\* The declarations are added to those that are there.
DeclareMore(p) ==
    /\ At(p, "next") /\ proc[p].todo = <<>>
    /\ declared' = declared \cup {n \in Includes(proc[p].object, Env) \cap Declaring :
                                    dir[n] # 0}
    /\ loose' = IF proc[p].alone THEN loose \ (proc[p].done \ elsewhere) ELSE loose
    /\ Ends(p)
    /\ UNCHANGED <<file, dir, importMap, clone, started, raced, elsewhere>>

\* A declaration file is taken to exist.
DeclareAll(p) ==
    /\ At(p, "next") /\ proc[p].todo = <<>>
    /\ declared' = Includes(proc[p].object, Env)
    /\ Ends(p)
    /\ UNCHANGED <<file, dir, importMap, clone, started, history>>

\* updatePluginDeclarationFile, after the loop: the included plugins that have
\* a declaration file.
Declare(p) ==
    /\ At(p, "next") /\ proc[p].todo = <<>>
    /\ declared' = {n \in Includes(proc[p].object, Env) \cap Declaring :
                        dir[n] # 0}
    /\ loose' = IF proc[p].alone
                THEN loose \ (proc[p].done \
                              (IF Cmd(p) = "remove" THEN elsewhere ELSE {}))
                ELSE loose
    /\ Ends(p)
    /\ UNCHANGED <<file, dir, importMap, clone, started, raced,
                   elsewhere>>
-----------------------------------------------------------------------------
Run(p) ==
    \/ \E cmd \in {"add", "remove"}, scope \in Scopes, list \in Lists :
          Start(p, cmd, scope, FALSE, list)
    \/ \E force \in BOOLEAN, list \in Lists :
          Start(p, "update", "global", force, list)
    \/ Start(p, "core", "global", FALSE, <<>>)
    \/ FetchToAdd(p) \/ FetchToUpdate(p) \/ Copy(p) \/ List(p) \/ Unlist(p)
    \/ ReadMap(p) \/ WriteMap(p) \/ RemoveDir(p) \/ Declare(p) \/ Fail(p)

Next == \E p \in Procs : Run(p)

Spec == Init /\ [][Next]_vars
-----------------------------------------------------------------------------
(* Properties. *)

\* A plugin is listed for some environment if and only if its folder is there
\* and the import map has the imports of that very version, unless a command
\* that began to change it did not end well.  Two commands at the same time
\* harm no plugin but those they were given, and a later command that adds or
\* removes the plugin alone and ends well mends what was left.
WholeUnlessLoose ==
    \A n \in Names \ loose :
        /\ importMap[n] = dir[n]
        /\ n \in Listed(file) <=> dir[n] # 0

\* A plugin that is listed has its folder, even after a command that failed or
\* was killed: files come before the list and leave after it.  The exceptions
\* are a removal for one environment of what another lists, and two commands
\* on it at the same time.
ListedPluginsHaveFiles ==
    \A n \in Listed(file) : dir[n] # 0 \/ n \in raced \cup elsewhere

\* The source and branch of a plugin that is listed for all environments are
\* never dropped from the file, though every command drops those it does not
\* take to be included.
GlobalPluginsKeepTheirSource == file.listed["global"] \subseteq file.props

\* A plugin that is in order is declared if it is listed for all environments
\* and can be, and the declarations refer to no folder that is missing.
DeclarationsResolve ==
    \A n \in Names \ loose :
        /\ n \in file.listed["global"] \cap Declaring => n \in declared
        /\ n \in declared => dir[n] # 0

\* "Plugin(s) updated successfully!": the folder has the version of the clone.
UpdatesBringTheClone ==
    [][\A p \in Procs :
          Declare(p) /\ Cmd(p) = "update" =>
              \A n \in proc[p].asked : dir[n] = clone[n]]_vars
=============================================================================
