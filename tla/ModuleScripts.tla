--------------------------- MODULE ModuleScripts ---------------------------
(***************************************************************************)
(* The commands that write the files of a project, core/scripts:           *)
(* createModule.ts, renameModule.ts, deleteModule.ts, createTemplate.ts,   *)
(* deleteTemplate.ts, and the generators of SDKs and of the diagram of the *)
(* models, which put a folder into public.                                 *)
(*                                                                         *)
(* Each command is a process of its own.  It reads the sequence of a       *)
(* directory when it starts, changes files, and writes the whole sequence  *)
(* back from its own object.  Between any two of its awaits another        *)
(* command may run, and it may fail or be killed.                          *)
(*                                                                         *)
(* What the files say is left out: how a template is filled in, and how    *)
(* the text of a module is renamed.                                        *)
(***************************************************************************)
EXTENDS SequenceFile

CONSTANTS
    Procs,       \* the terminals commands are started in
    Env,         \* ENV_TYPE on the machine
    MaxCommands  \* bound: how many commands are started

ASSUME ModuleAssumption == Env \in EnvTypes /\ MaxCommands \in Nat

\* One directory of modules stands for those of all types of module.
Kinds == {"modules", "templates", "public"}

VARIABLES
    file,      \* the .sequence.json of each directory
    present,   \* the files of each directory
    proc,      \* the command each terminal runs
    started,   \* how many commands were started
    loose,     \* history: names no command has left in order since one began
               \* to change them
    raced,     \* history: names of commands that ran at the same time
    deleting,  \* history: names whose file was deleted and the list not yet
    elsewhere  \* history: names taken from one list while another had them

workspace == <<file, present>>
history == <<loose, raced, deleting, elsewhere>>
vars == <<workspace, proc, started, history>>

Idle == [at |-> "idle"]

Commands ==
    [at : {"read", "write", "list", "relist", "remove", "unlist"},
     cmd : {"create", "rename", "delete"}, kind : Kinds,
     source : Names, name : Names, to : Names, scope : Scopes,
     object : Sequences, alone : BOOLEAN]

TypeOK ==
    /\ file \in [Kinds -> Sequences]
    /\ present \in [Kinds -> SUBSET Names]
    /\ proc \in [Procs -> {Idle} \cup Commands]
    /\ started \in 0 .. MaxCommands
    /\ loose \in [Kinds -> SUBSET Names] /\ raced \in [Kinds -> SUBSET Names]
    /\ deleting \in [Kinds -> SUBSET Names]
    /\ elsewhere \in [Kinds -> SUBSET Names]

None == [k \in Kinds |-> {}]

\* Some modules and templates are there, listed for all environments.
Init ==
    /\ \E items \in SUBSET Names : \E templates \in {{}, items} :
         /\ present = [k \in Kinds |-> CASE k = "modules" -> items
                                         [] k = "templates" -> templates
                                         [] OTHER -> {}]
         /\ file = [k \in Kinds |->
              [listed |-> [e \in Scopes |->
                               IF e = "global" THEN present[k] ELSE {}],
               props |-> {}]]
    /\ proc = [p \in Procs |-> Idle]
    /\ started = 0
    /\ loose = None /\ raced = None /\ deleting = None /\ elsewhere = None
-----------------------------------------------------------------------------
Running(p) == proc[p].at # "idle"
At(p, place) == Running(p) /\ proc[p].at = place
Cmd(p) == proc[p].cmd

Ends(p) == proc' = [proc EXCEPT ![p] = Idle]
Goes(p, place) == proc' = [proc EXCEPT ![p].at = place]

With(sets, k, names) == [sets EXCEPT ![k] = @ \cup names]
Without(sets, k, names) == [sets EXCEPT ![k] = @ \ names]

\* The names a command is about.
Asked(c) == {c.name, c.to}

\* Loader.load, the options and the prompts, which take their time.  The
\* command reads the file source, if any, writes the file to, and takes name
\* off the list.
Start(p, cmd, kind, source, name, to, scope, place) ==
    LET others == {q \in Procs : Running(q) /\ proc[q].kind = kind}
        names == {name, to} \cup UNION {Asked(proc[q]) : q \in others}
    IN  /\ ~Running(p) /\ started < MaxCommands
        /\ started' = started + 1
        /\ proc' = [q \in Procs |->
             CASE q = p -> [at |-> place, cmd |-> cmd, kind |-> kind,
                            source |-> source, name |-> name, to |-> to,
                            scope |-> scope, object |-> Picked(file[kind], Env),
                            alone |-> others = {}]
               [] q \in others -> [proc[q] EXCEPT !.alone = FALSE]
               [] OTHER -> proc[q]]
        /\ raced' = IF others = {} THEN raced ELSE With(raced, kind, names)
        /\ loose' = IF others = {} THEN loose ELSE With(loose, kind, names)
        /\ UNCHANGED <<workspace, deleting, elsewhere>>

\* createModule takes a template that is included.
CreateModule(p) ==
    \E template \in Includes(file["templates"], Env), n \in Names,
       scope \in Scopes :
        Start(p, "create", "modules", template, n, n, scope, "read")

RenameModule(p) ==
    \E n, to \in Names, scope \in Scopes :
        Start(p, "rename", "modules", n, n, to, scope, "read")

\* The environment is not checked.
DeleteModuleAnywhere(p) ==
    \E n \in Names : Start(p, "delete", "modules", n, n, n, "staging", "remove")

DeleteModule(p) ==
    \E n \in Names, scope \in Scopes :
        Start(p, "delete", "modules", n, n, n, scope, "remove")

\* The template is listed before it is written.
CreateTemplateListed(p) ==
    \E n \in Names : Start(p, "create", "templates", n, n, n, "global", "list")

\* Templates are listed for all environments.
CreateTemplate(p) ==
    \E n \in Names : Start(p, "create", "templates", n, n, n, "global", "write")

DeleteTemplate(p) ==
    \E n \in Names : Start(p, "delete", "templates", n, n, n, "global", "remove")

\* generateSDK; each of the two generators looks for a folder of its own, which
\* SdkScripts has.
GenerateSDK(p) ==
    \E n \in Names :
        Start(p, "create", "public", n, n, n, "global", "write")

\* generateERD, over a folder that may be there, for development only.
GenerateERD(p) ==
    \E n \in Names, scope \in Scopes \cap {"development"} :
        Start(p, "create", "public", n, n, n, scope, "write")

\* The process is killed, or what it awaits fails, or a prompt is declined.
Fail(p) ==
    /\ Running(p)
    /\ Ends(p)
    /\ UNCHANGED <<workspace, started, history>>

\* git finds nothing new: generateERD ends well, without a copy and without
\* listing what an earlier one may have left unlisted.  The diagram's data, which
\* it writes into the folder here and after listing it, is not modelled.
UpToDate(p) ==
    /\ At(p, "write")
    /\ proc[p].kind = "public" /\ proc[p].scope = "development"
    /\ Ends(p)
    /\ UNCHANGED <<workspace, started, history>>
-----------------------------------------------------------------------------
\* renameModule reads the module, and createModule the template.
Texts(p) == present[IF Cmd(p) = "rename" THEN "modules" ELSE "templates"]

Read(p) ==
    /\ At(p, "read")
    /\ IF proc[p].source \in Texts(p) THEN Goes(p, "write") ELSE Ends(p)
    /\ UNCHANGED <<workspace, started, history>>

\* The new file is written, over one that is there.
Write(p) ==
    LET kind == proc[p].kind
        new == proc[p].to
    IN  /\ At(p, "write")
        /\ present' = With(present, kind, {new})
        /\ IF Cmd(p) = "rename" /\ new = proc[p].name
           THEN /\ Ends(p)
                /\ UNCHANGED loose
           ELSE /\ Goes(p, IF Cmd(p) = "rename" THEN "relist" ELSE "list")
                /\ loose' = With(loose, kind, {new})
        /\ UNCHANGED <<file, started, raced, deleting, elsewhere>>

Persist(p, object) ==
    file' = [file EXCEPT ![proc[p].kind] = Picked(object, Env)]

\* What the command was about is in order, if it had the directory to itself.
Mended(p, names) ==
    IF proc[p].alone
    THEN Without(loose, proc[p].kind, names \ elsewhere'[proc[p].kind])
    ELSE loose

\* createModule, createTemplate and the generators end with adding the name.
List(p) ==
    /\ At(p, "list")
    /\ Persist(p, Added(proc[p].object, proc[p].scope, proc[p].to))
    /\ Ends(p)
    /\ UNCHANGED <<present, started, raced, deleting, elsewhere>>
    /\ loose' = IF proc[p].alone
                THEN Without(loose, proc[p].kind, {proc[p].to})
                ELSE loose

\* Another environment's list has the name as well.
ListedElsewhere(p) ==
    \E e \in Scopes \ {proc[p].scope} :
        proc[p].name \in file[proc[p].kind].listed[e]

Noted(p) == IF ListedElsewhere(p)
            THEN With(elsewhere, proc[p].kind, {proc[p].name}) ELSE elsewhere

\* The old name stays in the list.
RelistBoth(p) ==
    /\ At(p, "relist")
    /\ Persist(p, Added(proc[p].object, proc[p].scope, proc[p].to))
    /\ Goes(p, "remove")
    /\ UNCHANGED <<present, started, history>>

\* renameModule puts the new name in the list for the old one ...
Relist(p) ==
    LET old == Deleted(proc[p].object, proc[p].scope, proc[p].name)
    IN  /\ At(p, "relist")
        /\ Persist(p, Added(old, proc[p].scope, proc[p].to))
        /\ Goes(p, "remove")
        /\ loose' = With(loose, proc[p].kind, {proc[p].name})
        /\ elsewhere' = Noted(p)
        /\ UNCHANGED <<present, started, raced, deleting>>

\* ... and removes the old file at the end, where deleteModule and
\* deleteTemplate begin.  deleteModule does not mind if there is none.
Remove(p) ==
    LET kind == proc[p].kind
        name == proc[p].name
    IN  /\ At(p, "remove")
        /\ present' = Without(present, kind, {name})
        /\ \/ /\ Cmd(p) = "rename" /\ name \in present[kind]
              /\ Ends(p)
              /\ UNCHANGED <<elsewhere, deleting>>
              /\ loose' = Mended(p, {name, proc[p].to})
           \/ /\ Cmd(p) = "delete"
              /\ name \in present[kind] \/ kind = "modules"
              /\ Goes(p, "unlist")
              /\ loose' = With(loose, kind, {name})
              /\ deleting' = With(deleting, kind, {name})
              /\ elsewhere' = Noted(p)
           \/ /\ name \notin present[kind]
              /\ Cmd(p) = "rename" \/ kind = "templates"
              /\ Ends(p)
              /\ UNCHANGED <<loose, elsewhere, deleting>>
        /\ UNCHANGED <<file, started, raced>>

Unlist(p) ==
    /\ At(p, "unlist")
    /\ Persist(p, Deleted(proc[p].object, proc[p].scope, proc[p].name))
    /\ Ends(p)
    /\ UNCHANGED <<present, started, raced, elsewhere>>
    /\ loose' = Mended(p, {proc[p].name})
    /\ deleting' = Without(deleting, proc[p].kind, {proc[p].name})
-----------------------------------------------------------------------------
Run(p) ==
    \/ CreateModule(p) \/ RenameModule(p) \/ DeleteModule(p)
    \/ CreateTemplate(p) \/ DeleteTemplate(p)
    \/ GenerateSDK(p) \/ GenerateERD(p)
    \/ Read(p) \/ Write(p) \/ List(p) \/ Relist(p) \/ Remove(p)
    \/ Unlist(p) \/ UpToDate(p) \/ Fail(p)

Next == \E p \in Procs : Run(p)

Spec == Init /\ [][Next]_vars
-----------------------------------------------------------------------------
(* Properties. *)

\* A module, a template or an SDK is listed if and only if its file is there,
\* unless a command that began to change it did not end well.  Two commands at
\* the same time harm nothing but what they were given, and a later command
\* that ends well, with the directory to itself, mends what was left.
InOrderUnlessLoose ==
    \A k \in Kinds : \A n \in Names \ loose[k] :
        n \in Listed(file[k]) <=> n \in present[k]

\* What is listed has its file, so that the server can import it, whatever
\* command failed or was killed.  The exceptions are a deletion that did not
\* come to the list, a name that another environment lists as well, and two
\* commands on it at the same time.
ListedItemsHaveFiles ==
    \A k \in Kinds : \A n \in Listed(file[k]) :
        n \in present[k] \cup deleting[k] \cup raced[k] \cup elsewhere[k]
=============================================================================
