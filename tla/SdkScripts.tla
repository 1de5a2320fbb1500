----------------------------- MODULE SdkScripts -----------------------------
(***************************************************************************)
(* generateSDK.ts and generateDenoSDK.ts of core/scripts, step by step,    *)
(* among the other commands of ModuleScripts.  Both write the SDK of a     *)
(* version into public/sdk@<version>: one its sources for npm into the     *)
(* folder src, the other those for Deno into www; both leave the package   *)
(* to download in www.  The first lists the version when all is done, the  *)
(* second before it makes the package.                                     *)
(*                                                                         *)
(* What is written is known by the generation that wrote it, not by what   *)
(* it says.                                                                *)
(***************************************************************************)
EXTENDS ModuleScripts

CONSTANT Versions  \* the names in public that are versions of the SDK

ASSUME VersionAssumption == Versions \subseteq Names

Tools == {"npm", "deno"}
Pieces == {"extensions", "sources"}

VARIABLES
    gen,      \* the generation each terminal runs
    folders,  \* the folders of each version
    written,  \* which generation wrote each piece, 0 if none did
    tarball,  \* the generations whose pieces a new archive holds, not yet moved
    package   \* ... and those in the package to download

sdk == <<folders, written, tarball, package>>
sdkVars == <<vars, gen, sdk>>

NoGen == [stage |-> "none"]

Gens ==
    [stage : {"folder", "extensions", "sources", "list", "build", "move"},
     tool : Tools, version : Versions, id : 1 .. MaxCommands,
     modules : SUBSET Names]

SdkTypeOK ==
    /\ TypeOK
    /\ gen \in [Procs -> {NoGen} \cup Gens]
    /\ folders \in [Versions -> SUBSET {"src", "www"}]
    /\ written \in [Versions -> [Tools -> [Pieces -> 0 .. MaxCommands]]]
    /\ tarball \in [Versions -> [Tools -> SUBSET (0 .. MaxCommands)]]
    /\ package \in [Versions -> SUBSET (0 .. MaxCommands)]

SdkInit ==
    /\ Init
    /\ gen = [p \in Procs |-> NoGen]
    /\ folders = [v \in Versions |-> {}]
    /\ written = [v \in Versions |-> [t \in Tools |-> [x \in Pieces |-> 0]]]
    /\ tarball = [v \in Versions |-> [t \in Tools |-> {}]]
    /\ package = [v \in Versions |-> {}]
-----------------------------------------------------------------------------
Generating(p) == gen[p].stage # "none"
Stage(p, stage) == Generating(p) /\ gen[p].stage = stage

Reaches(p, stage) == gen' = [gen EXCEPT ![p].stage = stage]
Finishes(p) == gen' = [gen EXCEPT ![p] = NoGen]

\* Where each generator writes its sources, and whether they are there.
Folder(tool) == IF tool = "npm" THEN "src" ELSE "www"

\* Mutant of Refused: the folder of an earlier generation is used.
NeverRefused(v, tool) == FALSE

Refused(v, tool) == Folder(tool) \in folders[v]

\* Loader.load has read which modules there are.
Generate(p, tool) ==
    /\ ~Generating(p)
    /\ GenerateSDK(p)
    /\ LET v == proc'[p].to
       IN  /\ v \in Versions /\ ~Refused(v, tool)
           /\ gen' = [gen EXCEPT
                  ![p] = [stage |-> "folder", tool |-> tool, version |-> v,
                          id |-> started',
                          modules |-> Includes(file["modules"], Env)]]
    /\ UNCHANGED sdk

MakeFolder(p) ==
    /\ Stage(p, "folder")
    /\ Write(p)
    /\ folders' = [folders EXCEPT ![gen[p].version] =
                       @ \cup {Folder(gen[p].tool)}]
    /\ Reaches(p, "extensions")
    /\ UNCHANGED <<written, tarball, package>>

\* A piece is written over one that is there.
Writes(p, piece) ==
    /\ written' = [written EXCEPT ![gen[p].version][gen[p].tool][piece] = gen[p].id]
    /\ UNCHANGED <<vars, folders, tarball, package>>

\* The extensions of the project and its plugins.  generateSDK.ts may read one
\* while it is being copied, and then fails.
CopyExtensions(p) ==
    /\ Stage(p, "extensions")
    /\ Writes(p, "extensions")
    /\ Reaches(p, "sources")

\* All controllers are imported for their routes, and the sources are written.
WriteSources(p) ==
    /\ Stage(p, "sources")
    /\ gen[p].modules \subseteq present["modules"]
    /\ Writes(p, "sources")
    /\ Reaches(p, IF gen[p].tool = "npm" THEN "build" ELSE "list")

\* The version is listed; the package for npm is left to do for Deno's.
ListVersion(p) ==
    /\ Stage(p, "list")
    /\ List(p)
    /\ IF gen[p].tool = "npm" THEN Finishes(p) ELSE Reaches(p, "build")
    /\ UNCHANGED sdk

\* The build, and npm pack, of what is in the folder.
Build(p) ==
    LET v == gen[p].version
        tool == gen[p].tool
    IN  /\ Stage(p, "build")
        /\ tarball' = [tarball EXCEPT
               ![v][tool] = {written[v][tool][x] : x \in Pieces}]
        /\ Reaches(p, "move")
        /\ UNCHANGED <<vars, folders, written, package>>

\* generateSDK.ts makes the folder www, and the archive moves there, if another
\* generation has not moved it.
Move(p) ==
    LET v == gen[p].version
        tool == gen[p].tool
    IN  /\ Stage(p, "move")
        /\ tarball[v][tool] # {}
        /\ folders' = [folders EXCEPT ![v] = @ \cup {"www"}]
        /\ package' = [package EXCEPT ![v] = tarball[v][tool]]
        /\ tarball' = [tarball EXCEPT ![v][tool] = {}]
        /\ IF tool = "npm" THEN Reaches(p, "list") ELSE Finishes(p)
        /\ UNCHANGED <<vars, written>>

\* The process is killed, or what it awaits fails, which may be while the
\* folder www is there and the archive is not.
Abandon(p) ==
    /\ Generating(p)
    /\ Finishes(p)
    /\ Fail(p) \/ (~Running(p) /\ UNCHANGED vars)
    /\ \/ UNCHANGED folders
       \/ /\ Stage(p, "move") /\ gen[p].tool = "npm"
          /\ folders' = [folders EXCEPT ![gen[p].version] = @ \cup {"www"}]
    /\ UNCHANGED <<written, tarball, package>>

\* The commands that generate no SDK; the diagram has a name of its own.
Otherwise(p) ==
    /\ ~Generating(p)
    /\ \/ CreateModule(p) \/ RenameModule(p) \/ DeleteModule(p)
       \/ CreateTemplate(p) \/ DeleteTemplate(p)
       \/ GenerateERD(p) /\ proc'[p].to \notin Versions
       \/ Read(p) \/ Write(p) \/ List(p) \/ Relist(p) \/ Remove(p)
       \/ Unlist(p) \/ UpToDate(p) \/ Fail(p)
    /\ UNCHANGED <<gen, sdk>>

RunSdk(p) ==
    \/ \E tool \in Tools : Generate(p, tool)
    \/ MakeFolder(p) \/ CopyExtensions(p) \/ WriteSources(p)
    \/ ListVersion(p) \/ Build(p) \/ Move(p) \/ Abandon(p)
    \/ Otherwise(p)

SdkNext == \E p \in Procs : RunSdk(p)

SdkSpec == SdkInit /\ [][SdkNext]_sdkVars
-----------------------------------------------------------------------------
\* The pieces of version v for a tool are all of one generation.
WrittenBy(v, tool, id) == \A x \in Pieces : written[v][tool][x] = id

\* The sources for Deno, or those for npm and the package made of them.
Whole(v) ==
    \E id \in 1 .. MaxCommands :
        \/ WrittenBy(v, "deno", id)
        \/ WrittenBy(v, "npm", id) /\ package[v] = {id}

\* A version that is listed, and so served, has all of its sources, from one
\* generation: no generation is listed over what an abandoned one of the same
\* generator left.  For npm the package is there too and is made of them; for
\* Deno it may still be missing.  The exception is two generations of a version
\* at a time.
ListedSdksAreWhole ==
    \A v \in Versions \ raced["public"] :
        v \in Listed(file["public"]) => Whole(v)
=============================================================================
