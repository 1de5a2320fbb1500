------------------------ MODULE ModuleScriptsProofs ------------------------
(***************************************************************************)
(* For any number of commands and terminals, and any names: the types of   *)
(* ModuleScripts, and that lists and files stay in agreement.              *)
(***************************************************************************)
EXTENDS SdkScripts, TLAPS

(* The operators of SequenceFile.                                          *)

\* What is kept for an environment lists the same names, and keeps the props of
\* what all environments share.
LEMMA PickedIs ==
    ASSUME NEW s \in Sequences, NEW env \in EnvTypes
    PROVE  /\ Picked(s, env) \in Sequences
           /\ Picked(s, env).listed = s.listed
           /\ Listed(Picked(s, env)) = Listed(s)
           /\ s.props \cap s.listed["global"] \subseteq Picked(s, env).props
PROOF
<1>1. /\ Picked(s, env) \in Sequences
      /\ Picked(s, env).listed = s.listed
      /\ Picked(s, env).props = s.props \cap Includes(s, env)
  BY DEF Picked, Sequences
<1> QED
  BY <1>1 DEF Listed, Includes

\* Adding lists the name and nothing else.
LEMMA AddedIs ==
    ASSUME NEW s \in Sequences, NEW scope \in Scopes, NEW n \in Names
    PROVE  /\ Added(s, scope, n) \in Sequences
           /\ Added(s, scope, n).listed = [s.listed EXCEPT ![scope] = @ \cup {n}]
           /\ Added(s, scope, n).props = s.props
           /\ Listed(Added(s, scope, n)) = Listed(s) \cup {n}
PROOF
<1>1. /\ Added(s, scope, n) \in Sequences
      /\ Added(s, scope, n).listed = [s.listed EXCEPT ![scope] = @ \cup {n}]
      /\ Added(s, scope, n).props = s.props
  BY DEF Added, Sequences
<1>2. \A e \in Scopes : Added(s, scope, n).listed[e] =
        IF e = scope THEN s.listed[e] \cup {n} ELSE s.listed[e]
  BY <1>1 DEF Sequences
<1> QED
  BY <1>1, <1>2 DEF Listed

\* Deleting takes the name from one list; it stays listed for the others.
LEMMA DeletedIs ==
    ASSUME NEW s \in Sequences, NEW scope \in Scopes, NEW n \in Names
    PROVE  /\ Deleted(s, scope, n) \in Sequences
           /\ Deleted(s, scope, n).listed = [s.listed EXCEPT ![scope] = @ \ {n}]
           /\ Deleted(s, scope, n).props = s.props
           /\ \A m \in Names \ {n} :
                 m \in Listed(Deleted(s, scope, n)) <=> m \in Listed(s)
           /\ n \in Listed(Deleted(s, scope, n)) <=>
                 \E e \in Scopes \ {scope} : n \in s.listed[e]
PROOF
<1>1. /\ Deleted(s, scope, n) \in Sequences
      /\ Deleted(s, scope, n).listed = [s.listed EXCEPT ![scope] = @ \ {n}]
      /\ Deleted(s, scope, n).props = s.props
  BY DEF Deleted, Sequences
<1>2. \A e \in Scopes : Deleted(s, scope, n).listed[e] =
        IF e = scope THEN s.listed[e] \ {n} ELSE s.listed[e]
  BY <1>1 DEF Sequences
<1> QED
  BY <1>1, <1>2 DEF Listed
-----------------------------------------------------------------------------
\* Commands that run at the same time in one directory know, in the history, of
\* each other.
Apart ==
    \A p, q \in Procs :
        p # q /\ Running(p) /\ Running(q) /\ proc[p].kind = proc[q].kind =>
            ~proc[p].alone

\* ... and what such a command is about is marked.
Marked(p) ==
    LET k == proc[p].kind
    IN  ~proc[p].alone => Asked(proc[p]) \subseteq raced[k] \cap loose[k]

\* What a command has begun to change is loose until it is done.
Begun(p) ==
    LET k == proc[p].kind
    IN  /\ At(p, "read") \/ At(p, "write") => Cmd(p) \in {"create", "rename"}
        /\ At(p, "list") => Cmd(p) = "create" /\ proc[p].to \in loose[k]
        /\ At(p, "relist") => Cmd(p) = "rename" /\ proc[p].to \in loose[k]
        /\ At(p, "remove") => Cmd(p) \in {"rename", "delete"}
        /\ At(p, "remove") /\ Cmd(p) = "rename" => Asked(proc[p]) \subseteq loose[k]
        /\ At(p, "unlist") => Cmd(p) = "delete" /\ proc[p].name \in loose[k]
        /\ Cmd(p) \in {"create", "delete"} => proc[p].name = proc[p].to
        /\ Cmd(p) = "rename" => k = "modules" /\ proc[p].source = proc[p].name

\* The object of a command agrees with the file on every name in order, and for
\* a command with the directory to itself it is the file it will overwrite.
Copied(p) ==
    LET k == proc[p].kind
    IN  /\ \A n \in Names \ loose[k] :
             n \in Listed(proc[p].object) <=> n \in Listed(file[k])
        /\ proc[p].alone /\ ~(At(p, "remove") /\ Cmd(p) = "rename") =>
             proc[p].object.listed = file[k].listed

\* How far a command with the directory to itself has come.
Progress(p) ==
    LET k == proc[p].kind
    IN  proc[p].alone =>
          /\ At(p, "write") /\ Cmd(p) = "rename" => proc[p].name \in present[k]
          /\ At(p, "list") \/ At(p, "relist") => proc[p].to \in present[k]
          /\ At(p, "relist") => proc[p].to # proc[p].name
          /\ At(p, "remove") /\ Cmd(p) = "rename" =>
               /\ proc[p].to # proc[p].name
               /\ proc[p].to \in present[k] \cap Listed(file[k])
               /\ proc[p].name \in Listed(file[k]) => proc[p].name \in elsewhere[k]
          /\ At(p, "unlist") =>
               /\ proc[p].name \notin present[k]
               /\ \A e \in Scopes \ {proc[p].scope} :
                    proc[p].name \in file[k].listed[e] => proc[p].name \in elsewhere[k]

\* What a command may write back has its file, or is excepted.
Excepted(k) == deleting[k] \cup raced[k] \cup elsewhere[k]

Backed(p) ==
    LET k == proc[p].kind
    IN  Listed(proc[p].object) \subseteq present[k] \cup Excepted(k)

Sound(p) ==
    Running(p) => Marked(p) /\ Begun(p) /\ Copied(p) /\ Progress(p) /\ Backed(p)

IInv ==
    /\ TypeOK /\ Apart
    /\ \A p \in Procs : Sound(p)
    /\ InOrderUnlessLoose /\ ListedItemsHaveFiles
-----------------------------------------------------------------------------
Places == {"read", "write", "list", "relist", "remove", "unlist"}

\* The fields of a command that runs.
LEMMA Fields ==
    ASSUME TypeOK, NEW p \in Procs, Running(p)
    PROVE  /\ proc[p] \in Commands /\ proc[p].at \in Places
           /\ proc[p].kind \in Kinds /\ proc[p].scope \in Scopes
           /\ proc[p].name \in Names /\ proc[p].to \in Names
           /\ proc[p].object \in Sequences /\ proc[p].alone \in BOOLEAN
           /\ file[proc[p].kind] \in Sequences
           /\ Asked(proc[p]) = {proc[p].name, proc[p].to}
PROOF
<1>1. proc[p] \in Commands
  BY DEF TypeOK, Running, Idle
<1> QED
  BY <1>1 DEF Commands, Places, TypeOK, Asked

\* A command that ends leaves the others as they are.
LEMMA Ended ==
    ASSUME TypeOK, NEW p \in Procs, Ends(p)
    PROVE  /\ proc' \in [Procs -> {Idle} \cup Commands]
           /\ ~Running(p)'
           /\ \A q \in Procs \ {p} : proc'[q] = proc[q]
  BY DEF TypeOK, Ends, Running, Idle

\* A command that goes on keeps all but its place.
LEMMA GoneOn ==
    ASSUME TypeOK, NEW p \in Procs, Running(p), NEW place \in Places,
           Goes(p, place)
    PROVE  /\ proc' \in [Procs -> {Idle} \cup Commands]
           /\ proc'[p] = [proc[p] EXCEPT !.at = place]
           /\ Running(p)' /\ proc'[p].at = place
           /\ proc'[p].kind = proc[p].kind /\ proc'[p].cmd = proc[p].cmd
           /\ proc'[p].name = proc[p].name /\ proc'[p].to = proc[p].to
           /\ proc'[p].source = proc[p].source
           /\ proc'[p].scope = proc[p].scope
           /\ proc'[p].object = proc[p].object
           /\ proc'[p].alone = proc[p].alone
           /\ \A q \in Procs \ {p} : proc'[q] = proc[q]
PROOF
<1>1. proc[p] \in Commands
  BY Fields
<1>2. /\ proc'[p] = [proc[p] EXCEPT !.at = place]
      /\ \A q \in Procs \ {p} : proc'[q] = proc[q]
  BY DEF TypeOK, Goes
<1>3. proc'[p] \in Commands /\ proc'[p].at = place /\ place # "idle"
  BY <1>1, <1>2 DEF Commands, Places
<1>4. proc' \in [Procs -> {Idle} \cup Commands]
  BY <1>2, <1>3 DEF TypeOK, Goes
<1> QED
  BY <1>1, <1>2, <1>3, <1>4 DEF Commands, Running
-----------------------------------------------------------------------------
\* What happens in one directory is nothing to a command in another.
LEMMA FarAway ==
    ASSUME TypeOK, NEW q \in Procs, Sound(q), proc'[q] = proc[q],
           LET k == proc[q].kind
           IN  Running(q) =>
                 /\ file'[k] = file[k] /\ present'[k] = present[k]
                 /\ loose'[k] = loose[k] /\ raced'[k] = raced[k]
                 /\ deleting'[k] = deleting[k] /\ elsewhere'[k] = elsewhere[k]
    PROVE  Sound(q)'
  BY DEF Sound, Running, Marked, Begun, Copied, Progress, Backed, Excepted, At, Cmd

\* A command beside others only has to find the names it is about marked, the
\* names in order as they were, and an excuse for what it may write back.
LEMMA Beside ==
    ASSUME TypeOK, NEW q \in Procs, Sound(q), proc'[q] = proc[q], Running(q),
           NEW k \in Kinds, proc[q].kind = k, ~proc[q].alone,
           loose[k] \subseteq loose'[k], raced[k] \subseteq raced'[k],
           \A n \in Names \ loose'[k] :
              n \in Listed(file'[k]) <=> n \in Listed(file[k]),
           present[k] \cup Excepted(k) \subseteq present'[k] \cup Excepted(k)'
    PROVE  Sound(q)'
PROOF
<1>1. /\ Running(q)' /\ proc'[q].kind = k
      /\ \A place \in Places : At(q, place)' <=> At(q, place)
      /\ Cmd(q)' = Cmd(q) /\ Asked(proc'[q]) = Asked(proc[q])
  BY DEF Running, At, Cmd
<1>2. Marked(q)' /\ Copied(q)' /\ Backed(q)'
  BY <1>1 DEF Sound, Marked, Copied, Backed, Running
<1>3. Begun(q)' /\ Progress(q)'
  BY <1>1 DEF Sound, Begun, Progress, Running, At, Cmd
<1> QED
  BY <1>2, <1>3 DEF Sound

\* What a step in one directory leaves alone.
Elsewhere(k) ==
    \A j \in Kinds \ {k} :
        /\ file'[j] = file[j] /\ present'[j] = present[j]
        /\ loose'[j] = loose[j] /\ raced'[j] = raced[j]
        /\ deleting'[j] = deleting[j] /\ elsewhere'[j] = elsewhere[j]

\* ... and has to respect when the command is not alone.
Respects(k) ==
    /\ loose[k] \subseteq loose'[k] /\ raced[k] \subseteq raced'[k]
    /\ \A n \in Names \ loose'[k] :
          n \in Listed(file'[k]) <=> n \in Listed(file[k])
    /\ present[k] \cup Excepted(k) \subseteq present'[k] \cup Excepted(k)'

\* So what a step of one command has to show.
LEMMA OneDirectory ==
    ASSUME IInv, NEW p \in Procs, Running(p), TypeOK', Sound(p)',
           NEW k \in Kinds, proc[p].kind = k,
           \A q \in Procs \ {p} : proc'[q] = proc[q],
           Running(p)' => proc'[p].kind = k /\ proc'[p].alone = proc[p].alone,
           Elsewhere(k), ~proc[p].alone => Respects(k),
           \A n \in Names \ loose'[k] :
              n \in Listed(file'[k]) <=> n \in present'[k],
           Listed(file'[k]) \subseteq present'[k] \cup Excepted(k)'
    PROVE  IInv'
PROOF
<1>1. Apart'
  BY DEF IInv, Apart, Running
<1>2. ASSUME NEW q \in Procs \ {p} PROVE Sound(q)'
  <2>1. CASE ~Running(q)
    BY <2>1 DEF Sound, Running
  <2>2. CASE Running(q) /\ proc[q].kind # k
    BY <2>2, FarAway, Fields DEF IInv, Elsewhere
  <2>3. CASE Running(q) /\ proc[q].kind = k
    <3>1. ~proc[q].alone /\ ~proc[p].alone
      BY <2>3 DEF IInv, Apart
    <3> QED
      BY <3>1, <2>3, Beside DEF IInv, Respects
  <2> QED
    BY <2>1, <2>2, <2>3
<1>3. InOrderUnlessLoose'
  BY DEF IInv, InOrderUnlessLoose, Elsewhere
<1>4. ListedItemsHaveFiles'
  BY DEF IInv, ListedItemsHaveFiles, Excepted, Elsewhere
<1> QED
  BY <1>1, <1>2, <1>3, <1>4 DEF IInv
-----------------------------------------------------------------------------
(* The steps of one command. *)

\* A step that changes nothing but the command's place.
LEMMA Quiet ==
    ASSUME IInv, NEW p \in Procs, Running(p), Sound(p)',
           UNCHANGED <<workspace, started, history>>,
           proc' \in [Procs -> {Idle} \cup Commands],
           \A q \in Procs \ {p} : proc'[q] = proc[q],
           Running(p)' => /\ proc'[p].kind = proc[p].kind
                          /\ proc'[p].alone = proc[p].alone
    PROVE  IInv'
PROOF
<1>1. PICK k \in Kinds : proc[p].kind = k
  BY Fields DEF IInv
<1>2. TypeOK'
  BY DEF IInv, TypeOK, workspace, history
<1>3. Elsewhere(k) /\ Respects(k)
  BY DEF Elsewhere, Respects, Excepted, workspace, history
<1>4. /\ \A n \in Names \ loose'[k] :
             n \in Listed(file'[k]) <=> n \in present'[k]
      /\ Listed(file'[k]) \subseteq present'[k] \cup Excepted(k)'
  BY DEF IInv, InOrderUnlessLoose, ListedItemsHaveFiles, Excepted, workspace, history
<1> QED
  BY <1>1, <1>2, <1>3, <1>4, OneDirectory

LEMMA FailKeeps ==
    ASSUME IInv, NEW p \in Procs, Fail(p)
    PROVE  IInv'
PROOF
<1>1. /\ proc' \in [Procs -> {Idle} \cup Commands] /\ ~Running(p)'
      /\ \A q \in Procs \ {p} : proc'[q] = proc[q]
  BY Ended DEF IInv, Fail
<1> QED
  BY <1>1, Quiet DEF Fail, Sound

\* To find nothing new changes what to fail does.
LEMMA UpToDateIsFail == ASSUME NEW p \in Procs, UpToDate(p) PROVE Fail(p)
PROOF
  BY DEF UpToDate, Fail, At

LEMMA ReadKeeps ==
    ASSUME IInv, NEW p \in Procs, Read(p)
    PROVE  IInv'
PROOF
<1>1. Running(p) /\ At(p, "read") /\ UNCHANGED <<workspace, started, history>>
  BY DEF Read, At
<1>2. CASE proc[p].source \in Texts(p)
  <2>1. /\ proc' \in [Procs -> {Idle} \cup Commands]
        /\ Running(p)' /\ proc'[p].at = "write"
        /\ proc'[p].kind = proc[p].kind /\ proc'[p].cmd = proc[p].cmd
        /\ proc'[p].name = proc[p].name /\ proc'[p].to = proc[p].to
        /\ proc'[p].source = proc[p].source
        /\ proc'[p].object = proc[p].object /\ proc'[p].alone = proc[p].alone
        /\ \A q \in Procs \ {p} : proc'[q] = proc[q]
    BY <1>1, <1>2, GoneOn DEF IInv, Places, Read
  <2>2. Sound(p)'
    BY <1>1, <1>2, <2>1 DEF IInv, Sound, Marked, Begun, Copied, Progress, Backed,
       Excepted, At, Cmd, Asked, Texts, workspace, history
  <2> QED
    BY <1>1, <2>1, <2>2, Quiet
<1>3. CASE proc[p].source \notin Texts(p)
  <2>1. /\ proc' \in [Procs -> {Idle} \cup Commands] /\ ~Running(p)'
        /\ \A q \in Procs \ {p} : proc'[q] = proc[q]
    BY <1>3, Ended DEF IInv, Read
  <2> QED
    BY <1>1, <2>1, Quiet DEF Sound
<1> QED
  BY <1>2, <1>3

\* Write puts the file where the list will name it.
LEMMA WriteKeeps ==
    ASSUME IInv, NEW p \in Procs, Write(p)
    PROVE  IInv'
PROOF
<1>1. PICK k \in Kinds, new \in Names :
        /\ proc[p].kind = k /\ proc[p].to = new /\ Running(p) /\ At(p, "write")
        /\ proc[p].name \in Names /\ Asked(proc[p]) = {proc[p].name, new}
        /\ proc[p].alone \in BOOLEAN
  BY Fields DEF IInv, Write, At
<1>2. /\ present' = With(present, k, {new})
      /\ UNCHANGED <<file, started, raced, deleting, elsewhere>>
  BY <1>1 DEF Write
<1>3. /\ present'[k] = present[k] \cup {new}
      /\ \A j \in Kinds \ {k} : present'[j] = present[j]
      /\ present' \in [Kinds -> SUBSET Names]
  BY <1>1, <1>2 DEF IInv, TypeOK, With
<1>4. Sound(p)
  BY DEF IInv
<1>5. CASE Cmd(p) = "rename" /\ new = proc[p].name
  <2>1. Ends(p) /\ UNCHANGED loose
    BY <1>1, <1>5 DEF Write
  <2>2. /\ proc' \in [Procs -> {Idle} \cup Commands] /\ ~Running(p)'
        /\ \A q \in Procs \ {p} : proc'[q] = proc[q]
    BY <2>1, Ended DEF IInv
  <2>3. TypeOK'
    BY <1>2, <1>3, <2>1, <2>2 DEF IInv, TypeOK
  <2>4. Elsewhere(k) /\ Respects(k)
    BY <1>2, <1>3, <2>1 DEF Elsewhere, Respects, Excepted
  <2>5. new \notin loose[k] => new \in present[k]
    BY <1>1, <1>4, <1>5 DEF Sound, Marked, Progress
  <2>6. /\ \A n \in Names \ loose'[k] :
             n \in Listed(file'[k]) <=> n \in present'[k]
        /\ Listed(file'[k]) \subseteq present'[k] \cup Excepted(k)'
    BY <1>2, <1>3, <2>1, <2>5
       DEF IInv, InOrderUnlessLoose, ListedItemsHaveFiles, Excepted
  <2> QED
    BY <1>1, <2>2, <2>3, <2>4, <2>6, OneDirectory DEF Sound
<1>6. CASE ~(Cmd(p) = "rename" /\ new = proc[p].name)
  <2>1. PICK place \in {"list", "relist"} :
          /\ Goes(p, place)
          /\ place = IF Cmd(p) = "rename" THEN "relist" ELSE "list"
          /\ loose' = With(loose, k, {new})
    BY <1>1, <1>6 DEF Write
  <2>2. /\ loose'[k] = loose[k] \cup {new}
        /\ \A j \in Kinds \ {k} : loose'[j] = loose[j]
        /\ loose' \in [Kinds -> SUBSET Names]
    BY <1>1, <2>1 DEF IInv, TypeOK, With
  <2>3. /\ proc' \in [Procs -> {Idle} \cup Commands]
        /\ Running(p)' /\ proc'[p].at = place
        /\ proc'[p].kind = k /\ proc'[p].cmd = proc[p].cmd
        /\ proc'[p].name = proc[p].name /\ proc'[p].to = new
        /\ proc'[p].source = proc[p].source
        /\ proc'[p].object = proc[p].object /\ proc'[p].alone = proc[p].alone
        /\ \A q \in Procs \ {p} : proc'[q] = proc[q]
    BY <1>1, <2>1, GoneOn DEF IInv, Places
  <2>4. TypeOK'
    BY <1>2, <1>3, <2>2, <2>3 DEF IInv, TypeOK
  <2>5. Elsewhere(k) /\ Respects(k)
    BY <1>2, <1>3, <2>2 DEF Elsewhere, Respects, Excepted
  <2>6. Cmd(p) \in {"create", "rename"}
    BY <1>1, <1>4 DEF Sound, Begun
  <2>7. Sound(p)'
    BY <1>1, <1>2, <1>3, <1>4, <1>6, <2>1, <2>2, <2>3, <2>6
       DEF Sound, Marked, Begun, Copied, Progress, Backed, Excepted, At, Cmd, Asked
  <2>8. /\ \A n \in Names \ loose'[k] :
             n \in Listed(file'[k]) <=> n \in present'[k]
        /\ Listed(file'[k]) \subseteq present'[k] \cup Excepted(k)'
    BY <1>2, <1>3, <2>2
       DEF IInv, InOrderUnlessLoose, ListedItemsHaveFiles, Excepted
  <2> QED
    BY <1>1, <2>3, <2>4, <2>5, <2>7, <2>8, OneDirectory
<1> QED
  BY <1>5, <1>6

\* What the file lists after a command has written its object back.
LEMMA Persisted ==
    ASSUME IInv, NEW p \in Procs, Running(p), NEW k \in Kinds, proc[p].kind = k,
           NEW object \in Sequences, Persist(p, object)
    PROVE  /\ file' \in [Kinds -> Sequences]
           /\ file'[k].listed = object.listed /\ Listed(file'[k]) = Listed(object)
           /\ \A j \in Kinds \ {k} : file'[j] = file[j]
PROOF
<1>1. /\ Picked(object, Env) \in Sequences
      /\ Picked(object, Env).listed = object.listed
      /\ Listed(Picked(object, Env)) = Listed(object)
  BY PickedIs, ModuleAssumption
<1> QED
  BY <1>1 DEF Persist, IInv, TypeOK

\* List names what has been written.
LEMMA ListKeeps ==
    ASSUME IInv, NEW p \in Procs, List(p)
    PROVE  IInv'
PROOF
<1>1. PICK k \in Kinds, new \in Names, scope \in Scopes, object \in Sequences :
        /\ proc[p].kind = k /\ proc[p].to = new /\ proc[p].scope = scope
        /\ proc[p].object = object /\ Running(p) /\ At(p, "list")
        /\ Asked(proc[p]) = {proc[p].name, new} /\ proc[p].alone \in BOOLEAN
  BY Fields DEF IInv, List, At
<1>2. /\ Persist(p, Added(object, scope, new)) /\ Ends(p)
      /\ UNCHANGED <<present, started, raced, deleting, elsewhere>>
      /\ loose' = IF proc[p].alone THEN Without(loose, k, {new}) ELSE loose
  BY <1>1 DEF List
<1>3. /\ file' \in [Kinds -> Sequences]
      /\ Listed(file'[k]) = Listed(object) \cup {new}
      /\ \A j \in Kinds \ {k} : file'[j] = file[j]
  <2>1. PICK added \in Sequences :
          /\ added = Added(object, scope, new)
          /\ Listed(added) = Listed(object) \cup {new}
    BY AddedIs
  <2> QED
    BY <1>1, <1>2, <2>1, Persisted
<1>4. /\ loose'[k] = IF proc[p].alone THEN loose[k] \ {new} ELSE loose[k]
      /\ \A j \in Kinds \ {k} : loose'[j] = loose[j]
      /\ loose' \in [Kinds -> SUBSET Names]
  BY <1>1, <1>2 DEF IInv, TypeOK, Without
<1>5. /\ proc' \in [Procs -> {Idle} \cup Commands] /\ ~Running(p)'
      /\ \A q \in Procs \ {p} : proc'[q] = proc[q]
  BY <1>2, Ended DEF IInv
<1>6. /\ \A n \in Names \ loose[k] : n \in Listed(object) <=> n \in Listed(file[k])
      /\ Listed(object) \subseteq present[k] \cup Excepted(k)
      /\ new \in loose[k]
      /\ proc[p].alone => new \in present[k]
      /\ ~proc[p].alone => new \in raced[k]
  BY <1>1 DEF IInv, Sound, Marked, Begun, Copied, Progress, Backed
<1>7. TypeOK'
  BY <1>2, <1>3, <1>4, <1>5 DEF IInv, TypeOK
<1>8. Elsewhere(k) /\ (~proc[p].alone => Respects(k))
  BY <1>2, <1>3, <1>4, <1>6 DEF Elsewhere, Respects, Excepted
<1>9. /\ \A n \in Names \ loose'[k] :
           n \in Listed(file'[k]) <=> n \in present'[k]
      /\ Listed(file'[k]) \subseteq present'[k] \cup Excepted(k)'
  BY <1>1, <1>2, <1>3, <1>4, <1>6 DEF IInv, InOrderUnlessLoose, Excepted
<1> QED
  BY <1>1, <1>5, <1>7, <1>8, <1>9, OneDirectory DEF Sound

\* Unlist takes the name of a file that is gone off the list.
LEMMA UnlistKeeps ==
    ASSUME IInv, NEW p \in Procs, Unlist(p)
    PROVE  IInv'
PROOF
<1>1. PICK k \in Kinds, old \in Names, scope \in Scopes, object \in Sequences :
        /\ proc[p].kind = k /\ proc[p].name = old /\ proc[p].scope = scope
        /\ proc[p].object = object /\ Running(p) /\ At(p, "unlist")
        /\ Asked(proc[p]) = {old, proc[p].to} /\ proc[p].alone \in BOOLEAN
  BY Fields DEF IInv, Unlist, At
<1>2. /\ Persist(p, Deleted(object, scope, old)) /\ Ends(p)
      /\ UNCHANGED <<present, started, raced, elsewhere>>
      /\ loose' = IF proc[p].alone
                  THEN Without(loose, k, {old} \ elsewhere[k]) ELSE loose
      /\ deleting' = Without(deleting, k, {old})
  BY <1>1 DEF Unlist, Mended
<1>3. /\ file' \in [Kinds -> Sequences]
      /\ \A n \in Names \ {old} : n \in Listed(file'[k]) <=> n \in Listed(object)
      /\ old \in Listed(file'[k]) <=>
            \E e \in Scopes \ {scope} : old \in object.listed[e]
      /\ \A j \in Kinds \ {k} : file'[j] = file[j]
  <2>1. PICK rest \in Sequences :
          /\ rest = Deleted(object, scope, old)
          /\ \A n \in Names \ {old} : n \in Listed(rest) <=> n \in Listed(object)
          /\ old \in Listed(rest) <=>
                \E e \in Scopes \ {scope} : old \in object.listed[e]
    BY DeletedIs
  <2> QED
    BY <1>1, <1>2, <2>1, Persisted
<1>4. /\ loose'[k] = IF proc[p].alone THEN loose[k] \ ({old} \ elsewhere[k])
                     ELSE loose[k]
      /\ \A j \in Kinds \ {k} : loose'[j] = loose[j]
      /\ loose' \in [Kinds -> SUBSET Names]
      /\ deleting'[k] = deleting[k] \ {old}
      /\ \A j \in Kinds \ {k} : deleting'[j] = deleting[j]
      /\ deleting' \in [Kinds -> SUBSET Names]
  BY <1>1, <1>2 DEF IInv, TypeOK, Without
<1>5. /\ proc' \in [Procs -> {Idle} \cup Commands] /\ ~Running(p)'
      /\ \A q \in Procs \ {p} : proc'[q] = proc[q]
  BY <1>2, Ended DEF IInv
<1>6. /\ \A n \in Names \ loose[k] : n \in Listed(object) <=> n \in Listed(file[k])
      /\ Listed(object) \subseteq present[k] \cup Excepted(k)
      /\ old \in loose[k]
      /\ ~proc[p].alone => old \in raced[k]
      /\ proc[p].alone => /\ object.listed = file[k].listed
                          /\ old \notin present[k]
                          /\ \A e \in Scopes \ {scope} :
                               old \in file[k].listed[e] => old \in elsewhere[k]
  BY <1>1 DEF IInv, Sound, Marked, Begun, Copied, Progress, Backed, At
<1>7. old \in Listed(file'[k]) => old \in raced[k] \cup elsewhere[k]
  BY <1>1, <1>3, <1>6
<1>8. TypeOK'
  BY <1>2, <1>3, <1>4, <1>5 DEF IInv, TypeOK
<1>9. Listed(file'[k]) \subseteq Names
  BY <1>3 DEF Listed, Sequences
<1>10. Elsewhere(k) /\ (~proc[p].alone => Respects(k))
  BY <1>2, <1>3, <1>4, <1>6 DEF Elsewhere, Respects, Excepted
<1>11. /\ \A n \in Names \ loose'[k] :
            n \in Listed(file'[k]) <=> n \in present'[k]
       /\ Listed(file'[k]) \subseteq present'[k] \cup Excepted(k)'
  <2>1. ASSUME NEW n \in Names \ loose'[k]
        PROVE  n \in Listed(file'[k]) <=> n \in present'[k]
    BY <1>1, <1>2, <1>3, <1>4, <1>6, <1>7 DEF IInv, InOrderUnlessLoose
  <2>2. ASSUME NEW n \in Listed(file'[k]) PROVE n \in present'[k] \cup Excepted(k)'
    BY <1>2, <1>3, <1>4, <1>6, <1>7, <1>9 DEF Excepted
  <2> QED
    BY <2>1, <2>2
<1> QED
  BY <1>1, <1>5, <1>8, <1>10, <1>11, OneDirectory DEF Sound

\* A name that another list has is noted before it is taken from one.
LEMMA NotedIs ==
    ASSUME IInv, NEW p \in Procs, Running(p), NEW k \in Kinds, proc[p].kind = k,
           NEW name \in Names, proc[p].name = name, elsewhere' = Noted(p)
    PROVE  /\ elsewhere' \in [Kinds -> SUBSET Names]
           /\ elsewhere[k] \subseteq elsewhere'[k]
           /\ \A j \in Kinds \ {k} : elsewhere'[j] = elsewhere[j]
           /\ \A e \in Scopes \ {proc[p].scope} :
                name \in file[k].listed[e] => name \in elsewhere'[k]
PROOF
<1>1. CASE ListedElsewhere(p)
  <2>1. elsewhere' = [elsewhere EXCEPT ![k] = @ \cup {name}]
    BY <1>1 DEF Noted, With
  <2> QED
    BY <2>1 DEF IInv, TypeOK
<1>2. CASE ~ListedElsewhere(p)
  <2>1. elsewhere' = elsewhere
    BY <1>2 DEF Noted
  <2>2. \A e \in Scopes \ {proc[p].scope} : name \notin file[k].listed[e]
    BY <1>2 DEF ListedElsewhere
  <2> QED
    BY <2>1, <2>2 DEF IInv, TypeOK
<1> QED
  BY <1>1, <1>2

\* Relist exchanges the names; the file of the old one is still there.
LEMMA RelistKeeps ==
    ASSUME IInv, NEW p \in Procs, Relist(p)
    PROVE  IInv'
PROOF
<1>1. PICK k \in Kinds, name \in Names, to \in Names, scope \in Scopes,
           object \in Sequences :
        /\ proc[p].kind = k /\ proc[p].name = name /\ proc[p].to = to
        /\ proc[p].scope = scope /\ proc[p].object = object
        /\ Running(p) /\ At(p, "relist") /\ Asked(proc[p]) = {name, to}
        /\ proc[p].alone \in BOOLEAN
  BY Fields DEF IInv, Relist, At
<1>2. /\ Persist(p, Added(Deleted(object, scope, name), scope, to))
      /\ Goes(p, "remove") /\ loose' = With(loose, k, {name})
      /\ elsewhere' = Noted(p)
      /\ UNCHANGED <<present, started, raced, deleting>>
  BY <1>1 DEF Relist
<1>3. /\ file' \in [Kinds -> Sequences]
      /\ \A n \in Names \ {name, to} :
            n \in Listed(file'[k]) <=> n \in Listed(object)
      /\ to \in Listed(file'[k])
      /\ name # to => (name \in Listed(file'[k]) <=>
            \E e \in Scopes \ {scope} : name \in object.listed[e])
      /\ \A j \in Kinds \ {k} : file'[j] = file[j]
  <2>1. PICK rest \in Sequences :
          /\ rest = Deleted(object, scope, name)
          /\ \A n \in Names \ {name} : n \in Listed(rest) <=> n \in Listed(object)
          /\ name \in Listed(rest) <=>
                \E e \in Scopes \ {scope} : name \in object.listed[e]
    BY DeletedIs
  <2>2. PICK new \in Sequences :
          /\ new = Added(rest, scope, to) /\ Listed(new) = Listed(rest) \cup {to}
    BY AddedIs
  <2>3. /\ file' \in [Kinds -> Sequences] /\ Listed(file'[k]) = Listed(new)
        /\ \A j \in Kinds \ {k} : file'[j] = file[j]
    BY <1>1, <1>2, <2>1, <2>2, Persisted
  <2> QED
    BY <2>1, <2>2, <2>3
<1>4. /\ loose'[k] = loose[k] \cup {name}
      /\ \A j \in Kinds \ {k} : loose'[j] = loose[j]
      /\ loose' \in [Kinds -> SUBSET Names]
  BY <1>1, <1>2 DEF IInv, TypeOK, With
<1>5. /\ elsewhere' \in [Kinds -> SUBSET Names]
      /\ elsewhere[k] \subseteq elsewhere'[k]
      /\ \A j \in Kinds \ {k} : elsewhere'[j] = elsewhere[j]
      /\ \A e \in Scopes \ {scope} :
           name \in file[k].listed[e] => name \in elsewhere'[k]
  BY <1>1, <1>2, NotedIs
<1>6. /\ proc' \in [Procs -> {Idle} \cup Commands]
      /\ Running(p)' /\ proc'[p].at = "remove"
      /\ proc'[p].kind = k /\ proc'[p].cmd = proc[p].cmd
      /\ proc'[p].name = name /\ proc'[p].to = to
      /\ proc'[p].source = proc[p].source
      /\ proc'[p].object = object /\ proc'[p].alone = proc[p].alone
      /\ \A q \in Procs \ {p} : proc'[q] = proc[q]
  BY <1>1, <1>2, GoneOn DEF IInv, Places
<1>7. /\ \A n \in Names \ loose[k] : n \in Listed(object) <=> n \in Listed(file[k])
      /\ Listed(object) \subseteq present[k] \cup Excepted(k)
      /\ to \in loose[k] /\ Cmd(p) = "rename"
      /\ k = "modules" /\ proc[p].source = name
      /\ ~proc[p].alone => {name, to} \subseteq raced[k]
      /\ proc[p].alone => /\ object.listed = file[k].listed
                          /\ to \in present[k] /\ to # name
  BY <1>1 DEF IInv, Sound, Marked, Begun, Copied, Progress, Backed, At
<1>8. proc[p].alone /\ name \in Listed(file'[k]) => name \in elsewhere'[k]
  BY <1>3, <1>5, <1>7
<1>9. TypeOK'
  BY <1>2, <1>3, <1>4, <1>5, <1>6 DEF IInv, TypeOK
<1>10. Elsewhere(k) /\ (~proc[p].alone => Respects(k))
  BY <1>2, <1>3, <1>4, <1>5, <1>7 DEF Elsewhere, Respects, Excepted
<1>11. Listed(file'[k]) \subseteq Names /\ Listed(object) \subseteq Names
  BY <1>3 DEF Listed, Sequences
<1>12. Sound(p)'
  <2>1. Marked(p)' /\ Begun(p)'
    BY <1>1, <1>2, <1>4, <1>6, <1>7 DEF Marked, Begun, At, Cmd, Asked
  <2>2. Copied(p)' /\ Backed(p)'
    BY <1>1, <1>2, <1>3, <1>4, <1>5, <1>6, <1>7
       DEF Copied, Backed, Excepted, At, Cmd
  <2>3. Progress(p)'
    BY <1>1, <1>2, <1>3, <1>6, <1>7, <1>8 DEF Progress, At, Cmd
  <2> QED
    BY <2>1, <2>2, <2>3 DEF Sound
<1>13. \A n \in Names \ loose'[k] :
            n \in Listed(file'[k]) <=> n \in present'[k]
  BY <1>1, <1>2, <1>3, <1>4, <1>7 DEF IInv, InOrderUnlessLoose
<1>14. Listed(file'[k]) \subseteq present'[k] \cup Excepted(k)'
  <2> SUFFICES ASSUME NEW n \in Listed(file'[k])
               PROVE  n \in present'[k] \cup Excepted(k)'
    OBVIOUS
  <2>1. CASE n \notin {name, to}
    BY <2>1, <1>2, <1>3, <1>5, <1>7, <1>11 DEF Excepted
  <2>2. CASE n \in {name, to}
    BY <2>2, <1>1, <1>2, <1>7, <1>8 DEF Excepted
  <2> QED
    BY <2>1, <2>2
<1> QED
  BY <1>1, <1>6, <1>9, <1>10, <1>12, <1>13, <1>14, OneDirectory

\* Remove ends a renaming, begins a deletion, or finds nothing to remove.
LEMMA RemoveKeeps ==
    ASSUME IInv, NEW p \in Procs, Remove(p)
    PROVE  IInv'
PROOF
<1>1. PICK k \in Kinds, name \in Names, to \in Names, scope \in Scopes,
           object \in Sequences :
        /\ proc[p].kind = k /\ proc[p].name = name /\ proc[p].to = to
        /\ proc[p].scope = scope /\ proc[p].object = object
        /\ Running(p) /\ At(p, "remove") /\ Asked(proc[p]) = {name, to}
        /\ proc[p].alone \in BOOLEAN
  <2>1. At(p, "remove") /\ Running(p)
    BY DEF Remove, At
  <2> QED
    BY <2>1, Fields DEF IInv, At
<1>2. present' = Without(present, k, {name}) /\ UNCHANGED <<file, started, raced>>
  BY <1>1 DEF Remove
<1>3. /\ present'[k] = present[k] \ {name}
      /\ \A j \in Kinds \ {k} : present'[j] = present[j]
      /\ present' \in [Kinds -> SUBSET Names]
  BY <1>1, <1>2 DEF IInv, TypeOK, Without
<1>4. /\ \A n \in Names \ loose[k] : n \in Listed(object) <=> n \in Listed(file[k])
      /\ Listed(object) \subseteq present[k] \cup Excepted(k)
      /\ ~proc[p].alone => {name, to} \subseteq raced[k] \cap loose[k]
      /\ Cmd(p) = "rename" => {name, to} \subseteq loose[k]
      /\ proc[p].alone /\ Cmd(p) = "rename" =>
            /\ to # name /\ to \in present[k] /\ to \in Listed(file[k])
            /\ name \in Listed(file[k]) => name \in elsewhere[k]
      /\ proc[p].alone /\ Cmd(p) = "delete" => object.listed = file[k].listed
      /\ Cmd(p) = "delete" => name = to
  BY <1>1 DEF IInv, Sound, Marked, Begun, Copied, Progress, Backed, At
<1>5. Listed(file[k]) \subseteq present[k] \cup Excepted(k)
  BY DEF IInv, ListedItemsHaveFiles, Excepted
<1>6. CASE Cmd(p) = "rename" /\ name \in present[k]
  <2>1. /\ Ends(p) /\ UNCHANGED <<elsewhere, deleting>>
        /\ loose' = Mended(p, {name, to})
    BY <1>1, <1>6 DEF Remove
  <2>2. /\ loose'[k] = IF proc[p].alone
                       THEN loose[k] \ ({name, to} \ elsewhere[k]) ELSE loose[k]
        /\ \A j \in Kinds \ {k} : loose'[j] = loose[j]
        /\ loose' \in [Kinds -> SUBSET Names]
    BY <1>1, <2>1 DEF IInv, TypeOK, Mended, Without
  <2>3. /\ proc' \in [Procs -> {Idle} \cup Commands] /\ ~Running(p)'
        /\ \A q \in Procs \ {p} : proc'[q] = proc[q]
    BY <2>1, Ended DEF IInv
  <2>4. TypeOK'
    BY <1>2, <1>3, <2>1, <2>2, <2>3 DEF IInv, TypeOK
  <2>5. Elsewhere(k) /\ (~proc[p].alone => Respects(k))
    BY <1>2, <1>3, <1>4, <2>1, <2>2 DEF Elsewhere, Respects, Excepted
  <2>6. /\ \A n \in Names \ loose'[k] :
             n \in Listed(file'[k]) <=> n \in present'[k]
        /\ Listed(file'[k]) \subseteq present'[k] \cup Excepted(k)'
    <3>1. ASSUME NEW n \in Names \ loose'[k]
          PROVE  n \in Listed(file'[k]) <=> n \in present'[k]
      <4>1. CASE n \in loose[k]
        <5>1. proc[p].alone /\ n \in {name, to} /\ n \notin elsewhere[k]
          BY <4>1, <1>1, <2>2
        <5>2. UNCHANGED file
          BY <1>2
        <5> QED
          BY <5>1, <5>2, <1>3, <1>4, <1>6
      <4>2. CASE n \notin loose[k]
        BY <4>2, <1>2, <1>3, <1>4, <1>6 DEF IInv, InOrderUnlessLoose
      <4> QED
        BY <4>1, <4>2
    <3>2. Listed(file'[k]) \subseteq present'[k] \cup Excepted(k)'
      BY <1>2, <1>3, <1>4, <1>5, <1>6, <2>1 DEF Excepted
    <3> QED
      BY <3>1, <3>2
  <2> QED
    BY <1>1, <2>3, <2>4, <2>5, <2>6, OneDirectory DEF Sound
<1>7. CASE Cmd(p) = "delete" /\ (name \in present[k] \/ k = "modules")
  <2>1. /\ loose' = With(loose, k, {name}) /\ deleting' = With(deleting, k, {name})
        /\ elsewhere' = Noted(p) /\ Goes(p, "unlist")
    BY <1>1, <1>7 DEF Remove
  <2>2. /\ loose'[k] = loose[k] \cup {name}
        /\ \A j \in Kinds \ {k} : loose'[j] = loose[j]
        /\ loose' \in [Kinds -> SUBSET Names]
        /\ deleting'[k] = deleting[k] \cup {name}
        /\ \A j \in Kinds \ {k} : deleting'[j] = deleting[j]
        /\ deleting' \in [Kinds -> SUBSET Names]
    BY <1>1, <2>1 DEF IInv, TypeOK, With
  <2>3. /\ elsewhere' \in [Kinds -> SUBSET Names]
        /\ elsewhere[k] \subseteq elsewhere'[k]
        /\ \A j \in Kinds \ {k} : elsewhere'[j] = elsewhere[j]
        /\ \A e \in Scopes \ {scope} :
             name \in file[k].listed[e] => name \in elsewhere'[k]
    BY <1>1, <2>1, NotedIs
  <2>4. /\ proc' \in [Procs -> {Idle} \cup Commands]
        /\ Running(p)' /\ proc'[p].at = "unlist"
        /\ proc'[p].kind = k /\ proc'[p].cmd = proc[p].cmd
        /\ proc'[p].name = name /\ proc'[p].to = to /\ proc'[p].scope = scope
        /\ proc'[p].source = proc[p].source
        /\ proc'[p].object = object /\ proc'[p].alone = proc[p].alone
        /\ \A q \in Procs \ {p} : proc'[q] = proc[q]
    BY <1>1, <2>1, GoneOn DEF IInv, Places
  <2>5. TypeOK'
    BY <1>2, <1>3, <2>2, <2>3, <2>4 DEF IInv, TypeOK
  <2>6. Elsewhere(k) /\ Respects(k)
    BY <1>2, <1>3, <1>4, <2>2, <2>3 DEF Elsewhere, Respects, Excepted, IInv,
       InOrderUnlessLoose
  <2>7. Sound(p)'
    <3>1. Marked(p)' /\ Begun(p)'
      BY <1>1, <1>2, <1>4, <1>7, <2>2, <2>4 DEF Marked, Begun, At, Cmd, Asked
    <3>2. Copied(p)' /\ Backed(p)'
      BY <1>1, <1>2, <1>3, <1>4, <1>7, <2>2, <2>3, <2>4
         DEF Copied, Backed, Excepted, At, Cmd
    <3>3. Progress(p)'
      BY <1>1, <1>2, <1>3, <1>7, <2>3, <2>4 DEF Progress, At, Cmd
    <3> QED
      BY <3>1, <3>2, <3>3 DEF Sound
  <2>8. /\ \A n \in Names \ loose'[k] :
             n \in Listed(file'[k]) <=> n \in present'[k]
        /\ Listed(file'[k]) \subseteq present'[k] \cup Excepted(k)'
    BY <1>1, <1>2, <1>3, <1>5, <2>2, <2>3 DEF IInv, InOrderUnlessLoose, Excepted
  <2> QED
    BY <1>1, <2>4, <2>5, <2>6, <2>7, <2>8, OneDirectory
<1>8. CASE /\ name \notin present[k]
           /\ Ends(p) /\ UNCHANGED <<loose, elsewhere, deleting>>
  <2>1. /\ proc' \in [Procs -> {Idle} \cup Commands] /\ ~Running(p)'
        /\ \A q \in Procs \ {p} : proc'[q] = proc[q]
    BY <1>8, Ended DEF IInv
  <2>2. UNCHANGED <<workspace, started, history>>
    BY <1>2, <1>8 DEF Without, IInv, TypeOK, workspace, history
  <2> QED
    BY <1>1, <2>1, <2>2, Quiet DEF Sound
<1> QED
  BY <1>1, <1>6, <1>7, <1>8 DEF Remove

\* A command that starts marks what it and those beside it are about.
LEMMA StartKeeps ==
    ASSUME IInv, NEW p \in Procs, NEW cmd, NEW kind \in Kinds,
           NEW source \in Names, NEW name \in Names, NEW to \in Names,
           NEW scope \in Scopes, NEW place,
           \/ cmd = "create" /\ place \in {"read", "write"} /\ name = to
           \/ cmd = "rename" /\ place = "read" /\ kind = "modules" /\ source = name
           \/ cmd = "delete" /\ place = "remove" /\ name = to,
           Start(p, cmd, kind, source, name, to, scope, place)
    PROVE  IInv'
PROOF
<1> DEFINE others == {q \in Procs : Running(q) /\ proc[q].kind = kind}
           names == {name, to} \cup UNION {Asked(proc[q]) : q \in others}
           object == Picked(file[kind], Env)
           new == [at |-> place, cmd |-> cmd, kind |-> kind, source |-> source,
                   name |-> name, to |-> to, scope |-> scope, object |-> object,
                   alone |-> others = {}]
<1>1. /\ ~Running(p) /\ started < MaxCommands /\ started' = started + 1
      /\ proc' = [q \in Procs |->
                    CASE q = p -> new
                      [] q \in others -> [proc[q] EXCEPT !.alone = FALSE]
                      [] OTHER -> proc[q]]
      /\ raced' = IF others = {} THEN raced ELSE With(raced, kind, names)
      /\ loose' = IF others = {} THEN loose ELSE With(loose, kind, names)
      /\ UNCHANGED <<workspace, deleting, elsewhere>>
  BY DEF Start
<1>2. /\ object \in Sequences /\ object.listed = file[kind].listed
      /\ Listed(object) = Listed(file[kind])
  <2>1. file[kind] \in Sequences
    BY DEF IInv, TypeOK
  <2> QED
    BY <2>1, PickedIs, ModuleAssumption
<1>3. p \notin others
  BY <1>1
<1>4. new \in Commands
  BY <1>2 DEF Commands
<1> HIDE DEF object
<1>4a. /\ others = {} => new.alone = TRUE
      /\ others # {} => new.alone = FALSE
  OBVIOUS
<1>5. /\ proc'[p] = new
      /\ \A q \in others : proc'[q] = [proc[q] EXCEPT !.alone = FALSE]
      /\ \A q \in Procs \ (others \cup {p}) : proc'[q] = proc[q]
  BY <1>1, <1>3
<1>6. \A q \in others :
        /\ proc[q] \in Commands /\ proc'[q] \in Commands
        /\ Running(q) /\ Running(q)' /\ ~proc'[q].alone
        /\ proc'[q].at = proc[q].at /\ proc'[q].cmd = proc[q].cmd
        /\ proc'[q].kind = kind /\ proc[q].kind = kind
        /\ proc'[q].source = proc[q].source
        /\ proc'[q].name = proc[q].name /\ proc'[q].to = proc[q].to
        /\ proc'[q].object = proc[q].object /\ Asked(proc'[q]) = Asked(proc[q])
  <2> SUFFICES ASSUME NEW q \in others
               PROVE  /\ proc[q] \in Commands /\ proc'[q] \in Commands
                      /\ Running(q) /\ Running(q)' /\ ~proc'[q].alone
                      /\ proc'[q].at = proc[q].at /\ proc'[q].cmd = proc[q].cmd
                      /\ proc'[q].kind = kind /\ proc[q].kind = kind
                      /\ proc'[q].source = proc[q].source
                      /\ proc'[q].name = proc[q].name /\ proc'[q].to = proc[q].to
                      /\ proc'[q].object = proc[q].object
                      /\ Asked(proc'[q]) = Asked(proc[q])
    OBVIOUS
  <2>1. proc[q] \in Commands /\ proc'[q] = [proc[q] EXCEPT !.alone = FALSE]
    BY <1>5, Fields DEF IInv
  <2> QED
    BY <2>1 DEF Commands, Running, Asked
<1>7. names \subseteq Names
  BY <1>6, Fields DEF IInv
<1>8. /\ raced' \in [Kinds -> SUBSET Names] /\ loose' \in [Kinds -> SUBSET Names]
      /\ raced[kind] \subseteq raced'[kind] /\ loose[kind] \subseteq loose'[kind]
      /\ \A j \in Kinds \ {kind} : raced'[j] = raced[j] /\ loose'[j] = loose[j]
      /\ others # {} => names \subseteq raced'[kind] \cap loose'[kind]
  BY <1>1, <1>7 DEF IInv, TypeOK, With
<1>9. /\ UNCHANGED <<file, present, deleting, elsewhere>>
  BY <1>1 DEF workspace
<1>10. \A j \in Kinds : Excepted(j) \subseteq Excepted(j)'
  BY <1>8, <1>9 DEF Excepted
<1>11. TypeOK'
  <2>1. proc' \in [Procs -> {Idle} \cup Commands]
    BY <1>1, <1>4, <1>5, <1>6 DEF IInv, TypeOK
  <2>2. started' \in 0 .. MaxCommands
    BY <1>1, ModuleAssumption DEF IInv, TypeOK
  <2> QED
    BY <2>1, <2>2, <1>8, <1>9 DEF IInv, TypeOK
<1>12. Apart'
  <2> SUFFICES ASSUME NEW q \in Procs, NEW r \in Procs, q # r,
                      Running(q)', Running(r)', proc'[q].kind = proc'[r].kind
               PROVE  ~proc'[q].alone
    BY DEF Apart
  <2>1. CASE q \in others
    BY <2>1, <1>6
  <2>2. CASE q = p
    <3>1. proc'[r] = proc[r] \/ r \in others
      BY <2>2, <1>5
    <3>2. r \in others
      BY <3>1, <2>2, <1>5, <1>6 DEF Running
    <3> QED
      BY <3>2, <2>2, <1>5, <1>4a
  <2>3. CASE q \notin others \cup {p}
    <3>1. proc'[q] = proc[q] /\ Running(q) /\ proc[q].kind # kind
      BY <2>3, <1>5 DEF Running
    <3>2. r \notin others \cup {p}
      BY <3>1, <1>5, <1>6
    <3> QED
      BY <3>1, <3>2, <1>5 DEF IInv, Apart, Running
  <2> QED
    BY <2>1, <2>2, <2>3
<1>13. Sound(p)'
  <2>2. /\ proc'[p].at = place /\ proc'[p].cmd = cmd /\ proc'[p].kind = kind
        /\ proc'[p].source = source /\ proc'[p].name = name /\ proc'[p].to = to
        /\ proc'[p].object = object /\ Asked(proc'[p]) = {name, to}
    BY <1>5 DEF Asked
  <2>3. Marked(p)' /\ Begun(p)'
    <3>1. CASE others = {}
      <4>1. new.alone = TRUE
        BY <3>1, <1>4a
      <4>2. proc'[p] = new
        BY <1>5
      <4> HIDE DEF new, others
      <4>3. proc'[p].alone = TRUE
        BY <4>1, <4>2
      <4> QED
        BY <4>3, <2>2 DEF Marked, Begun, At, Cmd
    <3>2. CASE others # {}
      BY <3>2, <2>2, <1>8 DEF Marked, Begun, At, Cmd
    <3> QED
      BY <3>1, <3>2
  <2>4. Copied(p)' /\ Progress(p)'
    BY <2>2, <1>2, <1>9 DEF Copied, Progress, At, Cmd
  <2>5. Backed(p)'
    BY <2>2, <1>2, <1>9, <1>10 DEF Backed, Excepted, IInv, ListedItemsHaveFiles
  <2> QED
    BY <2>3, <2>4, <2>5 DEF Sound
<1>14. ASSUME NEW q \in others PROVE Sound(q)'
  <2>1. Sound(q) /\ Asked(proc[q]) \subseteq raced'[kind] \cap loose'[kind]
    BY <1>8 DEF IInv
  <2>2. Marked(q)' /\ Begun(q)'
    BY <2>1, <1>6, <1>8 DEF Sound, Marked, Begun, At, Cmd
  <2>3. Copied(q)' /\ Progress(q)' /\ Backed(q)'
    BY <2>1, <1>6, <1>8, <1>9, <1>10 DEF Sound, Copied, Progress, Backed
  <2> QED
    BY <2>2, <2>3 DEF Sound
<1>15. ASSUME NEW q \in Procs \ (others \cup {p}) PROVE Sound(q)'
  <2>1. CASE ~Running(q)
    BY <2>1, <1>5 DEF Sound, Running
  <2>2. CASE Running(q)
    <3>1. proc[q].kind \in Kinds \ {kind}
      BY <2>2, Fields DEF IInv
    <3> QED
      BY <3>1, <2>2, <1>5, <1>8, <1>9, FarAway DEF IInv
  <2> QED
    BY <2>1, <2>2
<1>16. InOrderUnlessLoose' /\ ListedItemsHaveFiles'
  BY <1>8, <1>9, <1>10 DEF IInv, InOrderUnlessLoose, ListedItemsHaveFiles, Excepted
<1> QED
  BY <1>11, <1>12, <1>13, <1>14, <1>15, <1>16 DEF IInv
-----------------------------------------------------------------------------
LEMMA InitHolds == Init => IInv
PROOF
<1> SUFFICES ASSUME Init PROVE IInv
  OBVIOUS
<1>1. PICK items \in SUBSET Names, templates \in SUBSET Names :
        /\ present = [k \in Kinds |-> CASE k = "modules" -> items
                                        [] k = "templates" -> templates
                                        [] OTHER -> {}]
        /\ file = [k \in Kinds |->
             [listed |-> [e \in Scopes |->
                              IF e = "global" THEN present[k] ELSE {}],
              props |-> {}]]
  BY DEF Init
<1>2. \A p \in Procs : ~Running(p)
  BY DEF Init, Running, Idle
<1>3. present \in [Kinds -> SUBSET Names]
  BY <1>1 DEF Kinds
<1>4. \A k \in Kinds : file[k] \in Sequences /\ Listed(file[k]) = present[k]
  <2> SUFFICES ASSUME NEW k \in Kinds
               PROVE  file[k] \in Sequences /\ Listed(file[k]) = present[k]
    OBVIOUS
  <2>1. file[k] = [listed |-> [e \in Scopes |->
                       IF e = "global" THEN present[k] ELSE {}], props |-> {}]
    BY <1>1
  <2>2. "global" \in Scopes
    BY DEF Scopes
  <2> QED
    BY <2>1, <2>2, <1>3 DEF Sequences, Listed
<1>5. file \in [Kinds -> Sequences]
  BY <1>1, <1>4
<1>6. TypeOK
  BY <1>3, <1>5, ModuleAssumption DEF Init, TypeOK, None
<1> QED
  BY <1>2, <1>4, <1>6
     DEF IInv, Apart, Sound, InOrderUnlessLoose, ListedItemsHaveFiles

\* Every command starts as StartKeeps asks.
LEMMA StartsKeep ==
    ASSUME IInv, NEW p \in Procs,
           \/ CreateModule(p) \/ RenameModule(p) \/ DeleteModule(p)
           \/ CreateTemplate(p) \/ DeleteTemplate(p)
           \/ GenerateSDK(p) \/ GenerateERD(p)
    PROVE  IInv'
PROOF
<1>1. {"modules", "templates", "public"} \subseteq Kinds /\ "global" \in Scopes
  BY DEF Kinds, Scopes
<1>2. CASE CreateModule(p)
  <2>1. PICK template \in Includes(file["templates"], Env), n \in Names,
             scope \in Scopes :
          Start(p, "create", "modules", template, n, n, scope, "read")
    BY <1>2 DEF CreateModule
  <2>2. template \in Names
    BY <1>1, ModuleAssumption DEF IInv, TypeOK, Sequences, Includes, Scopes
  <2> QED
    BY <2>1, <2>2, <1>1, StartKeeps
<1>3. CASE RenameModule(p)
  BY <1>1, <1>3, StartKeeps DEF RenameModule
<1>4. CASE DeleteModule(p)
  BY <1>1, <1>4, StartKeeps DEF DeleteModule
<1>5. CASE CreateTemplate(p)
  BY <1>1, <1>5, StartKeeps DEF CreateTemplate
<1>6. CASE DeleteTemplate(p)
  BY <1>1, <1>6, StartKeeps DEF DeleteTemplate
<1>7. CASE GenerateSDK(p)
  BY <1>1, <1>7, StartKeeps DEF GenerateSDK
<1>8. CASE GenerateERD(p)
  BY <1>1, <1>8, StartKeeps DEF GenerateERD
<1> QED
  BY <1>2, <1>3, <1>4, <1>5, <1>6, <1>7, <1>8

LEMMA StepKeeps == IInv /\ [Next]_vars => IInv'
PROOF
<1> SUFFICES ASSUME IInv, [Next]_vars PROVE IInv'
  OBVIOUS
<1>1. ASSUME NEW p \in Procs, Run(p) PROVE IInv'
  BY <1>1, StartsKeep, ReadKeeps, WriteKeeps, ListKeeps, RelistKeeps,
     RemoveKeeps, UnlistKeeps, FailKeeps, UpToDateIsFail DEF Run
<1>2. CASE UNCHANGED vars
  BY <1>2 DEF vars, workspace, history, IInv, TypeOK, Apart, Sound, Running, At,
     Cmd, Marked, Begun, Copied, Progress, Backed, Excepted, InOrderUnlessLoose,
     ListedItemsHaveFiles
<1> QED
  BY <1>1, <1>2 DEF Next

\* The invariant holds of every reachable state.
THEOREM Invariant == Spec => []IInv
  BY InitHolds, StepKeeps, PTL DEF Spec

\* Whatever commands run and fail, files, lists and commands are well typed: the
\* places commands stand at are those of the code, and names stay names.
THEOREM TypeCorrect == Spec => []TypeOK
PROOF
<1>1. IInv => TypeOK
  BY DEF IInv
<1> QED
  BY <1>1, Invariant, PTL

\* For any number of commands, terminals and names, a name that no command has
\* left unfinished is listed if and only if its file is there.
THEOREM OrderCorrect == Spec => []InOrderUnlessLoose
PROOF
<1>1. IInv => InOrderUnlessLoose
  BY DEF IInv
<1> QED
  BY <1>1, Invariant, PTL

\* And what is listed has its file, but for the three exceptions.
THEOREM FilesCorrect == Spec => []ListedItemsHaveFiles
PROOF
<1>1. IInv => ListedItemsHaveFiles
  BY DEF IInv
<1> QED
  BY <1>1, Invariant, PTL
-----------------------------------------------------------------------------
(* The generators of SDKs. *)

\* Where the command of a terminal stands when its generation is at a stage.
Placed(p) ==
    /\ Running(p) /\ proc[p].kind = "public" =>
          /\ proc[p].cmd = "create" /\ proc[p].at \in {"write", "list"}
          /\ proc[p].to \in Versions => Generating(p)
    /\ Generating(p) =>
          /\ Running(p) => proc[p].kind = "public" /\ proc[p].to = gen[p].version
          /\ Running(p) <=>
                gen[p].tool = "npm" \/ gen[p].stage \notin {"build", "move"}
          /\ gen[p].stage # "folder" =>
                Folder(gen[p].tool) \in folders[gen[p].version]

\* What a generation has written is there, if it has the version to itself.
Owned(p) ==
    LET v == gen[p].version
        tool == gen[p].tool
        stage == gen[p].stage
    IN  Generating(p) /\ v \notin raced["public"] =>
          /\ stage \in {"folder", "extensions", "sources"} =>
                written[v][tool]["sources"] = 0
          /\ stage = "sources" => written[v][tool]["extensions"] = gen[p].id
          /\ stage \in {"list", "build", "move"} => WrittenBy(v, tool, gen[p].id)
          /\ stage = "move" => tarball[v][tool] = {gen[p].id}
          /\ stage = "list" /\ tool = "npm" => Whole(v)

\* Two generations of a version with one tool race.
Exclusive ==
    \A p, q \in Procs :
        /\ p # q /\ Generating(p) /\ Generating(q)
        /\ gen[p].tool = gen[q].tool /\ gen[p].version = gen[q].version
        => gen[p].version \in raced["public"]

\* Nothing is written but into a folder.
InFolders ==
    \A v \in Versions, tool \in Tools :
        written[v][tool]["sources"] # 0 => Folder(tool) \in folders[v]

\* What a command may list again is whole.
Relists(p) ==
    Running(p) /\ proc[p].kind = "public" =>
        \A v \in Versions \ raced["public"] :
            v \in Listed(proc[p].object) => Whole(v)

SInv ==
    /\ SdkTypeOK
    /\ \A p \in Procs : Placed(p) /\ Owned(p) /\ Relists(p)
    /\ Exclusive /\ InFolders /\ ListedSdksAreWhole
-----------------------------------------------------------------------------
\* A command that starts among the others.
LEMMA StartIs ==
    ASSUME TypeOK, NEW p \in Procs, NEW cmd \in {"create", "rename", "delete"},
           NEW kind \in Kinds, NEW source \in Names, NEW name \in Names,
           NEW to \in Names, NEW scope \in Scopes, NEW place \in Places,
           Start(p, cmd, kind, source, name, to, scope, place)
    PROVE  /\ UNCHANGED workspace /\ ~Running(p)
           /\ started' = started + 1 /\ started < MaxCommands
           /\ raced["public"] \subseteq raced'["public"]
           /\ proc'[p].at = place /\ proc'[p].cmd = cmd /\ proc'[p].kind = kind
           /\ proc'[p].to = to /\ proc'[p].object = Picked(file[kind], Env)
           /\ \A q \in Procs \ {p} :
                /\ Running(q)' <=> Running(q)
                /\ Running(q) =>
                     /\ proc'[q].at = proc[q].at /\ proc'[q].cmd = proc[q].cmd
                     /\ proc'[q].kind = proc[q].kind /\ proc'[q].to = proc[q].to
                     /\ proc'[q].object = proc[q].object
                     /\ kind = "public" /\ proc[q].kind = "public" =>
                          {to, proc[q].to} \subseteq raced'["public"]
PROOF
<1> DEFINE others == {q \in Procs : Running(q) /\ proc[q].kind = kind}
           names == {name, to} \cup UNION {Asked(proc[q]) : q \in others}
           new == [at |-> place, cmd |-> cmd, kind |-> kind, source |-> source,
                   name |-> name, to |-> to, scope |-> scope,
                   object |-> Picked(file[kind], Env), alone |-> others = {}]
<1>1. /\ ~Running(p) /\ started < MaxCommands /\ started' = started + 1
      /\ proc' = [q \in Procs |->
                    CASE q = p -> new
                      [] q \in others -> [proc[q] EXCEPT !.alone = FALSE]
                      [] OTHER -> proc[q]]
      /\ raced' = IF others = {} THEN raced ELSE With(raced, kind, names)
      /\ UNCHANGED workspace
  BY DEF Start
<1>2. /\ proc'[p] = new
      /\ \A q \in others : proc'[q] = [proc[q] EXCEPT !.alone = FALSE]
      /\ \A q \in Procs \ (others \cup {p}) : proc'[q] = proc[q]
  BY <1>1
<1>3. /\ proc'[p].at = place /\ proc'[p].cmd = cmd /\ proc'[p].kind = kind
      /\ proc'[p].to = to /\ proc'[p].object = Picked(file[kind], Env)
  BY <1>2
<1>4. \A q \in others : names \subseteq raced'[kind]
  BY <1>1 DEF TypeOK, With
<1>5. raced["public"] \subseteq raced'["public"]
  BY <1>1 DEF TypeOK, With, Kinds
<1>6. ASSUME NEW q \in others
      PROVE  /\ Running(q)' /\ proc'[q].at = proc[q].at /\ proc'[q].cmd = proc[q].cmd
             /\ proc'[q].kind = proc[q].kind /\ proc'[q].to = proc[q].to
             /\ proc'[q].object = proc[q].object
             /\ {to, proc[q].to} \subseteq names
  <2>1. proc[q] \in Commands /\ proc'[q] = [proc[q] EXCEPT !.alone = FALSE]
    BY <1>2, Fields
  <2>2. {to, proc[q].to} \subseteq names
    BY DEF Asked
  <2> HIDE DEF names, others
  <2> QED
    BY <2>1, <2>2 DEF Commands, Running
<1>7. \A q \in Procs \ (others \cup {p}) :
          /\ Running(q)' <=> Running(q)
          /\ Running(q) => proc[q].kind # kind
  BY <1>2 DEF Running
<1>8. ASSUME NEW q \in Procs \ {p}
      PROVE  /\ Running(q)' <=> Running(q)
             /\ Running(q) =>
                  /\ proc'[q].at = proc[q].at /\ proc'[q].cmd = proc[q].cmd
                  /\ proc'[q].kind = proc[q].kind /\ proc'[q].to = proc[q].to
                  /\ proc'[q].object = proc[q].object
                  /\ kind = "public" /\ proc[q].kind = "public" =>
                       {to, proc[q].to} \subseteq raced'["public"]
  <2>1. CASE q \in others
    <3>1. Running(q)
      BY <2>1
    <3>2. {to, proc[q].to} \subseteq raced'[kind]
      BY <1>4, <1>6, <2>1
    <3> QED
      BY <1>6, <2>1, <3>1, <3>2
  <2>2. CASE q \notin others
    <3>1. q \in Procs \ (others \cup {p})
      BY <2>2
    <3>2. (Running(q)' <=> Running(q)) /\ (Running(q) => proc[q].kind # kind)
      BY <1>7, <3>1
    <3>3. proc'[q] = proc[q]
      BY <1>2, <3>1
    <3> QED
      BY <3>2, <3>3
  <2> QED
    BY <2>1, <2>2
<1> HIDE DEF names, others, new
<1> QED
  BY <1>1, <1>3, <1>5, <1>8

\* What holds of the generations does not mind more races.
LEMMA OwnedStill ==
    ASSUME SInv, NEW p \in Procs, gen'[p] = gen[p], UNCHANGED sdk,
           raced["public"] \subseteq raced'["public"]
    PROVE  Owned(p)'
PROOF
<1>1. Owned(p)
  BY DEF SInv
<1> QED
  BY <1>1 DEF Owned, Generating, WrittenBy, Whole, sdk

\* The commands that generate no SDK leave the invariant to their own terminal.
LEMMA OthersQuiet ==
    ASSUME SInv, TypeOK', NEW p \in Procs, UNCHANGED <<gen, sdk>>,
           raced["public"] \subseteq raced'["public"],
           \A q \in Procs \ {p} :
               /\ Running(q)' <=> Running(q)
               /\ Running(q) =>
                    /\ proc'[q].at = proc[q].at /\ proc'[q].cmd = proc[q].cmd
                    /\ proc'[q].kind = proc[q].kind /\ proc'[q].to = proc[q].to
                    /\ proc'[q].object = proc[q].object,
           Placed(p)', Relists(p)',
           \A v \in Versions \ raced'["public"] :
               v \in Listed(file'["public"]) => Whole(v)
    PROVE  SInv'
PROOF
<1>1. SdkTypeOK'
  BY DEF SInv, SdkTypeOK, sdk
<1>2. \A q \in Procs : Owned(q)'
  BY OwnedStill
<1>3. ASSUME NEW v \in Versions PROVE Whole(v)' <=> Whole(v)
  BY DEF Whole, WrittenBy, sdk
<1>4. ASSUME NEW q \in Procs \ {p} PROVE Placed(q)' /\ Relists(q)'
  <2>1. Placed(q) /\ Relists(q)
    BY DEF SInv
  <2>2. Placed(q)'
    BY <2>1 DEF Placed, Generating, sdk
  <2>3. Relists(q)'
    BY <1>3, <2>1 DEF Relists
  <2> QED
    BY <2>2, <2>3
<1>5. Exclusive' /\ InFolders'
  BY DEF SInv, Exclusive, InFolders, Generating, sdk
<1>6. ListedSdksAreWhole'
  BY <1>3 DEF ListedSdksAreWhole
<1> QED
  BY <1>1, <1>2, <1>4, <1>5, <1>6 DEF SInv

\* A command that generates no SDK starts.
LEMMA StartQuiet ==
    ASSUME IInv, SInv, TypeOK', NEW p \in Procs, ~Generating(p), UNCHANGED <<gen, sdk>>,
           NEW cmd \in {"create", "rename", "delete"},
           NEW kind \in Kinds, NEW source \in Names, NEW name \in Names,
           NEW to \in Names, NEW scope \in Scopes, NEW place \in Places,
           Start(p, cmd, kind, source, name, to, scope, place),
           kind = "public" => cmd = "create" /\ place = "write" /\ to \notin Versions
    PROVE  SInv'
PROOF
<1>1. TypeOK
  BY DEF IInv
<1>2. /\ UNCHANGED workspace
      /\ raced["public"] \subseteq raced'["public"]
      /\ proc'[p].at = place /\ proc'[p].cmd = cmd /\ proc'[p].kind = kind
      /\ proc'[p].to = to /\ proc'[p].object = Picked(file[kind], Env)
      /\ \A q \in Procs \ {p} :
            /\ Running(q)' <=> Running(q)
            /\ Running(q) =>
                 /\ proc'[q].at = proc[q].at /\ proc'[q].cmd = proc[q].cmd
                 /\ proc'[q].kind = proc[q].kind /\ proc'[q].to = proc[q].to
                 /\ proc'[q].object = proc[q].object
  BY <1>1, StartIs
<1>3. ListedSdksAreWhole
  BY DEF SInv
<1>4. Placed(p)'
  BY <1>2 DEF Placed, Generating
<1>5. ASSUME NEW v \in Versions PROVE Whole(v)' <=> Whole(v)
  BY DEF Whole, WrittenBy, sdk
<1>6. Listed(Picked(file[kind], Env)) = Listed(file[kind])
  BY <1>1, PickedIs, ModuleAssumption DEF TypeOK
<1>7. Relists(p)'
  BY <1>2, <1>3, <1>5, <1>6 DEF Relists, ListedSdksAreWhole
<1>8. \A v \in Versions \ raced'["public"] :
          v \in Listed(file'["public"]) => Whole(v)
  BY <1>2, <1>3 DEF ListedSdksAreWhole, workspace
<1> QED
  BY <1>2, <1>4, <1>7, <1>8, OthersQuiet

\* It goes on, and lists no version.
LEMMA GoQuiet ==
    ASSUME IInv, SInv, TypeOK', NEW p \in Procs, ~Generating(p), UNCHANGED <<gen, sdk>>,
           Running(p), UNCHANGED raced,
           \/ Ends(p)
           \/ /\ \E place \in Places : Goes(p, place)
              /\ proc[p].kind = "public" => Goes(p, "list"),
           \A v \in Listed(file'["public"]) \cap Versions :
               \/ v \in Listed(file["public"])
               \/ proc[p].kind = "public" /\ v \in Listed(proc[p].object)
    PROVE  SInv'
PROOF
<1>1. TypeOK /\ Placed(p) /\ Relists(p) /\ ListedSdksAreWhole
  BY DEF IInv, SInv
<1>2. \A q \in Procs \ {p} : proc'[q] = proc[q]
  BY <1>1, Ended, GoneOn
<1>3. ASSUME NEW v \in Versions PROVE Whole(v)' <=> Whole(v)
  BY DEF Whole, WrittenBy, sdk
<1>4. Placed(p)' /\ Relists(p)'
  <2>1. CASE Ends(p)
    BY <1>1, <2>1, Ended DEF Placed, Relists, Generating
  <2>2. CASE ~Ends(p)
    <3>1. PICK place \in Places :
              Goes(p, place) /\ (proc[p].kind = "public" => Goes(p, "list"))
      BY <2>2
    <3>2. /\ proc'[p].at = place /\ proc'[p].kind = proc[p].kind
          /\ proc'[p].cmd = proc[p].cmd /\ proc'[p].to = proc[p].to
          /\ proc'[p].object = proc[p].object
      BY <1>1, <3>1, GoneOn
    <3>3. proc[p].kind = "public" => proc'[p].at = "list"
      BY <1>1, <3>1, GoneOn DEF Places
    <3> QED
      BY <1>1, <1>3, <3>2, <3>3 DEF Placed, Relists, Generating
  <2> QED
    BY <2>1, <2>2
<1>5. \A v \in Versions \ raced'["public"] :
          v \in Listed(file'["public"]) => Whole(v)
  BY <1>1 DEF ListedSdksAreWhole, Relists
<1>6. \A q \in Procs \ {p} : Running(q)' <=> Running(q)
  BY <1>2 DEF Running
<1> QED
  BY <1>2, <1>4, <1>5, <1>6, OthersQuiet

\* What a command lists in public is what it has read and its own name.
LEMMA ListIs ==
    ASSUME IInv, NEW p \in Procs, List(p)
    PROVE  /\ Running(p) /\ Ends(p) /\ UNCHANGED raced
           /\ proc[p].kind = "public" =>
                 Listed(file'["public"]) = Listed(proc[p].object) \cup {proc[p].to}
           /\ proc[p].kind # "public" => file'["public"] = file["public"]
PROOF
<1>1. PICK k \in Kinds, new \in Names, scope \in Scopes, object \in Sequences :
        /\ proc[p].kind = k /\ proc[p].to = new /\ proc[p].scope = scope
        /\ proc[p].object = object /\ Running(p)
  BY Fields DEF IInv, List, At
<1>2. Persist(p, Added(object, scope, new)) /\ Ends(p) /\ UNCHANGED raced
  BY <1>1 DEF List
<1>3. PICK added \in Sequences :
          /\ added = Added(object, scope, new)
          /\ Listed(added) = Listed(object) \cup {new}
  BY AddedIs
<1>4. /\ Listed(file'[k]) = Listed(object) \cup {new}
      /\ \A j \in Kinds \ {k} : file'[j] = file[j]
  BY <1>1, <1>2, <1>3, Persisted
<1> QED
  BY <1>1, <1>2, <1>4 DEF Kinds

LEMMA OtherwiseKeeps ==
    ASSUME IInv, SInv, TypeOK', NEW p \in Procs, Otherwise(p)
    PROVE  SInv'
PROOF
<1>1. ~Generating(p) /\ UNCHANGED <<gen, sdk>> /\ TypeOK /\ Placed(p)
  BY DEF Otherwise, IInv, SInv
<1>2. {"modules", "templates", "public"} \subseteq Kinds
  BY DEF Kinds
<1>3. CASE CreateModule(p)
  <2>1. PICK template \in Includes(file["templates"], Env), n \in Names,
             scope \in Scopes :
          Start(p, "create", "modules", template, n, n, scope, "read")
    BY <1>3 DEF CreateModule
  <2>2. template \in Names
    BY <1>1, <1>2, ModuleAssumption DEF TypeOK, Sequences, Includes, Scopes
  <2> QED
    BY <1>1, <1>2, <2>1, <2>2, StartQuiet DEF Places
<1>4. CASE RenameModule(p)
  BY <1>1, <1>2, <1>4, StartQuiet DEF RenameModule, Scopes, Places
<1>5. CASE DeleteModule(p)
  BY <1>1, <1>2, <1>5, StartQuiet DEF DeleteModule, Scopes, Places
<1>6. CASE CreateTemplate(p)
  BY <1>1, <1>2, <1>6, StartQuiet DEF CreateTemplate, Scopes, Places
<1>7. CASE DeleteTemplate(p)
  BY <1>1, <1>2, <1>7, StartQuiet DEF DeleteTemplate, Scopes, Places
<1>8. CASE GenerateERD(p) /\ proc'[p].to \notin Versions
  <2>1. PICK n \in Names, scope \in Scopes :
          Start(p, "create", "public", n, n, n, scope, "write")
    BY <1>8 DEF GenerateERD
  <2>2. proc'[p].to = n
    BY <1>1, <1>2, <2>1, StartIs DEF Scopes, Places
  <2> QED
    BY <1>1, <1>2, <1>8, <2>1, <2>2, StartQuiet DEF Scopes, Places
<1>9. CASE Read(p)
  <2>1. Running(p) /\ proc[p].kind # "public" /\ UNCHANGED <<file, raced>>
    BY <1>1, <1>9 DEF Read, At, Placed, workspace, history
  <2>2. Ends(p) \/ Goes(p, "write")
    BY <1>9 DEF Read
  <2> QED
    BY <1>1, <2>1, <2>2, GoQuiet DEF Places
<1>10. CASE Write(p)
  <2>1. Running(p) /\ UNCHANGED <<file, raced>>
    BY <1>10 DEF Write, At
  <2>2. Ends(p) \/ Goes(p, IF Cmd(p) = "rename" THEN "relist" ELSE "list")
    BY <1>10 DEF Write
  <2>3. proc[p].kind = "public" => Cmd(p) = "create"
    BY <1>1, <2>1 DEF Placed, Cmd
  <2> QED
    BY <1>1, <2>1, <2>2, <2>3, GoQuiet DEF Places
<1>11. CASE List(p)
  <2>1. /\ Running(p) /\ Ends(p) /\ UNCHANGED raced
        /\ proc[p].kind = "public" =>
              Listed(file'["public"]) = Listed(proc[p].object) \cup {proc[p].to}
        /\ proc[p].kind # "public" => file'["public"] = file["public"]
    BY <1>11, ListIs
  <2>2. proc[p].kind = "public" => proc[p].to \notin Versions
    BY <1>1, <2>1 DEF Placed
  <2> QED
    BY <1>1, <2>1, <2>2, GoQuiet
<1>12. CASE Relist(p)
  <2>1. /\ Running(p) /\ proc[p].kind # "public" /\ UNCHANGED raced
        /\ Goes(p, "remove")
    BY <1>1, <1>12 DEF Relist, At, Placed
  <2>2. file'["public"] = file["public"]
    BY <1>1, <1>2, <1>12, <2>1 DEF Relist, Persist, TypeOK
  <2> QED
    BY <1>1, <2>1, <2>2, GoQuiet DEF Places
<1>13. CASE Remove(p)
  <2>1. /\ Running(p) /\ proc[p].kind # "public" /\ UNCHANGED <<file, raced>>
        /\ Ends(p) \/ Goes(p, "unlist")
    BY <1>1, <1>13 DEF Remove, At, Placed
  <2> QED
    BY <1>1, <2>1, GoQuiet DEF Places
<1>14. CASE Unlist(p)
  <2>1. /\ Running(p) /\ proc[p].kind # "public" /\ UNCHANGED raced /\ Ends(p)
    BY <1>1, <1>14 DEF Unlist, At, Placed
  <2>2. file'["public"] = file["public"]
    BY <1>1, <1>2, <1>14, <2>1 DEF Unlist, Persist, TypeOK
  <2> QED
    BY <1>1, <2>1, <2>2, GoQuiet
<1>15. CASE Fail(p) \/ UpToDate(p)
  BY <1>1, <1>15, UpToDateIsFail, GoQuiet DEF Fail, workspace, history
<1> QED
  BY <1>3, <1>4, <1>5, <1>6, <1>7, <1>8, <1>9, <1>10, <1>11, <1>12, <1>13,
     <1>14, <1>15 DEF Otherwise

Stages == {"folder", "extensions", "sources", "list", "build", "move"}

\* The fields of a generation.
LEMMA GenFields ==
    ASSUME SdkTypeOK, NEW p \in Procs, Generating(p)
    PROVE  /\ gen[p] \in Gens /\ gen[p].stage \in Stages
           /\ gen[p].version \in Versions /\ gen[p].tool \in Tools
           /\ gen[p].id \in 1 .. MaxCommands /\ gen[p].modules \in SUBSET Names
PROOF
<1>1. gen[p] \in Gens
  BY DEF SdkTypeOK, Generating, NoGen
<1> QED
  BY <1>1 DEF Gens, Stages

\* A generation goes on, or ends.
LEMMA ReachesIs ==
    ASSUME SdkTypeOK, NEW p \in Procs, Generating(p), NEW stage \in Stages,
           Reaches(p, stage)
    PROVE  /\ gen' \in [Procs -> {NoGen} \cup Gens] /\ Generating(p)'
           /\ gen'[p].stage = stage /\ gen'[p].tool = gen[p].tool
           /\ gen'[p].version = gen[p].version /\ gen'[p].id = gen[p].id
           /\ \A q \in Procs \ {p} : gen'[q] = gen[q]
PROOF
<1>1. gen[p] \in Gens
  BY GenFields
<1>2. /\ gen'[p] = [gen[p] EXCEPT !.stage = stage]
      /\ \A q \in Procs \ {p} : gen'[q] = gen[q]
  BY DEF SdkTypeOK, Reaches
<1>3. gen'[p] \in Gens /\ gen'[p].stage = stage
  BY <1>1, <1>2 DEF Gens, Stages
<1>4. gen' \in [Procs -> {NoGen} \cup Gens]
  BY <1>2, <1>3 DEF SdkTypeOK, Reaches
<1> QED
  BY <1>1, <1>2, <1>3, <1>4 DEF Gens, Generating, Stages

LEMMA FinishesIs ==
    ASSUME SdkTypeOK, NEW p \in Procs, Finishes(p)
    PROVE  /\ gen' \in [Procs -> {NoGen} \cup Gens] /\ ~Generating(p)'
           /\ \A q \in Procs \ {p} : gen'[q] = gen[q]
  BY DEF SdkTypeOK, Finishes, Generating, NoGen

\* The step of a generation disturbs only its own version and tool, and leaves
\* whole what is whole.
LEMMA GensQuiet ==
    ASSUME SInv, SdkTypeOK', NEW p \in Procs, Generating(p),
           NEW v \in Versions, NEW tool \in Tools,
           v = gen[p].version, tool = gen[p].tool,
           UNCHANGED raced,
           \A q \in Procs \ {p} : proc'[q] = proc[q] /\ gen'[q] = gen[q],
           Generating(p)' => gen'[p].version = v /\ gen'[p].tool = tool,
           \A u \in Versions : folders[u] \subseteq folders'[u],
           \A u \in Versions, t \in Tools :
               u # v \/ t # tool => /\ written'[u][t] = written[u][t]
                                   /\ tarball'[u][t] = tarball[u][t],
           \A u \in Versions \ raced["public"] : Whole(u) => Whole(u)',
           Placed(p)', Owned(p)', Relists(p)',
           written'[v][tool]["sources"] # 0 => Folder(tool) \in folders'[v],
           \A u \in Versions \ raced["public"] :
               u \in Listed(file'["public"]) =>
                   u \in Listed(file["public"]) \/ Whole(u)'
    PROVE  SInv'
PROOF
<1>1. ASSUME NEW q \in Procs \ {p} PROVE Placed(q)' /\ Relists(q)' /\ Owned(q)'
  <2>1. Placed(q) /\ Relists(q) /\ Owned(q)
    BY DEF SInv
  <2>2. proc'[q] = proc[q] /\ gen'[q] = gen[q]
    OBVIOUS
  <2>3. Generating(q) => gen[q].version \in Versions /\ gen[q].tool \in Tools
    BY GenFields DEF SInv
  <2>4. Placed(q)'
    BY <2>1, <2>2, <2>3 DEF Placed, Generating, Running
  <2>5. Relists(q)'
    BY <2>1, <2>2 DEF Relists, Running
  <2>6. Owned(q)'
    <3>1. SUFFICES ASSUME Generating(q), gen[q].version \notin raced["public"]
          PROVE  Owned(q)'
      BY <2>2 DEF Owned, Generating
    <3>2. gen[q].version # v \/ gen[q].tool # tool
      BY <3>1 DEF SInv, Exclusive
    <3>3. /\ written'[gen[q].version][gen[q].tool] = written[gen[q].version][gen[q].tool]
          /\ tarball'[gen[q].version][gen[q].tool] = tarball[gen[q].version][gen[q].tool]
          /\ Whole(gen[q].version) => Whole(gen[q].version)'
      BY <2>3, <3>1, <3>2
    <3> QED
      BY <2>1, <2>2, <3>1, <3>3 DEF Owned, WrittenBy, Generating
  <2> QED
    BY <2>4, <2>5, <2>6
<1>2. Exclusive'
  <2>1. Exclusive /\ gen' \in [Procs -> {NoGen} \cup Gens]
    BY DEF SInv, SdkTypeOK
  <2> QED
    BY <2>1 DEF Exclusive, Generating
<1>3. InFolders'
  BY DEF SInv, InFolders
<1>4. ListedSdksAreWhole'
  BY DEF SInv, ListedSdksAreWhole
<1> QED
  BY <1>1, <1>2, <1>3, <1>4 DEF SInv

LEMMA GenerateKeeps ==
    ASSUME IInv, SInv, TypeOK', NEW p \in Procs, NEW tool \in Tools, Generate(p, tool)
    PROVE  SInv'
PROOF
<1>1. TypeOK /\ SdkTypeOK /\ InFolders /\ Exclusive /\ ListedSdksAreWhole
  BY DEF IInv, SInv
<1>2. PICK v \in Names : Start(p, "create", "public", v, v, v, "global", "write")
  BY DEF Generate, GenerateSDK
<1>3. /\ UNCHANGED workspace /\ ~Running(p)
      /\ started' = started + 1 /\ started < MaxCommands
      /\ raced["public"] \subseteq raced'["public"]
      /\ proc'[p].at = "write" /\ proc'[p].cmd = "create" /\ proc'[p].kind = "public"
      /\ proc'[p].to = v /\ proc'[p].object = Picked(file["public"], Env)
      /\ \A q \in Procs \ {p} :
            /\ Running(q)' <=> Running(q)
            /\ Running(q) =>
                 /\ proc'[q].at = proc[q].at /\ proc'[q].cmd = proc[q].cmd
                 /\ proc'[q].kind = proc[q].kind /\ proc'[q].to = proc[q].to
                 /\ proc'[q].object = proc[q].object
                 /\ proc[q].kind = "public" =>
                      {v, proc[q].to} \subseteq raced'["public"]
  BY <1>1, <1>2, StartIs DEF Kinds, Scopes, Places
<1>4. /\ v \in Versions /\ Folder(tool) \notin folders[v] /\ ~Generating(p)
      /\ gen' = [gen EXCEPT ![p] =
                    [stage |-> "folder", tool |-> tool, version |-> v,
                     id |-> started', modules |-> Includes(file["modules"], Env)]]
      /\ UNCHANGED sdk
  BY <1>3 DEF Generate, Refused
<1>5. /\ gen'[p] = [stage |-> "folder", tool |-> tool, version |-> v,
                    id |-> started', modules |-> Includes(file["modules"], Env)]
      /\ \A q \in Procs \ {p} : gen'[q] = gen[q]
  BY <1>1, <1>4 DEF SdkTypeOK
<1>6. SdkTypeOK'
  <2>1. Includes(file["modules"], Env) \in SUBSET Names
    BY <1>1, ModuleAssumption DEF TypeOK, Kinds, Sequences, Includes, Scopes
  <2>2. started' \in 1 .. MaxCommands
    BY <1>1, <1>3, ModuleAssumption DEF TypeOK
  <2>3. gen'[p] \in Gens
    BY <1>4, <1>5, <2>1, <2>2 DEF Gens
  <2>4. gen' \in [Procs -> {NoGen} \cup Gens]
    BY <1>1, <1>4, <1>5, <2>3 DEF SdkTypeOK
  <2> QED
    BY <1>1, <1>4, <2>4 DEF SdkTypeOK, sdk
<1>7. ASSUME NEW u \in Versions PROVE Whole(u)' <=> Whole(u)
  BY <1>4 DEF Whole, WrittenBy, sdk
<1>8. ASSUME NEW q \in Procs \ {p} PROVE Placed(q)' /\ Owned(q)' /\ Relists(q)'
  <2>1. Placed(q) /\ Relists(q)
    BY DEF SInv
  <2>2. Placed(q)'
    BY <1>3, <1>4, <1>5, <2>1 DEF Placed, Generating, sdk
  <2>3. Relists(q)'
    BY <1>3, <1>7, <2>1 DEF Relists
  <2> QED
    BY <1>3, <1>4, <1>5, <2>2, <2>3, OwnedStill
<1>9. Placed(p)'
  BY <1>3, <1>4, <1>5 DEF Placed, Generating, Running
<1>10. Owned(p)'
  <2>1. written[v][tool]["sources"] = 0
    BY <1>1, <1>4 DEF InFolders
  <2> QED
    BY <1>4, <1>5, <2>1 DEF Owned, sdk
<1>11. Relists(p)'
  <2>1. Listed(Picked(file["public"], Env)) = Listed(file["public"])
    BY <1>1, PickedIs, ModuleAssumption DEF TypeOK, Kinds
  <2> QED
    BY <1>1, <1>3, <1>7, <2>1 DEF Relists, ListedSdksAreWhole
<1>12. ASSUME NEW q \in Procs \ {p}, Generating(q), gen[q].tool = tool,
              gen[q].version = v
       PROVE  v \in raced'["public"]
  <2>1. Placed(q)
    BY DEF SInv
  <2>2. Running(q) /\ proc[q].kind = "public"
    BY <1>4, <1>12, <2>1 DEF Placed
  <2> QED
    BY <1>3, <2>2
<1>13. Exclusive'
  <2> SUFFICES ASSUME NEW a \in Procs, NEW b \in Procs, a # b,
                      Generating(a)', Generating(b)', gen'[a].tool = gen'[b].tool,
                      gen'[a].version = gen'[b].version
               PROVE  gen'[a].version \in raced'["public"]
    BY DEF Exclusive
  <2>1. CASE a = p
    BY <1>5, <1>12, <2>1 DEF Generating
  <2>2. CASE b = p
    BY <1>5, <1>12, <2>2 DEF Generating
  <2>3. CASE a # p /\ b # p
    BY <1>1, <1>3, <1>5, <2>3 DEF Exclusive, Generating
  <2> QED
    BY <2>1, <2>2, <2>3
<1>14. InFolders' /\ ListedSdksAreWhole'
  BY <1>1, <1>3, <1>4, <1>7 DEF InFolders, ListedSdksAreWhole, sdk, workspace
<1> QED
  BY <1>6, <1>8, <1>9, <1>10, <1>11, <1>13, <1>14 DEF SInv

LEMMA MakeFolderKeeps ==
    ASSUME IInv, SInv, TypeOK', NEW p \in Procs, MakeFolder(p)
    PROVE  SInv'
PROOF
<1>1. /\ TypeOK /\ SdkTypeOK /\ Placed(p) /\ Owned(p) /\ Relists(p)
      /\ Generating(p) /\ gen[p].stage = "folder" /\ Reaches(p, "extensions")
  BY DEF IInv, SInv, MakeFolder, Stage
<1> DEFINE v == gen[p].version
           tool == gen[p].tool
<1>2. v \in Versions /\ tool \in Tools /\ gen[p].id \in 1 .. MaxCommands
  BY <1>1, GenFields
<1>3. /\ gen' \in [Procs -> {NoGen} \cup Gens] /\ Generating(p)'
      /\ gen'[p].stage = "extensions" /\ gen'[p].tool = tool
      /\ gen'[p].version = v /\ gen'[p].id = gen[p].id
      /\ \A q \in Procs \ {p} : gen'[q] = gen[q]
  BY <1>1, ReachesIs DEF Stages
<1>4. Running(p) /\ proc[p].kind = "public" /\ proc[p].cmd = "create" /\ proc[p].to = v
  BY <1>1 DEF Placed
<1>5. Goes(p, "list") /\ UNCHANGED <<file, raced>>
  BY <1>4 DEF MakeFolder, Write, Cmd
<1>6. /\ Running(p)' /\ proc'[p].at = "list" /\ proc'[p].kind = "public"
      /\ proc'[p].cmd = "create" /\ proc'[p].to = v
      /\ proc'[p].object = proc[p].object
      /\ \A q \in Procs \ {p} : proc'[q] = proc[q]
  BY <1>1, <1>4, <1>5, GoneOn DEF Places
<1>7. /\ folders' = [folders EXCEPT ![v] = @ \cup {Folder(tool)}]
      /\ UNCHANGED <<written, tarball, package>>
  BY DEF MakeFolder
<1>8. /\ folders' \in [Versions -> SUBSET {"src", "www"}]
      /\ Folder(tool) \in folders'[v]
      /\ \A u \in Versions : folders[u] \subseteq folders'[u]
  BY <1>1, <1>2, <1>7 DEF SdkTypeOK, Folder
<1>9. SdkTypeOK'
  BY <1>1, <1>3, <1>7, <1>8 DEF SdkTypeOK
<1>10. ASSUME NEW u \in Versions PROVE Whole(u)' <=> Whole(u)
  BY <1>7 DEF Whole, WrittenBy
<1>11. Placed(p)'
  BY <1>3, <1>6, <1>8 DEF Placed
<1>12. Owned(p)'
  BY <1>1, <1>3, <1>5, <1>7 DEF Owned
<1>13. Relists(p)'
  BY <1>1, <1>4, <1>5, <1>6, <1>10 DEF Relists
<1> HIDE DEF v, tool
<1> QED
  BY <1>1, <1>2, <1>3, <1>5, <1>6, <1>7, <1>8, <1>9, <1>10, <1>11, <1>12, <1>13,
     GensQuiet DEF v, tool

\* A piece is written.
LEMMA WritesIs ==
    ASSUME SdkTypeOK, NEW p \in Procs, Generating(p), NEW piece \in Pieces,
           Writes(p, piece), NEW v, NEW tool, v = gen[p].version, tool = gen[p].tool
    PROVE  /\ v \in Versions /\ tool \in Tools /\ gen[p].id \in 1 .. MaxCommands
           /\ written' \in [Versions -> [Tools -> [Pieces -> 0 .. MaxCommands]]]
           /\ written'[v][tool][piece] = gen[p].id
           /\ \A x \in Pieces \ {piece} : written'[v][tool][x] = written[v][tool][x]
           /\ \A u \in Versions, t \in Tools :
                 u # v \/ t # tool => written'[u][t] = written[u][t]
PROOF
<1>1. v \in Versions /\ tool \in Tools /\ gen[p].id \in 1 .. MaxCommands
  BY GenFields
<1>2. /\ written \in [Versions -> [Tools -> [Pieces -> 0 .. MaxCommands]]]
      /\ written' = [written EXCEPT ![v][tool][piece] = gen[p].id]
  BY DEF SdkTypeOK, Writes
<1>3. /\ written'[v][tool] = [written[v][tool] EXCEPT ![piece] = gen[p].id]
      /\ \A u \in Versions, t \in Tools :
            u # v \/ t # tool => written'[u][t] = written[u][t]
  BY <1>1, <1>2
<1>4. gen[p].id \in 0 .. MaxCommands
  BY <1>1, ModuleAssumption
<1>5. written' \in [Versions -> [Tools -> [Pieces -> 0 .. MaxCommands]]]
  BY <1>1, <1>2, <1>4
<1>6. written[v][tool] \in [Pieces -> 0 .. MaxCommands]
  BY <1>1, <1>2
<1> QED
  BY <1>1, <1>3, <1>5, <1>6

\* Writing before the sources are there does not break what is whole.
LEMMA WritingKeepsWhole ==
    ASSUME SdkTypeOK, NEW p \in Procs, Generating(p), Owned(p),
           gen[p].stage \in {"extensions", "sources"},
           NEW piece \in Pieces, Writes(p, piece),
           NEW u \in Versions, u \notin raced["public"], Whole(u)
    PROVE  Whole(u)'
PROOF
<1> DEFINE v == gen[p].version
           tool == gen[p].tool
<1>1. \A w \in Versions, t \in Tools :
         w # v \/ t # tool => written'[w][t] = written[w][t]
  <2> HIDE DEF v, tool
  <2>1. v = gen[p].version /\ tool = gen[p].tool
    BY DEF v, tool
  <2> QED
    BY <2>1, WritesIs
<1>2. u = v => written[u][tool]["sources"] = 0
  BY DEF Owned
<1>3. PICK id \in 1 .. MaxCommands :
          \/ WrittenBy(u, "deno", id)
          \/ WrittenBy(u, "npm", id) /\ package[u] = {id}
  BY DEF Whole
<1>4. id # 0
  BY <1>3, ModuleAssumption
<1>5. ASSUME NEW t \in Tools, WrittenBy(u, t, id) PROVE WrittenBy(u, t, id)'
  <2>1. u # v \/ t # tool
    BY <1>2, <1>4, <1>5 DEF WrittenBy, Pieces
  <2>2. written'[u][t] = written[u][t]
    BY <1>1, <2>1
  <2> QED
    BY <1>5, <2>2 DEF WrittenBy
<1>6. UNCHANGED package
  BY DEF Writes
<1> QED
  BY <1>3, <1>5, <1>6 DEF Whole, Tools

LEMMA WritesKeep ==
    ASSUME IInv, SInv, TypeOK', NEW p \in Procs, CopyExtensions(p) \/ WriteSources(p)
    PROVE  SInv'
PROOF
<1>1. PICK piece \in Pieces, stage \in {"sources", "build", "list"} :
        /\ Generating(p) /\ Writes(p, piece) /\ Reaches(p, stage)
        /\ \/ gen[p].stage = "extensions" /\ piece = "extensions" /\ stage = "sources"
           \/ /\ gen[p].stage = "sources" /\ piece = "sources"
              /\ stage = IF gen[p].tool = "npm" THEN "build" ELSE "list"
  <2>1. CASE CopyExtensions(p)
    BY <2>1 DEF CopyExtensions, Stage, Pieces
  <2>2. CASE WriteSources(p)
    BY <2>2 DEF WriteSources, Stage, Pieces
  <2> QED
    BY <2>1, <2>2
<1>2. TypeOK /\ SdkTypeOK /\ Placed(p) /\ Owned(p) /\ Relists(p)
  BY DEF IInv, SInv
<1>3. PICK v, tool : v = gen[p].version /\ tool = gen[p].tool
  OBVIOUS
<1>4. /\ v \in Versions /\ tool \in Tools /\ gen[p].id \in 1 .. MaxCommands
      /\ written' \in [Versions -> [Tools -> [Pieces -> 0 .. MaxCommands]]]
      /\ written'[v][tool][piece] = gen[p].id
      /\ \A x \in Pieces \ {piece} : written'[v][tool][x] = written[v][tool][x]
      /\ \A u \in Versions, t \in Tools :
            u # v \/ t # tool => written'[u][t] = written[u][t]
  BY <1>1, <1>2, <1>3, WritesIs
<1>5. /\ gen' \in [Procs -> {NoGen} \cup Gens] /\ Generating(p)'
      /\ gen'[p].stage = stage /\ gen'[p].tool = tool
      /\ gen'[p].version = v /\ gen'[p].id = gen[p].id
      /\ \A q \in Procs \ {p} : gen'[q] = gen[q]
  BY <1>1, <1>2, <1>3, ReachesIs DEF Stages
<1>6. UNCHANGED <<file, raced, proc, folders, tarball, package>>
  BY <1>1 DEF Writes, vars, workspace, history
<1>7. SdkTypeOK'
  BY <1>2, <1>4, <1>5, <1>6 DEF SdkTypeOK
<1>8. ASSUME NEW u \in Versions \ raced["public"], Whole(u) PROVE Whole(u)'
  BY <1>1, <1>2, <1>8, WritingKeepsWhole
<1>9. Folder(tool) \in folders[v]
  BY <1>1, <1>2, <1>3 DEF Placed
<1>10. Placed(p)'
  <2>1. stage = "list" => tool = "deno"
    BY <1>1, <1>3, <1>4 DEF Tools
  <2>2. stage = "build" => tool = "npm"
    BY <1>1, <1>3
  <2>3. Running(p)
    BY <1>1, <1>2 DEF Placed
  <2> QED
    BY <1>1, <1>2, <1>3, <1>5, <1>6, <1>9, <2>1, <2>2, <2>3 DEF Placed, Running
<1>11. Owned(p)'
  <2> SUFFICES ASSUME v \notin raced["public"]
               PROVE  /\ stage = "sources" => written'[v][tool]["sources"] = 0
                      /\ stage = "sources" => written'[v][tool]["extensions"] = gen[p].id
                      /\ stage # "sources" => WrittenBy(v, tool, gen[p].id)'
                      /\ stage = "list" => tool # "npm"
    BY <1>5, <1>6 DEF Owned, WrittenBy
  <2>1. CASE gen[p].stage = "extensions"
    BY <1>1, <1>2, <1>3, <1>4, <2>1 DEF Owned, Pieces
  <2>2. CASE gen[p].stage = "sources"
    BY <1>1, <1>2, <1>3, <1>4, <1>5, <2>2 DEF Owned, Pieces, WrittenBy
  <2> QED
    BY <1>1, <2>1, <2>2
<1>12. Relists(p)'
  BY <1>2, <1>6, <1>8 DEF Relists, Running
<1> QED
  BY <1>1, <1>2, <1>3, <1>4, <1>5, <1>6, <1>7, <1>8, <1>9, <1>10, <1>11, <1>12, GensQuiet

LEMMA ListVersionKeeps ==
    ASSUME IInv, SInv, TypeOK', NEW p \in Procs, ListVersion(p)
    PROVE  SInv'
PROOF
<1>1. /\ TypeOK /\ SdkTypeOK /\ Placed(p) /\ Owned(p) /\ Relists(p)
      /\ Generating(p) /\ gen[p].stage = "list"
  BY DEF IInv, SInv, ListVersion, Stage
<1>2. PICK v \in Versions, tool \in Tools, id \in 1 .. MaxCommands :
          v = gen[p].version /\ tool = gen[p].tool /\ id = gen[p].id
  BY <1>1, GenFields
<1>3. Running(p) /\ proc[p].kind = "public" /\ proc[p].to = v
  BY <1>1, <1>2 DEF Placed
<1>4. /\ Ends(p) /\ UNCHANGED raced
      /\ Listed(file'["public"]) = Listed(proc[p].object) \cup {v}
  BY <1>3, ListIs DEF ListVersion
<1>5. ~Running(p)' /\ \A q \in Procs \ {p} : proc'[q] = proc[q]
  BY <1>1, <1>4, Ended
<1>6. /\ gen' \in [Procs -> {NoGen} \cup Gens]
      /\ \A q \in Procs \ {p} : gen'[q] = gen[q]
      /\ Generating(p)' =>
            /\ tool = "deno" /\ gen'[p].stage = "build" /\ gen'[p].tool = tool
            /\ gen'[p].version = v /\ gen'[p].id = id
  <2>1. CASE Finishes(p)
    BY <1>1, <2>1, FinishesIs
  <2>2. CASE tool = "deno" /\ Reaches(p, "build")
    BY <1>1, <1>2, <2>2, ReachesIs DEF Stages
  <2> QED
    BY <1>2, <2>1, <2>2 DEF ListVersion, Tools
<1>7. UNCHANGED sdk
  BY DEF ListVersion
<1>8. SdkTypeOK'
  BY <1>1, <1>6, <1>7 DEF SdkTypeOK, sdk
<1>9. ASSUME NEW u \in Versions PROVE Whole(u)' <=> Whole(u)
  BY <1>7 DEF Whole, WrittenBy, sdk
<1>10. v \notin raced["public"] => WrittenBy(v, tool, id) /\ Whole(v)
  <2> SUFFICES ASSUME v \notin raced["public"] PROVE WrittenBy(v, tool, id) /\ Whole(v)
    OBVIOUS
  <2>1. WrittenBy(v, tool, id) /\ (tool = "npm" => Whole(v))
    BY <1>1, <1>2 DEF Owned
  <2>2. tool = "deno" => Whole(v)
    BY <1>2, <2>1 DEF Whole
  <2> QED
    BY <1>2, <2>1, <2>2 DEF Tools
<1>11. Placed(p)'
  <2>1. Folder(tool) \in folders[v]
    BY <1>1, <1>2 DEF Placed
  <2> QED
    BY <1>5, <1>6, <1>7, <2>1 DEF Placed, sdk
<1>12. Owned(p)'
  BY <1>4, <1>6, <1>7, <1>10 DEF Owned, WrittenBy, sdk
<1>13. Relists(p)'
  BY <1>5 DEF Relists
<1>14. \A u \in Versions \ raced["public"] : u \in Listed(file'["public"]) => Whole(u)
  BY <1>1, <1>3, <1>4, <1>10 DEF Relists
<1>15. written[v][tool]["sources"] # 0 => Folder(tool) \in folders[v]
  BY DEF SInv, InFolders
<1> QED
  BY <1>1, <1>2, <1>4, <1>5, <1>6, <1>7, <1>8, <1>9, <1>11, <1>12, <1>13, <1>14,
     <1>15, GensQuiet DEF sdk

LEMMA BuildKeeps ==
    ASSUME IInv, SInv, TypeOK', NEW p \in Procs, Build(p)
    PROVE  SInv'
PROOF
<1>1. /\ TypeOK /\ SdkTypeOK /\ Placed(p) /\ Owned(p) /\ Relists(p)
      /\ Generating(p) /\ gen[p].stage = "build" /\ Reaches(p, "move")
  BY DEF IInv, SInv, Build, Stage
<1>2. PICK v \in Versions, tool \in Tools, id \in 1 .. MaxCommands :
          v = gen[p].version /\ tool = gen[p].tool /\ id = gen[p].id
  BY <1>1, GenFields
<1>3. /\ gen' \in [Procs -> {NoGen} \cup Gens] /\ Generating(p)'
      /\ gen'[p].stage = "move" /\ gen'[p].tool = tool
      /\ gen'[p].version = v /\ gen'[p].id = id
      /\ \A q \in Procs \ {p} : gen'[q] = gen[q]
  BY <1>1, <1>2, ReachesIs DEF Stages
<1> DEFINE new == {written[v][tool][x] : x \in Pieces}
<1>4. /\ tarball' = [tarball EXCEPT ![v][tool] = new]
      /\ UNCHANGED <<file, raced, proc, folders, written, package>>
  BY <1>2 DEF Build, vars, workspace, history
<1>5. new \in SUBSET (0 .. MaxCommands)
  BY <1>1, <1>2 DEF SdkTypeOK
<1>6. v \notin raced["public"] => WrittenBy(v, tool, id) /\ new = {id}
  BY <1>1, <1>2 DEF Owned, WrittenBy, Pieces
<1> HIDE DEF new
<1>7. /\ tarball' \in [Versions -> [Tools -> SUBSET (0 .. MaxCommands)]]
      /\ tarball'[v][tool] = new
      /\ \A u \in Versions, t \in Tools :
            u # v \/ t # tool => tarball'[u][t] = tarball[u][t]
  BY <1>1, <1>2, <1>4, <1>5 DEF SdkTypeOK
<1>8. SdkTypeOK'
  BY <1>1, <1>3, <1>4, <1>7 DEF SdkTypeOK
<1>9. ASSUME NEW u \in Versions PROVE Whole(u)' <=> Whole(u)
  BY <1>4 DEF Whole, WrittenBy
<1>10. Placed(p)'
  BY <1>1, <1>2, <1>3, <1>4 DEF Placed, Running
<1>11. Owned(p)'
  BY <1>3, <1>4, <1>6, <1>7 DEF Owned, WrittenBy
<1>12. Relists(p)'
  BY <1>1, <1>4, <1>9 DEF Relists, Running
<1>13. written[v][tool]["sources"] # 0 => Folder(tool) \in folders[v]
  BY DEF SInv, InFolders
<1> QED
  BY <1>1, <1>2, <1>3, <1>4, <1>7, <1>8, <1>9, <1>10, <1>11, <1>12, <1>13, GensQuiet

LEMMA MoveKeeps ==
    ASSUME IInv, SInv, TypeOK', NEW p \in Procs, Move(p)
    PROVE  SInv'
PROOF
<1>1. /\ TypeOK /\ SdkTypeOK /\ Placed(p) /\ Owned(p) /\ Relists(p)
      /\ Generating(p) /\ gen[p].stage = "move"
  BY DEF IInv, SInv, Move, Stage
<1>2. PICK v \in Versions, tool \in Tools, id \in 1 .. MaxCommands :
          v = gen[p].version /\ tool = gen[p].tool /\ id = gen[p].id
  BY <1>1, GenFields
<1>3. /\ gen' \in [Procs -> {NoGen} \cup Gens]
      /\ \A q \in Procs \ {p} : gen'[q] = gen[q]
      /\ Generating(p)' =>
            /\ tool = "npm" /\ gen'[p].stage = "list" /\ gen'[p].tool = tool
            /\ gen'[p].version = v /\ gen'[p].id = id
      /\ tool = "npm" => Generating(p)'
  <2>1. CASE tool = "npm" /\ Reaches(p, "list")
    BY <1>1, <1>2, <2>1, ReachesIs DEF Stages
  <2>2. CASE tool # "npm" /\ Finishes(p)
    BY <1>1, <2>2, FinishesIs
  <2> QED
    BY <1>2, <2>1, <2>2 DEF Move
<1>4. /\ folders' = [folders EXCEPT ![v] = @ \cup {"www"}]
      /\ package' = [package EXCEPT ![v] = tarball[v][tool]]
      /\ tarball' = [tarball EXCEPT ![v][tool] = {}]
      /\ UNCHANGED <<file, raced, proc, written>>
  BY <1>2 DEF Move, vars, workspace, history
<1>5. /\ folders' \in [Versions -> SUBSET {"src", "www"}]
      /\ \A u \in Versions : folders[u] \subseteq folders'[u]
  BY <1>1, <1>2, <1>4 DEF SdkTypeOK
<1>6. /\ package' \in [Versions -> SUBSET (0 .. MaxCommands)]
      /\ package'[v] = tarball[v][tool]
      /\ \A u \in Versions \ {v} : package'[u] = package[u]
  BY <1>1, <1>2, <1>4 DEF SdkTypeOK
<1>7. /\ tarball' \in [Versions -> [Tools -> SUBSET (0 .. MaxCommands)]]
      /\ \A u \in Versions, t \in Tools :
            u # v \/ t # tool => tarball'[u][t] = tarball[u][t]
  BY <1>1, <1>2, <1>4 DEF SdkTypeOK
<1>8. SdkTypeOK'
  BY <1>1, <1>3, <1>4, <1>5, <1>6, <1>7 DEF SdkTypeOK
<1>9. v \notin raced["public"] => WrittenBy(v, tool, id)' /\ Whole(v)'
  <2> SUFFICES ASSUME v \notin raced["public"] PROVE WrittenBy(v, tool, id)' /\ Whole(v)'
    OBVIOUS
  <2>1. WrittenBy(v, tool, id)' /\ package'[v] = {id}
    BY <1>1, <1>2, <1>4, <1>6 DEF Owned, WrittenBy
  <2> QED
    BY <1>2, <2>1 DEF Whole, Tools
<1>10. ASSUME NEW u \in Versions \ raced["public"], Whole(u) PROVE Whole(u)'
  <2>1. CASE u = v
    BY <1>9, <2>1
  <2>2. CASE u # v
    BY <1>4, <1>6, <1>10, <2>2 DEF Whole, WrittenBy
  <2> QED
    BY <2>1, <2>2
<1>11. Placed(p)'
  <2>1. Folder(tool) \in folders'[v]
    BY <1>1, <1>2, <1>5 DEF Placed
  <2>2. Running(p)' <=> Running(p)
    BY <1>4 DEF Running
  <2>3. tool = "deno" => ~Running(p)
    BY <1>1, <1>2 DEF Placed
  <2>4. CASE tool = "npm"
    BY <1>1, <1>2, <1>3, <1>4, <2>1, <2>2, <2>4 DEF Placed
  <2>5. CASE tool = "deno"
    BY <1>3, <2>2, <2>3, <2>5 DEF Placed
  <2> QED
    BY <1>2, <2>4, <2>5 DEF Tools
<1>12. Owned(p)'
  BY <1>3, <1>4, <1>9 DEF Owned
<1>13. Relists(p)'
  BY <1>1, <1>4, <1>10 DEF Relists, Running
<1>14. written'[v][tool]["sources"] # 0 => Folder(tool) \in folders'[v]
  BY <1>4, <1>5 DEF SInv, InFolders
<1> QED
  BY <1>1, <1>2, <1>3, <1>4, <1>5, <1>7, <1>8, <1>10, <1>11, <1>12, <1>13, <1>14,
     GensQuiet

LEMMA AbandonKeeps ==
    ASSUME IInv, SInv, TypeOK', NEW p \in Procs, Abandon(p)
    PROVE  SInv'
PROOF
<1>1. TypeOK /\ SdkTypeOK /\ Placed(p) /\ Generating(p) /\ Finishes(p)
  BY DEF IInv, SInv, Abandon
<1>2. PICK v \in Versions, tool \in Tools : v = gen[p].version /\ tool = gen[p].tool
  BY <1>1, GenFields
<1>3. /\ gen' \in [Procs -> {NoGen} \cup Gens] /\ ~Generating(p)'
      /\ \A q \in Procs \ {p} : gen'[q] = gen[q]
  BY <1>1, FinishesIs
<1>4. /\ UNCHANGED <<file, raced, written, tarball, package>>
      /\ ~Running(p)'
      /\ \A q \in Procs \ {p} : proc'[q] = proc[q]
  <2>1. CASE Fail(p)
    BY <1>1, <2>1, Ended DEF Fail, workspace, history, Abandon
  <2>2. CASE ~Running(p) /\ UNCHANGED vars
    BY <2>2 DEF vars, workspace, history, Abandon, Running
  <2> QED
    BY <2>1, <2>2 DEF Abandon
<1>5. /\ folders' \in [Versions -> SUBSET {"src", "www"}]
      /\ \A u \in Versions : folders[u] \subseteq folders'[u]
  <2>1. UNCHANGED folders \/ folders' = [folders EXCEPT ![v] = @ \cup {"www"}]
    BY <1>2 DEF Abandon
  <2>2. folders \in [Versions -> SUBSET {"src", "www"}]
    BY <1>1 DEF SdkTypeOK
  <2> QED
    BY <1>2, <2>1, <2>2
<1>6. SdkTypeOK'
  BY <1>1, <1>3, <1>4, <1>5 DEF SdkTypeOK
<1>7. ASSUME NEW u \in Versions PROVE Whole(u)' <=> Whole(u)
  BY <1>4 DEF Whole, WrittenBy
<1>8. Placed(p)' /\ Owned(p)' /\ Relists(p)'
  BY <1>3, <1>4 DEF Placed, Owned, Relists
<1>9. written'[v][tool]["sources"] # 0 => Folder(tool) \in folders'[v]
  BY <1>4, <1>5 DEF SInv, InFolders
<1> QED
  BY <1>1, <1>2, <1>3, <1>4, <1>5, <1>6, <1>7, <1>8, <1>9, GensQuiet

\* The generators are commands of ModuleScripts.
LEMMA SdkStepIsStep == SdkTypeOK /\ [SdkNext]_sdkVars => [Next]_vars
PROOF
<1> SUFFICES ASSUME SdkTypeOK, [SdkNext]_sdkVars PROVE [Next]_vars
  OBVIOUS
<1>1. ASSUME NEW p \in Procs, RunSdk(p) PROVE Run(p) \/ UNCHANGED vars
  <2>1. ASSUME NEW tool \in Tools, Generate(p, tool) PROVE Run(p)
    BY <2>1 DEF Generate, Run
  <2>2. CASE MakeFolder(p) \/ ListVersion(p)
    BY <2>2 DEF MakeFolder, ListVersion, Run
  <2>3. CASE CopyExtensions(p) \/ WriteSources(p)
    BY <2>3 DEF CopyExtensions, WriteSources, Writes
  <2>4. CASE Build(p) \/ Move(p)
    BY <2>4 DEF Build, Move
  <2>5. CASE Abandon(p)
    BY <2>5 DEF Abandon, Run
  <2>6. CASE Otherwise(p)
    BY <2>6 DEF Otherwise, Run
  <2> QED
    BY <1>1, <2>1, <2>2, <2>3, <2>4, <2>5, <2>6 DEF RunSdk
<1> QED
  BY <1>1 DEF SdkNext, Next, sdkVars

LEMMA SdkInitHolds == SdkInit => IInv /\ SInv
PROOF
<1> SUFFICES ASSUME SdkInit PROVE IInv /\ SInv
  OBVIOUS
<1>1. Init /\ IInv
  BY InitHolds DEF SdkInit
<1>2. /\ \A p \in Procs : ~Running(p) /\ ~Generating(p)
      /\ \A v \in Versions, t \in Tools : written[v][t]["sources"] = 0
  BY <1>1 DEF SdkInit, Init, Running, Generating, Idle, NoGen, Pieces
<1>3. file["public"].listed = [e \in Scopes |-> {}]
  <2>1. present["public"] = {}
    BY <1>1 DEF Init, Kinds
  <2>2. file["public"].listed =
            [e \in Scopes |-> IF e = "global" THEN present["public"] ELSE {}]
    BY <1>1 DEF Init, Kinds
  <2> QED
    BY <2>1, <2>2
<1>4. Listed(file["public"]) = {}
  BY <1>3 DEF Listed
<1>5. SdkTypeOK
  <2>1. TypeOK /\ 0 \in 0 .. MaxCommands
    BY <1>1, ModuleAssumption DEF IInv
  <2> QED
    BY <2>1 DEF SdkInit, SdkTypeOK
<1>6. \A p \in Procs : Placed(p) /\ Owned(p) /\ Relists(p)
  BY <1>2 DEF Placed, Owned, Relists
<1> QED
  BY <1>1, <1>2, <1>4, <1>5, <1>6 DEF SInv, Exclusive, InFolders, ListedSdksAreWhole

LEMMA SdkStepKeeps == IInv /\ SInv /\ [SdkNext]_sdkVars => IInv' /\ SInv'
PROOF
<1> SUFFICES ASSUME IInv, SInv, [SdkNext]_sdkVars PROVE IInv' /\ SInv'
  OBVIOUS
<1>1. IInv' /\ TypeOK'
  BY SdkStepIsStep, StepKeeps DEF SInv, IInv
<1>2. ASSUME NEW p \in Procs, RunSdk(p) PROVE SInv'
  BY <1>1, <1>2, GenerateKeeps, MakeFolderKeeps, WritesKeep, ListVersionKeeps,
     BuildKeeps, MoveKeeps, AbandonKeeps, OtherwiseKeeps DEF RunSdk
<1>3. CASE UNCHANGED sdkVars
  <2>1. UNCHANGED <<file, raced, proc, gen, sdk>>
    BY <1>3 DEF sdkVars, vars, workspace, history
  <2>2. ASSUME NEW v \in Versions PROVE Whole(v)' <=> Whole(v)
    BY <2>1 DEF Whole, WrittenBy, sdk
  <2>3. ASSUME NEW p \in Procs PROVE Placed(p)' /\ Owned(p)' /\ Relists(p)'
    <3>1. Placed(p) /\ Relists(p)
      BY DEF SInv
    <3>2. Owned(p)'
      BY <2>1, OwnedStill
    <3> QED
      BY <2>1, <2>2, <3>1, <3>2 DEF Placed, Relists, Running, Generating, sdk
  <2>4. SdkTypeOK'
    BY <1>1, <2>1 DEF SInv, SdkTypeOK, sdk
  <2>5. Exclusive' /\ InFolders' /\ ListedSdksAreWhole'
    BY <2>1, <2>2 DEF SInv, Exclusive, InFolders, ListedSdksAreWhole, Generating, sdk
  <2> QED
    BY <1>1, <2>3, <2>4, <2>5 DEF SInv
<1> QED
  BY <1>1, <1>2, <1>3 DEF SdkNext

THEOREM SdkInvariant == SdkSpec => [](IInv /\ SInv)
  BY SdkInitHolds, SdkStepKeeps, PTL DEF SdkSpec

\* Step by step the generators do what GenerateSDK, Write, List and Fail do: what
\* is proved of ModuleScripts holds among them.
THEOREM SdkKeepsModules == SdkSpec => Spec
PROOF
<1>1. SdkInit => Init
  BY DEF SdkInit
<1>2. IInv /\ SInv /\ [SdkNext]_sdkVars => [Next]_vars
  BY SdkStepIsStep DEF SInv
<1> QED
  BY <1>1, <1>2, SdkInvariant, PTL DEF SdkSpec, Spec

\* For any number of versions, generations and other commands what they have
\* written, and where each of them stands, keep their types.
THEOREM SdkTypeCorrect == SdkSpec => []SdkTypeOK
PROOF
<1>1. SInv => SdkTypeOK
  BY DEF SInv
<1> QED
  BY <1>1, SdkInvariant, PTL

\* However many generations of either tool run, fail and are abandoned, a version
\* that is listed is whole, unless two generations of it raced.
THEOREM SdksCorrect == SdkSpec => []ListedSdksAreWhole
PROOF
<1>1. SInv => ListedSdksAreWhole
  BY DEF SInv
<1> QED
  BY <1>1, SdkInvariant, PTL
=============================================================================
