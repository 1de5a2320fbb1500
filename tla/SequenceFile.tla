---------------------------- MODULE SequenceFile ----------------------------
(***************************************************************************)
(* The class Sequence of core/common/loader.ts: the `.sequence.json` of a  *)
(* directory and the object a process makes of it.  A name is listed for   *)
(* all environments ("global") or for one of them.  The order of the names *)
(* and the excluded ones, which no command changes, are left out; of the   *)
(* sequenceProps only the names that have some are kept.                   *)
(***************************************************************************)
EXTENDS Naturals

CONSTANTS Names,     \* the items of the directory
          EnvTypes   \* the environments there are

ASSUME EnvAssumption == "global" \notin EnvTypes

Scopes == {"global"} \cup EnvTypes

Sequences == [listed : [Scopes -> SUBSET Names], props : SUBSET Names]

\* Every name that some environment lists.
Listed(s) == UNION {s.listed[e] : e \in Scopes}

\* What a process whose ENV_TYPE is env takes to be included.
Includes(s, env) == s.listed["global"] \cup s.listed[env]

\* The props of the items listed for all environments are forgotten.
PickedHere(s, env) == [s EXCEPT !.props = @ \cap s.listed[env]]

\* The constructor and toJSON keep the props of the included names only.
Picked(s, env) == [s EXCEPT !.props = @ \cap Includes(s, env)]

\* set, with a function that adds a name, or that deletes one.
Added(s, scope, n) == [s EXCEPT !.listed[scope] = @ \cup {n}]
Deleted(s, scope, n) == [s EXCEPT !.listed[scope] = @ \ {n}]

\* add, which stores the props before it adds the name.
AddedWithProps(s, scope, n) ==
    [Added(s, scope, n) EXCEPT !.props = @ \cup {n}]
=============================================================================
