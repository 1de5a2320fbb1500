-------------------------- MODULE MCModuleScripts --------------------------
(***************************************************************************)
(* A small instance of the commands on modules, templates and generated    *)
(* folders, with the generators of SDKs step by step, and of deployments.  *)
(*                                                                         *)
(* The commands and the deployments share no state, so the steps of the    *)
(* one among those of the other show nothing new: the terminals run either *)
(* commands or, in a project without modules, deployments.                 *)
(***************************************************************************)
EXTENDS SdkScripts, DeployDocker, TLC

CONSTANTS a, b, p1, p2, staging, production

workspaceVars == <<sdkVars, deployVars>>

\* A project with the module b alone is one with the module a alone but for the
\* name, which no command on modules minds.  One with both templates comes from
\* one with a, by the first of the commands, and leaves two that may race.
WorkspaceInit ==
    /\ SdkInit /\ DeployInit
    /\ present["modules"] # {b}
    /\ present["templates"] # {a, b}

WorkspaceNext ==
    \/ deploys = 0 /\ SdkNext /\ UNCHANGED deployVars
    \/ started = 0 /\ present = None /\ DeployNext /\ UNCHANGED sdkVars

WorkspaceSpec == WorkspaceInit /\ [][WorkspaceNext]_workspaceVars

\* No part of a version, or the first minor version, which deployments come to
\* themselves.
AskedFor ==
    {[type |-> "none", version |-> v] : v \in {<<>>, [minor |-> 1]}}

\* The terminals are interchangeable, and so are the environments to deploy to.
WorkspaceSymmetry == Permutations(Procs) \cup Permutations(DeployEnvs)
=============================================================================
