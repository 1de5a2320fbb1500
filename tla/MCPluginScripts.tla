-------------------------- MODULE MCPluginScripts --------------------------
(***************************************************************************)
(* A small instance of PluginScripts for TLC.                              *)
(***************************************************************************)
EXTENDS PluginScripts, TLC

CONSTANTS a, b, p1, p2

\* One plugin, or it and another.
TheLists == {<<a>>, <<a, b>>}

\* The terminals are interchangeable.
ProcSymmetry == Permutations(Procs)
=============================================================================
