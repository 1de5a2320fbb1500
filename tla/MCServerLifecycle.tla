------------------------- MODULE MCServerLifecycle -------------------------
(***************************************************************************)
(* Small instances of ServerLifecycle for TLC.                             *)
(***************************************************************************)
EXTENDS ServerLifecycle, TLC

CONSTANTS main, x, s1, s2, j1, j2

\* The signals are interchangeable.
SignalSymmetry == Permutations(Signals)

\* Safety does not depend on fairness.
SafetySpec == Init /\ [][Next]_vars
=============================================================================
