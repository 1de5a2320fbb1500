------------------------- MODULE MCRequestPipeline -------------------------
(***************************************************************************)
(* Small instances of RequestPipeline for TLC.                             *)
(***************************************************************************)
EXTENDS RequestPipeline, TLC

CONSTANTS r1, r2, r3, k1

\* The requests are interchangeable; only the safety runs use it.
RequestSymmetry == Permutations(Requests)

\* Safety does not depend on fairness.
SafetySpec == Init /\ [][Next]_vars
=============================================================================
