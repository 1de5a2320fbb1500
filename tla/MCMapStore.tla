----------------------------- MODULE MCMapStore -----------------------------
(***************************************************************************)
(* Small instances of MapStore for TLC.                                    *)
(***************************************************************************)
EXTENDS MapStore, TLC

CONSTANTS k1, k2, k3

\* The keys are interchangeable unless one of them is the empty key.
KeySymmetry == Permutations(Keys)

\* No expiry, over at birth, and a life that spans a sweep.
FewTtls == {NoExpiry, 0, 2}
=============================================================================
