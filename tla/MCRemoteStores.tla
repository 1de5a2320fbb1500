--------------------------- MODULE MCRemoteStores ---------------------------
(* Instances of RemoteStores, for the increments alone. *)
EXTENDS RemoteStores, TLC

CallerSymmetry == Permutations(Callers) \cup Permutations(Keys)
=============================================================================
