---------------------------- MODULE MCCacheAside ----------------------------
(* An instance of RemoteStores with a caller of cache. *)
EXTENDS CacheAside, TLC

CallerSymmetry == Permutations(Others) \cup Permutations(Keys)
=============================================================================
