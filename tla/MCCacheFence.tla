--------------------------- MODULE MCCacheFence ----------------------------
(* CacheFence on a small instance: three identities (two recoveries, each  *)
(* with all its partial outcomes), three writers, two epochs, one request. *)
EXTENDS CacheFence, TLC

Symmetry == Permutations(Identities) \cup Permutations(Tokens)
============================================================================
