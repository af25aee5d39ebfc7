-------------------------- MODULE MCCacheRuntime ---------------------------
EXTENDS CacheRuntime, TLC

Symmetry == Permutations(Tokens) \cup Permutations(Readers) \cup Permutations(Parts)
============================================================================
