--------------------------- MODULE MemoryCacheMC ---------------------------
(* Instances of MemoryCache: no step of one key reads or changes another,  *)
(* so the run takes a single key.                                          *)
EXTENDS MemoryCache, TLC

CONSTANTS k1, v1, v2, c1, c2, c3, w1, w2
=============================================================================
