------------------------------ MODULE MCRawCache ------------------------------
(* A small instance of the buffers for TLC.                                *)
EXTENDS RawCache, TLC

\* The buffers are alike.
CacheSymmetry == Permutations(Caches)
=============================================================================
