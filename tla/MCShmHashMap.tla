---------------------------- MODULE MCShmHashMap ----------------------------
(* Instances of the shared memory table.                                   *)
EXTENDS ShmHashMap

CONSTANTS d1, d2, big

\* big needs two chunks, the other records one.
MCDataLen(d) == IF d = big THEN ChunkSize + 1 ELSE ChunkSize

\* d1 and d2 are alike.
RecordSymmetry == Permutations({d1, d2})
=============================================================================
