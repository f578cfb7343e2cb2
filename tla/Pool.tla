-------------------------------- MODULE Pool --------------------------------
(***************************************************************************)
(* The memory of a pool and what code does to it.  A pool is a record of   *)
(* arrays and structures, pool[f][i] being field i of f.  A piece of code  *)
(* is modelled by the run of memories it takes the pool through, one more  *)
(* for each assignment in program order: the last memory is its effect,    *)
(* any other one is what a process that dies on the way leaves behind.     *)
(***************************************************************************)
EXTENDS Integers, SequencesExt

INVALID == -1  \* INVALID_BC_MEM_HANDLER

\* An assignment: a field, its index and the value; <<>> is none.
Store(run, w) ==
  IF w = <<>> THEN run ELSE Append(run, [Last(run) EXCEPT ![w[1]][w[2]] = w[3]])

run ++ w == Store(run, w)

When(c, w) == IF c THEN w ELSE <<>>

\* The list that starts at h, cut after one element more than there are:
\* a list is longer than its array exactly when it is circular.
Chain(next, h) ==
  LET n == Cardinality(DOMAIN next) + 1
      first[k \in 0..n] ==
        [p \in DOMAIN next \cup {INVALID} |->
           IF k = 0 \/ p = INVALID THEN <<>> ELSE <<p>> \o first[k - 1][next[p]]]
  IN  first[n][h]

\* An ordinary list: no element twice.
IsList(next, h) == IsInjective(Chain(next, h))
=============================================================================
