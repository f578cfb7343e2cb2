------------------------------ MODULE ByteQueue ------------------------------
(***************************************************************************)
(* What CRawCache promises its users: each connection has a queue of bytes *)
(* to which bytes are appended behind and from which they are skipped in   *)
(* front.  The byte at position n of a stream is n % StreamMod.            *)
(***************************************************************************)
EXTENDS Integers, Sequences

CONSTANTS Caches, StreamMod, RecvSizes

VARIABLES queue, next   \* the bytes held, and the number of bytes ever appended

Stream(from, n) == [i \in 1..n |-> (from + i - 1) % StreamMod]

Init == queue = [c \in Caches |-> <<>>] /\ next = [c \in Caches |-> 0]

Put(c, n) ==
  /\ queue' = [queue EXCEPT ![c] = @ \o Stream(next[c], n)]
  /\ next' = [next EXCEPT ![c] = (@ + n) % StreamMod]

Skip(c, n) ==
  /\ queue' = [queue EXCEPT ![c] = SubSeq(@, n + 1, Len(@))]
  /\ UNCHANGED next

Next == \E c \in Caches : \/ \E n \in RecvSizes : Put(c, n)
                          \/ \E n \in 1..Len(queue[c]) : Skip(c, n)

Spec == Init /\ [][Next]_<<queue, next>>
=============================================================================
