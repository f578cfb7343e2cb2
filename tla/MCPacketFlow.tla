----------------------------- MODULE MCPacketFlow -----------------------------
(***************************************************************************)
(* Instance of PacketFlow.  The buffer is so small that requests of users  *)
(* and answers to them fill it and outgrow it, in the packet and in the    *)
(* packet around it, and reports and totals do, with a part of a row       *)
(* fitting.  The levels of the requests of four levels run through all     *)
(* bytes.                                                                  *)
(***************************************************************************)
EXTENDS PacketFlow

\* A list of n levels, some of them known.
SomeLevels(n) == [i \in 1..n |-> i % 4]

McRequests ==
  {[i \in 1..4 |-> ToShort(257 * (4 * b + i - 1))] : b \in 0..63}
    \cup {SomeLevels(n) : n \in {0, 2, 6, 7, 9, 10, 12, 13}}

\* Nothing; two levels and, unread, a list of one; more rows than fit, with a level
\* twice and level -1.
McTotals ==
  {[rows |-> <<>>, more |-> <<>>],
   [rows |-> <<<<1, 40000, 3>>, <<2, 5, 0>>>>,
    more |-> <<<<1, IntSize>>, <<2, ShortSize>>, <<9, IntSize>>, <<9, IntSize>>>>],
   [rows |-> [i \in 1..7 |-> <<<<1, -1, 1, 3, 5, 6, 7>>[i], 69999 + i, 300>>],
    more |-> <<>>]}

McStats ==
  {[levels |-> [i \in 1..n |-> <<i, 256 * i, 2>>],
    types |-> [i \in 1..m |-> <<i, 70000, i, 0>>]] : n \in 0..6, m \in 0..3}

\* Nothing, the number of another user, that and half a number, and a whole
\* request of that user.
McTrailers ==
  LET uid == Bytes(66001, IntSize)
      inner == UserRequest(<<1>>)
  IN  {<<>>, uid, uid \o <<0, 9>>,
       uid \o Bytes(8, IntSize) \o Bytes(Len(inner), IntSize) \o inner}

McDraws == {[i \in 1..256 |-> (i * 3) % 5]}

McTables ==
  {[tid |-> 65536 * 300 + 5, ip |-> <<49, 46, 50>>, port |-> 8000, level |-> 2],
   [tid |-> 7, ip |-> <<>>, port |-> 0, level |-> -1]}
=============================================================================
