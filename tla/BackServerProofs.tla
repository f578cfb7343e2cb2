-------------------------- MODULE BackServerProofs --------------------------
(***************************************************************************)
(* The link to the TJ server, proved for every packet size, every number   *)
(* of counter changes and every length of the queue.                       *)
(*                                                                         *)
(* LinkConsistent is inductive once the timer and its loop flag are known  *)
(* to agree.  ReportsInOrder needs to know what is on its way: while the   *)
(* connection lives, the bytes the TJ server holds of an unfinished packet *)
(* followed by the bytes waiting in _w are whole reports, none older than  *)
(* what was read and none newer than the counters (Stream).                *)
(***************************************************************************)
EXTENDS BackServer, ProofBasics

(***************************************************************************)
(* Whole packets in a sequence of pieces                                   *)
(***************************************************************************)

LEMMA PlaceSkip ==
  ASSUME NEW k \in Nat, NEW i \in Nat \ {0}
  PROVE  Place(Pieces * k + i) = Place(i)
<1> DEFINE a == i - 1
<1>1. a \in Nat /\ (Pieces * k + i) - 1 = Pieces * k + a
  BY LinkAssumption
<1>2. (Pieces * k + a) % Pieces = a % Pieces
  <2> HIDE DEF a
  <2>1. QED
    BY <1>1, SkipMultiple, LinkAssumption
<1>3. QED
  BY <1>1, <1>2 DEF Place

LEMMA PlaceSmall ==
  ASSUME NEW i \in 1..Pieces
  PROVE  Place(i) = i
<1>1. i - 1 \in 0..(Pieces - 1)
  BY LinkAssumption
<1>2. QED
  BY <1>1, SmallRemainder, LinkAssumption DEF Place

-----------------------------------------------------------------------------
(***************************************************************************)
(* Sequences of whole reports                                              *)
(***************************************************************************)

\* The sequence q is made of whole reports in order, none older than lo and none
\* newer than hi.
Whole(q, lo, hi) ==
  /\ q \in Seq(Piece)
  /\ Len(q) % Pieces = 0
  /\ AreReports(q, Len(q))
  /\ \A i \in 1..Len(q) : lo <= q[i][1] /\ q[i][1] <= hi

LEMMA WholeEmpty ==
  ASSUME NEW lo \in Int, NEW hi \in Int
  PROVE  Whole(<<>>, lo, hi)
<1>1. <<>> \in Seq(Piece) /\ Len(<<>>) = 0 /\ 1..0 = {}
  OBVIOUS
<1>2. 0 % Pieces = 0
  BY SmallRemainder, LinkAssumption
<1>3. QED
  BY <1>1, <1>2 DEF Whole, AreReports

LEMMA PacketPieces ==
  ASSUME NEW v \in 0..StatBound
  PROVE  /\ Packet(v) \in Seq(Piece) /\ Len(Packet(v)) = Pieces
         /\ \A i \in 1..Pieces : Packet(v)[i] = <<v, i>>
BY LinkAssumption DEF Packet, Piece

LEMMA PieceFields ==
  ASSUME NEW q \in Seq(Piece), NEW i \in 1..Len(q)
  PROVE  q[i] \in Piece /\ q[i][1] \in 0..StatBound /\ q[i][2] \in 1..Pieces
<1>1. q[i] \in Piece
  OBVIOUS
<1>2. QED
  BY <1>1, LinkAssumption DEF Piece

\* A report of the present counters may follow.
LEMMA WholeAppend ==
  ASSUME NEW q, NEW lo \in Int, NEW hi \in Int, NEW v \in 0..StatBound,
         Whole(q, lo, hi), hi <= v, lo <= v
  PROVE  Whole(q \o Packet(v), lo, v)
<1> DEFINE r == q \o Packet(v)
           n == Len(q)
<1> USE LinkAssumption
<1>1. q \in Seq(Piece) /\ n \in Nat /\ n % Pieces = 0
  BY DEF Whole
<1>2. /\ r \in Seq(Piece) /\ Len(r) = n + Pieces
      /\ \A i \in 1..n : r[i] = q[i]
      /\ \A i \in (n + 1)..(n + Pieces) : r[i] = <<v, i - n>>
  <2>1. \A i \in (n + 1)..(n + Pieces) : i - n \in 1..Pieces
    BY <1>1
  <2>2. /\ r \in Seq(Piece) /\ Len(r) = n + Len(Packet(v))
        /\ \A i \in 1..n : r[i] = q[i]
        /\ \A i \in (n + 1)..(n + Len(Packet(v))) : r[i] = Packet(v)[i - n]
    BY <1>1, PacketPieces
  <2>3. QED
    BY <2>1, <2>2, PacketPieces
<1>3. n = Pieces * (n \div Pieces) /\ n \div Pieces \in Nat
  BY <1>1, DivMod
<1>4. Len(r) % Pieces = 0
  <2>1. Pieces % Pieces = 0
    <3>1. Pieces * 1 + 0 = Pieces
      OBVIOUS
    <3>2. QED
      BY <3>1, SkipMultiple, SmallRemainder
  <2>2. (Pieces * (n \div Pieces) + Pieces) % Pieces = Pieces % Pieces
    BY <1>3, SkipMultiple
  <2>3. QED
    BY <1>2, <1>3, <2>1, <2>2
<1>5. \A i \in 1..n : /\ r[i][1] \in 0..StatBound /\ r[i][2] \in 1..Pieces
                      /\ lo <= r[i][1] /\ r[i][1] <= hi
  BY <1>1, <1>2, PieceFields DEF Whole
<1>6. \A i \in (n + 1)..(n + Pieces) : r[i][1] = v /\ r[i][2] = i - n
  <2> HIDE DEF r, n
  <2>1. QED
    BY <1>2
<1>7. \A i \in 1..Len(r) : i \in 1..n \/ i \in (n + 1)..(n + Pieces)
  BY <1>1, <1>2
<1> HIDE DEF r
<1>8. \A i \in 1..Len(r) : r[i][2] = Place(i)
  <2>1. ASSUME NEW i \in (n + 1)..(n + Pieces) PROVE r[i][2] = Place(i)
    <3>1. i - n \in 1..Pieces /\ i = Pieces * (n \div Pieces) + (i - n)
      BY <1>1, <1>3
    <3>2. Place(Pieces * (n \div Pieces) + (i - n)) = Place(i - n)
      <4>1. i - n \in Nat \ {0}
        BY <3>1
      <4>2. QED
        BY <4>1, <1>3, PlaceSkip
    <3>3. Place(i - n) = i - n
      BY <3>1, PlaceSmall
    <3>4. QED
      BY <3>1, <3>2, <3>3, <1>6
  <2>2. \A i \in 1..n : r[i][2] = Place(i)
    BY <1>2 DEF Whole, AreReports
  <2>3. QED
    BY <2>1, <2>2, <1>7
<1>9. ASSUME NEW i \in 1..Len(r), i > 1, r[i][2] > 1 PROVE r[i][1] = r[i - 1][1]
  <2>1. CASE i \in 1..n
    <3>1. i - 1 \in 1..n
      BY <1>1, <2>1, <1>9
    <3>2. QED
      BY <1>9, <2>1, <3>1, <1>2 DEF Whole, AreReports
  <2>2. CASE i \in (n + 1)..(n + Pieces)
    <3>1. i - 1 \in (n + 1)..(n + Pieces)
      <4>1. r[i][2] = i - n
        BY <1>6, <2>2
      <4>2. i - n > 1
        BY <1>9, <4>1
      <4>3. n \in Nat /\ Pieces \in Nat
        BY <1>1
      <4>4. QED
        BY <2>2, <4>2, <4>3
    <3>2. r[i][1] = v
      BY <1>6, <2>2
    <3> DEFINE j == i - 1
    <3> HIDE DEF j
    <3>3. j \in (n + 1)..(n + Pieces)
      BY <3>1 DEF j
    <3>4. r[j][1] = v
      BY <1>6, <3>3
    <3>5. QED
      BY <3>2, <3>4 DEF j
  <2>3. QED
    BY <2>1, <2>2, <1>7
<1>10. ASSUME NEW i \in 1..Len(r), NEW j \in 1..Len(r), i <= j
       PROVE  r[i][1] <= r[j][1]
  <2>1. CASE i \in 1..n /\ j \in 1..n
    BY <1>10, <2>1, <1>2 DEF Whole, AreReports
  <2>2. CASE i \in 1..n /\ j \in (n + 1)..(n + Pieces)
    BY <2>2, <1>5, <1>6
  <2>3. CASE i \in (n + 1)..(n + Pieces)
    <3>1. j \in (n + 1)..(n + Pieces)
      BY <1>7, <1>10, <2>3, <1>1
    <3>2. QED
      BY <2>3, <3>1, <1>6
  <2>4. QED
    BY <2>1, <2>2, <2>3, <1>7
<1>11. \A i \in 1..Len(r) : lo <= r[i][1] /\ r[i][1] <= v
  BY <1>5, <1>6, <1>7
<1>12. QED
  BY <1>2, <1>4, <1>8, <1>9, <1>10, <1>11 DEF Whole, AreReports, r

\* Whole packets may be taken from the front; what is left is no older than the
\* last report taken.
LEMMA WholeTake ==
  ASSUME NEW q, NEW lo \in Int, NEW hi \in Int, NEW k \in Nat,
         Whole(q, lo, hi), Pieces * k <= Len(q), k # 0
  PROVE  /\ Pieces * k \in 1..Len(q)
         /\ Whole(SubSeq(q, Pieces * k + 1, Len(q)), q[Pieces * k][1], hi)
         /\ lo <= q[Pieces * k][1] /\ q[Pieces * k][1] <= hi
         /\ q[Pieces * k][1] \in 0..StatBound
         /\ AreReports(q, Pieces * k)
<1> DEFINE m == Pieces * k
           n == Len(q)
           r == SubSeq(q, m + 1, n)
<1> USE LinkAssumption
<1>1. q \in Seq(Piece) /\ n \in Nat /\ n % Pieces = 0 /\ m \in 1..n
  BY DEF Whole
<1>2. /\ n - m \in Nat /\ (n - m) % Pieces = 0
  BY <1>1, TakeMultiple
<1>3. \A i \in 1..n : /\ q[i][1] \in 0..StatBound
                      /\ q[i][2] = Place(i)
                      /\ lo <= q[i][1] /\ q[i][1] <= hi
  BY <1>1, PieceFields DEF Whole, AreReports
<1>4. /\ \A i \in 1..n : i > 1 /\ q[i][2] > 1 => q[i][1] = q[i - 1][1]
      /\ \A i, j \in 1..n : i <= j => q[i][1] <= q[j][1]
  BY DEF Whole, AreReports
<1>5. \A i \in 1..(n - m) : Place(i + m) = Place(i)
  <2>1. ASSUME NEW i \in 1..(n - m) PROVE Place(i + m) = Place(i)
    <3>1. i \in Nat \ {0} /\ i + m = Pieces * k + i
      BY <1>1
    <3>2. Place(Pieces * k + i) = Place(i)
      BY <3>1, PlaceSkip
    <3>3. QED
      BY <3>1, <3>2
  <2>2. QED
    BY <2>1
<1> HIDE DEF m
<1>6. /\ r \in Seq(Piece) /\ Len(r) = n - m
      /\ \A i \in 1..(n - m) : r[i] = q[i + m]
  BY <1>1, <1>2
<1> HIDE DEF r, n
<1>7. \A i \in 1..(n - m) : i + m \in 1..n /\ m <= i + m
  BY <1>1, <1>2
<1>8. \A i \in 1..(n - m) : /\ r[i][2] = Place(i)
                            /\ q[m][1] <= r[i][1] /\ r[i][1] <= hi
  <2>1. ASSUME NEW i \in 1..(n - m)
        PROVE  /\ r[i][2] = Place(i)
               /\ q[m][1] <= r[i][1] /\ r[i][1] <= hi
    <3>1. r[i] = q[i + m] /\ i + m \in 1..n /\ m <= i + m
      BY <1>6, <1>7
    <3>2. q[i + m][2] = Place(i + m)
      BY <3>1, <1>3
    <3>3. QED
      BY <3>1, <3>2, <1>1, <1>3, <1>4, <1>5
  <2>2. QED
    BY <2>1
<1>9. ASSUME NEW i \in 1..(n - m), i > 1, r[i][2] > 1 PROVE r[i][1] = r[i - 1][1]
  <2>1. i - 1 \in 1..(n - m) /\ i + m > 1 /\ (i - 1) + m = (i + m) - 1
    BY <1>1, <1>2, <1>9
  <2>2. r[i] = q[i + m] /\ r[i - 1] = q[(i + m) - 1] /\ i + m \in 1..n
    BY <2>1, <1>6, <1>7
  <2>3. QED
    BY <2>1, <2>2, <1>4, <1>9
<1>10. ASSUME NEW i \in 1..(n - m), NEW j \in 1..(n - m), i <= j
       PROVE  r[i][1] <= r[j][1]
  <2>1. i + m <= j + m
    BY <1>1, <1>10
  <2>2. QED
    BY <2>1, <1>4, <1>6, <1>7
<1>11. Whole(r, q[m][1], hi)
  BY <1>2, <1>6, <1>8, <1>9, <1>10 DEF Whole, AreReports
<1>12. AreReports(q, m)
  <2>1. \A i \in 1..m : i \in 1..n
    BY <1>1
  <2>2. QED
    BY <2>1, <1>3, <1>4 DEF AreReports
<1>13. QED
  BY <1>1, <1>3, <1>11, <1>12 DEF m, n, r

-----------------------------------------------------------------------------
(***************************************************************************)
(* The methods of the object                                               *)
(***************************************************************************)

\* What is on its way to the TJ server when the counters are v.
Stream(s, v) ==
  /\ s.got <= v
  /\ s.fd = "open" => Whole(s.part \o s.w, s.got, v)

\* Output events are enabled exactly while data waits.
OutputOn(s) == s.out <=> s.w # <<>>

\* A link that lives; it is watched unless the last attempt to attach it failed.
Live(s) == /\ s.connected /\ s.active /\ s.fd \in {"open", "broken"}
           /\ s.epslot = "watched" <=> ~s.denied
           /\ OutputOn(s)

\* A link that is down: a slot it still has is one epoll refused.
Down(s) == /\ ~s.connected /\ ~s.active /\ ~s.out
           /\ s.fd \in {"none", "stale"} /\ s.w = <<>>
           /\ s.epslot # "watched" /\ (s.epslot = "unwatched" => s.denied)

\* What is known of the slot at any time.
Slots(s) == (s.epslot = "watched" => ~s.denied) /\ (s.epslot = "unwatched" => s.denied)

LEMMA LinkFields ==
  ASSUME NEW s \in Link
  PROVE  /\ s.connected \in BOOLEAN /\ s.active \in BOOLEAN /\ s.denied \in BOOLEAN
         /\ s.epslot \in {"none", "watched", "unwatched"}
         /\ s.timer \in BOOLEAN /\ s.loop \in BOOLEAN /\ s.out \in BOOLEAN
         /\ s.fd \in {"none", "open", "broken", "stale"}
         /\ s.w \in Seq(Piece) /\ s.part \in Seq(Piece) /\ s.got \in Garbage..StatBound
BY DEF Link

\* Attaching touches nothing but the slot, and what is recorded of the attempt.
LEMMA AttachSlot ==
  ASSUME NEW s \in Link, NEW a \in {"added", "noslot", "refused"}, Slots(s), s.fd # "none"
  PROVE  LET u == AttachPoller(s, a)
         IN  /\ u \in Link /\ u.got = s.got /\ u.part = s.part /\ u.w = s.w /\ u.fd = s.fd
             /\ u.connected = s.connected /\ u.active = s.active /\ u.out = s.out
             /\ u.timer = s.timer /\ u.loop = s.loop
             /\ u.epslot = "watched" <=> ~u.denied
<1> DEFINE u == AttachPoller(s, a)
<1>1. CASE s.epslot # "none"
  <2>1. u = s
    BY <1>1 DEF AttachPoller
  <2>2. s.epslot = "watched" <=> ~s.denied
    BY <1>1, LinkFields DEF Slots
  <2>3. QED
    BY <2>1, <2>2
<1>2. CASE s.epslot = "none"
  <2>1. PICK e \in {"none", "watched", "unwatched"}, d \in BOOLEAN :
          u = [s EXCEPT !.epslot = e, !.denied = d] /\ (e = "watched" <=> ~d)
    <3> DEFINE e == CASE a = "added" -> "watched" [] a = "noslot" -> "none"
                      [] OTHER -> "unwatched"
               d == (a # "added")
    <3>1. e \in {"none", "watched", "unwatched"} /\ d \in BOOLEAN /\ (e = "watched" <=> ~d)
      OBVIOUS
    <3>2. u = [s EXCEPT !.epslot = e, !.denied = d]
      BY <1>2 DEF AttachPoller
    <3> HIDE DEF e, d, u
    <3>3. QED
      BY <3>1, <3>2
  <2> HIDE DEF u
  <2>2. u.epslot = e /\ u.denied = d /\ u \in Link
    BY <2>1 DEF Link
  <2>3. /\ u.got = s.got /\ u.part = s.part /\ u.w = s.w /\ u.fd = s.fd
        /\ u.connected = s.connected /\ u.active = s.active /\ u.out = s.out
        /\ u.timer = s.timer /\ u.loop = s.loop
    BY <2>1 DEF Link
  <2>4. QED
    BY <2>1, <2>2, <2>3 DEF u
<1>3. QED
  BY <1>1, <1>2

\* Close starts the timer and leaves the link down.
LEMMA CloseDown ==
  ASSUME NEW s \in Link, Slots(s)
  PROVE  /\ Close(s) \in Link /\ Down(Close(s)) /\ Close(s).fd = "none"
         /\ Close(s).timer /\ Close(s).loop /\ Close(s).got = s.got
<1> DEFINE c == [s EXCEPT !.connected = FALSE]
           d == [c EXCEPT !.timer = TRUE, !.loop = TRUE]
<1>1. c \in Link /\ c.got = s.got /\ c.connected = FALSE
      /\ c.epslot = s.epslot /\ c.denied = s.denied
  BY DEF Link
<1> HIDE DEF c
<1>2. d \in Link /\ d.got = s.got /\ d.connected = FALSE /\ d.timer = TRUE /\ d.loop = TRUE
      /\ d.epslot = s.epslot /\ d.denied = s.denied
  BY <1>1 DEF Link
<1> DEFINE e == IF d.epslot = "unwatched" THEN d.epslot ELSE "none"
<1>3. Close(s) = [d EXCEPT !.w = <<>>, !.out = FALSE, !.epslot = e,
                           !.fd = "none", !.active = FALSE]
  BY DEF Close, Reset, OnClose, StartTimer, c, d
<1> HIDE DEF d
<1>e. /\ e \in {"none", "watched", "unwatched"} /\ e # "watched"
      /\ e = "unwatched" => d.denied
  BY <1>2, LinkFields DEF Slots
<1> HIDE DEF e
<1>4. <<>> \in Seq(Piece)
  BY EmptySeq
<1>5. Close(s) \in Link
  BY <1>2, <1>3, <1>4, <1>e DEF Link
<1>6. QED
  BY <1>2, <1>3, <1>5, <1>e DEF Down, Link

\* When p is read and b is still to come, the whole packets in p are reports in
\* order, and what is then on its way is whole again.
LEMMA ReadWhole ==
  ASSUME NEW p \in Seq(Piece), NEW b \in Seq(Piece), NEW lo \in Int, NEW hi \in Int,
         Whole(p \o b, lo, hi), NEW m, m = Pieces * (Len(p) \div Pieces)
  PROVE  /\ m \in 0..Len(p)
         /\ m = 0 => SubSeq(p, m + 1, Len(p)) \o b = p \o b
         /\ m # 0 => /\ AreReports(p, m) /\ p[m][1] \in 0..StatBound
                     /\ lo <= p[m][1] /\ p[m][1] <= hi
                     /\ Whole(SubSeq(p, m + 1, Len(p)) \o b, p[m][1], hi)
<1> DEFINE k == Len(p) \div Pieces
           q == p \o b
<1>1. /\ q \in Seq(Piece) /\ Len(q) = Len(p) + Len(b)
      /\ Len(p) \in Nat /\ Len(b) \in Nat
      /\ \A i \in 1..Len(p) : q[i] = p[i]
  BY Concat
<1>2. k \in Nat /\ m \in 0..Len(p)
  <2>1. /\ Len(p) = Pieces * (Len(p) \div Pieces) + (Len(p) % Pieces)
        /\ Len(p) % Pieces \in 0..(Pieces - 1) /\ Len(p) \div Pieces \in Nat
    BY <1>1, DivMod, LinkAssumption
  <2>2. m \in Nat
    BY <2>1, LinkAssumption
  <2>3. QED
    BY <1>1, <2>1, <2>2, LinkAssumption
<1>3. SubSeq(p, m + 1, Len(p)) \o b = SubSeq(q, m + 1, Len(q))
  BY <1>2, SuffixConcat
<1>4. CASE m = 0
  <2>1. SubSeq(q, 1, Len(q)) = q
    BY <1>1, SubSeqFull
  <2>2. m + 1 = 1
    BY <1>4
  <2>3. SubSeq(p, m + 1, Len(p)) \o b = p \o b
    BY <1>3, <2>1, <2>2
  <2>4. QED
    BY <1>2, <1>4, <2>3
<1>5. CASE m # 0
  <2>1. k # 0 /\ m = Pieces * k
    BY <1>5, LinkAssumption
  <2> HIDE DEF k, q
  <2>2. Pieces * k <= Len(q)
    BY <1>1, <1>2, <2>1
  <2>3. Whole(q, lo, hi)
    BY DEF q
  <2>4. /\ Pieces * k \in 1..Len(q)
        /\ Whole(SubSeq(q, Pieces * k + 1, Len(q)), q[Pieces * k][1], hi)
        /\ lo <= q[Pieces * k][1] /\ q[Pieces * k][1] <= hi
        /\ q[Pieces * k][1] \in 0..StatBound
        /\ AreReports(q, Pieces * k)
    BY <1>2, <2>1, <2>2, <2>3, WholeTake
  <2>5. /\ Whole(SubSeq(q, m + 1, Len(q)), q[m][1], hi)
        /\ lo <= q[m][1] /\ q[m][1] <= hi /\ q[m][1] \in 0..StatBound
        /\ AreReports(q, m)
    BY <2>1, <2>4
  <2>6. q[m] = p[m]
    BY <1>1, <1>2, <1>5
  <2>7. AreReports(p, m)
    <3>1. \A i \in 1..m : p[i] = q[i] /\ (i > 1 => p[i - 1] = q[i - 1])
      BY <1>1, <1>2
    <3>2. QED
      BY <2>5, <3>1 DEF AreReports
  <2>8. Whole(SubSeq(p, m + 1, Len(p)) \o b, p[m][1], hi)
    BY <1>3, <2>5, <2>6
  <2>9. lo <= p[m][1] /\ p[m][1] <= hi /\ p[m][1] \in 0..StatBound
    BY <2>5, <2>6
  <2>10. QED
    BY <1>2, <1>5, <2>7, <2>8, <2>9
<1>6. QED
  BY <1>4, <1>5

\* What is sent leaves the sequence on its way, and what is read of it is whole.
LEMMA TransmitStream ==
  ASSUME NEW s \in Link, NEW a \in Seq(Piece), NEW b \in Seq(Piece), NEW v \in 0..StatBound,
         s.got <= v, s.fd = "open" => Whole(s.part \o (a \o b), s.got, v)
  PROVE  \E part \in Seq(Piece), got \in Garbage..StatBound :
           /\ Transmit(s, a) = [s EXCEPT !.part = part, !.got = got]
           /\ s.got <= got /\ got <= v
           /\ s.fd = "open" => Whole(part \o b, got, v)
<1>1. s.part \in Seq(Piece) /\ s.got \in Garbage..StatBound /\ s.got \in Int
  BY LinkFields, LinkAssumption DEF Garbage
<1>2. CASE s.fd # "open"
  <2>1. s = [s EXCEPT !.part = s.part, !.got = s.got]
    BY DEF Link
  <2>2. QED
    <3>1. /\ Transmit(s, a) = [s EXCEPT !.part = s.part, !.got = s.got]
          /\ s.got <= s.got /\ s.got <= v
          /\ s.fd = "open" => Whole(s.part \o b, s.got, v)
      BY <1>1, <1>2, <2>1 DEF Transmit
    <3>2. QED
      BY <1>1, <3>1
<1>3. CASE s.fd = "open"
  <2> DEFINE p == s.part \o a
             m == Pieces * (Len(p) \div Pieces)
             l == SubSeq(p, m + 1, Len(p))
             got == IF m = 0 THEN s.got
                    ELSE IF AreReports(p, m) THEN p[m][1] ELSE Garbage
  <2>1. p \in Seq(Piece)
    BY <1>1, Concat
  <2>2. s.part \o (a \o b) = p \o b
    <3> DEFINE x == s.part
    <3>1. x \in Seq(Piece)
      BY <1>1
    <3> HIDE DEF x
    <3>2. x \o (a \o b) = (x \o a) \o b
      BY <3>1, ConcatAssociative
    <3>3. QED
      BY <3>2 DEF x
  <2>3. Whole(p \o b, s.got, v)
    BY <1>3, <2>2
  <2>4. Transmit(s, a) = [s EXCEPT !.part = l, !.got = got]
    BY <1>3 DEF Transmit
  <2> HIDE DEF p
  <2>5. v \in Int
    BY LinkAssumption
  <2>6. /\ m \in 0..Len(p)
        /\ m = 0 => l \o b = p \o b
        /\ m # 0 => /\ AreReports(p, m) /\ p[m][1] \in 0..StatBound
                    /\ s.got <= p[m][1] /\ p[m][1] <= v
                    /\ Whole(l \o b, p[m][1], v)
    BY <1>1, <2>1, <2>3, <2>5, ReadWhole
  <2> HIDE DEF m
  <2>7. l \in Seq(Piece)
    BY <2>1, <2>6, Suffix
  <2> HIDE DEF l
  <2>8. got \in Garbage..StatBound /\ s.got <= got /\ got <= v /\ Whole(l \o b, got, v)
    <3>1. CASE m = 0
      <4>1. got = s.got /\ l \o b = p \o b
        BY <2>6, <3>1
      <4> HIDE DEF got
      <4>2. QED
        BY <1>1, <2>3, <4>1
    <3>2. CASE m # 0
      BY <2>6, <3>2, LinkAssumption DEF Garbage
    <3>3. QED
      BY <3>1, <3>2
  <2> HIDE DEF got
  <2>9. QED
    BY <2>4, <2>7, <2>8
<1>4. QED
  BY <1>2, <1>3

\* Of the buffer, some is accepted and the rest waits; the order is kept.
LEMMA FlushStream ==
  ASSUME NEW s \in Link, NEW buffer \in Seq(Piece), NEW o \in Nat, NEW v \in 0..StatBound,
         s.got <= v, s.fd = "open" => Whole(s.part \o buffer, s.got, v)
  PROVE  LET t == Flush(s, buffer, o)
         IN  /\ t \in Link /\ s.got <= t.got /\ Stream(t, v) /\ OutputOn(t) /\ t.active
             /\ t.fd = s.fd /\ t.connected = s.connected /\ t.epslot = s.epslot /\ t.denied = s.denied
             /\ t.timer = s.timer /\ t.loop = s.loop
<1> DEFINE n == IF o < Len(buffer) THEN o ELSE Len(buffer)
           a == SubSeq(buffer, 1, n)
           b == SubSeq(buffer, n + 1, Len(buffer))
           u == Transmit(s, a)
           t == Flush(s, buffer, o)
<1>1. n \in 0..Len(buffer) /\ Len(buffer) \in Nat
  OBVIOUS
<1>2. t = [u EXCEPT !.w = b, !.out = (n < Len(buffer)), !.active = TRUE]
  BY DEF Flush
<1> HIDE DEF n
<1>3. a \in Seq(Piece) /\ b \in Seq(Piece) /\ Len(b) = Len(buffer) - n
  BY <1>1, Prefix, Suffix
<1>4. buffer = a \o b
  BY <1>1, SplitSeq
<1> HIDE DEF a, b
<1>5. PICK part \in Seq(Piece), got \in Garbage..StatBound :
        /\ u = [s EXCEPT !.part = part, !.got = got]
        /\ s.got <= got /\ got <= v
        /\ s.fd = "open" => Whole(part \o b, got, v)
  <2>1. s.fd = "open" => Whole(s.part \o (a \o b), s.got, v)
    BY <1>4
  <2>2. a \in Seq(Piece) /\ b \in Seq(Piece)
    BY <1>3
  <2>3. QED
    BY <2>1, <2>2, TransmitStream
<1> HIDE DEF t, u
<1>6. /\ u \in Link /\ u.part = part /\ u.got = got /\ u.fd = s.fd
      /\ u.connected = s.connected /\ u.epslot = s.epslot /\ u.denied = s.denied
      /\ u.timer = s.timer /\ u.loop = s.loop
  BY <1>5 DEF Link
<1>7. (n < Len(buffer)) \in BOOLEAN
  OBVIOUS
<1>8. /\ t \in Link /\ t.part = part /\ t.got = got /\ t.fd = s.fd
      /\ t.connected = s.connected /\ t.epslot = s.epslot /\ t.denied = s.denied
      /\ t.timer = s.timer /\ t.loop = s.loop /\ t.w = b /\ t.active
      /\ t.out = (n < Len(buffer))
  BY <1>2, <1>3, <1>6, <1>7 DEF Link
<1>9. OutputOn(t)
  <2>1. n < Len(buffer) <=> b # <<>>
    BY <1>1, <1>3
  <2>2. QED
    BY <1>8, <2>1 DEF OutputOn
<1>10. Stream(t, v)
  BY <1>5, <1>8 DEF Stream
<1>11. QED
  BY <1>5, <1>8, <1>9, <1>10 DEF t

\* A report is sent, or the link is closed.
LEMMA SendStream ==
  ASSUME NEW s \in Link, NEW v \in 0..StatBound, NEW o \in Error..QueueBound,
         NEW a \in {"added", "noslot", "refused"},
         s.fd \in {"open", "broken"}, s.connected, Slots(s), Stream(s, v)
  PROVE  LET t == Send(s, Packet(v), o, a)
         IN  /\ t \in Link /\ s.got <= t.got /\ Stream(t, v)
             /\ \/ Down(t) /\ t.fd = "none" /\ t.timer /\ t.loop
                \/ Live(t) /\ t.fd = s.fd /\ t.timer = s.timer /\ t.loop = s.loop
<1> DEFINE u == AttachPoller(s, a)
           q == u.w \o Packet(v)
           x == [u EXCEPT !.w = q]
           t == Send(s, Packet(v), o, a)
<1>1. /\ u \in Link /\ u.got = s.got /\ u.fd = s.fd /\ u.connected = s.connected
      /\ u.epslot = "watched" <=> ~u.denied
      /\ u.timer = s.timer /\ u.loop = s.loop
      /\ u.w = s.w /\ u.part = s.part
  BY AttachSlot
<1>s. Slots(u)
  <2>1. u.epslot = "watched" <=> ~u.denied
    BY <1>1
  <2>2. QED
    BY <2>1 DEF Slots
<1>2. /\ u.got \in Garbage..StatBound /\ u.w \in Seq(Piece) /\ u.part \in Seq(Piece)
      /\ u.got \in Int /\ v \in Int
  BY <1>1, LinkFields, LinkAssumption DEF Garbage
<1>3. t = IF u.w # <<>> THEN HandleOutput(x, o)
          ELSE IF o = Error THEN Close(u) ELSE Flush(u, Packet(v), o)
  BY DEF Send
<1> HIDE DEF u
<1>4. Packet(v) \in Seq(Piece) /\ Len(Packet(v)) = Pieces
  BY PacketPieces
<1>5. q \in Seq(Piece) /\ q # <<>>
  <2>1. u.w \in Seq(Piece)
    BY <1>2
  <2>2. QED
    BY <2>1, <1>4, LinkAssumption
<1>6. u.got <= v /\ (u.fd = "open" => Whole(u.part \o q, u.got, v))
  <2>1. u.got <= v /\ (u.fd = "open" => Whole(u.part \o u.w, u.got, v))
    BY <1>1 DEF Stream
  <2>2. u.fd = "open" => Whole((u.part \o u.w) \o Packet(v), u.got, v)
    BY <1>2, <2>1, WholeAppend
  <2>3. (u.part \o u.w) \o Packet(v) = u.part \o q
    <3> DEFINE f == u.part
               g == u.w
               h == Packet(v)
    <3>1. f \in Seq(Piece) /\ g \in Seq(Piece) /\ h \in Seq(Piece)
      BY <1>2, <1>4
    <3> HIDE DEF f, g, h
    <3>2. (f \o g) \o h = f \o (g \o h)
      BY <3>1, ConcatAssociative
    <3>3. QED
      BY <3>2 DEF f, g, h
  <2>4. QED
    BY <2>1, <2>2, <2>3
<1> HIDE DEF q, t
<1>7. /\ x \in Link /\ x.got = u.got /\ x.fd = u.fd /\ x.part = u.part /\ x.w = q
      /\ x.connected = u.connected /\ x.epslot = u.epslot /\ x.denied = u.denied
      /\ x.timer = u.timer /\ x.loop = u.loop
  BY <1>1, <1>5 DEF Link
<1> HIDE DEF x
<1>8. CASE o = Error
  <2>1. PICK y \in Link : t = Close(y) /\ y.got = s.got /\ Slots(y)
    <3>1. CASE u.w # <<>>
      <4>1. Slots(x)
        BY <1>7, <1>s DEF Slots
      <4>2. QED
        BY <1>1, <1>3, <1>7, <1>8, <3>1, <4>1 DEF HandleOutput
    <3>2. CASE u.w = <<>>
      BY <1>1, <1>3, <1>8, <1>s, <3>2
    <3>3. QED
      BY <3>1, <3>2
  <2>2. t \in Link /\ Down(t) /\ t.fd = "none" /\ t.timer /\ t.loop /\ t.got = s.got
    BY <2>1, CloseDown
  <2>3. Stream(t, v) /\ s.got <= t.got
    BY <1>1, <1>2, <1>6, <2>2 DEF Stream
  <2>4. QED
    BY <2>2, <2>3 DEF t
<1>9. CASE o # Error
  <2>1. o \in Nat
    BY <1>9, LinkAssumption DEF Error
  <2>2. PICK y \in Link, z \in Seq(Piece) :
             /\ t = Flush(y, z, o) /\ y.got = u.got /\ y.fd = u.fd /\ y.connected = u.connected
             /\ y.epslot = u.epslot /\ y.denied = u.denied
             /\ y.timer = u.timer /\ y.loop = u.loop
             /\ u.fd = "open" => Whole(y.part \o z, y.got, v)
    <3>1. CASE u.w # <<>>
      <4>1. t = Flush(x, q, o)
        BY <1>3, <1>5, <1>7, <1>9, <3>1 DEF HandleOutput
      <4>2. QED
        BY <1>5, <1>6, <1>7, <4>1
    <3>2. CASE u.w = <<>>
      <4>1. t = Flush(u, Packet(v), o)
        BY <1>3, <1>9, <3>2
      <4>2. q = Packet(v)
        BY <1>4, <3>2, ConcatEmptySeq DEF q
      <4>3. QED
        BY <1>1, <1>4, <1>6, <4>1, <4>2
    <3>3. QED
      BY <3>1, <3>2
  <2>3. /\ t \in Link /\ y.got <= t.got /\ Stream(t, v) /\ OutputOn(t) /\ t.active
        /\ t.fd = y.fd /\ t.connected = y.connected
        /\ t.epslot = y.epslot /\ t.denied = y.denied
        /\ t.timer = y.timer /\ t.loop = y.loop
    BY <1>6, <2>1, <2>2, FlushStream
  <2>4. QED
    BY <1>1, <2>2, <2>3 DEF Live, t
<1>10. QED
  BY <1>8, <1>9

\* What a callback of the event loop leaves behind: a link that lives and has no
\* timer, or one that is down.
Settled(s) == \/ Live(s) /\ ~s.timer /\ ~s.loop
              \/ Down(s) /\ (s.timer <=> s.loop)

\* Connecting a link that is down: it comes up and its timer is stopped, the
\* first report fails and nothing will reconnect it, or nothing comes of it.
LEMMA ConnectDown ==
  ASSUME NEW s \in Link, NEW c \in {"connected", "refused", "nosocket"},
         NEW o \in Error..QueueBound, NEW a \in {"added", "noslot", "refused"},
         stat \in 0..StatBound, Down(s), Stream(s, stat)
  PROVE  LET t == Connect(s, c, o, a)
         IN  /\ t \in Link /\ s.got <= t.got /\ Stream(t, stat)
             /\ \/ Live(t) /\ ~t.timer /\ ~t.loop
                \/ Down(t) /\ ~t.timer /\ ~t.loop /\ c = "connected" /\ t.fd = "none"
                \/ Down(t) /\ t.timer = s.timer /\ t.loop = s.loop /\ c # "connected"
<1> DEFINE t == Connect(s, c, o, a)
<1>1. s.got \in Int /\ s.got <= stat
  BY LinkFields, LinkAssumption DEF Garbage, Stream
<1>2. CASE c = "connected"
  <2> DEFINE x == [s EXCEPT !.fd = "open", !.active = TRUE, !.part = <<>>]
             y == [x EXCEPT !.connected = TRUE]
             z == Send(y, Packet(stat), o, a)
             b == StopTimer(z)
  <2>1. <<>> \in Seq(Piece)
    BY EmptySeq
  <2>2. /\ x \in Link /\ x.w = <<>> /\ x.part = <<>> /\ x.fd = "open" /\ x.got = s.got
        /\ x.epslot = s.epslot /\ x.denied = s.denied
    BY <2>1 DEF Link, Down
  <2>3. t = AttachPoller(OnConnected(x, o, a), a)
    BY <1>2 DEF Connect, Down
  <2> HIDE DEF x, t
  <2>4. /\ y \in Link /\ y.w = <<>> /\ y.part = <<>> /\ y.fd = "open" /\ y.got = s.got
        /\ y.connected = TRUE /\ y.epslot = s.epslot /\ y.denied = s.denied
    BY <2>2 DEF Link
  <2>5. OnConnected(x, o, a) = b
    BY <2>4 DEF OnConnected, SynData
  <2> HIDE DEF y
  <2>6. Stream(y, stat) /\ Slots(y)
    <3>1. <<>> \o <<>> = <<>>
      OBVIOUS
    <3>2. Whole(<<>>, y.got, stat)
      BY <1>1, <2>4, WholeEmpty
    <3>3. Slots(y)
      BY <2>4 DEF Slots, Down
    <3>4. QED
      BY <1>1, <2>4, <3>1, <3>2, <3>3 DEF Stream
  <2>7. /\ z \in Link /\ y.got <= z.got /\ Stream(z, stat)
        /\ \/ Down(z) /\ z.fd = "none"
           \/ Live(z) /\ z.fd = "open"
    BY <2>4, <2>6, SendStream
  <2> HIDE DEF z
  <2>8. /\ b \in Link /\ b.got = z.got /\ b.part = z.part /\ b.w = z.w /\ b.fd = z.fd
        /\ b.connected = z.connected /\ b.active = z.active
        /\ b.epslot = z.epslot /\ b.denied = z.denied
        /\ b.out = z.out /\ b.timer = FALSE /\ b.loop = FALSE
    BY <2>7 DEF StopTimer, Link
  <2>9. t = AttachPoller(b, a)
    BY <2>3, <2>5
  <2> HIDE DEF b
  <2>10. CASE Down(z) /\ z.fd = "none"
    <3>1. t = b
      BY <2>8, <2>9, <2>10 DEF AttachPoller
    <3>2. Down(t) /\ ~t.timer /\ ~t.loop /\ t.fd = "none"
      BY <2>8, <2>10, <3>1 DEF Down
    <3>3. Stream(t, stat) /\ s.got <= t.got /\ t \in Link
      BY <2>4, <2>7, <2>8, <3>1 DEF Stream
    <3>4. QED
      BY <1>2, <3>2, <3>3 DEF t
  <2>11. CASE Live(z) /\ z.fd = "open"
    <3>1. Slots(b) /\ b.fd # "none"
      <4>1. z.epslot = "watched" <=> ~z.denied
        BY <2>11 DEF Live
      <4>2. QED
        BY <2>8, <2>11, <4>1 DEF Slots
    <3>2. /\ t \in Link /\ t.got = b.got /\ t.part = b.part /\ t.w = b.w /\ t.fd = b.fd
          /\ t.connected = b.connected /\ t.active = b.active
          /\ t.epslot = "watched" <=> ~t.denied
          /\ t.out = b.out /\ t.timer = b.timer /\ t.loop = b.loop
      BY <2>8, <2>9, <3>1, AttachSlot
    <3>3. Live(t) /\ ~t.timer /\ ~t.loop
      BY <2>8, <2>11, <3>2 DEF Live, OutputOn
    <3>4. Stream(t, stat) /\ s.got <= t.got
      BY <2>4, <2>7, <2>8, <3>2 DEF Stream
    <3>5. QED
      BY <3>2, <3>3, <3>4 DEF t
  <2>12. QED
    BY <2>7, <2>10, <2>11
<1>3. CASE c # "connected"
  <2>1. PICK fd \in {"none", "stale"} : t = [s EXCEPT !.fd = fd]
    BY <1>3 DEF Connect, Down
  <2> HIDE DEF t
  <2>2. /\ t \in Link /\ t.got = s.got /\ t.w = s.w /\ t.fd = fd
        /\ t.connected = s.connected /\ t.active = s.active
        /\ t.epslot = s.epslot /\ t.denied = s.denied
        /\ t.out = s.out /\ t.timer = s.timer /\ t.loop = s.loop
    BY <2>1 DEF Link
  <2>3. Down(t)
    BY <2>2 DEF Down
  <2>4. Stream(t, stat) /\ s.got <= t.got
    BY <1>1, <2>2 DEF Stream
  <2>5. QED
    BY <1>3, <2>2, <2>3, <2>4 DEF t
<1>4. QED
  BY <1>2, <1>3

-----------------------------------------------------------------------------
(***************************************************************************)
(* The inductive invariant                                                 *)
(***************************************************************************)

LinkInv == TypeOK /\ Settled(link) /\ Stream(link, stat)

\* Every step keeps the invariant, lets the TJ server read nothing older, and
\* gives the link up only where GivenUpOnlyByReconnect says.
LinkStep ==
  /\ LinkInv'
  /\ link.got <= link'.got
  /\ link.timer \/ link.connected =>
       \/ link'.timer \/ link'.connected
       \/ link.timer /\ peer = "up" /\ link'.fd = "none"

LEMMA Outcomes ==
  ASSUME TypeOK
  PROVE  /\ Connects \subseteq {"connected", "refused", "nosocket"}
         /\ "connected" \in Connects => peer = "up"
         /\ Attaches \subseteq {"added", "noslot", "refused"}
         /\ \A fd : Fates(fd) \subseteq Error..QueueBound
<1>1. 0..QueueBound \subseteq Error..QueueBound
  BY LinkAssumption DEF Error
<1>2. QED
  BY <1>1 DEF Connects, Attaches, Fates, TypeOK

LEMMA InitInv == Init => LinkInv
<1> SUFFICES ASSUME Init PROVE LinkInv
  OBVIOUS
<1>1. stat \in 0..StatBound /\ peer \in {"up", "down"} /\ calm \in BOOLEAN /\ stat = 0
  <2>1. stat = 0 /\ peer \in {"up", "down"} /\ calm = FALSE
    BY DEF Init
  <2>2. 0 \in 0..StatBound
    BY LinkAssumption
  <2>3. QED
    BY <2>1, <2>2
<1>2. /\ Connects \subseteq {"connected", "refused", "nosocket"}
      /\ Attaches \subseteq {"added", "noslot", "refused"}
      /\ Fates("open") \subseteq Error..QueueBound
  <2>1. 0..QueueBound \subseteq Error..QueueBound
    BY LinkAssumption DEF Error
  <2>2. QED
    BY <1>1, <2>1 DEF Connects, Attaches, Fates
<1>3. PICK c \in Connects, o \in Fates("open"), a \in Attaches :
        link = Connect(Fresh, c, o, a)
  BY DEF Init
<1>4. Fresh \in Link /\ Down(Fresh) /\ ~Fresh.timer /\ ~Fresh.loop
  <2>1. <<>> \in Seq(Piece) /\ 0 \in Garbage..StatBound
    BY EmptySeq, LinkAssumption DEF Garbage
  <2>2. QED
    BY <2>1 DEF Fresh, Link, Down
<1>5. Stream(Fresh, stat)
  BY <1>1 DEF Stream, Fresh
<1>6. /\ link \in Link /\ Stream(link, stat)
      /\ \/ Live(link) /\ ~link.timer /\ ~link.loop
         \/ Down(link) /\ ~link.timer /\ ~link.loop
         \/ Down(link) /\ link.timer = Fresh.timer /\ link.loop = Fresh.loop
  BY <1>1, <1>2, <1>3, <1>4, <1>5, ConnectDown
<1>7. Settled(link)
  BY <1>4, <1>6 DEF Settled
<1>8. QED
  BY <1>1, <1>6, <1>7 DEF LinkInv, TypeOK

LEMMA StepTimerOut == LinkInv /\ TimerOut => LinkStep
<1> SUFFICES ASSUME LinkInv, TimerOut PROVE LinkStep
  OBVIOUS
<1>1. /\ link \in Link /\ stat \in 0..StatBound /\ link.timer
      /\ Down(link) /\ link.loop /\ Stream(link, stat)
      /\ UNCHANGED <<stat, peer, calm>>
  BY DEF LinkInv, TypeOK, Settled, TimerOut
<1>2. PICK c \in Connects, o \in Fates("open"), a \in Attaches :
        link' = TimerNotify(link, c, o, a)
  BY DEF TimerOut
<1>3. /\ c \in {"connected", "refused", "nosocket"} /\ o \in Error..QueueBound
      /\ a \in {"added", "noslot", "refused"}
      /\ c = "connected" => peer = "up"
  BY Outcomes DEF LinkInv
<1> DEFINE s == [link EXCEPT !.timer = FALSE]
           t == Connect(s, c, o, a)
<1>4. /\ s \in Link /\ s.got = link.got /\ s.w = link.w /\ s.part = link.part /\ s.fd = link.fd
      /\ s.connected = link.connected /\ s.active = link.active
      /\ s.epslot = link.epslot /\ s.denied = link.denied /\ s.out = link.out
      /\ s.timer = FALSE /\ s.loop = link.loop
  BY <1>1 DEF Link
<1>5. link' = IF t.loop THEN StartTimer(t, t.loop) ELSE t
  BY <1>2 DEF TimerNotify
<1> HIDE DEF s
<1>6. Down(s) /\ Stream(s, stat)
  BY <1>1, <1>4 DEF Down, Stream
<1>7. /\ t \in Link /\ s.got <= t.got /\ Stream(t, stat)
      /\ \/ Live(t) /\ ~t.timer /\ ~t.loop
         \/ Down(t) /\ ~t.timer /\ ~t.loop /\ c = "connected" /\ t.fd = "none"
         \/ Down(t) /\ t.timer = s.timer /\ t.loop = s.loop /\ c # "connected"
  <2>1. s \in Link /\ stat \in 0..StatBound
    BY <1>1, <1>4
  <2>2. c \in {"connected", "refused", "nosocket"} /\ o \in Error..QueueBound
    BY <1>3
  <2>3. a \in {"added", "noslot", "refused"}
    BY <1>3
  <2>4. QED
    BY <1>6, <2>1, <2>2, <2>3, ConnectDown
<1> HIDE DEF t
<1>8. CASE Live(t) /\ ~t.timer /\ ~t.loop
  <2>1. link' = t
    BY <1>5, <1>8
  <2>2. link'.connected
    BY <1>8, <2>1 DEF Live
  <2>3. LinkInv'
    BY <1>1, <1>7, <1>8, <2>1 DEF LinkInv, TypeOK, Settled
  <2>4. QED
    BY <1>4, <1>7, <2>1, <2>2, <2>3 DEF LinkStep
<1>9. CASE Down(t) /\ ~t.timer /\ ~t.loop /\ c = "connected" /\ t.fd = "none"
  <2>1. link' = t
    BY <1>5, <1>9
  <2>2. LinkInv'
    BY <1>1, <1>7, <1>9, <2>1 DEF LinkInv, TypeOK, Settled
  <2>3. QED
    BY <1>1, <1>3, <1>4, <1>7, <1>9, <2>1, <2>2 DEF LinkStep
<1>10. CASE Down(t) /\ t.timer = s.timer /\ t.loop = s.loop /\ c # "connected"
  <2>1. link' = [t EXCEPT !.timer = TRUE, !.loop = TRUE]
    BY <1>1, <1>4, <1>5, <1>7, <1>10 DEF StartTimer, Link
  <2>2. /\ link' \in Link /\ link'.got = t.got /\ link'.w = t.w /\ link'.part = t.part
        /\ link'.fd = t.fd /\ link'.connected = t.connected /\ link'.active = t.active
        /\ link'.epslot = t.epslot /\ link'.denied = t.denied /\ link'.out = t.out
        /\ link'.timer = TRUE /\ link'.loop = TRUE
    BY <1>7, <2>1 DEF Link
  <2>3. Down(link') /\ Stream(link', stat)
    BY <1>7, <1>10, <2>2 DEF Down, Stream
  <2>4. LinkInv'
    BY <1>1, <2>2, <2>3 DEF LinkInv, TypeOK, Settled
  <2>5. QED
    BY <1>4, <1>7, <2>2, <2>4 DEF LinkStep
<1>11. QED
  BY <1>7, <1>8, <1>9, <1>10

LEMMA StepProcessTimeCheck == LinkInv /\ ProcessTimeCheck => LinkStep
<1> SUFFICES ASSUME LinkInv, ProcessTimeCheck PROVE LinkStep
  OBVIOUS
<1>1. /\ link \in Link /\ stat \in 0..StatBound /\ Settled(link) /\ Stream(link, stat)
      /\ UNCHANGED <<stat, peer, calm>>
  BY DEF LinkInv, TypeOK, ProcessTimeCheck, Report
<1>2. PICK o \in Fates(link.fd), a \in Attaches : link' = SynData(link, o, a)
  BY DEF ProcessTimeCheck, Report
<1>3. o \in Error..QueueBound /\ a \in {"added", "noslot", "refused"}
  BY Outcomes DEF LinkInv
<1>4. CASE Down(link)
  <2>1. link' = link
    BY <1>2, <1>4 DEF SynData, Down
  <2>2. link.got <= link.got
    BY <1>1, LinkFields, LinkAssumption DEF Garbage
  <2>3. LinkInv'
    BY <1>1, <2>1 DEF LinkInv, TypeOK
  <2>4. QED
    BY <2>1, <2>2, <2>3 DEF LinkStep
<1>5. CASE Live(link) /\ ~link.timer /\ ~link.loop
  <2>1. link' = Send(link, Packet(stat), o, a)
    BY <1>2, <1>5 DEF SynData, Live
  <2>2. /\ link' \in Link /\ link.got <= link'.got /\ Stream(link', stat)
        /\ \/ Down(link') /\ link'.fd = "none" /\ link'.timer /\ link'.loop
           \/ /\ Live(link') /\ link'.fd = link.fd
              /\ link'.timer = link.timer /\ link'.loop = link.loop
    <3>1. link.fd \in {"open", "broken"} /\ link.connected
      BY <1>5 DEF Live
    <3>2. link \in Link /\ stat \in 0..StatBound /\ Stream(link, stat)
      BY <1>1
    <3>3. Slots(link)
      <4>1. link.epslot = "watched" <=> ~link.denied
        BY <1>5 DEF Live
      <4>2. QED
        BY <4>1 DEF Slots
    <3>4. QED
      BY <1>3, <2>1, <3>1, <3>2, <3>3, SendStream
  <2>3. Settled(link')
    BY <1>5, <2>2 DEF Settled
  <2>4. link'.timer \/ link'.connected
    BY <2>2 DEF Live
  <2>5. LinkInv'
    BY <1>1, <2>2, <2>3 DEF LinkInv, TypeOK
  <2>6. QED
    BY <2>2, <2>4, <2>5 DEF LinkStep
<1>6. QED
  BY <1>1, <1>4, <1>5 DEF Settled

\* The link is closed.
LEMMA StepClose ==
  ASSUME LinkInv, link' = Close(link), UNCHANGED <<stat, peer, calm>>
  PROVE  LinkStep
<1>1. link \in Link /\ Stream(link, stat) /\ Slots(link)
  <2>1. link \in Link /\ Stream(link, stat) /\ Settled(link)
    BY DEF LinkInv, TypeOK
  <2>2. QED
    BY <2>1, LinkFields DEF Settled, Live, Down, Slots
<1>2. /\ link' \in Link /\ Down(link') /\ link'.fd = "none"
      /\ link'.timer /\ link'.loop /\ link'.got = link.got
  BY <1>1, CloseDown
<1>3. link.got \in Int
  BY <1>1, LinkFields, LinkAssumption DEF Garbage
<1>4. Stream(link', stat) /\ Settled(link')
  BY <1>1, <1>2 DEF Stream, Settled
<1>5. LinkInv'
  BY <1>2, <1>4 DEF LinkInv, TypeOK
<1>6. QED
  BY <1>2, <1>3, <1>5 DEF LinkStep

LEMMA StepOutputNotify == LinkInv /\ OutputNotify => LinkStep
<1> SUFFICES ASSUME LinkInv, OutputNotify PROVE LinkStep
  OBVIOUS
<1>1. /\ link \in Link /\ stat \in 0..StatBound /\ Stream(link, stat) /\ Live(link)
      /\ ~link.timer /\ ~link.loop /\ UNCHANGED <<stat, peer, calm>>
  BY DEF LinkInv, TypeOK, OutputNotify, Settled, Down
<1>2. PICK o \in Fates(link.fd) : link' = HandleOutput(link, o)
  BY DEF OutputNotify
<1>3. o \in Error..QueueBound
  BY Outcomes DEF LinkInv
<1>4. CASE o = Error \/ link.w = <<>>
  <2>1. link' = Close(link)
    BY <1>2, <1>4 DEF HandleOutput
  <2>2. QED
    BY <1>1, <2>1, StepClose
<1>5. CASE ~(o = Error \/ link.w = <<>>)
  <2>1. link' = Flush(link, link.w, o)
    BY <1>2, <1>5 DEF HandleOutput
  <2>2. o \in Nat
    BY <1>3, <1>5, LinkAssumption DEF Error
  <2>3. /\ link' \in Link /\ link.got <= link'.got /\ Stream(link', stat)
        /\ OutputOn(link') /\ link'.active
        /\ link'.fd = link.fd /\ link'.connected = link.connected
        /\ link'.epslot = link.epslot /\ link'.denied = link.denied
        /\ link'.timer = link.timer /\ link'.loop = link.loop
    <3>1. link \in Link /\ stat \in 0..StatBound /\ link.w \in Seq(Piece)
      BY <1>1, LinkFields
    <3>2. link.got <= stat /\ (link.fd = "open" => Whole(link.part \o link.w, link.got, stat))
      BY <1>1 DEF Stream
    <3>3. QED
      BY <2>1, <2>2, <3>1, <3>2, FlushStream
  <2>4. Live(link') /\ ~link'.timer /\ ~link'.loop
    BY <1>1, <2>3 DEF Live
  <2>5. LinkInv'
    BY <1>1, <2>3, <2>4 DEF LinkInv, TypeOK, Settled
  <2>6. QED
    BY <2>3, <2>4, <2>5 DEF LinkStep, Live
<1>6. QED
  BY <1>4, <1>5

LEMMA StepCount == LinkInv /\ Count => LinkStep
<1> SUFFICES ASSUME LinkInv, Count PROVE LinkStep
  OBVIOUS
<1>1. /\ link \in Link /\ stat \in 0..StatBound /\ Stream(link, stat) /\ Settled(link)
      /\ link' = link /\ stat' = stat + 1 /\ stat < StatBound /\ UNCHANGED <<peer, calm>>
  BY DEF LinkInv, TypeOK, Count
<1>2. stat' \in 0..StatBound
  BY <1>1, LinkAssumption
<1>3. link.got \in Int /\ link.got <= stat /\ stat \in Int
  BY <1>1, LinkFields, LinkAssumption DEF Garbage, Stream
<1>4. Stream(link, stat')
  <2>1. ASSUME NEW q, Whole(q, link.got, stat) PROVE Whole(q, link.got, stat')
    <3>1. \A i \in 1..Len(q) : link.got <= q[i][1] /\ q[i][1] <= stat /\ q[i][1] \in Int
      BY <2>1, PieceFields, LinkAssumption DEF Whole
    <3>2. \A i \in 1..Len(q) : link.got <= q[i][1] /\ q[i][1] <= stat'
      BY <1>1, <1>3, <3>1
    <3>3. QED
      BY <2>1, <3>2 DEF Whole
  <2>2. QED
    BY <1>1, <1>3, <2>1 DEF Stream
<1>5. LinkInv'
  BY <1>1, <1>2, <1>4 DEF LinkInv, TypeOK
<1>6. QED
  BY <1>1, <1>3, <1>5 DEF LinkStep

LEMMA StepPeer == LinkInv /\ (PeerDown \/ PeerUp \/ BecomeCalm) => LinkStep
<1> SUFFICES ASSUME LinkInv, PeerDown \/ PeerUp \/ BecomeCalm PROVE LinkStep
  OBVIOUS
<1>1. /\ link \in Link /\ stat \in 0..StatBound /\ Stream(link, stat) /\ Settled(link)
  BY DEF LinkInv, TypeOK
<1>2. link.got \in Int
  BY <1>1, LinkFields, LinkAssumption DEF Garbage
<1>3. CASE PeerDown
  <2>1. /\ link' = [link EXCEPT !.fd = IF @ = "open" THEN "broken" ELSE @]
        /\ peer' = "down" /\ UNCHANGED <<stat, calm>>
    BY <1>3 DEF PeerDown
  <2>2. /\ link' \in Link /\ link'.got = link.got /\ link'.w = link.w
        /\ link'.fd = IF link.fd = "open" THEN "broken" ELSE link.fd
        /\ link'.connected = link.connected /\ link'.active = link.active
        /\ link'.epslot = link.epslot /\ link'.denied = link.denied /\ link'.out = link.out
        /\ link'.timer = link.timer /\ link'.loop = link.loop
    BY <1>1, <2>1 DEF Link
  <2>3. Settled(link')
    BY <1>1, <2>2 DEF Settled, Live, Down, OutputOn
  <2>4. Stream(link', stat)
    BY <1>1, <2>2 DEF Stream
  <2>5. LinkInv'
    BY <2>1, <2>2, <2>3, <2>4 DEF LinkInv, TypeOK
  <2>6. QED
    BY <1>2, <2>2, <2>5 DEF LinkStep
<1>4. CASE PeerUp \/ BecomeCalm
  <2>1. link' = link /\ stat' = stat /\ peer' \in {"up", "down"} /\ calm' \in BOOLEAN
    BY <1>4 DEF PeerUp, BecomeCalm, LinkInv, TypeOK
  <2>2. LinkInv'
    BY <1>1, <2>1 DEF LinkInv, TypeOK
  <2>3. QED
    BY <1>2, <2>1, <2>2 DEF LinkStep
<1>5. QED
  BY <1>3, <1>4

LEMMA NextStep == LinkInv /\ [Next]_vars => LinkInv' /\ (Next => LinkStep)
<1>1. LinkInv /\ Next => LinkStep
  <2>1. LinkInv /\ CloseNotify => LinkStep
    BY StepClose DEF CloseNotify
  <2>2. QED
    BY <2>1, StepTimerOut, StepProcessTimeCheck, StepOutputNotify, StepCount, StepPeer
       DEF Next
<1>2. LinkInv /\ UNCHANGED vars => LinkInv'
  BY DEF LinkInv, TypeOK, vars
<1>3. QED
  BY <1>1, <1>2 DEF LinkStep

\* What the invariant means for the fields of the object.
LEMMA InvConsistent == LinkInv => LinkConsistent
<1> SUFFICES ASSUME LinkInv PROVE LinkConsistent
  OBVIOUS
<1>1. TypeOK /\ link \in Link /\ Settled(link)
  BY DEF LinkInv, TypeOK
<1>2. CASE Live(link) /\ ~link.timer /\ ~link.loop
  BY <1>1, <1>2 DEF Live, OutputOn, LinkConsistent, Link
<1>3. CASE Down(link)
  BY <1>1, <1>3 DEF Down, LinkConsistent, Link
<1>4. QED
  BY <1>1, <1>2, <1>3 DEF Settled

-----------------------------------------------------------------------------
(***************************************************************************)
(* The theorems                                                            *)
(***************************************************************************)

\* In every behaviour of the link, whatever attempts to attach it to the poller
\* fail, its flags, its descriptor, its timer and its output events agree, so that
\* SynData never sends on a dead or foreign descriptor and handle_output never
\* finds _w empty; and the event loop watches a connected link exactly unless the
\* last such attempt failed.
THEOREM LinkIsConsistent == Spec => []LinkConsistent
<1>1. LinkInv /\ [Next]_vars => LinkInv'
  BY NextStep
<1>2. QED
  BY <1>1, InitInv, InvConsistent, PTL DEF Spec

\* Across partial sends, queued packets, lost connections and reconnects the TJ
\* server reads whole reports and never one that is older than the one before.
THEOREM ReportsAreInOrder == Spec => ReportsInOrder
<1>1. LinkInv /\ [Next]_vars => LinkInv'
  BY NextStep
<1>2. LinkInv /\ [Next]_vars => [link'.got >= link.got]_vars
  <2>1. LinkInv /\ LinkStep => link'.got >= link.got
    <3> SUFFICES ASSUME LinkInv, LinkStep PROVE link'.got >= link.got
      OBVIOUS
    <3>1. link \in Link /\ link' \in Link /\ link.got <= link'.got
      BY DEF LinkInv, LinkStep, TypeOK
    <3>2. link.got \in Int /\ link'.got \in Int
      BY <3>1, LinkFields, LinkAssumption DEF Garbage
    <3>3. QED
      BY <3>1, <3>2
  <2>2. QED
    BY <2>1, NextStep
<1>3. QED
  BY <1>1, <1>2, InitInv, PTL DEF Spec, ReportsInOrder

\* A link that is connected or waits for its reconnect timer stays so, except
\* when a reconnect succeeds and its first report fails.
THEOREM LinkGivenUpOnlyByReconnect == Spec => GivenUpOnlyByReconnect
<1>1. LinkInv /\ [Next]_vars => LinkInv'
  BY NextStep
<1>2. LinkInv /\ [Next]_vars =>
        [link.timer \/ link.connected =>
           \/ link'.timer \/ link'.connected
           \/ link.timer /\ peer = "up" /\ link'.fd = "none"]_vars
  BY NextStep DEF LinkStep
<1>3. QED
  BY <1>1, <1>2, InitInv, PTL DEF Spec, GivenUpOnlyByReconnect

=============================================================================
