---------------------------- MODULE ReactorProofs ----------------------------
(***************************************************************************)
(* Proofs about Reactor, for any connections, slots and packets.           *)
(*                                                                         *)
(* Most of a step of the reactor is one callback, a composition of methods *)
(* that nest as in the code.  The lemmas follow them from the inside out:  *)
(* each says that the handler stands or is gone (Held, Removed), then      *)
(* what this means for the replies (At, Standing, Finished), and why it    *)
(* went (After).  Then the callback is put back among the other            *)
(* connections (World, Local), the loop of the listening socket followed   *)
(* turn by turn (Accepting), and the inductive invariant (IInv) gives the  *)
(* theorems at the end.                                                    *)
(***************************************************************************)
EXTENDS Reactor, ProofBasics

-----------------------------------------------------------------------------
(***************************************************************************)
(* Types                                                                   *)
(***************************************************************************)

Replies == [n : Nat, conn : Conns, part : 1..3]
Packets == [n : Nat, conn : Conns, kind : Kinds]
PieceSet == [n : Nat, conn : Conns, kind : Kinds, last : BOOLEAN]
Interests == SUBSET {"in", "out"}

Objects ==
  [state : {"none", "live", "deleted"}, slot : Slots \cup {NoSlot}, old : Interests,
   new : Interests, r : {q \in Seq(PieceSet) : Len(q) <= 1}, w : Seq(Replies),
   last : Packets \cup {NoPacket}]

Registrations == [slot : Slots \cup {NoSlot}, seq : Nat, events : Interests]

Sockets ==
  [fd : {"none", "backlog", "open", "lost", "closed"}, peer : {"open", "closed", "reset"},
   in : Seq(PieceSet), full : BOOLEAN, reg : Registrations, sent : Seq(Kinds),
   got : Seq(Replies)]

Units ==
  [seq : [Slots -> Nat], poller : [Slots -> Conns \cup {Nobody, Listener}],
   free : Seq(Slots), used : Int]

Stages == {"idle", "error", "fatal", "sent", "sending"}

Calls ==
  [o : Objects, k : Sockets, u : Units, room : Nat, fuse : Int, stage : Stages,
   dead : BOOLEAN]

-----------------------------------------------------------------------------
(***************************************************************************)
(* What a callback has done so far, compared with its beginning b          *)
(***************************************************************************)

\* The handler still has its slot i and is registered for the events in old.
Held(s, i, b) ==
  /\ s \in Calls /\ i \in Slots
  /\ s.o.state = "live" /\ s.o.slot = i /\ s.k.fd = "open"
  /\ s.u.poller = b.u.poller /\ s.u.free = b.u.free /\ s.u.used = b.u.used
  /\ \A j \in Slots \ {i} : s.u.seq[j] = b.u.seq[j]
  /\ s.k.reg = [slot |-> i, seq |-> s.u.seq[i], events |-> s.o.old]
  /\ s.k.peer = b.k.peer /\ s.k.sent = b.k.sent
  /\ s.dead = FALSE
  /\ s.k.peer = "open" => s.fuse < 0

\* The handler has deleted itself and given the slot back.
Removed(s, i, b) ==
  /\ s \in Calls /\ i \in Slots
  /\ s.o.state = "deleted" /\ s.o.slot = NoSlot /\ s.o.w = <<>>
  /\ s.k.fd = "closed" /\ s.k.reg = NoReg /\ s.k.in = <<>>
  /\ s.u.poller = [b.u.poller EXCEPT ![i] = Nobody]
  /\ s.u.free = <<i>> \o b.u.free /\ s.u.used = b.u.used - 1
  /\ \A j \in Slots \ {i} : s.u.seq[j] = b.u.seq[j]
  /\ s.k.peer = b.k.peer /\ s.k.sent = b.k.sent
  /\ s.k.peer = "open" => s.dead = FALSE

\* What the poller's methods leave alone.
Rest(s, t) ==
  /\ t.o.r = s.o.r /\ t.o.w = s.o.w /\ t.o.last = s.o.last
  /\ t.k.in = s.k.in /\ t.k.got = s.k.got
  /\ t.room = s.room /\ t.fuse = s.fuse /\ t.stage = s.stage /\ t.dead = s.dead

LEMMA CallTypes ==
  ASSUME NEW s \in Calls
  PROVE  /\ s.o \in Objects /\ s.k \in Sockets /\ s.u \in Units /\ s.room \in Nat
         /\ s.fuse \in Int /\ s.stage \in Stages /\ s.dead \in BOOLEAN
BY DEF Calls

LEMMA ObjectTypes ==
  ASSUME NEW o \in Objects
  PROVE  /\ o.slot \in Slots \cup {NoSlot} /\ o.old \in Interests /\ o.new \in Interests
         /\ o.r \in Seq(PieceSet) /\ Len(o.r) <= 1 /\ o.w \in Seq(Replies)
         /\ o.last \in Packets \cup {NoPacket}
BY DEF Objects

LEMMA SocketTypes ==
  ASSUME NEW k \in Sockets
  PROVE  /\ k.in \in Seq(PieceSet) /\ k.full \in BOOLEAN /\ k.reg \in Registrations
         /\ k.sent \in Seq(Kinds) /\ k.got \in Seq(Replies)
BY DEF Sockets

LEMMA UnitTypes ==
  ASSUME NEW u \in Units
  PROVE  /\ u.seq \in [Slots -> Nat] /\ u.poller \in [Slots -> Conns \cup {Nobody, Listener}]
         /\ u.free \in Seq(Slots) /\ u.used \in Int
BY DEF Units

\* Registering: only seq of the slot, old and the registration change.
LEMMA EpctlDoes ==
  ASSUME NEW s \in Calls, NEW i \in Slots, s.o.slot = i
  PROVE  LET t == Epctl(s)
         IN  /\ t \in Calls /\ Rest(s, t)
             /\ t.o.old = s.o.new /\ t.o.new = s.o.new
             /\ t.o.state = s.o.state /\ t.o.slot = i
             /\ t.k.fd = s.k.fd /\ t.k.peer = s.k.peer /\ t.k.sent = s.k.sent
             /\ t.k.reg = [slot |-> i, seq |-> t.u.seq[i], events |-> t.o.old]
             /\ t.u.poller = s.u.poller /\ t.u.free = s.u.free /\ t.u.used = s.u.used
             /\ \A j \in Slots \ {i} : t.u.seq[j] = s.u.seq[j]
<1> DEFINE q == s.u.seq[i] + 1
           reg == [slot |-> i, seq |-> q, events |-> s.o.new]
           O == [s.o EXCEPT !.old = s.o.new]
           K == [s.k EXCEPT !.reg = reg]
           U == [s.u EXCEPT !.seq[i] = q]
           t == Epctl(s)
<1>1. s.o \in Objects /\ s.k \in Sockets /\ s.u \in Units
  BY CallTypes
<1>2. /\ O \in Objects /\ O.old = s.o.new /\ O.new = s.o.new /\ O.state = s.o.state
      /\ O.slot = i /\ O.r = s.o.r /\ O.w = s.o.w /\ O.last = s.o.last
  BY <1>1 DEF Objects
<1>3. q \in Nat /\ reg \in Registrations
  BY <1>1 DEF Units, Objects, Registrations
<1> HIDE DEF reg
<1>4. /\ K \in Sockets /\ K.reg = reg /\ K.fd = s.k.fd /\ K.peer = s.k.peer
      /\ K.sent = s.k.sent /\ K.in = s.k.in /\ K.got = s.k.got
  BY <1>1, <1>3 DEF Sockets
<1> HIDE DEF q
<1>5. /\ U \in Units /\ U.seq[i] = q /\ U.poller = s.u.poller /\ U.free = s.u.free
      /\ U.used = s.u.used /\ \A j \in Slots \ {i} : U.seq[j] = s.u.seq[j]
  BY <1>1, <1>3 DEF Units
<1>6. t = [s EXCEPT !.u = U, !.o = O, !.k = K]
  BY DEF Epctl, reg, q
<1> HIDE DEF t, U, O, K
<1>7. /\ t.o = O /\ t.k = K /\ t.u = U /\ t \in Calls
      /\ t.room = s.room /\ t.fuse = s.fuse /\ t.stage = s.stage /\ t.dead = s.dead
  BY <1>2, <1>4, <1>5, <1>6 DEF Calls
<1>8. t.k.reg = [slot |-> i, seq |-> t.u.seq[i], events |-> t.o.old]
  BY <1>2, <1>4, <1>5, <1>7 DEF reg
<1>9. QED
  BY <1>2, <1>4, <1>5, <1>7, <1>8 DEF t, Rest


\* Asking for other events and registering them, if they are others.
LEMMA ApplyHeld ==
  ASSUME NEW s, NEW i, NEW b, Held(s, i, b), NEW v \in Interests
  PROVE  LET t == ApplyEvents([s EXCEPT !.o.new = v])
         IN  Held(t, i, b) /\ Rest(s, t) /\ t.o.old = v /\ t.o.new = v
<1> DEFINE O == [s.o EXCEPT !.new = v]
           x == [s EXCEPT !.o = O]
           t == ApplyEvents(x)
<1>1. s \in Calls /\ i \in Slots /\ s.o \in Objects
  BY CallTypes DEF Held
<1>2. /\ O \in Objects /\ O.old = s.o.old /\ O.new = v /\ O.state = s.o.state
      /\ O.slot = s.o.slot /\ O.r = s.o.r /\ O.w = s.o.w /\ O.last = s.o.last
  BY <1>1 DEF Objects
<1> HIDE DEF O
<1>3. /\ x \in Calls /\ x.o = O /\ x.k = s.k /\ x.u = s.u /\ x.room = s.room
      /\ x.fuse = s.fuse /\ x.stage = s.stage /\ x.dead = s.dead
  BY <1>1, <1>2 DEF Calls
<1>4. x = [s EXCEPT !.o.new = v]
  BY DEF O
<1> HIDE DEF x
<1>5. Rest(s, x) /\ x.o.slot = i /\ x.o.new = v /\ x.o.old = s.o.old
  BY <1>2, <1>3 DEF Rest, Held
<1>6. Held(x, i, b)
  BY <1>2, <1>3 DEF Held
<1>7. CASE x.o.old = x.o.new
  <2>1. t = x
    BY <1>7 DEF ApplyEvents
  <2>2. QED
    BY <1>4, <1>5, <1>6, <1>7, <2>1
<1>8. CASE x.o.old # x.o.new
  <2>1. t = Epctl(x)
    BY <1>8 DEF ApplyEvents
  <2> HIDE DEF t
  <2>2. /\ t \in Calls /\ Rest(x, t)
        /\ t.o.old = x.o.new /\ t.o.new = x.o.new
        /\ t.o.state = x.o.state /\ t.o.slot = i
        /\ t.k.fd = x.k.fd /\ t.k.peer = x.k.peer /\ t.k.sent = x.k.sent
        /\ t.k.reg = [slot |-> i, seq |-> t.u.seq[i], events |-> t.o.old]
        /\ t.u.poller = x.u.poller /\ t.u.free = x.u.free /\ t.u.used = x.u.used
        /\ \A j \in Slots \ {i} : t.u.seq[j] = x.u.seq[j]
    BY <1>1, <1>3, <1>5, <2>1, EpctlDoes
  <2>3. Held(t, i, b)
    BY <1>6, <2>2 DEF Held, Rest
  <2>4. Rest(s, t)
    BY <1>5, <2>2 DEF Rest
  <2>5. QED
    BY <1>4, <1>5, <2>2, <2>3, <2>4 DEF t
<1>9. QED
  BY <1>7, <1>8

\* The destructors.
LEMMA DeleteDoes ==
  ASSUME NEW s \in Calls
  PROVE  LET t == Delete(s)
         IN  /\ t \in Calls
             /\ t.o.state = "deleted" /\ t.o.slot = NoSlot /\ t.o.w = <<>>
             /\ t.o.r = <<>> /\ t.o.last = s.o.last
             /\ t.k.fd = "closed" /\ t.k.reg = NoReg /\ t.k.in = <<>>
             /\ t.k.peer = s.k.peer /\ t.k.sent = s.k.sent /\ t.k.got = s.k.got
             /\ t.dead = s.dead /\ t.stage = s.stage
             /\ s.o.slot = NoSlot => t.u = s.u
             /\ s.o.slot # NoSlot =>
                  /\ t.u.poller = [s.u.poller EXCEPT ![s.o.slot] = Nobody]
                  /\ t.u.free = <<s.o.slot>> \o s.u.free /\ t.u.used = s.u.used - 1
                  /\ \A j \in Slots \ {s.o.slot} : t.u.seq[j] = s.u.seq[j]
<1> DEFINE i == s.o.slot
           O == [s.o EXCEPT !.state = "deleted", !.slot = NoSlot, !.r = <<>>, !.w = <<>>]
           K == [s.k EXCEPT !.fd = "closed", !.reg = NoReg, !.in = <<>>]
           F == FreeEpollSlot(s.u, i)
           U == IF i = NoSlot THEN s.u ELSE F
           t == Delete(s)
<1>1. s.o \in Objects /\ s.k \in Sockets /\ s.u \in Units /\ i \in Slots \cup {NoSlot}
  BY CallTypes, ObjectTypes
<1>2. O \in Objects /\ O.state = "deleted" /\ O.slot = NoSlot /\ O.w = <<>> /\ O.r = <<>> /\ O.last = s.o.last
  <2>1. <<>> \in Seq(PieceSet) /\ <<>> \in Seq(Replies) /\ Len(<<>>) <= 1
    OBVIOUS
  <2>2. QED
    BY <1>1, <2>1 DEF Objects
<1>3. /\ K \in Sockets /\ K.fd = "closed" /\ K.reg = NoReg /\ K.in = <<>>
      /\ K.peer = s.k.peer /\ K.sent = s.k.sent /\ K.got = s.k.got
  <2>1. <<>> \in Seq(PieceSet)
    OBVIOUS
  <2>2. NoReg \in Registrations
    BY DEF NoReg, Registrations, Interests
  <2>3. QED
    BY <1>1, <2>1, <2>2 DEF Sockets
<1>4. ASSUME i \in Slots
      PROVE  /\ F \in Units /\ F.poller = [s.u.poller EXCEPT ![i] = Nobody]
             /\ F.free = <<i>> \o s.u.free /\ F.used = s.u.used - 1
             /\ \A j \in Slots \ {i} : F.seq[j] = s.u.seq[j]
  <2> DEFINE P == [s.u.poller EXCEPT ![i] = Nobody]
             Q == [s.u.seq EXCEPT ![i] = @ + 1]
             R == <<i>> \o s.u.free
  <2>1. /\ s.u.seq \in [Slots -> Nat] /\ s.u.free \in Seq(Slots) /\ s.u.used \in Int
        /\ s.u.poller \in [Slots -> Conns \cup {Nobody, Listener}]
    BY <1>1, UnitTypes
  <2>2. P \in [Slots -> Conns \cup {Nobody, Listener}]
    BY <2>1
  <2>3. Q \in [Slots -> Nat] /\ \A j \in Slots \ {i} : Q[j] = s.u.seq[j]
    BY <1>4, <2>1
  <2>4. R \in Seq(Slots)
    BY <1>4, <2>1
  <2>5. F = [s.u EXCEPT !.poller = P, !.seq = Q, !.free = R, !.used = s.u.used - 1]
    BY DEF FreeEpollSlot
  <2> HIDE DEF P, Q, R, F
  <2>6. F = [seq |-> Q, poller |-> P, free |-> R, used |-> s.u.used - 1]
    BY <1>1, <2>5 DEF Units
  <2>7. F \in Units
    BY <2>1, <2>2, <2>3, <2>4, <2>6 DEF Units
  <2>8. QED
    BY <2>3, <2>6, <2>7 DEF P, R
<1>5. U \in Units
  BY <1>1, <1>4
<1>6. t = [s EXCEPT !.u = U, !.o = O, !.k = K]
  BY DEF Delete
<1> HIDE DEF t, U, O, K, F
<1>7. /\ t.o = O /\ t.k = K /\ t.u = U /\ t \in Calls /\ t.dead = s.dead /\ t.stage = s.stage
  BY <1>2, <1>3, <1>5, <1>6 DEF Calls
<1>8. QED
  BY <1>1, <1>2, <1>3, <1>4, <1>7 DEF t, U

\* Closing a handler that has its slot removes it.
LEMMA CloseHeld ==
  ASSUME NEW s, NEW i, NEW b, Held(s, i, b)
  PROVE  LET t == Close(s)
         IN  Removed(t, i, b) /\ t.k.got = s.k.got /\ t.dead = FALSE
             /\ t.o.last = s.o.last /\ t.stage = s.stage
<1> DEFINE t == Close(s)
<1>1. t = Delete(s) /\ s \in Calls /\ s.o.slot = i /\ i \in Slots /\ i # NoSlot
  BY DEF Close, Held, Slots, NoSlot
<1> HIDE DEF t
<1>2. /\ t \in Calls
      /\ t.o.state = "deleted" /\ t.o.slot = NoSlot /\ t.o.w = <<>> /\ t.o.last = s.o.last
      /\ t.k.fd = "closed" /\ t.k.reg = NoReg /\ t.k.in = <<>>
      /\ t.k.peer = s.k.peer /\ t.k.sent = s.k.sent /\ t.k.got = s.k.got
      /\ t.dead = s.dead /\ t.stage = s.stage
      /\ t.u.poller = [s.u.poller EXCEPT ![i] = Nobody]
      /\ t.u.free = <<i>> \o s.u.free /\ t.u.used = s.u.used - 1
      /\ \A j \in Slots \ {i} : t.u.seq[j] = s.u.seq[j]
  BY <1>1, DeleteDoes
<1>3. Removed(t, i, b)
  BY <1>1, <1>2 DEF Held, Removed
<1>4. QED
  BY <1>2, <1>3 DEF t, Held

\* Closing one that is gone ends the process.
LEMMA CloseRemoved ==
  ASSUME NEW s, NEW i, NEW b, Removed(s, i, b), s.k.peer # "open"
  PROVE  LET t == Close(s)
         IN  Removed(t, i, b) /\ t.k.got = s.k.got /\ t.o.last = s.o.last /\ t.stage = s.stage
<1> DEFINE t == Close(s)
<1>1. t = [s EXCEPT !.dead = TRUE] /\ s \in Calls
  BY DEF Close, Removed
<1> HIDE DEF t
<1>2. t \in Calls /\ t.o = s.o /\ t.k = s.k /\ t.u = s.u /\ t.stage = s.stage
  BY <1>1 DEF Calls
<1>3. QED
  BY <1>2 DEF Removed, t

-----------------------------------------------------------------------------
(***************************************************************************)
(* Sending                                                                 *)
(***************************************************************************)

\* The events a handler with w waiting asks for.
Wanted(w) == {"in"} \cup {e \in {"out"} : w # <<>>}

\* The handler has its slot and asks for the events it needs.
Work(s, i, b) == Held(s, i, b) /\ s.o.new = s.o.old /\ s.o.old = Wanted(s.o.w)

\* The replies that left or wait.
All(s) == s.k.got \o s.o.w

\* What receiving looks at.
Input(s, t) == t.o.r = s.o.r /\ t.o.last = s.o.last /\ t.k.in = s.k.in

LEMMA WantedTypes ==
  ASSUME NEW w
  PROVE  /\ Wanted(w) \in Interests
         /\ w = <<>> => Wanted(w) = {"in"}
         /\ w # <<>> => Wanted(w) = {"in", "out"}
BY DEF Wanted, Interests

LEMMA StageHeld ==
  ASSUME NEW s, NEW i, NEW b, Held(s, i, b), NEW g \in Stages
  PROVE  LET t == [s EXCEPT !.stage = g]
         IN  Held(t, i, b) /\ t.o = s.o /\ t.k = s.k /\ t.stage = g
<1> DEFINE t == [s EXCEPT !.stage = g]
<1>1. s \in Calls
  BY DEF Held
<1>2. /\ t \in Calls /\ t.o = s.o /\ t.k = s.k /\ t.u = s.u /\ t.stage = g
      /\ t.fuse = s.fuse /\ t.dead = s.dead
  BY <1>1 DEF Calls
<1> HIDE DEF t
<1>3. QED
  BY <1>2 DEF Held, t

LEMMA StageRemoved ==
  ASSUME NEW s, NEW i, NEW b, Removed(s, i, b), NEW g \in Stages
  PROVE  LET t == [s EXCEPT !.stage = g]
         IN  Removed(t, i, b) /\ t.o = s.o /\ t.k = s.k /\ t.stage = g /\ t.dead = s.dead
<1> DEFINE t == [s EXCEPT !.stage = g]
<1>1. s \in Calls
  BY DEF Removed
<1>2. /\ t \in Calls /\ t.o = s.o /\ t.k = s.k /\ t.u = s.u /\ t.stage = g
      /\ t.fuse = s.fuse /\ t.dead = s.dead
  BY <1>1 DEF Calls
<1> HIDE DEF t
<1>3. QED
  BY <1>2 DEF Removed, t

LEMMA WaitingHeld ==
  ASSUME NEW s, NEW i, NEW b, Held(s, i, b), NEW w \in Seq(Replies)
  PROVE  LET t == [s EXCEPT !.o.w = w]
         IN  /\ Held(t, i, b) /\ Input(s, t) /\ t.o.w = w /\ t.k = s.k /\ t.stage = s.stage
             /\ t.o.old = s.o.old /\ t.o.new = s.o.new /\ t.room = s.room /\ t.fuse = s.fuse
<1> DEFINE O == [s.o EXCEPT !.w = w]
           t == [s EXCEPT !.o = O]
<1>1. s \in Calls /\ s.o \in Objects
  BY CallTypes DEF Held
<1>2. /\ O \in Objects /\ O.old = s.o.old /\ O.new = s.o.new /\ O.state = s.o.state
      /\ O.slot = s.o.slot /\ O.r = s.o.r /\ O.w = w /\ O.last = s.o.last
  BY <1>1 DEF Objects
<1>3. t = [s EXCEPT !.o.w = w]
  OBVIOUS
<1> HIDE DEF O
<1>4. /\ t \in Calls /\ t.o = O /\ t.k = s.k /\ t.u = s.u /\ t.stage = s.stage
      /\ t.fuse = s.fuse /\ t.dead = s.dead /\ t.room = s.room
  BY <1>1, <1>2 DEF Calls
<1> HIDE DEF t
<1>5. Held(t, i, b)
  BY <1>2, <1>4 DEF Held
<1>6. QED
  BY <1>2, <1>3, <1>4, <1>5 DEF Input

\* The kernel takes n of the replies.
LEMMA DeliverHeld ==
  ASSUME NEW s, NEW i, NEW b, Held(s, i, b), NEW w \in Seq(Replies), NEW n \in 0..Len(w),
         n <= s.room
  PROVE  LET t == Deliver(s, n, w)
         IN  /\ Held(t, i, b) /\ t.o = s.o /\ t.k.in = s.k.in /\ t.stage = s.stage
             /\ t.k.got = s.k.got \o SubSeq(w, 1, n)
<1> DEFINE G == s.k.got \o SubSeq(w, 1, n)
           f == n < Len(w)
           K == [s.k EXCEPT !.got = G, !.full = f]
           t == [s EXCEPT !.k = K, !.room = s.room - n, !.fuse = s.fuse - 1]
<1>1. s \in Calls /\ s.k \in Sockets /\ s.room \in Nat /\ s.fuse \in Int /\ Len(w) \in Nat /\ n \in Nat
  BY CallTypes DEF Held
<1>2. G \in Seq(Replies) /\ f \in BOOLEAN
  <2>1. SubSeq(w, 1, n) \in Seq(Replies) /\ s.k.got \in Seq(Replies)
    BY <1>1, Prefix, SocketTypes
  <2>2. QED
    BY <2>1, Concat
<1>3. t = Deliver(s, n, w)
  BY DEF Deliver
<1> HIDE DEF G, f
<1>4. /\ K \in Sockets /\ K.got = G /\ K.fd = s.k.fd /\ K.reg = s.k.reg /\ K.in = s.k.in
      /\ K.peer = s.k.peer /\ K.sent = s.k.sent
  BY <1>1, <1>2 DEF Sockets
<1> HIDE DEF K
<1>5. /\ t \in Calls /\ t.o = s.o /\ t.k = K /\ t.u = s.u /\ t.stage = s.stage
      /\ t.fuse = s.fuse - 1 /\ t.dead = s.dead
  <2>1. s.room - n \in Nat /\ s.fuse - 1 \in Int
    BY <1>1
  <2>2. QED
    BY <1>1, <1>4, <2>1 DEF Calls
<1> HIDE DEF t
<1>6. Held(t, i, b)
  <2>1. t.k.peer = "open" => t.fuse < 0
    BY <1>1, <1>4, <1>5 DEF Held
  <2>2. QED
    BY <1>4, <1>5, <2>1 DEF Held
<1>7. QED
  BY <1>3, <1>4, <1>5, <1>6 DEF G


\* Sending does not change which replies left or wait, and in which order.
LEMMA SplitWaiting ==
  ASSUME NEW S, NEW g \in Seq(S), NEW w \in Seq(S), NEW n \in 0..Len(w)
  PROVE  (g \o SubSeq(w, 1, n)) \o SubSeq(w, n + 1, Len(w)) = g \o w
<1> DEFINE l == SubSeq(w, 1, n)
           r == SubSeq(w, n + 1, Len(w))
<1>1. l \in Seq(S) /\ r \in Seq(S) /\ w = l \o r
  BY Prefix, Suffix, SplitSeq
<1> HIDE DEF l, r
<1>2. (g \o l) \o r = g \o (l \o r)
  BY <1>1, ConcatAssociative
<1>3. QED
  BY <1>1, <1>2 DEF l, r

\* A sequence without elements.
LEMMA EmptyLen ==
  ASSUME NEW S, NEW q \in Seq(S)
  PROVE  Len(q) \in Nat /\ (q = <<>> <=> Len(q) = 0)
BY EmptySeq

LEMMA AppendWaiting ==
  ASSUME NEW S, NEW g \in Seq(S), NEW w \in Seq(S), NEW r \in S
  PROVE  /\ g \o Append(w, r) = Append(g \o w, r)
         /\ Append(w, r) \in Seq(S) /\ Append(w, r) # <<>> /\ Len(Append(w, r)) = Len(w) + 1
<1>1. g \o Append(w, r) = Append(g \o w, r) /\ Len(w) \in Nat
  OBVIOUS
<1>2. Append(w, r) \in Seq(S) /\ Len(Append(w, r)) = Len(w) + 1
  OBVIOUS
<1> DEFINE a == Append(w, r)
<1> HIDE DEF a
<1>3. a # <<>>
  BY <1>1, <1>2, EmptyLen DEF a
<1>4. QED
  BY <1>1, <1>2, <1>3 DEF a

\* A sequence of one element.
LEMMA OneElement ==
  ASSUME NEW S, NEW r \in S
  PROVE  /\ <<r>> \in Seq(S) /\ Len(<<r>>) = 1 /\ <<r>> # <<>>
         /\ SubSeq(<<r>>, 1, 1) = <<r>> /\ SubSeq(<<r>>, 1, 0) = <<>>
         /\ Append(<<>>, r) = <<r>>
<1> DEFINE q == <<r>>
<1>1. q \in Seq(S) /\ Len(q) = 1 /\ q[1] = r
  OBVIOUS
<1>2. Append(<<>>, r) = q
  OBVIOUS
<1> HIDE DEF q
<1>3. q # <<>>
  <2>1. q \in Seq(S) /\ Len(q) # 0
    BY <1>1
  <2>2. QED
    BY <2>1, EmptyLen
<1> DEFINE x == SubSeq(q, 1, 1)
           y == SubSeq(q, 1, 0)
<1>4. x \in Seq(S) /\ Len(x) = 1 /\ x[1] = r /\ y \in Seq(S) /\ Len(y) = 0
  BY <1>1, Prefix
<1> HIDE DEF x, y
<1>5. x = q
  BY <1>1, <1>4, SeqEqual
<1>6. y = <<>>
  BY <1>4, EmptyLen
<1>7. QED
  BY <1>1, <1>2, <1>3, <1>5, <1>6 DEF q, x, y

\* handle_output with something to send.
LEMMA OutputWork ==
  ASSUME NEW s, NEW i, NEW b, Work(s, i, b), s.o.w # <<>>
  PROVE  LET t == OutputNotify(s)
         IN  \/ /\ Work(t, i, b) /\ All(t) = All(s) /\ Len(t.o.w) <= Len(s.o.w)
                /\ Input(s, t) /\ t.stage \in {"sent", "sending"}
             \/ /\ Removed(t, i, b) /\ t.k.got = s.k.got /\ t.o.last = s.o.last
                /\ t.k.peer # "open" /\ t.stage = "fatal" /\ t.dead = FALSE
<1> DEFINE w == s.o.w
           n == IF s.room < Len(w) THEN s.room ELSE Len(w)
           d == Deliver(s, n, w)
           v == SubSeq(w, n + 1, Len(w))
           x == [d EXCEPT !.o.w = v]
           t == OutputNotify(s)
<1>1. Held(s, i, b) /\ s.o.new = s.o.old /\ s.o.old = {"in", "out"}
  BY WantedTypes DEF Work
<1>2. /\ s \in Calls /\ w \in Seq(Replies) /\ s.room \in Nat /\ Len(w) \in Nat
      /\ s.fuse \in Int /\ s.k.got \in Seq(Replies)
  BY <1>1, CallTypes, ObjectTypes, SocketTypes DEF Held
<1>3. n \in 0..Len(w) /\ n <= s.room
  BY <1>2
<1>4. v \in Seq(Replies) /\ Len(v) = Len(w) - n /\ n \in Nat
  BY <1>2, <1>3, Suffix
<1>5. n = Len(w) <=> v = <<>>
  <2> HIDE DEF v, n
  <2>1. v = <<>> <=> Len(v) = 0
    BY <1>4, EmptyLen
  <2>2. QED
    BY <1>2, <1>4, <2>1
<1>6. s.k.got \o SubSeq(w, 1, n) \o v = s.k.got \o w
  BY <1>2, <1>3, SplitWaiting
<1> HIDE DEF w, n
<1>7. /\ Held(d, i, b) /\ d.o = s.o /\ d.k.in = s.k.in /\ d.stage = s.stage
      /\ d.k.got = s.k.got \o SubSeq(w, 1, n)
  <2> DEFINE y == Deliver(s, n, w)
  <2>1. Held(s, i, b) /\ w \in Seq(Replies) /\ n \in 0..Len(w) /\ n <= s.room
    BY <1>1, <1>2, <1>3
  <2>2. /\ Held(y, i, b) /\ y.o = s.o /\ y.k.in = s.k.in /\ y.stage = s.stage
        /\ y.k.got = s.k.got \o SubSeq(w, 1, n)
    BY <2>1, DeliverHeld
  <2>3. d = y
    OBVIOUS
  <2> HIDE DEF d, y
  <2>4. QED
    BY <2>2, <2>3
<1> HIDE DEF d, v
<1>8. /\ Held(x, i, b) /\ Input(d, x) /\ x.o.w = v /\ x.k = d.k
      /\ x.o.old = d.o.old /\ x.o.new = d.o.new
  BY <1>4, <1>7, WaitingHeld
<1>9. x = [Deliver(s, n, s.o.w) EXCEPT !.o.w = SubSeq(s.o.w, n + 1, Len(s.o.w))]
  BY DEF d, v, w
<1> HIDE DEF x
<1>10. CASE s.fuse = 0
  <2> DEFINE y == ApplyEvents([s EXCEPT !.o.new = {}])
             z == [y EXCEPT !.stage = "fatal"]
  <2>1. handle_output(s) = z
    BY <1>10 DEF handle_output
  <2>2. Held(y, i, b) /\ Rest(s, y)
    BY <1>1, ApplyHeld DEF Interests
  <2> HIDE DEF y
  <2>3. Held(z, i, b) /\ z.o = y.o /\ z.k = y.k /\ z.stage = "fatal"
    BY <2>2, StageHeld DEF Stages
  <2> HIDE DEF z
  <2>4. t = Close(z)
    BY <2>1, <2>3 DEF OutputNotify, CloseIf
  <2>5. /\ Removed(t, i, b) /\ t.k.got = z.k.got /\ t.o.last = z.o.last /\ t.dead = FALSE
        /\ t.stage = "fatal"
    BY <2>3, <2>4, CloseHeld
  <2>6. t.k.peer # "open"
    BY <1>1, <1>10, <2>5 DEF Held, Removed
  <2>7. QED
    BY <2>2, <2>3, <2>5, <2>6 DEF Rest
<1>11. CASE s.fuse # 0 /\ n = Len(w)
  <2> DEFINE y == DisableOutput(x)
             z == [y EXCEPT !.stage = "sent"]
  <2>1. handle_output(s) = z
    BY <1>9, <1>11 DEF handle_output, n, w
  <2>2. Held(y, i, b) /\ Rest(x, y) /\ y.o.old = {"in"} /\ y.o.new = {"in"}
    <3>1. x.o.new \ {"out"} = {"in"}
      BY <1>1, <1>7, <1>8
    <3>2. y = ApplyEvents([x EXCEPT !.o.new = {"in"}])
      BY <3>1 DEF DisableOutput
    <3>3. {"in"} \in Interests
      BY DEF Interests
    <3> HIDE DEF y
    <3>4. QED
      BY <1>8, <3>2, <3>3, ApplyHeld
  <2> HIDE DEF y
  <2>3. Held(z, i, b) /\ z.o = y.o /\ z.k = y.k /\ z.stage = "sent"
    BY <2>2, StageHeld DEF Stages
  <2> HIDE DEF z
  <2>4. t = z
    BY <2>1, <2>3 DEF OutputNotify, CloseIf
  <2> HIDE DEF t
  <2>5. t.o.w = v /\ v = <<>>
    BY <1>5, <1>8, <1>11, <2>2, <2>3, <2>4 DEF Rest
  <2>6. Work(t, i, b)
    BY <2>2, <2>3, <2>4, <2>5, WantedTypes DEF Work
  <2>7. t.k.got = s.k.got \o SubSeq(w, 1, n) /\ Input(s, t)
    BY <1>7, <1>8, <2>2, <2>3, <2>4 DEF Rest, Input
  <2>8. All(t) = All(s)
    BY <1>6, <2>5, <2>7 DEF All, w
  <2>9. Len(t.o.w) <= Len(s.o.w)
    BY <1>2, <1>4, <2>5 DEF w
  <2>10. QED
    BY <2>3, <2>4, <2>6, <2>7, <2>8, <2>9 DEF t
<1>12. CASE s.fuse # 0 /\ n # Len(w)
  <2> DEFINE y == EnableOutput(x)
             z == [y EXCEPT !.stage = "sending"]
  <2>1. handle_output(s) = z
    BY <1>9, <1>12 DEF handle_output, n, w
  <2>2. Held(y, i, b) /\ Rest(x, y) /\ y.o.old = {"in", "out"} /\ y.o.new = {"in", "out"}
    <3>1. x.o.new \cup {"out"} = {"in", "out"}
      BY <1>1, <1>7, <1>8
    <3>2. y = ApplyEvents([x EXCEPT !.o.new = {"in", "out"}])
      BY <3>1 DEF EnableOutput
    <3>3. {"in", "out"} \in Interests
      BY DEF Interests
    <3> HIDE DEF y
    <3>4. QED
      BY <1>8, <3>2, <3>3, ApplyHeld
  <2> HIDE DEF y
  <2>3. Held(z, i, b) /\ z.o = y.o /\ z.k = y.k /\ z.stage = "sending"
    BY <2>2, StageHeld DEF Stages
  <2> HIDE DEF z
  <2>4. t = z
    BY <2>1, <2>3 DEF OutputNotify, CloseIf
  <2> HIDE DEF t
  <2>5. t.o.w = v /\ v # <<>>
    BY <1>5, <1>8, <1>12, <2>2, <2>3, <2>4 DEF Rest
  <2>6. Work(t, i, b)
    BY <2>2, <2>3, <2>4, <2>5, WantedTypes DEF Work
  <2>7. t.k.got = s.k.got \o SubSeq(w, 1, n) /\ Input(s, t)
    BY <1>7, <1>8, <2>2, <2>3, <2>4 DEF Rest, Input
  <2>8. All(t) = All(s)
    BY <1>6, <2>5, <2>7 DEF All, w
  <2>9. Len(t.o.w) <= Len(s.o.w)
    BY <1>2, <1>4, <2>5 DEF w
  <2>10. QED
    BY <2>3, <2>4, <2>6, <2>7, <2>8, <2>9 DEF t
<1>13. QED
  BY <1>10, <1>11, <1>12


\* handle_output with nothing to send takes that for an error.
LEMMA OutputEmpty ==
  ASSUME NEW s, NEW i, NEW b, Work(s, i, b), s.o.w = <<>>
  PROVE  LET t == OutputNotify(s)
         IN  /\ Removed(t, i, b) /\ t.k.got = s.k.got /\ t.o.last = s.o.last /\ t.dead = FALSE
             /\ t.stage = "fatal"
<1> DEFINE y == DisableOutput(s)
           z == [y EXCEPT !.stage = "fatal"]
           t == OutputNotify(s)
<1>1. Held(s, i, b) /\ s.o.new = {"in"}
  BY WantedTypes DEF Work
<1>2. handle_output(s) = z
  BY DEF handle_output
<1>3. Held(y, i, b) /\ Rest(s, y)
  <2>1. y = ApplyEvents([s EXCEPT !.o.new = s.o.new \ {"out"}]) /\ s.o.new \ {"out"} \in Interests
    BY <1>1 DEF DisableOutput, Interests
  <2> HIDE DEF y
  <2>2. QED
    BY <1>1, <2>1, ApplyHeld
<1> HIDE DEF y
<1>4. Held(z, i, b) /\ z.o = y.o /\ z.k = y.k /\ z.stage = "fatal"
  BY <1>3, StageHeld DEF Stages
<1> HIDE DEF z
<1>5. t = Close(z)
  BY <1>2, <1>4 DEF OutputNotify, CloseIf
<1>6. /\ Removed(t, i, b) /\ t.k.got = z.k.got /\ t.o.last = z.o.last /\ t.dead = FALSE
      /\ t.stage = "fatal"
  BY <1>4, <1>5, CloseHeld
<1>7. QED
  BY <1>3, <1>4, <1>6 DEF Rest

\* What Send may have done: the reply is the last that left or waits, or the
\* handler is gone, which needs a peer that is gone.
Sent(s, t, r, i, b) ==
  \/ /\ Work(t, i, b) /\ Work(s, i, b) /\ All(t) = Append(All(s), r)
     /\ Len(t.o.w) <= Len(s.o.w) + 1 /\ Input(s, t)
  \/ /\ Removed(t, i, b) /\ t.k.peer # "open" /\ t.k.got = s.k.got /\ t.o.last = s.o.last

LEMMA SendWork ==
  ASSUME NEW s, NEW i, NEW b, Work(s, i, b), NEW r \in Replies
  PROVE  Sent(s, Send(s, r), r, i, b)
<1> DEFINE t == Send(s, r)
           w == s.o.w
           g == s.k.got
<1>1. Held(s, i, b) /\ s.o.state # "deleted"
  BY DEF Work, Held
<1>2. /\ s \in Calls /\ w \in Seq(Replies) /\ s.room \in Nat /\ Len(w) \in Nat
      /\ s.fuse \in Int /\ g \in Seq(Replies)
  BY <1>1, CallTypes, ObjectTypes, SocketTypes DEF Held
<1>3. CASE w # <<>>
  <2> DEFINE x == [s EXCEPT !.o.w = Append(w, r)]
  <2>1. t = OutputNotify(x)
    BY <1>1, <1>3 DEF Send
  <2>2. /\ g \o Append(w, r) = Append(g \o w, r)
        /\ Append(w, r) \in Seq(Replies) /\ Append(w, r) # <<>> /\ Len(Append(w, r)) = Len(w) + 1
    <3>1. w \in Seq(Replies) /\ g \in Seq(Replies)
      BY <1>2
    <3> HIDE DEF w, g, x, t
    <3>2. QED
      BY <3>1, AppendWaiting
  <2>3. /\ Held(x, i, b) /\ Input(s, x) /\ x.o.w = Append(w, r) /\ x.k = s.k
        /\ x.o.old = s.o.old /\ x.o.new = s.o.new
    BY <1>1, <2>2, WaitingHeld
  <2> HIDE DEF x
  <2>4. Work(x, i, b) /\ x.o.w # <<>>
    BY <1>3, <2>2, <2>3, WantedTypes DEF Work
  <2>5. \/ /\ Work(t, i, b) /\ All(t) = All(x) /\ Len(t.o.w) <= Len(x.o.w)
           /\ Input(x, t)
        \/ /\ Removed(t, i, b) /\ t.k.got = x.k.got /\ t.o.last = x.o.last
           /\ t.k.peer # "open"
    BY <2>1, <2>4, OutputWork
  <2>6. All(x) = Append(All(s), r)
    BY <2>2, <2>3 DEF All
  <2> HIDE DEF t
  <2>7. CASE Work(t, i, b) /\ All(t) = All(x) /\ Len(t.o.w) <= Len(x.o.w) /\ Input(x, t)
    <3>1. Len(t.o.w) <= Len(s.o.w) + 1
      BY <2>2, <2>3, <2>7
    <3>2. Input(s, t)
      BY <2>3, <2>7 DEF Input
    <3>3. QED
      BY <2>6, <2>7, <3>1, <3>2 DEF Sent, t
  <2>8. CASE Removed(t, i, b) /\ t.k.got = x.k.got /\ t.o.last = x.o.last /\ t.k.peer # "open"
    BY <2>3, <2>8 DEF Sent, t, Input
  <2>9. QED
    BY <2>5, <2>7, <2>8
<1>4. CASE w = <<>> /\ s.fuse = 0
  <2>1. t = Close(s)
    BY <1>1, <1>4 DEF Send
  <2> HIDE DEF t
  <2>2. Removed(t, i, b) /\ t.k.got = s.k.got /\ t.o.last = s.o.last
    BY <1>1, <2>1, CloseHeld
  <2>3. t.k.peer # "open"
    BY <1>1, <1>4, <2>2 DEF Held, Removed
  <2>4. QED
    BY <2>2, <2>3 DEF Sent, t
<1> DEFINE q == <<r>>
<1>5. /\ q \in Seq(Replies) /\ Len(q) = 1 /\ q # <<>> /\ Append(<<>>, r) = q
      /\ SubSeq(q, 1, 1) = q /\ SubSeq(q, 1, 0) = <<>>
  BY OneElement
<1>6. Append(g \o <<>>, r) = (g \o q) \o <<>> /\ g \o <<>> = g
  <2> HIDE DEF g
  <2>1. g \o <<>> = g /\ g \o q \in Seq(Replies) /\ Append(g, r) = g \o q
    <3>1. g \in Seq(Replies) /\ q \in Seq(Replies) /\ r \in Replies
      BY <1>2, <1>5
    <3>2. Append(g, r) = g \o q
      BY <3>1, AppendIsConcat
    <3> HIDE DEF q
    <3>3. g \o q \in Seq(Replies)
      BY <3>1, Concat
    <3>4. g \o <<>> = g
      BY <3>1, ConcatEmptySeq
    <3>5. QED
      BY <3>2, <3>3, <3>4
  <2>2. (g \o q) \o <<>> = g \o q
    BY <2>1, ConcatEmptySeq
  <2>3. QED
    BY <2>1, <2>2
<1>7. CASE w = <<>> /\ s.fuse # 0 /\ s.room > 0
  <2>1. t = Deliver(s, 1, q)
    BY <1>1, <1>7 DEF Send
  <2> HIDE DEF t, q
  <2>2. Held(t, i, b) /\ t.o = s.o /\ t.k.in = s.k.in /\ t.k.got = g \o q
    <3>1. 1 \in 0..Len(q) /\ 1 <= s.room
      BY <1>2, <1>5, <1>7
    <3>2. /\ Held(t, i, b) /\ t.o = s.o /\ t.k.in = s.k.in
          /\ t.k.got = s.k.got \o SubSeq(q, 1, 1)
      <4> HIDE DEF w, g
      <4> DEFINE y == Deliver(s, 1, q)
      <4>1. Held(s, i, b) /\ q \in Seq(Replies) /\ 1 \in 0..Len(q) /\ 1 <= s.room
        BY <1>1, <1>5, <3>1
      <4>2. /\ Held(y, i, b) /\ y.o = s.o /\ y.k.in = s.k.in
            /\ y.k.got = s.k.got \o SubSeq(q, 1, 1)
        BY <4>1, DeliverHeld
      <4>3. t = y
        BY <2>1
      <4> HIDE DEF y
      <4>4. QED
        BY <4>2, <4>3
    <3>3. QED
      BY <1>5, <3>2
  <2>3. Work(t, i, b) /\ Input(s, t)
    BY <2>2 DEF Work, Input
  <2>4. All(t) = Append(All(s), r)
    BY <1>6, <1>7, <2>2 DEF All
  <2>5. Len(t.o.w) <= Len(s.o.w) + 1
    BY <1>2, <2>2
  <2>6. QED
    BY <2>3, <2>4, <2>5 DEF Sent, t
<1>8. CASE w = <<>> /\ s.fuse # 0 /\ ~(s.room > 0)
  <2> DEFINE d == Deliver(s, 0, q)
             x == [d EXCEPT !.o.w = q]
             y == EnableOutput(x)
  <2>1. Held(d, i, b) /\ d.o = s.o /\ d.k.in = s.k.in /\ d.k.got = g \o SubSeq(q, 1, 0)
    <3>1. 0 \in 0..Len(q) /\ 0 <= s.room
      BY <1>2, <1>5
    <3> HIDE DEF q
    <3>2. QED
      BY <1>1, <1>5, <3>1, DeliverHeld
  <2>2. d.k.got = g
    BY <1>5, <1>6, <2>1
  <2>3. t = y
    <3>1. Append(d.o.w, r) = q
      BY <1>5, <1>8, <2>1
    <3>2. t = EnableOutput([d EXCEPT !.o.w = Append(d.o.w, r)])
      BY <1>1, <1>8 DEF Send
    <3> HIDE DEF d
    <3>3. QED
      BY <3>1, <3>2
  <2> HIDE DEF t, q, d
  <2>4. /\ Held(x, i, b) /\ Input(d, x) /\ x.o.w = q /\ x.k = d.k
        /\ x.o.old = d.o.old /\ x.o.new = d.o.new
    BY <1>5, <2>1, WaitingHeld
  <2> HIDE DEF x
  <2>5. x.o.new \cup {"out"} = {"in", "out"}
    BY <1>8, <2>1, <2>4, WantedTypes DEF Work
  <2>6. Held(y, i, b) /\ Rest(x, y) /\ y.o.old = {"in", "out"} /\ y.o.new = {"in", "out"}
    <3>1. y = ApplyEvents([x EXCEPT !.o.new = {"in", "out"}]) /\ {"in", "out"} \in Interests
      BY <2>5 DEF EnableOutput, Interests
    <3> HIDE DEF y
    <3>2. QED
      BY <2>4, <3>1, ApplyHeld
  <2> HIDE DEF y
  <2>7. Work(t, i, b) /\ t.o.w = q /\ Input(s, t) /\ t.k.got = g
    <3>1. t.o.w = q /\ q # <<>>
      BY <1>5, <2>3, <2>4, <2>6 DEF Rest
    <3>2. Work(t, i, b)
      BY <2>3, <2>6, <3>1, WantedTypes DEF Work
    <3>3. QED
      BY <2>1, <2>2, <2>3, <2>4, <2>6, <3>1, <3>2 DEF Rest, Input
  <2>8. All(t) = Append(All(s), r)
    <3>1. g \o q = Append(g, r)
      BY <1>2 DEF q
    <3>2. QED
      BY <1>6, <1>8, <2>7, <3>1 DEF All
  <2>9. Len(t.o.w) <= Len(s.o.w) + 1
    <3>1. Len(t.o.w) = 1 /\ Len(w) \in Nat
      BY <1>2, <1>5, <2>7
    <3>2. Len(t.o.w) <= Len(w) + 1
      <4> HIDE DEF w
      <4>1. QED
        BY <3>1
    <3>3. QED
      BY <3>2
  <2>10. QED
    BY <2>7, <2>8, <2>9 DEF Sent, t
<1>9. QED
  BY <1>3, <1>4, <1>7, <1>8

LEMMA SendRemoved ==
  ASSUME NEW s, NEW i, NEW b, Removed(s, i, b), s.k.peer # "open", NEW r
  PROVE  Sent(s, Send(s, r), r, i, b)
<1> DEFINE t == Send(s, r)
<1>1. t = Close(s)
  BY DEF Send, Removed
<1>2. Removed(t, i, b) /\ t.k.got = s.k.got /\ t.o.last = s.o.last
  BY <1>1, CloseRemoved
<1> HIDE DEF t
<1>3. t.k.peer # "open"
  BY <1>2 DEF Removed
<1>4. QED
  BY <1>2, <1>3 DEF Sent, t

-----------------------------------------------------------------------------
(***************************************************************************)
(* The order of the replies                                                *)
(***************************************************************************)

\* Replies to connection c in the order of its requests.
Follows(x, y) == y.n > x.n \/ (y.n = x.n /\ y.part = x.part + 1)
Ordered(q, c) ==
  /\ q \in Seq(Replies)
  /\ \A i \in 1..Len(q) : q[i].conn = c /\ (i > 1 => Follows(q[i - 1], q[i]))

\* The last of them answers a packet before the n-th, or is part p of its answer.
EndsBefore(q, n, p) ==
  q # <<>> => LET l == q[Len(q)] IN l.n < n \/ (l.n = n /\ l.part = p)

LEMMA OrderedAppend ==
  ASSUME NEW c, NEW q, Ordered(q, c), NEW n \in Nat, NEW p \in Nat, EndsBefore(q, n, p),
         NEW r \in Replies, r.n = n, r.conn = c, r.part = p + 1
  PROVE  Ordered(Append(q, r), c) /\ EndsBefore(Append(q, r), n, p + 1)
<1> DEFINE a == Append(q, r)
           m == Len(q)
<1>1. q \in Seq(Replies) /\ m \in Nat
  BY DEF Ordered
<1>2. a \in Seq(Replies) /\ Len(a) = m + 1 /\ a[m + 1] = r /\ \A i \in 1..m : a[i] = q[i]
  BY <1>1
<1>3. m > 0 => Follows(q[m], r)
  <2>1. ASSUME m > 0 PROVE Follows(q[m], r)
    <3>1. q # <<>>
      BY <1>1, <2>1, EmptyLen
    <3> HIDE DEF m
    <3>2. q[m].n < n \/ (q[m].n = n /\ q[m].part = p)
      BY <3>1 DEF EndsBefore, m
    <3>3. q[m] \in Replies
      BY <1>1, <2>1 DEF m
    <3>4. QED
      BY <3>2, <3>3 DEF Follows, Replies
  <2>2. QED
    BY <2>1
<1> HIDE DEF a, m
<1>4. ASSUME NEW i \in 1..Len(a)
      PROVE  a[i].conn = c /\ (i > 1 => Follows(a[i - 1], a[i]))
  <2>1. CASE i = m + 1
    <3>1. i - 1 = m /\ a[i] = r
      BY <1>1, <1>2, <2>1
    <3>2. i > 1 => m > 0 /\ m \in 1..m
      BY <1>1, <2>1
    <3>3. QED
      BY <1>2, <1>3, <3>1, <3>2
  <2>2. CASE i # m + 1
    <3>1. i \in 1..m /\ (i > 1 => i - 1 \in 1..m)
      BY <1>1, <1>2, <2>2
    <3>2. q[i].conn = c /\ (i > 1 => Follows(q[i - 1], q[i]))
      BY <3>1 DEF Ordered, m
    <3> DEFINE j == i - 1
    <3>3. i > 1 => j \in 1..m
      BY <3>1
    <3> HIDE DEF j
    <3>4. i > 1 => a[j] = q[j]
      BY <1>2, <3>3
    <3>5. QED
      BY <1>2, <3>1, <3>2, <3>4 DEF j
  <2>3. QED
    BY <2>1, <2>2
<1>5. Ordered(a, c)
  BY <1>2, <1>4 DEF Ordered
<1>6. EndsBefore(a, n, p + 1)
  BY <1>2 DEF EndsBefore
<1>7. QED
  BY <1>5, <1>6 DEF a

\* What left is in order if all is.
LEMMA OrderedPrefix ==
  ASSUME NEW c, NEW g \in Seq(Replies), NEW w \in Seq(Replies), Ordered(g \o w, c)
  PROVE  Ordered(g, c)
<1> DEFINE a == g \o w
<1>1. /\ Len(g) \in Nat /\ Len(w) \in Nat /\ Len(a) = Len(g) + Len(w)
      /\ \A i \in 1..Len(g) : a[i] = g[i]
  BY Concat
<1>2. Ordered(a, c)
  OBVIOUS
<1> HIDE DEF a
<1>3. ASSUME NEW i \in 1..Len(g)
      PROVE  g[i].conn = c /\ (i > 1 => Follows(g[i - 1], g[i]))
  <2> DEFINE j == i - 1
  <2>1. i \in 1..Len(a) /\ (i > 1 => j \in 1..Len(g))
    BY <1>1
  <2>2. a[i].conn = c /\ (i > 1 => Follows(a[j], a[i]))
    BY <1>2, <2>1 DEF Ordered
  <2> HIDE DEF j
  <2>3. a[i] = g[i] /\ (i > 1 => a[j] = g[j])
    BY <1>1, <2>1
  <2>4. QED
    BY <2>2, <2>3 DEF j
<1>4. QED
  BY <1>3 DEF Ordered

\* A later packet comes after the whole answer to an earlier one.
LEMMA EndsLater ==
  ASSUME NEW c, NEW q, Ordered(q, c), NEW n \in Nat, NEW p, EndsBefore(q, n, p),
         NEW m \in Nat, n < m
  PROVE  EndsBefore(q, m, 0)
<1>1. SUFFICES ASSUME q # <<>> PROVE q[Len(q)].n < m
  BY DEF EndsBefore
<1>2. q \in Seq(Replies) /\ Len(q) \in Nat /\ Len(q) # 0
  BY <1>1, EmptyLen DEF Ordered
<1> DEFINE l == q[Len(q)]
<1>3. l \in Replies
  BY <1>2
<1>4. l.n < n \/ l.n = n
  BY <1>1 DEF EndsBefore
<1> HIDE DEF l
<1>5. l.n < m
  BY <1>3, <1>4 DEF Replies
<1>6. QED
  BY <1>5 DEF l

\* No packet that is too long was sent.
NoBig(b) == "big" \notin ToSet(b.k.sent)

\* A callback that answers the n-th packet of c: p parts of the answer have left
\* or wait behind the earlier ones, or the handler has gone.
At(s, i, b, c, n, p, m) ==
  \/ /\ Work(s, i, b) /\ s.k.in = b.k.in /\ Len(s.o.w) <= m
     /\ NoBig(b) => Ordered(All(s), c) /\ EndsBefore(All(s), n, p)
  \/ /\ Removed(s, i, b) /\ s.k.peer # "open"
     /\ NoBig(b) => Ordered(All(s), c)

LEMMA AllRemoved ==
  ASSUME NEW s, NEW i, NEW b, Removed(s, i, b)
  PROVE  s.k.got \in Seq(Replies) /\ All(s) = s.k.got
<1>1. s.k.got \in Seq(Replies) /\ s.o.w = <<>>
  BY CallTypes, SocketTypes DEF Removed
<1>2. QED
  BY <1>1, ConcatEmptySeq DEF All

LEMMA WorkTypes ==
  ASSUME NEW s, NEW i, NEW b, Work(s, i, b)
  PROVE  /\ s \in Calls /\ s.k.got \in Seq(Replies) /\ s.o.w \in Seq(Replies)
         /\ Len(s.o.w) \in Nat /\ s.o.last \in Packets \cup {NoPacket}
         /\ s.k.in \in Seq(PieceSet) /\ s.k.sent \in Seq(Kinds) /\ s.o.state = "live"
         /\ s.k.peer = b.k.peer /\ s.k.sent = b.k.sent /\ i \in Slots
BY CallTypes, ObjectTypes, SocketTypes, EmptyLen DEF Work, Held

LEMMA SendAt ==
  ASSUME NEW s, NEW i, NEW b, NEW c, NEW n \in Nat, NEW p \in Nat, NEW m \in Nat,
         At(s, i, b, c, n, p, m), NEW r \in Replies,
         NoBig(b) => r.n = n /\ r.conn = c /\ r.part = p + 1
  PROVE  At(Send(s, r), i, b, c, n, p + 1, m + 1)
<1> DEFINE t == Send(s, r)
<1>1. CASE Work(s, i, b)
  <2>1. /\ s.k.in = b.k.in /\ Len(s.o.w) <= m
        /\ NoBig(b) => Ordered(All(s), c) /\ EndsBefore(All(s), n, p)
    BY <1>1 DEF At, Work, Removed, Held
  <2>2. Sent(s, t, r, i, b)
    BY <1>1, SendWork
  <2> HIDE DEF t
  <2>3. CASE Work(t, i, b) /\ All(t) = Append(All(s), r) /\ Len(t.o.w) <= Len(s.o.w) + 1
             /\ Input(s, t)
    <3>1. NoBig(b) => Ordered(All(t), c) /\ EndsBefore(All(t), n, p + 1)
      BY <2>1, <2>3, OrderedAppend
    <3>2. Len(t.o.w) <= m + 1
      <4>1. Len(s.o.w) \in Nat /\ Len(t.o.w) \in Nat
        BY <1>1, <2>3, WorkTypes
      <4>2. QED
        BY <2>1, <2>3, <4>1
    <3>3. t.k.in = b.k.in
      BY <2>1, <2>3 DEF Input
    <3>4. QED
      BY <2>3, <3>1, <3>2, <3>3 DEF At, t
  <2>4. CASE Removed(t, i, b) /\ t.k.peer # "open" /\ t.k.got = s.k.got
    <3>1. NoBig(b) => Ordered(All(t), c)
      <4>1. NoBig(b) => Ordered(s.k.got, c)
        BY <1>1, <2>1, WorkTypes, OrderedPrefix DEF All
      <4>2. QED
        BY <2>4, <4>1, AllRemoved
    <3>2. QED
      BY <2>4, <3>1 DEF At, t
  <2>5. QED
    BY <2>2, <2>3, <2>4 DEF Sent
<1>2. CASE Removed(s, i, b)
  <2>1. s.k.peer # "open" /\ (NoBig(b) => Ordered(All(s), c))
    BY <1>2 DEF At, Work, Removed, Held
  <2>2. Sent(s, t, r, i, b)
    BY <1>2, <2>1, SendRemoved
  <2> HIDE DEF t
  <2>3. Removed(t, i, b) /\ t.k.peer # "open" /\ t.k.got = s.k.got
    BY <1>2, <2>2 DEF Sent, Work, Removed, Held
  <2>4. All(t) = All(s)
    BY <1>2, <2>3, AllRemoved
  <2>5. QED
    BY <2>1, <2>3, <2>4 DEF At, t
<1>3. QED
  BY <1>1, <1>2 DEF At

-----------------------------------------------------------------------------
(***************************************************************************)
(* Receiving                                                               *)
(***************************************************************************)

\* Other contents of _r or of pPacket.
Changed(s, t, o, g) == t = [s EXCEPT !.o = o, !.stage = g]

LEMMA ObjectHeld ==
  ASSUME NEW s, NEW i, NEW b, Held(s, i, b), NEW o \in Objects, NEW g \in Stages,
         o.state = s.o.state, o.slot = s.o.slot, o.old = s.o.old,
         NEW t, Changed(s, t, o, g)
  PROVE  Held(t, i, b) /\ t.o = o /\ t.k = s.k /\ t.stage = g
<1>1. s \in Calls
  BY DEF Held
<1>2. /\ t \in Calls /\ t.o = o /\ t.k = s.k /\ t.u = s.u /\ t.stage = g
      /\ t.fuse = s.fuse /\ t.dead = s.dead
  BY <1>1 DEF Calls, Changed
<1>3. QED
  BY <1>2 DEF Held

LEMMA ObjectRemoved ==
  ASSUME NEW s, NEW i, NEW b, Removed(s, i, b), NEW o \in Objects, NEW g \in Stages,
         o.state = s.o.state, o.slot = s.o.slot, o.w = s.o.w,
         NEW t, Changed(s, t, o, g)
  PROVE  Removed(t, i, b) /\ t.o = o /\ t.k = s.k /\ t.stage = g
<1>1. s \in Calls
  BY DEF Removed
<1>2. /\ t \in Calls /\ t.o = o /\ t.k = s.k /\ t.u = s.u /\ t.stage = g
      /\ t.fuse = s.fuse /\ t.dead = s.dead
  BY <1>1 DEF Calls, Changed
<1>3. QED
  BY <1>2 DEF Removed

LEMMA ObjectAt ==
  ASSUME NEW s, NEW i, NEW b, NEW c, NEW n, NEW p, NEW m, At(s, i, b, c, n, p, m),
         NEW o \in Objects, NEW g \in Stages,
         o.state = s.o.state, o.slot = s.o.slot, o.old = s.o.old, o.new = s.o.new, o.w = s.o.w,
         NEW t, Changed(s, t, o, g)
  PROVE  At(t, i, b, c, n, p, m) /\ t.o = o /\ t.stage = g
<1>1. CASE Work(s, i, b)
  <2>1. Held(t, i, b) /\ t.o = o /\ t.k = s.k /\ t.stage = g
    <3>1. Held(s, i, b)
      BY <1>1 DEF Work
    <3>2. QED
      BY <3>1, ObjectHeld
  <2>2. Work(t, i, b) /\ All(t) = All(s)
    BY <1>1, <2>1 DEF Work, All
  <2>3. QED
    BY <1>1, <2>1, <2>2 DEF At, Work, Held, Removed
<1>2. CASE Removed(s, i, b)
  <2>1. Removed(t, i, b) /\ t.o = o /\ t.k = s.k /\ t.stage = g
    BY <1>2, ObjectRemoved
  <2>2. All(t) = All(s)
    BY <2>1 DEF All
  <2>3. QED
    BY <1>2, <2>1, <2>2 DEF At, Work, Held, Removed
<1>3. QED
  BY <1>1, <1>2 DEF At

LEMMA AtTypes ==
  ASSUME NEW s, NEW i, NEW b, NEW c, NEW n, NEW p, NEW m, At(s, i, b, c, n, p, m)
  PROVE  /\ s \in Calls /\ s.o \in Objects /\ s.o.last \in Packets \cup {NoPacket}
         /\ s.k.sent = b.k.sent /\ s.k.sent \in Seq(Kinds) /\ s.stage \in Stages
         /\ s.o.state = "live" <=> Work(s, i, b)
         /\ s.o.state = "deleted" <=> Removed(s, i, b)
<1>1. s \in Calls /\ s.k.sent = b.k.sent
  BY DEF At, Work, Held, Removed
<1>2. QED
  BY <1>1, CallTypes, ObjectTypes, SocketTypes DEF At, Work, Held, Removed

\* What holds of packet n holds of later ones and of longer buffers.
LEMMA AtLater ==
  ASSUME NEW s, NEW i, NEW b, NEW c, NEW n \in Nat, NEW p, NEW m \in Nat,
         At(s, i, b, c, n, p, m), NEW h \in Nat, NEW l \in Nat,
         n < h \/ (n = h /\ p = 0), m <= l
  PROVE  At(s, i, b, c, h, 0, l)
<1>1. CASE Work(s, i, b)
  <2>1. /\ s.k.in = b.k.in /\ Len(s.o.w) <= m
        /\ NoBig(b) => Ordered(All(s), c) /\ EndsBefore(All(s), n, p)
    BY <1>1 DEF At, Work, Removed, Held
  <2>2. Len(s.o.w) <= l
    <3>1. Len(s.o.w) \in Nat
      BY <1>1, WorkTypes
    <3>2. QED
      BY <2>1, <3>1
  <2>3. NoBig(b) => EndsBefore(All(s), h, 0)
    BY <2>1, EndsLater
  <2>4. QED
    BY <1>1, <2>1, <2>2, <2>3 DEF At
<1>2. CASE Removed(s, i, b)
  BY <1>2 DEF At, Work, Removed, Held
<1>3. QED
  BY <1>1, <1>2 DEF At

LEMMA ProcessPacketAt ==
  ASSUME NEW s, NEW i, NEW b, NEW c, NEW n \in Nat, NEW m \in Nat, At(s, i, b, c, n, 0, m),
         NoBig(b) => (s.o.last # NoPacket => s.o.last.n = n /\ s.o.last.conn = c), NEW again
  PROVE  \E p \in 0..3 : At(ProcessPacket(s, again), i, b, c, n, p, m + 3)
<1> DEFINE t == ProcessPacket(s, again)
           l == s.o.last
           Reply(j) == [n |-> l.n, conn |-> l.conn, part |-> j]
           s1 == Send(s, Reply(1))
           s2 == Send(s1, Reply(2))
           s3 == Send(s2, Reply(3))
<1>1. m + 3 \in Nat /\ m <= m + 3 /\ m + 1 \in Nat /\ m + 2 \in Nat /\ m + 1 <= m + 3
  OBVIOUS
<1>2. CASE t = s
  <2>1. At(s, i, b, c, n, 0, m + 3)
    BY <1>1, AtLater
  <2>2. QED
    BY <1>2, <2>1
<1>3. CASE l # NoPacket /\ t # s
  <2>1. l \in Packets
    BY <1>3, AtTypes
  <2>2. ASSUME NEW j \in 1..3
        PROVE  Reply(j) \in Replies /\ Reply(j).part = j /\ Reply(j).n = l.n /\ Reply(j).conn = l.conn
    BY <2>1 DEF Packets, Replies
  <2>3. NoBig(b) => l.n = n /\ l.conn = c
    BY <1>3
  <2> HIDE DEF l, Reply
  <2>4. At(s1, i, b, c, n, 1, m + 1)
    <3>1. /\ Reply(1) \in Replies /\ Reply(1).part = 0 + 1
          /\ Reply(1).n = l.n /\ Reply(1).conn = l.conn
      BY <2>2
    <3>2. At(s1, i, b, c, n, 0 + 1, m + 1)
      BY <2>3, <3>1, SendAt
    <3>3. QED
      BY <3>2
  <2> HIDE DEF s1
  <2>5. At(s2, i, b, c, n, 2, m + 2)
    <3>1. /\ Reply(2) \in Replies /\ Reply(2).part = 1 + 1
          /\ Reply(2).n = l.n /\ Reply(2).conn = l.conn
      BY <2>2
    <3>2. At(s2, i, b, c, n, 1 + 1, (m + 1) + 1)
      BY <1>1, <2>3, <2>4, <3>1, SendAt
    <3>3. QED
      BY <3>2
  <2> HIDE DEF s2
  <2>6. At(s3, i, b, c, n, 3, m + 3)
    <3>1. /\ Reply(3) \in Replies /\ Reply(3).part = 2 + 1
          /\ Reply(3).n = l.n /\ Reply(3).conn = l.conn
      BY <2>2
    <3>2. At(s3, i, b, c, n, 2 + 1, (m + 2) + 1)
      BY <1>1, <2>3, <2>5, <3>1, SendAt
    <3>3. QED
      BY <3>2
  <2> HIDE DEF s3
  <2>7. CASE l.kind = "ask"
    <3>1. t = s1
      BY <1>3, <2>7 DEF ProcessPacket, l, s1, Reply
    <3>2. At(s1, i, b, c, n, 1, m + 3)
      <4>1. CASE Work(s1, i, b)
        <5>1. Len(s1.o.w) \in Nat
          BY <4>1, WorkTypes
        <5>2. Len(s1.o.w) <= m + 1 => Len(s1.o.w) <= m + 3
          BY <5>1
        <5>3. QED
          BY <2>4, <5>2 DEF At
      <4>2. CASE ~Work(s1, i, b)
        BY <2>4, <4>2 DEF At
      <4>3. QED
        BY <4>1, <4>2
    <3> HIDE DEF t
    <3>3. QED
      BY <3>1, <3>2 DEF t
  <2>8. CASE l.kind # "ask"
    <3>1. t = s3
      BY <1>3, <2>8 DEF ProcessPacket, l, s1, s2, s3, Reply
    <3> HIDE DEF t
    <3>2. QED
      BY <2>6, <3>1 DEF t
  <2>9. QED
    BY <2>7, <2>8
<1>4. QED
  BY <1>2, <1>3 DEF ProcessPacket


LEMMA ChangedObject ==
  ASSUME NEW s \in Calls, NEW o
  PROVE  Changed(s, [s EXCEPT !.o = o], o, s.stage)
BY DEF Changed, Calls

LEMMA ChangedStage ==
  ASSUME NEW s \in Calls, NEW g
  PROVE  Changed(s, [s EXCEPT !.stage = g], s.o, g)
BY DEF Changed, Calls

\* A piece that the peer of c has sent, and the one after which its packet ends.
Piece(x, sent, c) ==
  /\ x \in PieceSet /\ x.conn = c /\ x.n \in 1..Len(sent) /\ x.kind = sent[x.n]
Ends(x) == x.last \/ ~CheckHead(x)

\* The packet of the piece that is expected after x.
NextOf(x) == IF Ends(x) THEN x.n + 1 ELSE x.n

\* The peer has sent something that is no packet.
SentNoPacket(b) == ToSet(b.k.sent) \cap {"bad", "policy"} # {}

\* ParsePacket expects a piece of packet n, or is over because of an error.
Parsing(s, i, b, c, n) ==
  /\ n \in Nat \ {0} /\ At(s, i, b, c, n, 0, 3 * (n - 1))
  /\ Work(s, i, b) => s.stage \in {"idle", "error"}
  /\ s.stage = "error" => SentNoPacket(b)

LEMMA SentKind ==
  ASSUME NEW c, NEW sent \in Seq(Kinds), NEW x, Piece(x, sent, c)
  PROVE  x.kind \in ToSet(sent) /\ x.n \in Nat \ {0}
BY DEF Piece, ToSet

LEMMA ParsingLater ==
  ASSUME NEW s, NEW i, NEW b, NEW c, NEW n, Parsing(s, i, b, c, n),
         NEW h \in Nat, n <= h
  PROVE  Parsing(s, i, b, c, h)
<1> DEFINE m == 3 * (n - 1)
           l == 3 * (h - 1)
<1>1. n \in Nat /\ m \in Nat /\ l \in Nat /\ m <= l /\ h # 0
  BY DEF Parsing
<1> HIDE DEF m, l
<1>2. At(s, i, b, c, n, 0, m)
  BY DEF Parsing, m
<1>3. n < h \/ n = h
  BY <1>1
<1>4. At(s, i, b, c, h, 0, l)
  BY <1>1, <1>2, <1>3, AtLater
<1>5. QED
  BY <1>1, <1>4 DEF Parsing, l

\* A whole packet has arrived.
LEMMA CompleteAt ==
  ASSUME NEW s, NEW i, NEW b, NEW c, NEW m \in Nat, NEW x, NEW n, n = x.n,
         At(s, i, b, c, n, 0, m), Piece(x, b.k.sent, c), NEW packet,
         packet = [n |-> x.n, conn |-> x.conn, kind |-> x.kind]
  PROVE  \E p \in 0..3 : At(OnPacketComplete(s, packet), i, b, c, n, p, m + 3)
<1> DEFINE t == OnPacketComplete(s, packet)
<1>1. /\ s \in Calls /\ s.o \in Objects /\ s.k.sent = b.k.sent /\ s.k.sent \in Seq(Kinds)
      /\ s.stage \in Stages
  BY AtTypes
<1>2. x.kind \in ToSet(b.k.sent) /\ n \in Nat
  BY <1>1, SentKind
<1>3. packet \in Packets /\ packet # NoPacket /\ packet.n = n /\ packet.conn = c
  <2>1. /\ packet \in Packets /\ packet.n = n /\ packet.conn = c
    BY DEF Packets, Piece, PieceSet
  <2>2. n # 0
    BY <1>1, SentKind
  <2>3. NoPacket.n = 0
    BY DEF NoPacket
  <2>4. QED
    BY <2>1, <2>2, <2>3
<1>4. CASE Fits(packet)
  <2> DEFINE o == [s.o EXCEPT !.last = packet]
             y == [s EXCEPT !.o = o]
  <2>1. t = ProcessPacket(y, FALSE)
    BY <1>4 DEF OnPacketComplete
  <2>2. /\ o \in Objects /\ o.state = s.o.state /\ o.slot = s.o.slot /\ o.old = s.o.old
        /\ o.new = s.o.new /\ o.w = s.o.w /\ o.last = packet
    BY <1>1, <1>3 DEF Objects
  <2> HIDE DEF o
  <2>3. Changed(s, y, o, s.stage)
    BY <1>1, ChangedObject
  <2> HIDE DEF y
  <2>4. At(y, i, b, c, n, 0, m) /\ y.o = o
    BY <1>1, <2>2, <2>3, ObjectAt
  <2>5. y.o.last.n = n /\ y.o.last.conn = c
    BY <1>3, <2>2, <2>4
  <2>6. \E p \in 0..3 : At(ProcessPacket(y, FALSE), i, b, c, n, p, m + 3)
    BY <1>2, <2>4, <2>5, ProcessPacketAt
  <2>7. QED
    BY <2>1, <2>6
<1>5. CASE ~Fits(packet)
  <2>1. t = ProcessPacket(s, TRUE)
    BY <1>5 DEF OnPacketComplete
  <2>2. ~NoBig(b)
    BY <1>2, <1>5 DEF Fits, NoBig
  <2>3. \E p \in 0..3 : At(ProcessPacket(s, TRUE), i, b, c, n, p, m + 3)
    BY <1>2, <2>2, ProcessPacketAt
  <2>4. QED
    BY <2>1, <2>3
<1>6. QED
  BY <1>4, <1>5

LEMMA ParsePacketParsing ==
  ASSUME NEW s, NEW i, NEW b, NEW c, NEW x, Parsing(s, i, b, c, x.n),
         Piece(x, b.k.sent, c)
  PROVE  Parsing(ParsePacket(s, x), i, b, c, NextOf(x))
<1> DEFINE t == ParsePacket(s, x)
           n == x.n
           m == 3 * (n - 1)
<1>1. At(s, i, b, c, n, 0, m)
  BY DEF Parsing
<1>2. /\ s \in Calls /\ s.o \in Objects /\ s.k.sent = b.k.sent /\ s.k.sent \in Seq(Kinds)
      /\ s.stage \in Stages
  BY <1>1, AtTypes
<1>3. n \in Nat \ {0} /\ m \in Nat /\ x.kind \in ToSet(b.k.sent)
  <2>1. n \in Nat \ {0} /\ x.kind \in ToSet(b.k.sent)
    BY <1>2, SentKind
  <2>2. QED
    BY <2>1
<1>4. CASE s.stage # "idle" \/ s.o.state = "deleted"
  <2>1. t = s
    BY <1>4 DEF ParsePacket
  <2>2. NextOf(x) \in Nat /\ n <= NextOf(x)
    BY <1>3 DEF NextOf
  <2> HIDE DEF t
  <2>3. Parsing(s, i, b, c, NextOf(x))
    BY <2>2, ParsingLater
  <2>4. QED
    BY <2>1, <2>3 DEF t
<1>5. CASE s.stage = "idle" /\ s.o.state # "deleted" /\ ~CheckHead(x)
  <2>1. t = [s EXCEPT !.stage = "error"]
    BY <1>5 DEF ParsePacket
  <2>2. Changed(s, t, s.o, "error")
    BY <1>2, <2>1, ChangedStage
  <2> HIDE DEF t, n, m
  <2>3. At(t, i, b, c, n, 0, m) /\ t.stage = "error"
    BY <1>1, <1>2, <2>2, ObjectAt DEF Stages
  <2>4. SentNoPacket(b)
    BY <1>3, <1>5 DEF CheckHead, SentNoPacket
  <2>5. Parsing(t, i, b, c, n)
    BY <1>3, <2>3, <2>4 DEF Parsing, m
  <2>6. NextOf(x) \in Nat /\ n <= NextOf(x)
    BY <1>3 DEF NextOf, n
  <2>7. QED
    BY <2>5, <2>6, ParsingLater DEF t
<1>6. CASE s.stage = "idle" /\ s.o.state # "deleted" /\ CheckHead(x) /\ ~x.last
  <2> DEFINE o == [s.o EXCEPT !.r = <<x>>]
  <2>1. t = [s EXCEPT !.o = o]
    BY <1>6 DEF ParsePacket
  <2>2. /\ o \in Objects /\ o.state = s.o.state /\ o.slot = s.o.slot /\ o.old = s.o.old
        /\ o.new = s.o.new /\ o.w = s.o.w
    <3>1. <<x>> \in Seq(PieceSet) /\ Len(<<x>>) = 1
      BY OneElement DEF Piece
    <3>2. <<x>> \in {q \in Seq(PieceSet) : Len(q) <= 1}
      BY <3>1
    <3>3. QED
      BY <1>2, <3>2 DEF Objects
  <2> HIDE DEF o, n, m
  <2>3. Changed(s, t, o, s.stage)
    BY <1>2, <2>1, ChangedObject
  <2> HIDE DEF t
  <2>4. At(t, i, b, c, n, 0, m) /\ t.stage = "idle"
    BY <1>1, <1>2, <1>6, <2>2, <2>3, ObjectAt
  <2>5. NextOf(x) = n
    BY <1>6 DEF NextOf, Ends, n
  <2>6. QED
    BY <1>3, <2>4, <2>5 DEF Parsing, t, m
<1>7. CASE s.stage = "idle" /\ s.o.state # "deleted" /\ CheckHead(x) /\ x.last
  <2> DEFINE packet == [n |-> x.n, conn |-> x.conn, kind |-> x.kind]
             y == OnPacketComplete(s, packet)
             o == [y.o EXCEPT !.r = <<>>]
             l == 3 * n
  <2>1. t = [y EXCEPT !.o = o, !.stage = "idle"]
    BY <1>7 DEF ParsePacket
  <2>2. m + 3 = l /\ l \in Nat /\ 3 * ((n + 1) - 1) = l
    BY <1>3
  <2>3. PICK p \in 0..3 : At(y, i, b, c, n, p, m + 3)
    <3> HIDE DEF m, n, y, packet
    <3>1. n = x.n /\ packet = [n |-> x.n, conn |-> x.conn, kind |-> x.kind]
      BY DEF n, packet
    <3>2. QED
      BY <1>1, <1>3, <3>1, CompleteAt DEF y
  <2> HIDE DEF m, n, y, l
  <2>4. y \in Calls /\ y.o \in Objects
    BY <2>3, AtTypes
  <2>5. /\ o \in Objects /\ o.state = y.o.state /\ o.slot = y.o.slot /\ o.old = y.o.old
        /\ o.new = y.o.new /\ o.w = y.o.w
    <3>1. <<>> \in {q \in Seq(PieceSet) : Len(q) <= 1}
      BY EmptySeq
    <3>2. QED
      BY <2>4, <3>1 DEF Objects
  <2> HIDE DEF o
  <2>6. Changed(y, t, o, "idle")
    BY <2>1 DEF Changed
  <2> HIDE DEF t
  <2>7. At(t, i, b, c, n, p, l) /\ t.stage = "idle"
    BY <2>2, <2>3, <2>5, <2>6, ObjectAt DEF Stages
  <2>8. At(t, i, b, c, n + 1, 0, l)
    <3>1. n + 1 \in Nat /\ n < n + 1 /\ n \in Nat /\ l <= l
      BY <1>3, <2>2
    <3> DEFINE h == n + 1
    <3> HIDE DEF h
    <3>2. At(t, i, b, c, h, 0, l)
      BY <2>2, <2>7, <3>1, AtLater DEF h
    <3>3. QED
      BY <3>2 DEF h
  <2>9. NextOf(x) = n + 1
    BY <1>7 DEF NextOf, Ends, n
  <2>10. Parsing(t, i, b, c, n + 1)
    BY <1>3, <2>2, <2>7, <2>8 DEF Parsing
  <2>11. QED
    BY <2>9, <2>10 DEF t
<1>8. QED
  BY <1>4, <1>5, <1>6, <1>7

-----------------------------------------------------------------------------
(***************************************************************************)
(* One recv                                                                *)
(***************************************************************************)

\* What is to be received: pieces in the order in which they were sent, up to the
\* end of the last packet.
Stream(k, c) ==
  /\ \A j \in 1..Len(k.in) : Piece(k.in[j], k.sent, c)
  /\ \A j \in 1..Len(k.in) : j < Len(k.in) => k.in[j + 1].n = NextOf(k.in[j])
  /\ k.in # <<>> => NextOf(k.in[Len(k.in)]) = Len(k.sent) + 1

\* The packet of the next piece.
Expected(k) == IF k.in = <<>> THEN Len(k.sent) + 1 ELSE k.in[1].n

\* A handler between two notifications: what waits is bounded by what has been
\* received, and all that was answered are earlier packets.
Standing(s, i, b, c) ==
  /\ Work(s, i, b) /\ Stream(s.k, c)
  /\ Len(s.o.w) <= 3 * (Expected(s.k) - 1)
  /\ NoBig(b) => Ordered(All(s), c) /\ EndsBefore(All(s), Expected(s.k), 0)

\* A handler that is gone.
Finished(s, i, b, c) == Removed(s, i, b) /\ (NoBig(b) => Ordered(All(s), c))

\* No packet is expected that comes after the next one to be sent.
LEMMA ExpectedBound ==
  ASSUME NEW k \in Sockets, NEW c, Stream(k, c)
  PROVE  Expected(k) \in 1..Len(k.sent) + 1 /\ Len(k.sent) \in Nat
<1>1. k.in \in Seq(PieceSet) /\ k.sent \in Seq(Kinds) /\ Len(k.in) \in Nat /\ Len(k.sent) \in Nat
  BY SocketTypes, EmptyLen
<1>2. k.in # <<>> => 1 \in 1..Len(k.in)
  BY <1>1, EmptyLen
<1>3. k.in # <<>> => k.in[1].n \in 1..Len(k.sent)
  BY <1>2 DEF Stream, Piece
<1>4. QED
  BY <1>1, <1>3 DEF Expected

LEMMA ExpectedType ==
  ASSUME NEW k \in Sockets, NEW c, Stream(k, c)
  PROVE  Expected(k) \in Nat \ {0}
BY ExpectedBound

\* Without its first n pieces a stream is a stream, and begins where they end.
LEMMA CutStream ==
  ASSUME NEW k \in Sockets, NEW c, Stream(k, c), NEW n \in 1..Len(k.in), NEW l \in Sockets,
         l.in = SubSeq(k.in, n + 1, Len(k.in)), l.sent = k.sent
  PROVE  Stream(l, c) /\ Expected(l) = NextOf(k.in[n])
<1> DEFINE q == k.in
           v == l.in
           m == Len(q)
<1>1. q \in Seq(PieceSet) /\ m \in Nat /\ n \in Nat \ {0} /\ n <= m
  BY SocketTypes, EmptyLen
<1>2. /\ v \in Seq(PieceSet) /\ Len(v) = m - n
      /\ \A j \in 1..(m - n) : v[j] = q[j + n]
  BY <1>1, Suffix
<1>3. /\ \A j \in 1..m : Piece(q[j], k.sent, c)
      /\ \A j \in 1..m : j < m => q[j + 1].n = NextOf(q[j])
      /\ q # <<>> => NextOf(q[m]) = Len(k.sent) + 1
  BY DEF Stream
<1> HIDE DEF q, v, m
<1>4. ASSUME NEW j \in 1..Len(v) PROVE Piece(v[j], l.sent, c)
  <2> DEFINE h == j + n
  <2>1. h \in 1..m /\ v[j] = q[h]
    BY <1>1, <1>2
  <2> HIDE DEF h
  <2>2. QED
    BY <1>3, <2>1
<1>5. ASSUME NEW j \in 1..Len(v), j < Len(v) PROVE v[j + 1].n = NextOf(v[j])
  <2> DEFINE h == j + n
  <2>1. h \in 1..m /\ h < m /\ v[j] = q[h] /\ v[j + 1] = q[h + 1]
    <3>1. j + 1 \in 1..(m - n) /\ j \in 1..(m - n) /\ (j + 1) + n = h + 1
      BY <1>1, <1>2, <1>5
    <3>2. v[j + 1] = q[(j + 1) + n]
      BY <1>2, <3>1
    <3>3. QED
      BY <1>1, <1>2, <1>5, <3>1, <3>2
  <2> HIDE DEF h
  <2>2. QED
    BY <1>3, <2>1
<1>6. v = <<>> <=> n = m
  <2>1. v = <<>> <=> Len(v) = 0
    BY <1>2, EmptyLen
  <2>2. QED
    BY <1>1, <1>2, <2>1
<1>7. ASSUME v # <<>> PROVE NextOf(v[Len(v)]) = Len(l.sent) + 1
  <2>1. Len(v) \in 1..(m - n) /\ Len(v) + n = m /\ m # 0
    BY <1>1, <1>2, <1>6, <1>7
  <2>2. v[Len(v)] = q[m]
    BY <1>2, <2>1
  <2>3. q # <<>>
    BY <1>1, <2>1, EmptyLen DEF m
  <2>4. QED
    BY <1>3, <2>2, <2>3
<1>8. Stream(l, c)
  BY <1>4, <1>5, <1>7 DEF Stream, v
<1>9. Expected(l) = NextOf(q[n])
  <2>1. CASE v = <<>>
    <3>1. Expected(l) = Len(k.sent) + 1
      BY <2>1 DEF Expected, v
    <3>2. q # <<>>
      BY <1>1, EmptyLen DEF m
    <3>3. QED
      BY <1>3, <1>6, <2>1, <3>1, <3>2
  <2>2. CASE v # <<>>
    <3>1. n \in 1..m /\ n < m /\ 1 \in 1..(m - n) /\ 1 + n = n + 1
      BY <1>1, <1>6, <2>2
    <3>2. v[1] = q[n + 1]
      BY <1>2, <3>1
    <3>3. v[1].n = NextOf(q[n])
      BY <1>3, <3>1, <3>2
    <3>4. QED
      BY <2>2, <3>3 DEF Expected, v
  <2>3. QED
    BY <2>1, <2>2
<1>10. QED
  BY <1>8, <1>9 DEF q

\* Taking pieces from the socket.
Cut(s, t, v) == t = [s EXCEPT !.k.in = v]

LEMMA CutHeld ==
  ASSUME NEW s, NEW i, NEW b, Held(s, i, b), NEW v \in Seq(PieceSet), NEW t, Cut(s, t, v)
  PROVE  /\ Held(t, i, b) /\ Held(t, i, t) /\ t.o = s.o /\ t.stage = s.stage
         /\ t.k.in = v /\ t.k.got = s.k.got /\ t.k.sent = s.k.sent /\ t.k.peer = s.k.peer
<1> DEFINE K == [s.k EXCEPT !.in = v]
<1>1. s \in Calls /\ s.k \in Sockets
  BY CallTypes DEF Held
<1>2. /\ K \in Sockets /\ K.fd = s.k.fd /\ K.reg = s.k.reg /\ K.in = v /\ K.got = s.k.got
      /\ K.peer = s.k.peer /\ K.sent = s.k.sent
  BY <1>1 DEF Sockets
<1>3. t = [s EXCEPT !.k = K]
  BY DEF Cut
<1> HIDE DEF K
<1>4. /\ t \in Calls /\ t.o = s.o /\ t.k = K /\ t.u = s.u /\ t.stage = s.stage
      /\ t.fuse = s.fuse /\ t.dead = s.dead
  BY <1>1, <1>2, <1>3 DEF Calls
<1>5. Held(t, i, b)
  BY <1>2, <1>4 DEF Held
<1>6. Held(t, i, t)
  BY <1>5 DEF Held
<1>7. QED
  BY <1>2, <1>4, <1>5, <1>6

\* A beginning may be replaced by an earlier one.
LEMMA Rebase ==
  ASSUME NEW t, NEW i, NEW b, Held(t, i, b), NEW s
  PROVE  /\ Held(s, i, t) => Held(s, i, b)
         /\ Removed(s, i, t) => Removed(s, i, b)
         /\ Work(s, i, t) => Work(s, i, b)
         /\ NoBig(t) <=> NoBig(b)
         /\ SentNoPacket(t) <=> SentNoPacket(b)
<1>1. Held(s, i, t) => Held(s, i, b)
  BY DEF Held
<1>2. Removed(s, i, t) => Removed(s, i, b)
  BY DEF Held, Removed
<1>3. t.k.sent = b.k.sent
  BY DEF Held
<1>4. QED
  BY <1>1, <1>2, <1>3 DEF Work, NoBig, SentNoPacket


\* The loop of handle_input expects the packet after the last piece in the end.
LEMMA ParseLoopParsing ==
  ASSUME NEW s \in Calls, NEW i, NEW b, NEW c, NEW q \in Seq(PieceSet), NEW n, n = Len(q),
         n # 0,
         \A j \in 1..n : Piece(q[j], b.k.sent, c),
         \A j \in 1..n : j < n => q[j + 1].n = NextOf(q[j]),
         Parsing(s, i, b, c, q[1].n)
  PROVE  Parsing(ParseLoop(s, q)[n], i, b, c, NextOf(q[n]))
<1> DEFINE N == [j \in 0..n |-> IF j = 0 THEN q[1].n ELSE NextOf(q[j])]
           S == [j \in 0..n |-> {x \in Calls : Parsing(x, i, b, c, N[j])}]
           F == [j \in 1..n |-> [x \in S[j - 1] |-> ParsePacket(x, q[j])]]
           g == ParseLoop(s, q)
<1>1. n \in Nat \ {0}
  BY EmptyLen
<1>2. ASSUME NEW j \in 1..n PROVE N[j - 1] = q[j].n /\ N[j] = NextOf(q[j])
  <2>1. CASE j = 1
    BY <1>1, <2>1
  <2>2. CASE j # 1
    <3> DEFINE h == j - 1
    <3>1. h \in 1..n /\ h < n /\ h + 1 = j /\ h # 0 /\ h \in 0..n /\ j # 0 /\ j \in 0..n
      BY <1>1, <2>2
    <3>2. N[h] = NextOf(q[h]) /\ N[j] = NextOf(q[j])
      BY <3>1
    <3> HIDE DEF h, N
    <3>3. q[j].n = NextOf(q[h])
      BY <3>1
    <3>4. QED
      BY <3>2, <3>3 DEF h
  <2>3. QED
    BY <2>1, <2>2
<1>3. N[0] = q[1].n /\ N[n] = NextOf(q[n])
  BY <1>1
<1> HIDE DEF N
<1>4. ASSUME NEW j \in 0..n, NEW x PROVE x \in S[j] <=> x \in Calls /\ Parsing(x, i, b, c, N[j])
  OBVIOUS
<1> HIDE DEF S
<1>5. ASSUME NEW j \in 1..n, NEW x \in S[j - 1] PROVE ParsePacket(x, q[j]) \in S[j]
  <2> DEFINE h == j - 1
             y == ParsePacket(x, q[j])
  <2>1. h \in 0..n /\ j \in 0..n
    BY <1>1
  <2> HIDE DEF h, y
  <2>2. x \in Calls /\ Parsing(x, i, b, c, N[h])
    BY <1>4, <1>5, <2>1 DEF h
  <2>3. N[h] = q[j].n /\ N[j] = NextOf(q[j])
    BY <1>2 DEF h
  <2>4. Parsing(x, i, b, c, q[j].n)
    BY <2>2, <2>3
  <2>5. Parsing(y, i, b, c, NextOf(q[j]))
    <3> DEFINE z == q[j]
    <3>1. Piece(z, b.k.sent, c) /\ Parsing(x, i, b, c, z.n)
      BY <2>4
    <3> HIDE DEF z
    <3>2. Parsing(ParsePacket(x, z), i, b, c, NextOf(z))
      BY <3>1, ParsePacketParsing
    <3>3. QED
      BY <3>2 DEF y, z
  <2>6. y \in Calls
    BY <2>5, AtTypes DEF Parsing
  <2>7. Parsing(y, i, b, c, N[j])
    BY <2>3, <2>5
  <2>8. QED
    BY <1>4, <2>1, <2>6, <2>7 DEF y
<1>6. ASSUME NEW j \in 1..n, NEW x \in S[j - 1] PROVE F[j][x] = ParsePacket(x, q[j])
  OBVIOUS
<1>7. s \in S[0]
  <2>1. 0 \in 0..n
    BY <1>1
  <2>2. QED
    BY <1>3, <1>4, <2>1
<1> HIDE DEF F
<1>8. IsSteps(n, S, s, F)
  BY <1>1, <1>5, <1>6, <1>7 DEF IsSteps
<1>9. PICK f : /\ f = [j \in 0..n |-> IF j = 0 THEN s ELSE F[j][f[j - 1]]]
               /\ \A j \in 0..n : f[j] \in S[j]
  BY <1>8, StepsExist
<1>10. f = [j \in 0..n |-> IF j = 0 THEN s ELSE ParsePacket(f[j - 1], q[j])]
  <2>1. ASSUME NEW j \in 0..n, j # 0 PROVE F[j][f[j - 1]] = ParsePacket(f[j - 1], q[j])
    <3> DEFINE h == j - 1
    <3>1. j \in 1..n /\ h \in 0..n
      BY <1>1, <2>1
    <3> HIDE DEF h
    <3>2. f[h] \in S[h]
      BY <1>9, <3>1
    <3>3. QED
      BY <1>6, <3>1, <3>2 DEF h
  <2>2. QED
    BY <1>9, <2>1
<1>11. g = [j \in 0..n |-> IF j = 0 THEN s ELSE ParsePacket(g[j - 1], q[j])]
  BY <1>10 DEF ParseLoop
<1> HIDE DEF g
<1>12. g[0] \in S[0]
  BY <1>1, <1>7, <1>11
<1>13. ASSUME NEW j \in 1..n, g[j - 1] \in S[j - 1] PROVE g[j] \in S[j]
  <2>1. j \in 0..n /\ j # 0
    BY <1>1
  <2>2. g[j] = ParsePacket(g[j - 1], q[j])
    BY <1>11, <2>1
  <2>3. QED
    BY <1>5, <1>13, <2>2
<1>14. g[n] \in S[n]
  <2>1. n \in Nat /\ n \in 0..n
    BY <1>1
  <2>2. \A j \in 0..n : g[j] \in S[j]
    BY <1>12, <1>13, <2>1, StepInvariant
  <2>3. QED
    BY <2>1, <2>2
<1>15. Parsing(g[n], i, b, c, N[n])
  <2>1. n \in 0..n
    BY <1>1
  <2>2. QED
    BY <1>4, <1>14, <2>1
<1>16. QED
  BY <1>3, <1>15 DEF g

\* What a notification leaves behind: a handler that goes on, or one that is gone;
\* without a reason that ought to be so, it stays.
After(s, i, b, c, reason) ==
  \/ Standing(s, i, b, c)
  \/ Finished(s, i, b, c) /\ (s.k.peer # "open" \/ reason)

LEMMA CloseFinished ==
  ASSUME NEW s, NEW i, NEW b, NEW c, Held(s, i, b), NoBig(b) => Ordered(All(s), c)
  PROVE  Finished(Close(s), i, b, c)
<1> DEFINE t == Close(s)
<1>1. Removed(t, i, b) /\ t.k.got = s.k.got
  BY CloseHeld
<1>2. s.k.got \in Seq(Replies) /\ s.o.w \in Seq(Replies)
  BY CallTypes, ObjectTypes, SocketTypes DEF Held
<1> HIDE DEF t
<1>3. NoBig(b) => Ordered(All(t), c)
  BY <1>1, <1>2, OrderedPrefix, AllRemoved DEF All
<1>4. QED
  BY <1>1, <1>3 DEF Finished, t

LEMMA CloseAgain ==
  ASSUME NEW s, NEW i, NEW b, NEW c, Removed(s, i, b), s.k.peer # "open",
         NoBig(b) => Ordered(All(s), c)
  PROVE  Finished(Close(s), i, b, c)
<1> DEFINE t == Close(s)
<1>1. Removed(t, i, b) /\ t.k.got = s.k.got
  BY CloseRemoved
<1> HIDE DEF t
<1>2. All(t) = All(s)
  BY <1>1, AllRemoved
<1>3. QED
  BY <1>1, <1>2 DEF Finished, t


LEMMA InputAfter ==
  ASSUME NEW s, NEW i, NEW b, NEW c, Standing(s, i, b, c), s.stage = "idle",
         NEW n \in 0..Len(s.k.in), n = 0 => s.k.peer # "open"
  PROVE  LET t == InputNotify(s, n)
         IN  After(t, i, b, c, SentNoPacket(b)) /\ (Standing(t, i, b, c) => t.stage = "idle")
<1> DEFINE t == InputNotify(s, n)
           q == s.k.in
           chunk == SubSeq(q, 1, n)
           v == SubSeq(q, n + 1, Len(q))
           t0 == [s EXCEPT !.k.in = v]
           e == Expected(s.k)
           m == 3 * (e - 1)
           x == chunk[1]
           r == [n |-> x.n, conn |-> x.conn, part |-> 1]
           y == handle_input(s, n)
<1>1. Work(s, i, b) /\ Held(s, i, b) /\ Stream(s.k, c)
  BY DEF Standing, Work
<1>2. /\ s \in Calls /\ s.k \in Sockets /\ q \in Seq(PieceSet) /\ Len(q) \in Nat /\ n \in Nat
      /\ s.k.sent \in Seq(Kinds) /\ s.k.sent = b.k.sent /\ s.k.peer = b.k.peer
  BY <1>1, WorkTypes, CallTypes, EmptyLen
<1>3. e \in Nat \ {0} /\ m \in Nat
  <2>1. e \in Nat \ {0}
    BY <1>1, <1>2, ExpectedType
  <2> HIDE DEF e
  <2>2. QED
    BY <2>1
<1>4. Len(s.o.w) <= m /\ (NoBig(b) => Ordered(All(s), c) /\ EndsBefore(All(s), e, 0))
  BY DEF Standing
<1> HIDE DEF m, e
<1>5. ASSUME NEW z, Finished(z, i, b, c), z.k.peer # "open" \/ SentNoPacket(b), t = z
      PROVE  After(t, i, b, c, SentNoPacket(b)) /\ (Standing(t, i, b, c) => t.stage = "idle")
  BY <1>5 DEF After, Finished, Standing, Work, Held, Removed
<1>6. CASE n = 0
  <2> DEFINE z == [s EXCEPT !.stage = "error"]
  <2>1. y = z
    BY <1>6 DEF handle_input
  <2>2. Held(z, i, b) /\ z.o = s.o /\ z.k = s.k /\ z.stage = "error"
    BY <1>1, StageHeld DEF Stages
  <2> HIDE DEF z, y
  <2>3. t = Close(z)
    BY <2>1, <2>2 DEF InputNotify, CloseIf, y
  <2> HIDE DEF t
  <2>4. NoBig(b) => Ordered(All(z), c)
    BY <1>4, <2>2 DEF All
  <2>5. Finished(t, i, b, c)
    BY <2>2, <2>3, <2>4, CloseFinished
  <2>6. t.k.peer # "open"
    BY <1>2, <1>6, <2>5 DEF Finished, Removed
  <2>7. QED
    BY <1>5, <2>5, <2>6 DEF t
<1>7. CASE n # 0
  <2>1. /\ chunk \in Seq(PieceSet) /\ Len(chunk) = n /\ \A j \in 1..n : chunk[j] = q[j]
    BY <1>2, Prefix
  <2>2. v \in Seq(PieceSet)
    BY <1>2, Suffix
  <2> HIDE DEF chunk, v
  <2>3. Cut(s, t0, v)
    BY DEF Cut
  <2> HIDE DEF t0
  <2>4. /\ Held(t0, i, b) /\ Held(t0, i, t0) /\ t0.o = s.o /\ t0.stage = s.stage
        /\ t0.k.in = v /\ t0.k.got = s.k.got /\ t0.k.sent = s.k.sent /\ t0.k.peer = s.k.peer
    BY <1>1, <2>2, <2>3, CutHeld
  <2>5. Work(t0, i, t0) /\ All(t0) = All(s)
    BY <1>1, <2>4 DEF Work, All
  <2>6. n \in 1..Len(q) /\ 1 \in 1..Len(q) /\ 1 \in 1..n /\ q # <<>>
    BY <1>2, <1>7, EmptyLen
  <2>7. e = x.n /\ Piece(x, t0.k.sent, c)
    BY <1>1, <2>1, <2>4, <2>6 DEF Expected, e, Stream
  <2>8. NoBig(t0) <=> NoBig(b)
    BY <2>4, Rebase
  <2>9. At(t0, i, t0, c, e, 0, m)
    BY <1>4, <2>4, <2>5, <2>8 DEF At
  <2>10. t0 \in Calls /\ t0.k \in Sockets
    BY <2>4, CallTypes DEF Held
  <2>11. Stream(t0.k, c) /\ Expected(t0.k) = NextOf(q[n])
    BY <1>1, <1>2, <2>4, <2>6, <2>10, CutStream DEF v
  <2>12. CASE n = 1 /\ x.kind = "policy"
    <3> DEFINE u == Send(t0, r)
               z == [u EXCEPT !.stage = "error"]
    <3>1. y = z
      BY <1>7, <2>12 DEF handle_input, chunk, t0, v
    <3>2. r \in Replies /\ r.n = e /\ r.conn = c /\ r.part = 0 + 1
      BY <2>7 DEF Piece, PieceSet, Replies
    <3> HIDE DEF r, x
    <3>3. At(u, i, t0, c, e, 0 + 1, m + 1)
      BY <1>3, <2>9, <3>2, SendAt
    <3> HIDE DEF u, y
    <3>4. u \in Calls
      BY <3>3, AtTypes
    <3>5. z.stage = "error" /\ z \in Calls
      BY <3>4 DEF Calls, Stages
    <3>6. t = Close(z)
      BY <3>1, <3>5 DEF InputNotify, CloseIf, y
    <3>7. SentNoPacket(b)
      <4>1. x.kind \in ToSet(t0.k.sent)
        BY <1>2, <2>4, <2>7, SentKind
      <4>2. QED
        BY <1>2, <2>4, <2>12, <4>1 DEF SentNoPacket, x
    <3> HIDE DEF t
    <3>8. CASE Work(u, i, t0)
      <4>1. Held(u, i, b)
        BY <2>4, <3>8, Rebase DEF Work
      <4>2. Held(z, i, b) /\ z.o = u.o /\ z.k = u.k
        BY <4>1, StageHeld DEF Stages
      <4>3. NoBig(b) => Ordered(All(u), c)
        BY <2>8, <3>3 DEF At
      <4> HIDE DEF z
      <4>4. Finished(t, i, b, c)
        BY <3>6, <4>2, <4>3, CloseFinished DEF All
      <4>5. QED
        BY <1>5, <3>7, <4>4 DEF t
    <3>9. CASE Removed(u, i, t0)
      <4>1. Removed(u, i, b)
        BY <2>4, <3>9, Rebase
      <4>2. Removed(z, i, b) /\ z.o = u.o /\ z.k = u.k
        BY <4>1, StageRemoved DEF Stages
      <4>3. u.k.peer # "open" /\ (NoBig(b) => Ordered(All(u), c))
        BY <2>8, <3>3, <3>9 DEF At, Work, Held, Removed
      <4> HIDE DEF z
      <4>4. Finished(t, i, b, c)
        BY <3>6, <4>2, <4>3, CloseAgain DEF All
      <4>5. QED
        BY <1>5, <3>7, <4>4 DEF t
    <3>10. QED
      BY <3>3, <3>8, <3>9 DEF At
  <2>13. CASE ~(n = 1 /\ x.kind = "policy")
    <3> DEFINE u == ParseLoop(t0, chunk)[n]
               h == NextOf(q[n])
    <3>1. y = u
      BY <1>7, <2>13 DEF handle_input, chunk, t0, v
    <3>2. Parsing(t0, i, t0, c, e)
      BY <1>3, <2>4, <2>9 DEF Parsing, m
    <3>3. Parsing(u, i, t0, c, h)
      <4>1. \A j \in 1..n : Piece(chunk[j], t0.k.sent, c)
        BY <1>1, <1>2, <2>1, <2>4 DEF Stream
      <4>2. ASSUME NEW j \in 1..n, j < n PROVE chunk[j + 1].n = NextOf(chunk[j])
        <5>1. j \in 1..Len(q) /\ j < Len(q) /\ j + 1 \in 1..n
          BY <1>2, <4>2
        <5>2. q[j + 1].n = NextOf(q[j])
          BY <1>1, <5>1 DEF Stream
        <5>3. QED
          BY <2>1, <4>2, <5>1, <5>2
      <4>3. chunk[n] = q[n] /\ chunk[1] = x
        BY <2>1, <2>6
      <4>4. Parsing(t0, i, t0, c, chunk[1].n)
        BY <2>7, <3>2
      <4>5. Parsing(ParseLoop(t0, chunk)[n], i, t0, c, NextOf(chunk[n]))
        <5> HIDE DEF x, u, h, q
        <5>1. QED
          BY <1>7, <2>1, <2>10, <4>1, <4>2, <4>4, ParseLoopParsing
      <4>6. QED
        BY <4>3, <4>5
    <3> HIDE DEF u, y, h, x
    <3>4. CASE Work(u, i, t0)
      <4>1. Work(u, i, b) /\ Held(u, i, b)
        BY <2>4, <3>4, Rebase DEF Work
      <4>2. /\ u.k.in = t0.k.in /\ Len(u.o.w) <= 3 * (h - 1)
            /\ NoBig(b) => Ordered(All(u), c) /\ EndsBefore(All(u), h, 0)
        BY <2>8, <3>3, <3>4 DEF Parsing, At, Work, Held, Removed
      <4>3. CASE u.stage = "error"
        <5>1. t = Close(u)
          BY <3>1, <4>3 DEF InputNotify, CloseIf, y
        <5>2. SentNoPacket(b)
          BY <2>4, <3>3, <4>3, Rebase DEF Parsing
        <5> HIDE DEF t
        <5>3. Finished(t, i, b, c)
          BY <4>1, <4>2, <5>1, CloseFinished
        <5>4. QED
          BY <1>5, <5>2, <5>3 DEF t
      <4>4. CASE u.stage # "error"
        <5>1. t = u
          BY <3>1, <4>4 DEF InputNotify, CloseIf, y
        <5> HIDE DEF t
        <5>2. u.stage = "idle"
          BY <3>3, <3>4, <4>4 DEF Parsing
        <5>3. u.k.in = t0.k.in /\ u.k.sent = t0.k.sent
          BY <1>2, <2>4, <4>1, <4>2 DEF Held
        <5>4. Stream(u.k, c) /\ Expected(u.k) = h
          BY <2>11, <5>3 DEF Stream, Expected, h
        <5>5. Standing(u, i, b, c)
          BY <4>1, <4>2, <5>4 DEF Standing
        <5>6. QED
          BY <5>1, <5>2, <5>5 DEF After, t
      <4>5. QED
        BY <4>3, <4>4
    <3>5. CASE Removed(u, i, t0)
      <4>1. Removed(u, i, b)
        BY <2>4, <3>5, Rebase
      <4>2. u.k.peer # "open" /\ (NoBig(b) => Ordered(All(u), c))
        BY <2>8, <3>3, <3>5 DEF Parsing, At, Work, Held, Removed
      <4>3. CASE u.stage = "error"
        <5>1. t = Close(u)
          BY <3>1, <4>3 DEF InputNotify, CloseIf, y
        <5>2. SentNoPacket(b)
          BY <2>4, <3>3, <4>3, Rebase DEF Parsing
        <5> HIDE DEF t
        <5>3. Finished(t, i, b, c)
          BY <4>1, <4>2, <5>1, CloseAgain
        <5>4. QED
          BY <1>5, <5>2, <5>3 DEF t
      <4>4. CASE u.stage # "error"
        <5>1. t = u
          BY <3>1, <4>4 DEF InputNotify, CloseIf, y
        <5> HIDE DEF t
        <5>2. Finished(u, i, b, c)
          BY <4>1, <4>2 DEF Finished
        <5>3. QED
          BY <1>5, <4>2, <5>1, <5>2 DEF t
      <4>5. QED
        BY <4>3, <4>4
    <3>6. QED
      BY <3>3, <3>4, <3>5 DEF Parsing, At
  <2>14. QED
    BY <2>12, <2>13
<1>8. QED
  BY <1>6, <1>7

-----------------------------------------------------------------------------
(***************************************************************************)
(* One event                                                               *)
(***************************************************************************)

LEMMA StandingTypes ==
  ASSUME NEW s, NEW i, NEW b, NEW c, Standing(s, i, b, c)
  PROVE  /\ Work(s, i, b) /\ Held(s, i, b) /\ s.o.w \in Seq(Replies)
         /\ s.k.peer = b.k.peer /\ i \in Slots
         /\ s.u.poller = b.u.poller /\ ~Finished(s, i, b, c)
BY WorkTypes DEF Standing, Work, Held, Finished, Removed

\* OutputNotify: only an error, or nothing to send, ends a handler.
LEMMA OutputAfter ==
  ASSUME NEW s, NEW i, NEW b, NEW c, Standing(s, i, b, c)
  PROVE  After(OutputNotify(s), i, b, c, s.o.w = <<>>)
<1> DEFINE t == OutputNotify(s)
<1>1. Work(s, i, b) /\ s.k.got \in Seq(Replies) /\ s.o.w \in Seq(Replies)
  BY WorkTypes DEF Standing
<1>2. /\ Stream(s.k, c) /\ Len(s.o.w) <= 3 * (Expected(s.k) - 1)
      /\ NoBig(b) => Ordered(All(s), c) /\ EndsBefore(All(s), Expected(s.k), 0)
  BY DEF Standing
<1>3. ASSUME Removed(t, i, b), t.k.got = s.k.got
      PROVE  Finished(t, i, b, c)
  <2> HIDE DEF t
  <2>1. NoBig(b) => Ordered(All(t), c)
    BY <1>1, <1>2, <1>3, OrderedPrefix, AllRemoved DEF All
  <2>2. QED
    BY <1>3, <2>1 DEF Finished
<1>4. CASE s.o.w = <<>>
  <2>1. Removed(t, i, b) /\ t.k.got = s.k.got
    BY <1>1, <1>4, OutputEmpty
  <2> HIDE DEF t
  <2>2. QED
    BY <1>3, <1>4, <2>1 DEF After, t
<1>5. CASE s.o.w # <<>>
  <2>1. \/ /\ Work(t, i, b) /\ All(t) = All(s) /\ Len(t.o.w) <= Len(s.o.w)
           /\ Input(s, t)
        \/ /\ Removed(t, i, b) /\ t.k.got = s.k.got /\ t.k.peer # "open"
    BY <1>1, <1>5, OutputWork
  <2> HIDE DEF t
  <2>2. CASE Work(t, i, b) /\ All(t) = All(s) /\ Len(t.o.w) <= Len(s.o.w) /\ Input(s, t)
    <3>1. t.k.in = s.k.in /\ t.k.sent = s.k.sent
      BY <1>1, <2>2, WorkTypes DEF Input
    <3>2. Stream(t.k, c) /\ Expected(t.k) = Expected(s.k)
      BY <1>2, <3>1 DEF Stream, Expected
    <3>3. Len(t.o.w) <= 3 * (Expected(t.k) - 1)
      <4> DEFINE e == Expected(s.k)
      <4>1. e \in Nat \ {0}
        BY <1>1, <1>2, ExpectedType, WorkTypes, CallTypes
      <4>2. Len(t.o.w) \in Nat /\ Len(s.o.w) \in Nat
        BY <1>1, <2>2, WorkTypes
      <4>3. Len(s.o.w) <= 3 * (e - 1)
        BY <1>2
      <4> HIDE DEF e
      <4>4. Len(t.o.w) <= 3 * (e - 1)
        BY <2>2, <4>1, <4>2, <4>3
      <4>5. QED
        BY <3>2, <4>4 DEF e
    <3>4. QED
      BY <1>2, <2>2, <3>2, <3>3 DEF After, Standing, t
  <2>3. CASE Removed(t, i, b) /\ t.k.got = s.k.got /\ t.k.peer # "open"
    BY <1>3, <2>3 DEF After, t
  <2>4. QED
    BY <2>1, <2>2, <2>3
<1>6. QED
  BY <1>4, <1>5

LEMMA DispatchAfter ==
  ASSUME NEW s, NEW i, NEW b, NEW c, Standing(s, i, b, c), s.stage = "idle",
         b.u \in Units, b.u.poller[i] # Nobody, NEW ev, NEW n \in 0..Len(s.k.in),
         "hup" \in ev => s.k.peer # "open",
         "in" \in ev => (n = 0 => s.k.peer # "open"),
         "out" \in ev => s.o.w # <<>>
  PROVE  After(Dispatch(s, ev, n), i, b, c,
               SentNoPacket(b) \/ (s.o.w # <<>> /\ s.k.in # <<>>))
<1> DEFINE reason == SentNoPacket(b) \/ (s.o.w # <<>> /\ s.k.in # <<>>)
           x == DispatchInput(s, ev, n)
           y == DispatchOutput(x, i, ev)
           z == DispatchApply(y, i)
<1>1. /\ Work(s, i, b) /\ Held(s, i, b) /\ s.k.peer = b.k.peer /\ i \in Slots /\ s.o.slot = i
  <2>1. Work(s, i, b) /\ Held(s, i, b) /\ s.k.peer = b.k.peer /\ i \in Slots
    BY StandingTypes
  <2>2. QED
    BY <2>1 DEF Held
<1>2. CASE "hup" \in ev
  <2> DEFINE t == Close(s)
  <2>1. Dispatch(s, ev, n) = t
    BY <1>2 DEF Dispatch
  <2>2. NoBig(b) => Ordered(All(s), c)
    BY DEF Standing
  <2> HIDE DEF t
  <2>3. Finished(t, i, b, c)
    BY <1>1, <2>2, CloseFinished DEF t
  <2>4. t.k.peer # "open"
    BY <1>1, <1>2, <2>3 DEF Finished, Removed
  <2>5. QED
    BY <2>1, <2>3, <2>4 DEF After
<1>3. CASE "hup" \notin ev
  <2>1. Dispatch(s, ev, n) = z
    BY <1>1, <1>3 DEF Dispatch
  <2>2. /\ After(x, i, b, c, SentNoPacket(b))
        /\ Standing(x, i, b, c) => x.stage = "idle"
        /\ "in" \notin ev => x = s
    <3>1. CASE "in" \in ev
      <4>1. x = InputNotify(s, n) /\ (n = 0 => s.k.peer # "open")
        BY <3>1 DEF DispatchInput
      <4> HIDE DEF x
      <4>2. QED
        BY <3>1, <4>1, InputAfter
    <3>2. CASE "in" \notin ev
      <4>1. x = s
        BY <3>2 DEF DispatchInput
      <4> HIDE DEF x
      <4>2. QED
        BY <4>1 DEF After
    <3>3. QED
      BY <3>1, <3>2
  <2> HIDE DEF x
  <2>3. ASSUME NEW v, Finished(v, i, b, c) PROVE Gone(v, i)
    <3>1. v.u.poller = [b.u.poller EXCEPT ![i] = Nobody]
      BY <2>3 DEF Finished, Removed
    <3>2. i \in DOMAIN b.u.poller
      BY <1>1, UnitTypes
    <3>3. QED
      BY <3>1, <3>2 DEF Gone
  <2>4. After(y, i, b, c, reason)
    <3>1. CASE Finished(x, i, b, c)
      <4>1. y = x
        BY <2>3, <3>1 DEF DispatchOutput
      <4> HIDE DEF y
      <4>2. x.k.peer # "open" \/ SentNoPacket(b)
        BY <2>2, <3>1, StandingTypes DEF After
      <4>3. QED
        BY <3>1, <4>1, <4>2 DEF After
    <3>2. CASE Standing(x, i, b, c) /\ "out" \notin ev
      <4>1. y = x
        BY <3>2 DEF DispatchOutput
      <4> HIDE DEF y
      <4>2. QED
        BY <3>2, <4>1 DEF After
    <3>3. CASE Standing(x, i, b, c) /\ "out" \in ev
      <4>1. ~Gone(x, i)
        BY <2>2, <3>3, StandingTypes DEF Gone
      <4>2. y = OutputNotify(x)
        BY <3>3, <4>1 DEF DispatchOutput
      <4> HIDE DEF y
      <4>3. After(y, i, b, c, x.o.w = <<>>)
        BY <3>3, <4>2, OutputAfter
      <4>4. CASE Standing(y, i, b, c)
        BY <4>4 DEF After
      <4>5. CASE Finished(y, i, b, c) /\ y.k.peer # "open"
        BY <4>5 DEF After
      <4>6. CASE Finished(y, i, b, c) /\ y.k.peer = "open" /\ x.o.w = <<>>
        <5>1. s.o.w # <<>> /\ x # s /\ "in" \in ev
          BY <2>2, <3>3, <4>6
        <5>2. n # 0
          BY <1>1, <4>6, <5>1 DEF Finished, Removed
        <5>3. s.k.in # <<>>
          <6>1. s.k.in \in Seq(PieceSet) /\ Len(s.k.in) \in Nat
            BY <1>1, WorkTypes, EmptyLen
          <6>2. Len(s.k.in) # 0
            BY <5>2, <6>1
          <6>3. QED
            BY <6>1, <6>2, EmptyLen
        <5>4. QED
          BY <4>6, <5>1, <5>3 DEF After
      <4>7. QED
        BY <4>3, <4>4, <4>5, <4>6 DEF After
    <3>4. QED
      BY <2>2, <3>1, <3>2, <3>3 DEF After
  <2> HIDE DEF y, reason
  <2>5. z = y
    <3>1. CASE Finished(y, i, b, c)
      BY <2>3, <3>1 DEF DispatchApply
    <3>2. CASE Standing(y, i, b, c)
      <4>1. y.o.old = y.o.new
        BY <3>2 DEF Standing, Work
      <4>2. QED
        BY <4>1 DEF DispatchApply, ApplyEvents
    <3>3. QED
      BY <2>4, <3>1, <3>2 DEF After
  <2> HIDE DEF z
  <2>6. QED
    BY <2>1, <2>4, <2>5 DEF reason
<1>4. QED
  BY <1>2, <1>3

-----------------------------------------------------------------------------
(***************************************************************************)
(* The inductive invariant                                                 *)
(***************************************************************************)

Events == [slot : Slots, seq : Nat, events : SUBSET {"in", "out", "hup"}]

\* The free list holds exactly the slots of nobody, each once; the first slot is
\* the listening socket's for ever.
SlotsOK(u) ==
  /\ IsInjective(u.free)
  /\ \A i \in Slots : (u.poller[i] = Nobody) <=> (i \in ToSet(u.free))
  /\ u.used = MaxPollers - Len(u.free)
  /\ u.poller[0] = Listener /\ u.seq[0] = 1

\* A live handler: its slot, its registration, the events it asks for, and the
\* replies that wait.
Serving(u, o, k, c) ==
  /\ o.slot \in Slots /\ u.poller[o.slot] = c
  /\ k.reg = [slot |-> o.slot, seq |-> u.seq[o.slot], events |-> o.old]
  /\ o.new = o.old /\ o.old = Wanted(o.w)
  /\ Len(o.w) <= 3 * (Expected(k) - 1)
  /\ "big" \notin ToSet(k.sent) => EndsBefore(k.got \o o.w, Expected(k), 0)

ConnOK(u, o, k, c) ==
  /\ o.state = "live" <=> k.fd = "open"
  /\ o.state = "deleted" <=> k.fd = "closed"
  /\ o.state = "live" => Serving(u, o, k, c)
  /\ o.state # "live" => o.slot = NoSlot /\ o.w = <<>> /\ k.reg = NoReg
  /\ o.state = "none" => k.got = <<>>
  /\ Stream(k, c)

\* What holds of a connection for ever.
Answers(o, k, c) ==
  /\ Len(o.w) <= 3 * Len(k.sent)
  /\ "big" \notin ToSet(k.sent) => Ordered(k.got \o o.w, c)

\* A slot of a connection is the slot of its handler, which is live.
Owners(u, o) ==
  \A i \in Slots : \A c \in Conns :
    u.poller[i] = c => o[c].state = "live" /\ o[c].slot = i

\* An event is one of the present registration of a slot that is taken; there is
\* one of each slot; what it tells of its connection is still so.
Raised(ev, o, k) ==
  /\ "hup" \in ev.events => k.peer # "open"
  /\ "in" \in ev.events => k.in # <<>> \/ k.peer # "open"
  /\ "out" \in ev.events => o.w # <<>>

EventOK(ev, u, o, k) ==
  /\ ev \in Events /\ ev.seq = u.seq[ev.slot] /\ u.poller[ev.slot] # Nobody
  /\ \A c \in Conns : u.poller[ev.slot] = c => Raised(ev, o[c], k[c])

OnePerSlot(b) == \A e, f \in b : e.slot = f.slot => e = f

BacklogOK(q, k) ==
  /\ \A i, j \in 1..Len(q) : q[i] = q[j] => i = j
  /\ \A j \in 1..Len(q) : k[q[j]].fd = "backlog"

Typed ==
  /\ unit \in Units /\ obj \in [Conns -> Objects] /\ sock \in [Conns -> Sockets]
  /\ backlog \in Seq(Conns) /\ proc \in {"running", "dead"}

Running ==
  /\ Owners(unit, obj)
  /\ \A c \in Conns : ConnOK(unit, obj[c], sock[c], c)
  /\ \A ev \in batch : EventOK(ev, unit, obj, sock)
  /\ OnePerSlot(batch) /\ BacklogOK(backlog, sock)

IInv ==
  /\ Typed /\ SlotsOK(unit)
  /\ \A c \in Conns : Answers(obj[c], sock[c], c)
  /\ proc = "running" => Running
  /\ proc = "dead" => batch = {} /\ \E c \in Conns : sock[c].peer # "open"

-----------------------------------------------------------------------------
(***************************************************************************)
(* The slots                                                               *)
(***************************************************************************)

LEMMA SlotZero == 0 \in Slots /\ NoSlot \notin Slots /\ Nobody \notin Conns /\ Listener \notin Conns
                  /\ Nobody # Listener
<1>1. Nobody # Listener
  BY DEF Nobody, Listener
<1>2. 0 \in Slots /\ NoSlot \notin Slots
  BY ReactorAssumption DEF Slots, NoSlot
<1>3. Nobody \notin Conns /\ Listener \notin Conns
  BY ReactorAssumption
<1>4. QED
  BY <1>1, <1>2, <1>3

\* Other sequence numbers than the first slot's do not matter to the free list.
LEMMA SlotsKept ==
  ASSUME NEW u, SlotsOK(u), NEW v, v.poller = u.poller, v.free = u.free, v.used = u.used,
         v.seq[0] = u.seq[0]
  PROVE  SlotsOK(v)
BY DEF SlotsOK

\* An element in front of a sequence.
LEMMA ConsSeq ==
  ASSUME NEW S, NEW q \in Seq(S), NEW i \in S
  PROVE  /\ <<i>> \o q \in Seq(S) /\ Len(<<i>> \o q) = Len(q) + 1 /\ Len(q) \in Nat
         /\ (<<i>> \o q)[1] = i /\ \A j \in 1..Len(q) : (<<i>> \o q)[j + 1] = q[j]
<1> DEFINE l == <<i>>
           a == l \o q
<1>1. l \in Seq(S) /\ Len(l) = 1 /\ l[1] = i
  BY OneElement
<1> HIDE DEF l
<1>2. /\ a \in Seq(S) /\ Len(a) = 1 + Len(q) /\ Len(q) \in Nat
      /\ \A j \in 1..Len(l) : a[j] = l[j]
      /\ \A j \in 1..Len(q) : a[1 + j] = q[j]
  BY <1>1, Concat
<1> HIDE DEF a
<1>3. Len(a) = Len(q) + 1
  BY <1>2
<1>4. a[1] = i
  <2>1. 1 \in 1..Len(l)
    BY <1>1
  <2>2. QED
    BY <1>1, <1>2, <2>1
<1>5. ASSUME NEW j \in 1..Len(q) PROVE a[j + 1] = q[j]
  <2>1. j + 1 = 1 + j
    BY <1>2
  <2>2. QED
    BY <1>2, <2>1
<1>6. QED
  BY <1>2, <1>3, <1>4, <1>5 DEF a, l

LEMMA ElementsOf ==
  ASSUME NEW S, NEW q \in Seq(S)
  PROVE  /\ DOMAIN q = 1..Len(q) /\ Len(q) \in Nat
         /\ \A x : x \in ToSet(q) <=> \E j \in 1..Len(q) : q[j] = x
         /\ ToSet(q) \subseteq S
BY LenProperties DEF ToSet

\* Freeing a slot that is taken.
LEMMA SlotsFreed ==
  ASSUME NEW u \in Units, SlotsOK(u), NEW i \in Slots, i # 0, u.poller[i] # Nobody,
         NEW v \in Units, v.poller = [u.poller EXCEPT ![i] = Nobody],
         v.free = <<i>> \o u.free, v.used = u.used - 1, v.seq[0] = u.seq[0]
  PROVE  SlotsOK(v)
<1> DEFINE q == u.free
           a == v.free
           m == Len(q)
<1>1. q \in Seq(Slots) /\ m \in Nat /\ u.used = MaxPollers - m /\ u.poller \in [Slots -> Conns \cup {Nobody, Listener}]
  BY UnitTypes, EmptyLen DEF SlotsOK
<1>2. MaxPollers \in Nat
  BY ReactorAssumption
<1>3. /\ a \in Seq(Slots) /\ Len(a) = m + 1 /\ a[1] = i
      /\ \A j \in 1..m : a[j + 1] = q[j]
  BY <1>1, ConsSeq
<1>4. /\ \A x : x \in ToSet(q) <=> \E j \in 1..m : q[j] = x
      /\ DOMAIN q = 1..m
  BY <1>1, ElementsOf
<1>5. /\ \A x : x \in ToSet(a) <=> \E j \in 1..Len(a) : a[j] = x
      /\ DOMAIN a = 1..Len(a)
  <2> HIDE DEF a
  <2>1. a \in Seq(Slots)
    BY <1>3
  <2>2. QED
    BY <2>1, ElementsOf
<1> HIDE DEF q, a, m
<1>6. ASSUME NEW j \in 1..Len(a)
      PROVE  j = 1 \/ (j - 1 \in 1..m /\ a[j] = q[j - 1])
  <2> DEFINE h == j - 1
  <2>1. j = 1 \/ (h \in 1..m /\ h + 1 = j)
    BY <1>1, <1>3
  <2> HIDE DEF h
  <2>2. j = 1 \/ (h \in 1..m /\ a[j] = q[h])
    BY <1>3, <2>1
  <2>3. QED
    BY <2>2 DEF h
<1>7. \A x : x \in ToSet(a) <=> x = i \/ x \in ToSet(q)
  <2>1. ASSUME NEW x, x \in ToSet(a) PROVE x = i \/ x \in ToSet(q)
    BY <1>3, <1>4, <1>5, <1>6, <2>1
  <2>2. ASSUME NEW x, x = i \/ x \in ToSet(q) PROVE x \in ToSet(a)
    <3>1. CASE x = i
      <4>1. 1 \in 1..Len(a)
        BY <1>1, <1>3
      <4>2. QED
        BY <1>3, <1>5, <3>1, <4>1
    <3>2. CASE x \in ToSet(q)
      <4>1. PICK j \in 1..m : q[j] = x
        BY <1>4, <3>2
      <4>2. j + 1 \in 1..Len(a) /\ a[j + 1] = x
        BY <1>1, <1>3, <4>1
      <4>3. QED
        BY <1>5, <4>2
    <3>3. QED
      BY <2>2, <3>1, <3>2
  <2>3. QED
    BY <2>1, <2>2
<1>8. i \notin ToSet(q)
  BY DEF SlotsOK, q
<1>9. IsInjective(a)
  <2>1. ASSUME NEW j \in 1..Len(a), NEW h \in 1..Len(a), a[j] = a[h] PROVE j = h
    <3>1. \A x \in 1..m : q[x] # i
      BY <1>4, <1>8
    <3>2. \A x, y \in 1..m : q[x] = q[y] => x = y
      BY <1>4 DEF SlotsOK, IsInjective, q
    <3>3. CASE j = 1 \/ h = 1
      BY <1>3, <1>6, <2>1, <3>1, <3>3
    <3>4. CASE j # 1 /\ h # 1
      <4>1. j - 1 = h - 1
        BY <1>6, <2>1, <3>2, <3>4
      <4>2. j \in Int /\ h \in Int
        BY <1>1, <1>3
      <4>3. QED
        BY <4>1, <4>2
    <3>5. QED
      BY <3>3, <3>4
  <2>2. QED
    BY <1>5, <2>1 DEF IsInjective
<1>10. ASSUME NEW j \in Slots PROVE (v.poller[j] = Nobody) <=> (j \in ToSet(a))
  <2>1. (u.poller[j] = Nobody) <=> (j \in ToSet(q))
    BY DEF SlotsOK, q
  <2>2. QED
    BY <1>1, <1>7, <2>1
<1>11. v.used = MaxPollers - Len(a)
  BY <1>1, <1>2, <1>3
<1>12. v.poller[0] = Listener /\ v.seq[0] = 1
  BY <1>1, SlotZero DEF SlotsOK
<1>13. QED
  BY <1>9, <1>10, <1>11, <1>12 DEF SlotsOK, a

-----------------------------------------------------------------------------
(***************************************************************************)
(* The beginning                                                           *)
(***************************************************************************)

\* A connection that was never made.
NewObject == [state |-> "none", slot |-> NoSlot, old |-> {}, new |-> {},
              r |-> <<>>, w |-> <<>>, last |-> NoPacket]
NewSocket == [fd |-> "none", peer |-> "open", in |-> <<>>, full |-> FALSE,
              reg |-> NoReg, sent |-> <<>>, got |-> <<>>]

LEMMA NewTypes == NewObject \in Objects /\ NewSocket \in Sockets
<1>1. <<>> \in Seq(PieceSet) /\ <<>> \in Seq(Replies) /\ <<>> \in Seq(Kinds) /\ Len(<<>>) <= 1
  OBVIOUS
<1>2. NoReg \in Registrations
  BY DEF NoReg, Registrations, Interests
<1>3. {} \in Interests
  BY DEF Interests
<1>4. NewObject \in Objects
  BY <1>1, <1>3 DEF NewObject, Objects
<1>5. NewSocket \in Sockets
  BY <1>1, <1>2 DEF NewSocket, Sockets
<1>6. QED
  BY <1>4, <1>5

LEMMA NewOK ==
  ASSUME NEW c, NEW u
  PROVE  ConnOK(u, NewObject, NewSocket, c) /\ Answers(NewObject, NewSocket, c)
<1>1. Len(<<>>) = 0 /\ <<>> \in Seq(Replies)
  OBVIOUS
<1>2. <<>> \o <<>> = <<>>
  BY <1>1, ConcatEmptySeq
<1>3. Ordered(<<>>, c)
  BY <1>1 DEF Ordered
<1>4. Answers(NewObject, NewSocket, c)
  BY <1>1, <1>2, <1>3 DEF Answers, NewObject, NewSocket
<1>5. Stream(NewSocket, c)
  BY <1>1 DEF Stream, NewSocket
<1>6. ConnOK(u, NewObject, NewSocket, c)
  BY <1>5 DEF ConnOK, NewObject, NewSocket
<1>7. QED
  BY <1>4, <1>6

LEMMA InitInv == Init => IInv
<1> SUFFICES ASSUME Init PROVE IInv
  OBVIOUS
<1> DEFINE P == [i \in Slots |-> IF i = 0 THEN Listener ELSE Nobody]
           Q == [i \in Slots |-> IF i = 0 THEN 1 ELSE 0]
           m == MaxPollers - 1
           a == [i \in 1..m |-> i]
<1>1. /\ unit = [seq |-> Q, poller |-> P, free |-> a, used |-> 1]
      /\ obj = [c \in Conns |-> NewObject] /\ sock = [c \in Conns |-> NewSocket]
      /\ backlog = <<>> /\ batch = {} /\ proc = "running"
  BY DEF Init, NewObject, NewSocket
<1>2. m \in Nat /\ Slots = 0..m
  BY ReactorAssumption DEF Slots
<1>3. /\ a \in Seq(Slots) /\ Len(a) = m /\ DOMAIN a = 1..m /\ \A i \in 1..m : a[i] = i
  <2>1. a \in [1..m -> Slots]
    BY <1>2
  <2>2. QED
    BY <1>2, <2>1
<1>4. Q \in [Slots -> Nat] /\ P \in [Slots -> Conns \cup {Nobody, Listener}]
  OBVIOUS
<1>5. P[0] = Listener /\ Q[0] = 1
  BY SlotZero
<1> HIDE DEF a
<1>6. unit \in Units
  BY <1>1, <1>3, <1>4 DEF Units
<1>7. SlotsOK(unit)
  <2>1. IsInjective(a)
    BY <1>3 DEF IsInjective
  <2>2. ASSUME NEW i \in Slots PROVE (P[i] = Nobody) <=> (i \in ToSet(a))
    <3>1. (P[i] = Nobody) <=> i # 0
      BY SlotZero
    <3>2. i \in ToSet(a) <=> \E j \in 1..m : a[j] = i
      BY <1>3 DEF ToSet
    <3>3. QED
      BY <1>2, <1>3, <3>1, <3>2
  <2>3. 1 = MaxPollers - Len(a)
    BY <1>3, ReactorAssumption
  <2> HIDE DEF P, Q
  <2>4. QED
    BY <1>1, <1>5, <2>1, <2>2, <2>3 DEF SlotsOK
<1>8. Owners(unit, obj)
  BY <1>1, SlotZero DEF Owners
<1> HIDE DEF P, Q, m
<1>9. Typed
  BY <1>1, <1>6, NewTypes DEF Typed
<1>10. \A c \in Conns : ConnOK(unit, obj[c], sock[c], c) /\ Answers(obj[c], sock[c], c)
  BY <1>1, NewOK
<1>11. OnePerSlot(batch) /\ BacklogOK(backlog, sock)
  BY <1>1 DEF OnePerSlot, BacklogOK
<1>12. \A ev \in batch : EventOK(ev, unit, obj, sock)
  BY <1>1
<1>13. QED
  BY <1>1, <1>7, <1>8, <1>9, <1>10, <1>11, <1>12 DEF IInv, Running

-----------------------------------------------------------------------------
(***************************************************************************)
(* Serving a connection                                                    *)
(***************************************************************************)

\* A callback of a live handler begins between two notifications.
LEMMA CallBegins ==
  ASSUME NEW u \in Units, NEW o \in Objects, NEW k \in Sockets, NEW c \in Conns,
         ConnOK(u, o, k, c), Answers(o, k, c), o.state = "live",
         NEW room \in Nat, NEW fuse \in Int, k.peer = "open" => fuse < 0
  PROVE  LET b == Callback([o EXCEPT !.new = o.old], k, u, room, fuse)
         IN  Standing(b, o.slot, b, c) /\ b.o = o /\ b.k = k /\ b.u = u /\ b.stage = "idle"
<1> DEFINE p == [o EXCEPT !.new = o.old]
           b == Callback(p, k, u, room, fuse)
           i == o.slot
<1>1. Serving(u, o, k, c) /\ k.fd = "open" /\ Stream(k, c) /\ i \in Slots
  BY DEF ConnOK, Serving
<1>2. p = o
  BY <1>1 DEF Serving, Objects
<1> HIDE DEF p
<1>3. /\ b.o = o /\ b.k = k /\ b.u = u /\ b.room = room /\ b.fuse = fuse
      /\ b.stage = "idle" /\ b.dead = FALSE
  BY <1>2 DEF Callback
<1>4. b \in Calls
  BY <1>2 DEF Callback, Calls, Stages
<1> HIDE DEF b
<1>5. Held(b, i, b)
  BY <1>1, <1>3, <1>4 DEF Held, Serving
<1>6. Work(b, i, b)
  BY <1>1, <1>3, <1>5 DEF Work, Serving
<1>7. NoBig(b) => Ordered(All(b), c) /\ EndsBefore(All(b), Expected(b.k), 0)
  BY <1>1, <1>3 DEF NoBig, Answers, Serving, All
<1>8. Standing(b, i, b, c)
  BY <1>1, <1>3, <1>6, <1>7 DEF Standing, Serving
<1>9. QED
  BY <1>3, <1>8 DEF b, p

\* What a callback of connection c, which has slot i, may leave behind.
Outcome(s, i, b, c) ==
  /\ s.o \in Objects /\ s.k \in Sockets /\ s.u \in Units
  /\ SlotsOK(s.u) /\ ConnOK(s.u, s.o, s.k, c) /\ Answers(s.o, s.k, c)
  /\ \A j \in Slots \ {i} : s.u.seq[j] = b.u.seq[j] /\ s.u.poller[j] = b.u.poller[j]
  /\ s.u.poller[i] = Nobody \/ (s.u.poller[i] = c /\ s.o.slot = i /\ s.o.state = "live")
  /\ s.k.fd \in {"open", "closed"}
  /\ s.k.peer = b.k.peer /\ s.k.sent = b.k.sent
  /\ s.dead \in BOOLEAN /\ s.k.peer = "open" => s.dead = FALSE

LEMMA StandingOutcome ==
  ASSUME NEW b, b.u \in Units, SlotsOK(b.u), NEW i \in Slots, i # 0, NEW c \in Conns,
         b.u.poller[i] = c, NEW s, Standing(s, i, b, c)
  PROVE  Outcome(s, i, b, c)
<1> DEFINE e == Expected(s.k)
           m == Len(s.k.sent)
           l == Len(s.o.w)
<1>1. /\ Work(s, i, b) /\ Held(s, i, b) /\ Stream(s.k, c)
      /\ s \in Calls /\ s.o \in Objects /\ s.k \in Sockets /\ s.u \in Units
      /\ l \in Nat
  BY StandingTypes, WorkTypes, CallTypes DEF Standing
<1>2. SlotsOK(s.u)
  <2>1. s.u.poller = b.u.poller /\ s.u.free = b.u.free /\ s.u.used = b.u.used
        /\ s.u.seq[0] = b.u.seq[0]
    BY <1>1, SlotZero DEF Held
  <2>2. QED
    BY <2>1, SlotsKept
<1>3. e \in 1..m + 1 /\ m \in Nat /\ l <= 3 * (e - 1)
  BY <1>1, ExpectedBound DEF Standing
<1>4. "big" \notin ToSet(s.k.sent) =>
         Ordered(s.k.got \o s.o.w, c) /\ EndsBefore(s.k.got \o s.o.w, e, 0)
  BY <1>1 DEF Standing, NoBig, All, Held
<1>5. Answers(s.o, s.k, c)
  <2> HIDE DEF e, l, m
  <2>1. l <= 3 * m
    BY <1>1, <1>3
  <2>2. QED
    BY <1>4, <2>1 DEF Answers, l, m
<1>6. Serving(s.u, s.o, s.k, c)
  BY <1>1, <1>3, <1>4 DEF Serving, Work, Held
<1>7. ConnOK(s.u, s.o, s.k, c)
  BY <1>1, <1>6 DEF ConnOK, Held
<1>8. QED
  BY <1>1, <1>2, <1>5, <1>7 DEF Outcome, Held

LEMMA FinishedOutcome ==
  ASSUME NEW b, b.u \in Units, SlotsOK(b.u), NEW i \in Slots, i # 0, NEW c \in Conns,
         b.u.poller[i] = c, NEW s, Finished(s, i, b, c)
  PROVE  Outcome(s, i, b, c)
<1>1. /\ Removed(s, i, b) /\ s \in Calls /\ s.o \in Objects /\ s.k \in Sockets /\ s.u \in Units
      /\ s.dead \in BOOLEAN
  BY CallTypes DEF Finished, Removed
<1>2. /\ s.u.poller = [b.u.poller EXCEPT ![i] = Nobody]
      /\ s.u.free = <<i>> \o b.u.free /\ s.u.used = b.u.used - 1
      /\ \A j \in Slots \ {i} : s.u.seq[j] = b.u.seq[j]
  BY <1>1 DEF Removed
<1>3. s.u.seq[0] = b.u.seq[0] /\ b.u.poller[i] # Nobody
  BY <1>2, SlotZero
<1>4. SlotsOK(s.u)
  BY <1>1, <1>2, <1>3, SlotsFreed
<1>5. b.u.poller \in [Slots -> Conns \cup {Nobody, Listener}]
  BY UnitTypes
<1>6. s.u.poller[i] = Nobody /\ \A j \in Slots \ {i} : s.u.poller[j] = b.u.poller[j]
  BY <1>2, <1>5
<1>7. /\ s.o.state = "deleted" /\ s.o.slot = NoSlot /\ s.o.w = <<>>
      /\ s.k.fd = "closed" /\ s.k.reg = NoReg /\ s.k.in = <<>>
  BY <1>1 DEF Removed
<1>8. Len(<<>>) = 0 /\ Len(s.k.sent) \in Nat
  BY <1>1, SocketTypes, EmptyLen
<1>9. Answers(s.o, s.k, c)
  <2>1. "big" \notin ToSet(s.k.sent) => Ordered(s.k.got \o s.o.w, c)
    BY <1>1 DEF Finished, NoBig, All, Removed
  <2>2. Len(s.o.w) <= 3 * Len(s.k.sent)
    BY <1>7, <1>8
  <2>3. QED
    BY <2>1, <2>2 DEF Answers
<1>10. ConnOK(s.u, s.o, s.k, c)
  <2>1. Stream(s.k, c)
    BY <1>7, <1>8 DEF Stream
  <2>2. QED
    BY <1>7, <2>1 DEF ConnOK
<1>11. QED
  BY <1>1, <1>2, <1>4, <1>6, <1>7, <1>9, <1>10 DEF Outcome, Removed

\* The slots, the handlers and the sockets together.
World(u, o, k) ==
  /\ u \in Units /\ o \in [Conns -> Objects] /\ k \in [Conns -> Sockets]
  /\ SlotsOK(u) /\ Owners(u, o)
  /\ \A c \in Conns : ConnOK(u, o[c], k[c], c) /\ Answers(o[c], k[c], c)

\* A step that only concerns connection c and slot i, which is c's or nobody's.
Local(u, o, k, v, p, q, c, i) ==
  /\ i \in Slots => u.poller[i] \in {c, Nobody}
  /\ o[c].state = "live" => o[c].slot = i
  /\ v \in Units /\ SlotsOK(v) /\ p \in [Conns -> Objects] /\ q \in [Conns -> Sockets]
  /\ \A d \in Conns \ {c} : p[d] = o[d] /\ q[d] = k[d]
  /\ ConnOK(v, p[c], q[c], c) /\ Answers(p[c], q[c], c)
  /\ i \in Slots => v.poller[i] = Nobody
                     \/ (v.poller[i] = c /\ p[c].slot = i /\ p[c].state = "live")
  /\ \A j \in Slots \ {i} : v.seq[j] = u.seq[j] /\ v.poller[j] = u.poller[j]

\* It disturbs no other connection and no event of another slot.
LEMMA WorldStep ==
  ASSUME NEW u, NEW o, NEW k, World(u, o, k), NEW c \in Conns, NEW i, NEW v, NEW p, NEW q,
         Local(u, o, k, v, p, q, c, i)
  PROVE  /\ World(v, p, q)
         /\ \A ev : EventOK(ev, u, o, k) /\ ev.slot # i => EventOK(ev, v, p, q)
<1>1. /\ u \in Units /\ o \in [Conns -> Objects] /\ k \in [Conns -> Sockets]
      /\ SlotsOK(u) /\ Owners(u, o)
      /\ \A d \in Conns : ConnOK(u, o[d], k[d], d) /\ Answers(o[d], k[d], d)
  BY DEF World
<1>2. /\ p \in [Conns -> Objects] /\ q \in [Conns -> Sockets] /\ v \in Units /\ SlotsOK(v)
      /\ ConnOK(v, p[c], q[c], c) /\ Answers(p[c], q[c], c)
      /\ \A d \in Conns \ {c} : p[d] = o[d] /\ q[d] = k[d]
      /\ i \in Slots => u.poller[i] \in {c, Nobody}
      /\ o[c].state = "live" => o[c].slot = i
      /\ i \in Slots => v.poller[i] = Nobody
                         \/ (v.poller[i] = c /\ p[c].slot = i /\ p[c].state = "live")
      /\ \A j \in Slots \ {i} : v.seq[j] = u.seq[j] /\ v.poller[j] = u.poller[j]
  BY DEF Local
<1>3. ASSUME NEW d \in Conns \ {c}
      PROVE  ConnOK(v, p[d], q[d], d) /\ Answers(p[d], q[d], d)
  <2>1. p[d] = o[d] /\ q[d] = k[d] /\ ConnOK(u, o[d], k[d], d) /\ Answers(o[d], k[d], d)
    BY <1>1, <1>2
  <2>2. ASSUME o[d].state = "live" PROVE Serving(v, o[d], k[d], d)
    <3>1. Serving(u, o[d], k[d], d)
      BY <2>1, <2>2 DEF ConnOK
    <3>2. o[d].slot \in Slots \ {i}
      BY <1>2, <3>1, SlotZero DEF Serving
    <3>3. v.seq[o[d].slot] = u.seq[o[d].slot] /\ v.poller[o[d].slot] = u.poller[o[d].slot]
      BY <1>2, <3>2
    <3>4. QED
      BY <3>1, <3>3 DEF Serving
  <2>3. ConnOK(v, o[d], k[d], d)
    BY <2>1, <2>2 DEF ConnOK
  <2>4. QED
    BY <2>1, <2>3
<1>4. ASSUME NEW j \in Slots, NEW d \in Conns, v.poller[j] = d
      PROVE  p[d].state = "live" /\ p[d].slot = j
  <2>1. CASE j = i
    BY <1>2, <1>4, <2>1, SlotZero
  <2>2. CASE j # i
    <3>1. u.poller[j] = d
      BY <1>2, <1>4, <2>2
    <3>2. o[d].state = "live" /\ o[d].slot = j
      BY <1>1, <3>1 DEF Owners
    <3>3. d # c
      BY <1>2, <2>2, <3>2
    <3>4. QED
      BY <1>2, <3>2, <3>3
  <2>3. QED
    BY <2>1, <2>2
<1>5. World(v, p, q)
  <2>1. Owners(v, p)
    BY <1>4 DEF Owners
  <2>2. \A d \in Conns : ConnOK(v, p[d], q[d], d) /\ Answers(p[d], q[d], d)
    BY <1>2, <1>3
  <2>3. QED
    BY <1>2, <2>1, <2>2 DEF World
<1>6. ASSUME NEW ev, EventOK(ev, u, o, k), ev.slot # i PROVE EventOK(ev, v, p, q)
  <2>1. /\ ev \in Events /\ ev.seq = u.seq[ev.slot] /\ u.poller[ev.slot] # Nobody
        /\ \A d \in Conns : u.poller[ev.slot] = d => Raised(ev, o[d], k[d])
    BY <1>6 DEF EventOK
  <2>2. ev.slot \in Slots \ {i}
    BY <1>6, <2>1 DEF Events
  <2>3. v.seq[ev.slot] = u.seq[ev.slot] /\ v.poller[ev.slot] = u.poller[ev.slot]
    BY <1>2, <2>2
  <2>4. ASSUME NEW d \in Conns, u.poller[ev.slot] = d PROVE Raised(ev, p[d], q[d])
    <3>1. o[d].state = "live" /\ o[d].slot = ev.slot
      BY <1>1, <2>2, <2>4 DEF Owners
    <3>2. d # c
      BY <1>2, <2>2, <3>1
    <3>3. QED
      BY <1>2, <2>1, <2>4, <3>2
  <2>5. QED
    BY <2>1, <2>3, <2>4 DEF EventOK
<1>7. QED
  BY <1>5, <1>6

LEMMA OutcomeStep ==
  ASSUME NEW u, NEW o, NEW k, World(u, o, k), NEW c \in Conns, NEW i \in Slots, i # 0,
         u.poller[i] = c, NEW s, NEW b, b.u = u, Outcome(s, i, b, c),
         NEW p, p = [o EXCEPT ![c] = s.o], NEW q, q = [k EXCEPT ![c] = s.k]
  PROVE  Local(u, o, k, s.u, p, q, c, i)
<1>1. /\ s.o \in Objects /\ s.k \in Sockets /\ s.u \in Units
      /\ SlotsOK(s.u) /\ ConnOK(s.u, s.o, s.k, c) /\ Answers(s.o, s.k, c)
      /\ \A j \in Slots \ {i} : s.u.seq[j] = u.seq[j] /\ s.u.poller[j] = u.poller[j]
      /\ s.u.poller[i] = Nobody \/ (s.u.poller[i] = c /\ s.o.slot = i /\ s.o.state = "live")
  BY DEF Outcome
<1>2. o[c].state = "live" => o[c].slot = i
  BY DEF World, Owners
<1>3. /\ p \in [Conns -> Objects] /\ q \in [Conns -> Sockets]
      /\ p[c] = s.o /\ q[c] = s.k
      /\ \A d \in Conns \ {c} : p[d] = o[d] /\ q[d] = k[d]
  BY <1>1 DEF World
<1>4. QED
  BY <1>1, <1>2, <1>3 DEF Local

\* What serving an event of connection c does: callback b ends as s.
ServedBy(s, b, c, i) ==
  /\ i \in Slots /\ i # 0 /\ unit.poller[i] = c
  /\ b.u = unit /\ b.k = sock[c] /\ b.o = obj[c]
  /\ Outcome(s, i, b, c)
  /\ After(s, i, b, c, SentNoPacket(b) \/ (b.o.w # <<>> /\ b.k.in # <<>>))
  /\ unit' = s.u /\ obj' = [obj EXCEPT ![c] = s.o] /\ backlog' = backlog
  /\ s.dead => proc' = "dead" /\ sock' = [Ended EXCEPT ![c] = s.k]
  /\ ~s.dead => proc' = proc /\ sock' = [sock EXCEPT ![c] = s.k]

LEMMA RunningWorld ==
  ASSUME IInv, proc = "running"
  PROVE  /\ World(unit, obj, sock) /\ Typed /\ Running
         /\ \A ev \in batch : EventOK(ev, unit, obj, sock)
BY DEF IInv, Typed, Running, World

LEMMA ServeStep ==
  ASSUME IInv, proc = "running", NEW ev \in batch, NEW c \in Conns,
         unit.poller[ev.slot] = c, Serve(ev, c)
  PROVE  \E s, b : ServedBy(s, b, c, ev.slot)
<1> DEFINE i == ev.slot
           o == obj[c]
           k == sock[c]
           e == ev.events
<1>1. World(unit, obj, sock) /\ EventOK(ev, unit, obj, sock)
  BY RunningWorld
<1>2. /\ o \in Objects /\ k \in Sockets /\ unit \in Units /\ SlotsOK(unit)
      /\ ConnOK(unit, o, k, c) /\ Answers(o, k, c)
  BY <1>1 DEF World
<1>3. i \in Slots /\ i # 0
  BY <1>1, <1>2, SlotZero DEF EventOK, Events, SlotsOK
<1>4. o.state = "live" /\ o.slot = i
  BY <1>1, <1>3 DEF World, Owners
<1>5. Raised(ev, o, k)
  BY <1>1 DEF EventOK
<1>6. PICK n \in RecvLengths(c), room \in Rooms(c), fuse \in Fuses(c) :
        \E s \in {Dispatch(Callback([obj[c] EXCEPT !.new = obj[c].old], sock[c], unit, room, fuse),
                           ev.events, n)} :
          /\ unit' = s.u
          /\ obj' = [obj EXCEPT ![c] = s.o]
          /\ IF s.dead THEN proc' = "dead" /\ sock' = [Ended EXCEPT ![c] = s.k]
                       ELSE proc' = proc /\ sock' = [sock EXCEPT ![c] = s.k]
          /\ UNCHANGED backlog
  BY DEF Serve
<1> DEFINE b == Callback([o EXCEPT !.new = o.old], k, unit, room, fuse)
           s == Dispatch(b, e, n)
<1>7. /\ unit' = s.u
      /\ obj' = [obj EXCEPT ![c] = s.o]
      /\ IF s.dead THEN proc' = "dead" /\ sock' = [Ended EXCEPT ![c] = s.k]
                   ELSE proc' = proc /\ sock' = [sock EXCEPT ![c] = s.k]
      /\ backlog' = backlog
  BY <1>6
<1>8. Len(k.in) \in Nat /\ k.peer \in {"open", "closed", "reset"} /\ k.full \in BOOLEAN
      /\ (k.in = <<>> <=> Len(k.in) = 0)
  BY <1>2, EmptyLen DEF Sockets
<1>9. n \in 0..Len(k.in) /\ (n = 0 => k.peer = "reset" \/ k.in = <<>>)
  BY <1>8 DEF RecvLengths
<1>10. room \in Nat
  BY <1>8, ReactorAssumption DEF Rooms
<1>11. fuse \in Int /\ (k.peer = "open" => fuse < 0)
  BY <1>8 DEF Fuses, Never
<1> HIDE DEF s
<1>12. Standing(b, i, b, c) /\ b.o = o /\ b.k = k /\ b.u = unit /\ b.stage = "idle"
  BY <1>2, <1>4, <1>10, <1>11, CallBegins
<1> HIDE DEF b
<1>13. /\ "hup" \in e => k.peer # "open"
       /\ "in" \in e => (n = 0 => k.peer # "open")
       /\ "out" \in e => o.w # <<>>
  BY <1>5, <1>9 DEF Raised
<1> DEFINE reason == SentNoPacket(b) \/ (b.o.w # <<>> /\ b.k.in # <<>>)
<1>14. After(s, i, b, c, reason)
  <2>1. b.u \in Units /\ b.u.poller[i] # Nobody /\ n \in 0..Len(b.k.in)
    BY <1>2, <1>9, <1>12, SlotZero
  <2>2. /\ "hup" \in e => b.k.peer # "open"
        /\ "in" \in e => (n = 0 => b.k.peer # "open")
        /\ "out" \in e => b.o.w # <<>>
    BY <1>12, <1>13
  <2>3. After(Dispatch(b, e, n), i, b, c, reason)
    <3> HIDE DEF e, i
    <3>1. QED
      BY <1>12, <2>1, <2>2, DispatchAfter
  <2>4. QED
    BY <2>3 DEF s
<1> HIDE DEF reason
<1>15. Outcome(s, i, b, c)
  BY <1>2, <1>3, <1>12, <1>14, StandingOutcome, FinishedOutcome DEF After
<1>16. ServedBy(s, b, c, i)
  BY <1>3, <1>7, <1>12, <1>14, <1>15 DEF ServedBy, reason
<1>17. QED
  BY <1>16

\* The other events stay good.
LEMMA OtherEvents ==
  ASSUME NEW ev \in batch, OnePerSlot(batch)
  PROVE  OnePerSlot(batch \ {ev}) /\ \A e \in batch \ {ev} : e.slot # ev.slot
BY DEF OnePerSlot

\* A process that has ended.
LEMMA EndedKeeps ==
  ASSUME Typed, NEW c \in Conns
  PROVE  /\ Ended \in [Conns -> Sockets]
         /\ Ended[c].sent = sock[c].sent /\ Ended[c].got = sock[c].got
         /\ Ended[c].peer = sock[c].peer
<1>1. ASSUME NEW d \in Conns
      PROVE  /\ Ended[d] \in Sockets /\ Ended[d].sent = sock[d].sent
             /\ Ended[d].got = sock[d].got /\ Ended[d].peer = sock[d].peer
  <2> DEFINE x == [sock[d] EXCEPT !.fd = "closed", !.reg = NoReg, !.in = <<>>]
  <2>1. sock[d] \in Sockets
    BY DEF Typed
  <2>2. <<>> \in Seq(PieceSet) /\ NoReg \in Registrations
    BY DEF NoReg, Registrations, Interests
  <2>3. /\ x \in Sockets /\ x.sent = sock[d].sent /\ x.got = sock[d].got
        /\ x.peer = sock[d].peer
    BY <2>1, <2>2 DEF Sockets
  <2>4. Ended[d] = x \/ Ended[d] = sock[d]
    BY DEF Ended
  <2> HIDE DEF x
  <2>5. QED
    BY <2>1, <2>3, <2>4
<1>2. Ended = [d \in Conns |-> Ended[d]]
  BY DEF Ended
<1>3. QED
  BY <1>1, <1>2

LEMMA ServeInv ==
  ASSUME IInv, proc = "running", NEW ev \in batch, NEW c \in Conns,
         unit.poller[ev.slot] = c, Serve(ev, c),
         batch' = IF proc' = "dead" THEN {} ELSE batch \ {ev}
  PROVE  IInv'
<1> DEFINE i == ev.slot
<1>1. PICK s, b : ServedBy(s, b, c, i)
  BY ServeStep
<1>2. /\ World(unit, obj, sock) /\ Typed /\ Running
      /\ \A e \in batch : EventOK(e, unit, obj, sock)
  BY RunningWorld
<1>3. Outcome(s, i, b, c) /\ s.o \in Objects /\ s.k \in Sockets /\ s.u \in Units
  BY <1>1 DEF ServedBy, Outcome
<1>4. CASE s.dead
  <2>1. /\ unit' = s.u /\ obj' = [obj EXCEPT ![c] = s.o] /\ backlog' = backlog
        /\ proc' = "dead" /\ sock' = [Ended EXCEPT ![c] = s.k] /\ batch' = {}
    BY <1>1, <1>4 DEF ServedBy
  <2>2. Ended \in [Conns -> Sockets] /\ obj \in [Conns -> Objects]
    BY <1>2, EndedKeeps DEF Typed
  <2>3. Typed'
    BY <1>2, <1>3, <2>1, <2>2 DEF Typed
  <2>4. ASSUME NEW d \in Conns PROVE Answers(obj'[d], sock'[d], d)
    <3>1. CASE d = c
      <4>1. obj'[d] = s.o /\ sock'[d] = s.k
        BY <2>1, <2>2, <3>1
      <4>2. QED
        BY <1>3, <3>1, <4>1 DEF Outcome
    <3>2. CASE d # c
      <4>1. obj'[d] = obj[d] /\ sock'[d] = Ended[d]
        BY <2>1, <2>2, <3>2
      <4>2. Answers(obj[d], sock[d], d)
        BY <1>2 DEF World
      <4>3. Ended[d].sent = sock[d].sent /\ Ended[d].got = sock[d].got
        BY <1>2, EndedKeeps
      <4>4. QED
        BY <4>1, <4>2, <4>3 DEF Answers
    <3>3. QED
      BY <3>1, <3>2
  <2>5. sock'[c].peer # "open"
    <3>1. sock'[c] = s.k
      BY <2>1, <2>2
    <3>2. s.k.peer # "open"
      BY <1>3, <1>4 DEF Outcome
    <3>3. QED
      BY <3>1, <3>2
  <2>6. SlotsOK(unit')
    BY <1>3, <2>1 DEF Outcome
  <2>7. QED
    BY <2>1, <2>3, <2>4, <2>5, <2>6 DEF IInv
<1>5. CASE ~s.dead
  <2>1. /\ unit' = s.u /\ obj' = [obj EXCEPT ![c] = s.o] /\ backlog' = backlog
        /\ proc' = "running" /\ sock' = [sock EXCEPT ![c] = s.k] /\ batch' = batch \ {ev}
    BY <1>1, <1>5 DEF ServedBy
  <2>2. Local(unit, obj, sock, s.u, obj', sock', c, i)
    <3>1. i \in Slots /\ i # 0 /\ unit.poller[i] = c /\ b.u = unit
      BY <1>1 DEF ServedBy
    <3>2. obj' = [obj EXCEPT ![c] = s.o] /\ sock' = [sock EXCEPT ![c] = s.k]
      BY <2>1
    <3>3. World(unit, obj, sock) /\ Outcome(s, i, b, c)
      BY <1>2, <1>3
    <3> HIDE DEF i
    <3>4. QED
      BY <3>1, <3>2, <3>3, OutcomeStep
  <2>3. /\ World(unit', obj', sock')
        /\ \A e : EventOK(e, unit, obj, sock) /\ e.slot # i => EventOK(e, unit', obj', sock')
    <3>1. World(unit, obj, sock) /\ Local(unit, obj, sock, unit', obj', sock', c, i)
      BY <1>2, <2>1, <2>2
    <3> HIDE DEF i
    <3>2. QED
      BY <3>1, WorldStep
  <2>4. \A e \in batch' : EventOK(e, unit', obj', sock')
    BY <1>2, <2>1, <2>3, OtherEvents DEF Running
  <2>5. OnePerSlot(batch')
    BY <1>2, <2>1, OtherEvents DEF Running
  <2>6. BacklogOK(backlog', sock')
    <3>1. ASSUME NEW j \in 1..Len(backlog) PROVE sock'[backlog[j]].fd = "backlog"
      <4>1. sock[backlog[j]].fd = "backlog" /\ backlog[j] \in Conns
        BY <1>2 DEF Running, BacklogOK, Typed
      <4>2. sock[c].fd = "open"
        BY <1>1, <1>2 DEF ServedBy, World, Owners, ConnOK
      <4>3. backlog[j] # c
        BY <4>1, <4>2
      <4>4. QED
        BY <1>2, <2>1, <4>1, <4>3 DEF Typed
    <3>2. QED
      BY <1>2, <2>1, <3>1 DEF Running, BacklogOK
  <2>7. Running' /\ Typed'
    BY <1>2, <2>1, <2>3, <2>4, <2>5, <2>6 DEF Running, World, Typed
  <2>8. QED
    BY <2>1, <2>3, <2>7 DEF IInv, World
<1>6. QED
  BY <1>4, <1>5

-----------------------------------------------------------------------------
(***************************************************************************)
(* Waiting for events, and the peers                                       *)
(***************************************************************************)

LEMMA WaitInv ==
  ASSUME IInv, WaitPollerEvents
  PROVE  IInv'
<1> DEFINE E(c) == [slot |-> sock[c].reg.slot, seq |-> sock[c].reg.seq, events |-> ReadyEvents(c)]
           L == [slot |-> 0, seq |-> 1, events |-> {"in"}]
<1>1. proc = "running" /\ UNCHANGED <<unit, obj, sock, backlog, proc>>
  BY DEF WaitPollerEvents
<1>2. World(unit, obj, sock) /\ Typed /\ Running
  BY <1>1, RunningWorld
<1>3. \A e \in batch' : e = L \/ \E c \in Conns : ReadyEvents(c) # {} /\ e = E(c)
  BY DEF WaitPollerEvents
<1>4. unit.poller[0] = Listener /\ unit.seq[0] = 1
  BY <1>2 DEF World, SlotsOK
<1>5. L.slot = 0 /\ EventOK(L, unit, obj, sock)
  <2>1. L \in Events /\ L.slot = 0 /\ L.seq = 1
    BY SlotZero DEF Events
  <2> HIDE DEF L
  <2>2. QED
    BY <1>4, <2>1, SlotZero DEF EventOK
<1>6. ASSUME NEW c \in Conns, ReadyEvents(c) # {}
      PROVE  E(c).slot \in Slots /\ unit.poller[E(c).slot] = c /\ EventOK(E(c), unit, obj, sock)
  <2> DEFINE e == E(c)
             i == obj[c].slot
  <2>1. ConnOK(unit, obj[c], sock[c], c)
    BY <1>2 DEF World
  <2>2. sock[c].reg # NoReg
    BY <1>6 DEF ReadyEvents
  <2>3. Serving(unit, obj[c], sock[c], c)
    BY <2>1, <2>2 DEF ConnOK
  <2>4. i \in Slots /\ unit.poller[i] = c /\ sock[c].reg = [slot |-> i, seq |-> unit.seq[i], events |-> obj[c].old]
        /\ obj[c].old = Wanted(obj[c].w)
    BY <2>3 DEF Serving
  <2> HIDE DEF i
  <2>5. e.slot = i /\ e.seq = unit.seq[i] /\ e.events = ReadyEvents(c)
    BY <2>4
  <2>6. unit.seq[i] \in Nat
    BY <1>2, <2>4, UnitTypes DEF World
  <2>7. ReadyEvents(c) \subseteq {"in", "out", "hup"}
    BY DEF ReadyEvents
  <2>8. e \in Events
    BY <2>4, <2>5, <2>6, <2>7 DEF Events
  <2>9. Raised(e, obj[c], sock[c])
    <3>1. "hup" \in ReadyEvents(c) => sock[c].peer # "open"
      BY DEF ReadyEvents
    <3>2. "in" \in ReadyEvents(c) => sock[c].in # <<>> \/ sock[c].peer # "open"
      BY DEF ReadyEvents
    <3>3. "out" \in ReadyEvents(c) => "out" \in obj[c].old
      BY <2>4 DEF ReadyEvents
    <3>4. "out" \in obj[c].old => obj[c].w # <<>>
      BY <2>4, WantedTypes
    <3> HIDE DEF e
    <3>5. QED
      BY <2>5, <3>1, <3>2, <3>3, <3>4 DEF Raised
  <2> HIDE DEF e
  <2>10. EventOK(e, unit, obj, sock)
    BY <2>4, <2>5, <2>8, <2>9, SlotZero DEF EventOK
  <2>11. QED
    BY <2>4, <2>5, <2>10 DEF e
<1> HIDE DEF E, L
<1>7. \A e \in batch' : EventOK(e, unit, obj, sock)
  BY <1>3, <1>5, <1>6
<1>8. OnePerSlot(batch')
  <2>1. ASSUME NEW e \in batch', NEW f \in batch', e.slot = f.slot PROVE e = f
    BY <1>3, <1>4, <1>5, <1>6, <2>1, SlotZero
  <2>2. QED
    BY <2>1 DEF OnePerSlot
<1>9. Running' /\ Typed'
  BY <1>1, <1>2, <1>7, <1>8 DEF Running, Typed
<1>10. QED
  BY <1>1, <1>2, <1>9 DEF IInv, World

\* A step of the peer of c that leaves the process running as it is.
LEMMA PeerInv ==
  ASSUME IInv, proc = "running", NEW c \in Conns, NEW y \in Sockets, PeerStep(c, y),
         backlog' \in Seq(Conns), BacklogOK(backlog', sock'),
         ConnOK(unit, obj[c], y, c), Answers(obj[c], y, c),
         sock[c].peer # "open" => y.peer # "open",
         sock[c].in # <<>> => y.in # <<>> \/ y.peer # "open"
  PROVE  IInv'
<1>1. World(unit, obj, sock) /\ Typed /\ Running /\ \A ev \in batch : EventOK(ev, unit, obj, sock)
  BY RunningWorld
<1>2. /\ sock' = [sock EXCEPT ![c] = y]
      /\ unit' = unit /\ obj' = obj /\ batch' = batch /\ proc' = proc
  BY DEF PeerStep
<1>3. sock' \in [Conns -> Sockets] /\ sock'[c] = y /\ \A d \in Conns \ {c} : sock'[d] = sock[d]
  BY <1>1, <1>2 DEF Typed
<1>4. Typed'
  BY <1>1, <1>2, <1>3 DEF Typed
<1>5. \A d \in Conns : ConnOK(unit, obj[d], sock'[d], d) /\ Answers(obj[d], sock'[d], d)
  BY <1>1, <1>3 DEF World
<1>6. ASSUME NEW ev \in batch PROVE EventOK(ev, unit, obj, sock')
  <2>1. EventOK(ev, unit, obj, sock)
    BY <1>1
  <2>2. ASSUME NEW d \in Conns, Raised(ev, obj[d], sock[d]) PROVE Raised(ev, obj[d], sock'[d])
    BY <1>3, <2>2 DEF Raised
  <2>3. QED
    BY <2>1, <2>2 DEF EventOK
<1>7. Running'
  BY <1>1, <1>2, <1>5, <1>6 DEF Running
<1>8. QED
  BY <1>1, <1>2, <1>4, <1>5, <1>7 DEF IInv, World

\* The pieces of a packet: only the last one ends it.
ArePieces(q, c, n, kind) ==
  /\ q \in Seq(PieceSet) /\ Len(q) \in 1..2
  /\ \A j \in 1..Len(q) : q[j].n = n /\ q[j].conn = c /\ q[j].kind = kind
  /\ \A j \in 1..Len(q) : Ends(q[j]) <=> j = Len(q)

LEMMA PiecesAre ==
  ASSUME NEW c \in Conns, NEW n \in Nat, NEW kind \in Kinds
  PROVE  ArePieces(Pieces(c, n, kind), c, n, kind)
<1> DEFINE q == Pieces(c, n, kind)
           m == IF kind \in {"bad", "policy"} THEN 1 ELSE 2
           P(j) == [n |-> n, conn |-> c, kind |-> kind, last |-> (j = 2)]
<1>1. m \in 1..2
  OBVIOUS
<1>2. q = [j \in 1..m |-> P(j)]
  BY DEF Pieces
<1>3. ASSUME NEW j \in 1..m
      PROVE  /\ P(j) \in PieceSet /\ P(j).n = n /\ P(j).conn = c /\ P(j).kind = kind
             /\ P(j).last <=> j = 2
  <2>1. (j = 2) \in BOOLEAN
    OBVIOUS
  <2>2. QED
    BY <2>1 DEF PieceSet
<1> HIDE DEF P, q
<1>4. q \in Seq(PieceSet) /\ Len(q) = m /\ \A j \in 1..m : q[j] = P(j)
  <2>1. q \in [1..m -> PieceSet]
    BY <1>2, <1>3
  <2>2. m \in Nat
    BY <1>1
  <2> HIDE DEF m
  <2>3. QED
    BY <1>2, <2>1, <2>2
<1>5. ASSUME NEW j \in 1..m PROVE Ends(P(j)) <=> j = m
  BY <1>3 DEF Ends, CheckHead
<1> HIDE DEF m
<1>6. QED
  BY <1>1, <1>3, <1>4, <1>5 DEF q, ArePieces

\* With one more packet a stream is a stream, and the same packet is expected.
LEMMA StreamGrows ==
  ASSUME NEW k \in Sockets, NEW c \in Conns, Stream(k, c), NEW kind \in Kinds, NEW l \in Sockets,
         l.sent = Append(k.sent, kind), l.in = k.in \o Pieces(c, Len(k.sent) + 1, kind)
  PROVE  Stream(l, c) /\ Expected(l) = Expected(k) /\ l.in # <<>>
<1> DEFINE n == Len(k.sent) + 1
           q == Pieces(c, n, kind)
           a == k.in
           z == l.in
           la == Len(a)
           lq == Len(q)
           lz == Len(z)
<1>1. k.sent \in Seq(Kinds) /\ Len(k.sent) \in Nat /\ a \in Seq(PieceSet) /\ la \in Nat
      /\ (a = <<>> <=> la = 0) /\ n \in Nat
  BY SocketTypes, EmptyLen
<1>2. /\ q \in Seq(PieceSet) /\ lq \in 1..2
      /\ \A j \in 1..lq : q[j].n = n /\ q[j].conn = c /\ q[j].kind = kind
      /\ \A j \in 1..lq : Ends(q[j]) <=> j = lq
  <2> HIDE DEF n
  <2>1. ArePieces(q, c, n, kind)
    BY <1>1, PiecesAre
  <2> HIDE DEF q
  <2>2. QED
    BY <2>1 DEF ArePieces
<1>3. z = a \o q
  OBVIOUS
<1> HIDE DEF q
<1>4. /\ z \in Seq(PieceSet) /\ lz = la + lq
      /\ \A j \in 1..la : z[j] = a[j]
      /\ \A j \in 1..lq : z[la + j] = q[j]
  <2> HIDE DEF a, z
  <2>1. QED
    BY <1>1, <1>2, <1>3, Concat
<1>5. /\ l.sent = Append(k.sent, kind) /\ Len(l.sent) = n /\ l.sent[n] = kind
      /\ \A j \in 1..Len(k.sent) : l.sent[j] = k.sent[j]
  BY <1>1
<1>6. /\ \A j \in 1..la : Piece(a[j], k.sent, c)
      /\ \A j \in 1..la : j < la => a[j + 1].n = NextOf(a[j])
      /\ a # <<>> => NextOf(a[la]) = n
  BY DEF Stream
<1>7. n = Len(k.sent) + 1
  OBVIOUS
<1>8. (a = <<>> => Expected(k) = n) /\ (a # <<>> => Expected(k) = a[1].n)
  BY DEF Expected
<1> HIDE DEF a, n, la, lq, lz, z
<1>9. ASSUME NEW j \in 1..lz
      PROVE  j \in 1..la \/ (j - la \in 1..lq /\ z[j] = q[j - la])
  <2> DEFINE h == j - la
  <2>1. j \in 1..la \/ (h \in 1..lq /\ la + h = j)
    BY <1>1, <1>2, <1>4
  <2> HIDE DEF h
  <2>2. j \in 1..la \/ (h \in 1..lq /\ z[j] = q[h])
    BY <1>4, <2>1
  <2>3. QED
    BY <2>2 DEF h
<1>10. ASSUME NEW x, Piece(x, k.sent, c) PROVE Piece(x, l.sent, c)
  BY <1>1, <1>5, <1>7, <1>10 DEF Piece
<1>11. ASSUME NEW j \in 1..lq PROVE Piece(q[j], l.sent, c)
  <2>1. q[j] \in PieceSet
    BY <1>2 DEF lq
  <2>2. n \in 1..Len(l.sent)
    BY <1>1, <1>5, <1>7
  <2>3. QED
    BY <1>2, <1>5, <2>1, <2>2 DEF Piece
<1>12. ASSUME NEW j \in 1..lz PROVE Piece(z[j], l.sent, c)
  <2>1. CASE j \in 1..la
    BY <1>4, <1>6, <1>10, <2>1
  <2>2. CASE j \notin 1..la
    BY <1>9, <1>11, <2>2
  <2>3. QED
    BY <2>1, <2>2
<1>13. ASSUME NEW j \in 1..lz, j < lz PROVE z[j + 1].n = NextOf(z[j])
  <2>1. CASE j < la
    <3>1. j \in 1..la /\ j + 1 \in 1..la
      BY <1>1, <2>1
    <3>2. QED
      BY <1>4, <1>6, <2>1, <3>1
  <2>2. CASE j = la
    <3>1. a # <<>> /\ la \in 1..la /\ 1 \in 1..lq
      BY <1>1, <1>2, <2>2
    <3>2. z[la + 1] = q[1] /\ z[la] = a[la]
      BY <1>4, <3>1
    <3>3. QED
      BY <1>2, <1>6, <2>2, <3>1, <3>2
  <2>3. CASE j > la
    <3> DEFINE h == j - la
               g == h + 1
    <3>1. h \in 1..lq /\ g \in 1..lq /\ h # lq /\ la + h = j /\ la + g = j + 1
      BY <1>1, <1>2, <1>4, <1>13, <2>3
    <3> HIDE DEF h, g
    <3>2. z[j] = q[h] /\ z[j + 1] = q[g]
      BY <1>4, <3>1
    <3>3. ~Ends(q[h]) /\ q[h].n = n /\ q[g].n = n
      BY <1>2, <3>1
    <3>4. QED
      BY <3>2, <3>3 DEF NextOf
  <2>4. j < la \/ j = la \/ j > la
    BY <1>1, <1>2, <1>4
  <2>5. QED
    BY <2>1, <2>2, <2>3, <2>4
<1>14. z # <<>> /\ NextOf(z[lz]) = n + 1
  <2>1. lz \in 1..lz /\ lq \in 1..lq /\ la + lq = lz /\ lz # 0
    BY <1>1, <1>2, <1>4
  <2>2. z[lz] = q[lq]
    BY <1>4, <2>1
  <2>3. Ends(q[lq]) /\ q[lq].n = n
    BY <1>2, <2>1
  <2>4. z # <<>>
    <3> HIDE DEF z
    <3>1. QED
      BY <1>4, <2>1, EmptyLen DEF lz
  <2>5. QED
    BY <2>2, <2>3, <2>4 DEF NextOf
<1>15. z[1].n = Expected(k)
  <2>1. CASE a = <<>>
    <3>1. la = 0 /\ 1 \in 1..lq
      BY <1>1, <1>2, <2>1
    <3>2. z[1] = q[1] /\ q[1].n = n
      <4>1. z[la + 1] = q[1]
        BY <1>4, <3>1
      <4>2. la + 1 = 1
        BY <3>1
      <4>3. QED
        BY <1>2, <3>1, <4>1, <4>2
    <3>3. QED
      BY <1>8, <2>1, <3>2
  <2>2. CASE a # <<>>
    <3>1. 1 \in 1..la
      BY <1>1, <2>2
    <3>2. QED
      BY <1>4, <1>8, <2>2, <3>1
  <2>3. QED
    BY <2>1, <2>2
<1>16. Stream(l, c)
  BY <1>5, <1>12, <1>13, <1>14 DEF Stream, lz, z
<1>17. QED
  BY <1>14, <1>15, <1>16 DEF Expected, z

LEMMA ConnectInv ==
  ASSUME IInv, NEW c \in Conns, PeerConnect(c)
  PROVE  IInv'
<1> DEFINE y == [sock[c] EXCEPT !.fd = "backlog"]
           q == backlog'
           n == Len(backlog)
<1>1. /\ proc = "running" /\ sock[c].fd = "none" /\ PeerStep(c, y) /\ q = Append(backlog, c)
      /\ sock' = [sock EXCEPT ![c] = y]
  BY DEF PeerConnect, PeerStep
<1>2. World(unit, obj, sock) /\ Typed /\ Running
  BY <1>1, RunningWorld
<1>3. ConnOK(unit, obj[c], sock[c], c) /\ Answers(obj[c], sock[c], c) /\ sock[c] \in Sockets
  BY <1>2 DEF World
<1>4. /\ y \in Sockets /\ y.fd = "backlog" /\ y.peer = sock[c].peer /\ y.in = sock[c].in
      /\ y.reg = sock[c].reg /\ y.sent = sock[c].sent /\ y.got = sock[c].got
  BY <1>3 DEF Sockets
<1> HIDE DEF y
<1>5. obj[c].state = "none"
  <2>1. obj[c].state \in {"none", "live", "deleted"}
    BY <1>2 DEF World, Objects
  <2>2. QED
    BY <1>1, <1>3, <2>1 DEF ConnOK
<1>6. ConnOK(unit, obj[c], y, c) /\ Answers(obj[c], y, c)
  BY <1>3, <1>4, <1>5 DEF ConnOK, Answers, Stream
<1>7. /\ q \in Seq(Conns) /\ Len(q) = n + 1 /\ n \in Nat /\ q[n + 1] = c
      /\ \A j \in 1..n : q[j] = backlog[j] /\ backlog[j] \in Conns
  <2>1. backlog \in Seq(Conns) /\ n \in Nat
    BY <1>2, EmptyLen DEF Typed
  <2> HIDE DEF q
  <2>2. QED
    BY <1>1, <2>1
<1>8. \A j \in 1..n : sock[q[j]].fd = "backlog" /\ q[j] # c
  BY <1>1, <1>2, <1>7 DEF Running, BacklogOK
<1> HIDE DEF q, n
<1>9. \A j \in 1..Len(q) : j \in 1..n \/ j = n + 1
  BY <1>7
<1>10. BacklogOK(q, sock')
  <2>1. ASSUME NEW j \in 1..Len(q) PROVE sock'[q[j]].fd = "backlog"
    <3>1. CASE q[j] = c
      BY <1>1, <1>2, <1>4, <3>1 DEF Typed
    <3>2. CASE q[j] # c
      <4>1. j \in 1..n
        BY <1>7, <1>9, <3>2
      <4>2. q[j] \in Conns
        BY <1>7, <4>1
      <4>3. QED
        BY <1>1, <1>2, <1>8, <3>2, <4>1, <4>2 DEF Typed
    <3>3. QED
      BY <3>1, <3>2
  <2>2. ASSUME NEW i \in 1..Len(q), NEW j \in 1..Len(q), q[i] = q[j] PROVE i = j
    <3>1. CASE i \in 1..n /\ j \in 1..n
      <4>1. backlog[i] = backlog[j]
        BY <1>7, <2>2, <3>1
      <4>2. \A g, h \in 1..n : backlog[g] = backlog[h] => g = h
        BY <1>2 DEF Running, BacklogOK, n
      <4>3. QED
        BY <3>1, <4>1, <4>2
    <3>2. CASE ~(i \in 1..n /\ j \in 1..n)
      BY <1>7, <1>8, <1>9, <2>2, <3>2
    <3>3. QED
      BY <3>1, <3>2
  <2>3. QED
    BY <2>1, <2>2 DEF BacklogOK
<1>11. QED
  BY <1>1, <1>4, <1>6, <1>7, <1>10, PeerInv DEF q

LEMMA SendInv ==
  ASSUME IInv, NEW c \in Conns, PeerSend(c)
  PROVE  IInv'
<1> DEFINE k == sock[c]
<1>1. PICK kind \in Kinds :
        PeerStep(c, [k EXCEPT !.sent = Append(k.sent, kind),
                              !.in = k.in \o Pieces(c, Len(k.sent) + 1, kind)])
  BY DEF PeerSend
<1> DEFINE a == Append(k.sent, kind)
           z == k.in \o Pieces(c, Len(k.sent) + 1, kind)
           y == [k EXCEPT !.sent = a, !.in = z]
<1>2. proc = "running" /\ backlog' = backlog /\ k.peer = "open" /\ k.fd \in {"backlog", "open", "lost"}
      /\ PeerStep(c, y) /\ sock' = [sock EXCEPT ![c] = y]
  BY <1>1 DEF PeerSend, PeerStep, Connected
<1>3. World(unit, obj, sock) /\ Typed /\ Running
  BY <1>2, RunningWorld
<1>4. ConnOK(unit, obj[c], k, c) /\ Answers(obj[c], k, c) /\ k \in Sockets
  BY <1>3 DEF World
<1>5. k.sent \in Seq(Kinds) /\ Len(k.sent) \in Nat /\ k.in \in Seq(PieceSet)
  BY <1>4, SocketTypes, EmptyLen
<1>6. /\ a \in Seq(Kinds) /\ Len(a) = Len(k.sent) + 1
      /\ \A j \in 1..Len(k.sent) : a[j] = k.sent[j]
  BY <1>5
<1>7. z \in Seq(PieceSet)
  <2> DEFINE n == Len(k.sent) + 1
             p == Pieces(c, n, kind)
  <2>1. n \in Nat
    BY <1>5
  <2> HIDE DEF n
  <2>2. p \in Seq(PieceSet)
    BY <2>1, PiecesAre DEF ArePieces
  <2>3. z = k.in \o p
    BY DEF n
  <2> HIDE DEF p, z
  <2>4. QED
    BY <1>5, <2>2, <2>3, Concat
<1> HIDE DEF a, z
<1>8. /\ y \in Sockets /\ y.fd = k.fd /\ y.peer = "open" /\ y.in = z /\ y.reg = k.reg
      /\ y.sent = a /\ y.got = k.got
  BY <1>2, <1>4, <1>6, <1>7 DEF Sockets
<1> HIDE DEF y
<1>9. Stream(y, c) /\ Expected(y) = Expected(k) /\ y.in # <<>>
  <2>1. Stream(k, c) /\ y.sent = Append(k.sent, kind)
        /\ y.in = k.in \o Pieces(c, Len(k.sent) + 1, kind)
    BY <1>4, <1>8 DEF ConnOK, a, z
  <2> HIDE DEF k
  <2>2. QED
    BY <1>4, <1>8, <2>1, StreamGrows
<1>10. "big" \notin ToSet(a) => "big" \notin ToSet(k.sent)
  <2>1. ToSet(k.sent) \subseteq ToSet(a)
    <3>1. ASSUME NEW x \in ToSet(k.sent) PROVE x \in ToSet(a)
      <4>1. PICK j \in 1..Len(k.sent) : k.sent[j] = x
        BY <1>5, ElementsOf
      <4>2. j \in 1..Len(a) /\ a[j] = x
        BY <1>5, <1>6, <4>1
      <4>3. QED
        BY <1>6, <4>2, ElementsOf
    <3>2. QED
      BY <3>1
  <2>2. QED
    BY <2>1
<1>11. Answers(obj[c], y, c)
  <2> DEFINE lw == Len(obj[c].w)
             ls == Len(k.sent)
             la == Len(a)
  <2>1. lw \in Nat
    BY <1>3, ObjectTypes, EmptyLen DEF World
  <2>2. lw <= 3 * ls /\ la = ls + 1 /\ ls \in Nat
    BY <1>4, <1>5, <1>6 DEF Answers
  <2> HIDE DEF lw, ls, la
  <2>3. lw <= 3 * la
    BY <2>1, <2>2
  <2>4. "big" \notin ToSet(y.sent) => Ordered(y.got \o obj[c].w, c)
    BY <1>4, <1>8, <1>10 DEF Answers
  <2>5. QED
    BY <1>8, <2>3, <2>4 DEF Answers, lw, la
<1>12. ConnOK(unit, obj[c], y, c)
  <2>1. ASSUME obj[c].state = "live" PROVE Serving(unit, obj[c], y, c)
    <3>1. Serving(unit, obj[c], k, c)
      BY <1>4, <2>1 DEF ConnOK
    <3>2. QED
      BY <1>8, <1>9, <1>10, <3>1 DEF Serving
  <2>2. QED
    BY <1>4, <1>8, <1>9, <2>1 DEF ConnOK
<1>13. BacklogOK(backlog', sock') /\ backlog' \in Seq(Conns)
  <2>1. \A d \in Conns : sock'[d].fd = sock[d].fd
    BY <1>2, <1>3, <1>8 DEF Typed
  <2>2. \A j \in 1..Len(backlog) : backlog[j] \in Conns
    BY <1>3 DEF Typed
  <2>3. QED
    BY <1>2, <1>3, <2>1, <2>2 DEF Running, BacklogOK, Typed
<1>14. QED
  BY <1>2, <1>8, <1>9, <1>11, <1>12, <1>13, PeerInv

\* The other steps of a peer change peer or full only.
LEMMA QuietPeerInv ==
  ASSUME IInv, NEW c \in Conns,
         \/ PeerReads(c)
         \/ PeerCloses(c)
         \/ PeerResets(c)
  PROVE  IInv'
<1> DEFINE k == sock[c]
           R == [k EXCEPT !.full = FALSE]
           C == [k EXCEPT !.peer = "closed"]
           X == [k EXCEPT !.peer = "reset"]
<1>1. PICK y \in {R, C, X} :
        /\ proc = "running" /\ backlog' = backlog /\ PeerStep(c, y)
        /\ sock' = [sock EXCEPT ![c] = y]
  BY DEF PeerReads, PeerCloses, PeerResets, PeerStep
<1>2. World(unit, obj, sock) /\ Typed /\ Running
  BY <1>1, RunningWorld
<1>3. ConnOK(unit, obj[c], k, c) /\ Answers(obj[c], k, c) /\ k \in Sockets
  BY <1>2 DEF World
<1>4. /\ y \in Sockets /\ y.fd = k.fd /\ (k.peer # "open" => y.peer # "open") /\ y.in = k.in
      /\ y.reg = k.reg /\ y.sent = k.sent /\ y.got = k.got
  BY <1>1, <1>3 DEF Sockets
<1> HIDE DEF R, C, X
<1>5. Answers(obj[c], y, c)
  BY <1>3, <1>4 DEF Answers
<1>6. ConnOK(unit, obj[c], y, c)
  BY <1>3, <1>4 DEF ConnOK, Serving, Stream, Expected
<1>7. BacklogOK(backlog', sock') /\ backlog' \in Seq(Conns)
  <2>1. \A d \in Conns : sock'[d].fd = sock[d].fd
    BY <1>1, <1>2, <1>4 DEF Typed
  <2>2. \A j \in 1..Len(backlog) : backlog[j] \in Conns
    BY <1>2 DEF Typed
  <2>3. QED
    BY <1>1, <1>2, <2>1, <2>2 DEF Running, BacklogOK, Typed
<1>8. QED
  BY <1>1, <1>4, <1>5, <1>6, <1>7, PeerInv

-----------------------------------------------------------------------------
(***************************************************************************)
(* Accepting a connection                                                  *)
(***************************************************************************)

LEMMA FirstAndRest ==
  ASSUME NEW S, NEW q \in Seq(S), q # <<>>
  PROVE  /\ Head(q) = q[1] /\ Head(q) \in S /\ Tail(q) \in Seq(S) /\ Len(Tail(q)) = Len(q) - 1
         /\ \A j \in 1..Len(q) - 1 : Tail(q)[j] = q[j + 1]
         /\ <<Head(q)>> \o Tail(q) = q /\ Len(q) \in Nat \ {0}
<1>1. /\ Head(q) = q[1] /\ Head(q) \in S /\ Tail(q) \in Seq(S) /\ Len(Tail(q)) = Len(q) - 1
      /\ \A j \in 1..Len(q) - 1 : Tail(q)[j] = q[j + 1]
      /\ Len(q) \in Nat \ {0}
  OBVIOUS
<1> DEFINE i == Head(q)
           t == Tail(q)
           a == <<i>> \o t
<1> HIDE DEF i, t
<1>2. /\ a \in Seq(S) /\ Len(a) = Len(t) + 1 /\ a[1] = i
      /\ \A j \in 1..Len(t) : a[j + 1] = t[j]
  BY <1>1, ConsSeq DEF i, t
<1> HIDE DEF a
<1>3. ASSUME NEW j \in 1..Len(q) PROVE a[j] = q[j]
  <2> DEFINE h == j - 1
  <2>1. j = 1 \/ (h \in 1..Len(t) /\ h + 1 = j)
    BY <1>1 DEF t
  <2> HIDE DEF h
  <2>2. CASE j = 1
    BY <1>1, <1>2, <2>2 DEF i
  <2>3. CASE h \in 1..Len(t) /\ h + 1 = j
    <3>1. h \in 1..Len(q) - 1 /\ a[h + 1] = t[h]
      BY <1>1, <1>2, <2>3 DEF t
    <3>2. t[h] = q[h + 1]
      BY <1>1, <3>1 DEF t
    <3>3. QED
      BY <2>3, <3>1, <3>2
  <2>4. QED
    BY <2>1, <2>2, <2>3
<1>4. Len(a) = Len(q)
  BY <1>1, <1>2 DEF t
<1>5. a = q
  BY <1>2, <1>3, <1>4, SeqEqual
<1>6. QED
  BY <1>1, <1>5 DEF a, i, t

\* Taking a slot from the free list.
LEMMA SlotsTaken ==
  ASSUME NEW u \in Units, SlotsOK(u), u.free # <<>>, NEW c \in Conns, NEW i, i = Head(u.free)
  PROVE  LET v == AllocEpollSlot(u, c)
         IN  /\ v \in Units /\ SlotsOK(v) /\ i \in Slots /\ i # 0 /\ u.poller[i] = Nobody
             /\ v.poller = [u.poller EXCEPT ![i] = c] /\ v.seq = u.seq
             /\ v.free = Tail(u.free) /\ v.used = u.used + 1
<1> DEFINE q == u.free
           t == Tail(q)
           m == Len(q)
           P == [u.poller EXCEPT ![i] = c]
           v == AllocEpollSlot(u, c)
<1>1. /\ q \in Seq(Slots) /\ u.poller \in [Slots -> Conns \cup {Nobody, Listener}]
      /\ u.used \in Int /\ u.seq \in [Slots -> Nat]
      /\ IsInjective(q) /\ u.used = MaxPollers - m /\ u.poller[0] = Listener /\ u.seq[0] = 1
      /\ \A j \in Slots : (u.poller[j] = Nobody) <=> (j \in ToSet(q))
  BY UnitTypes DEF SlotsOK
<1>2. /\ i = q[1] /\ i \in Slots /\ t \in Seq(Slots) /\ Len(t) = m - 1
      /\ \A j \in 1..m - 1 : t[j] = q[j + 1]
      /\ m \in Nat \ {0}
  <2> HIDE DEF q
  <2>1. q # <<>> /\ i = Head(q)
    BY DEF q
  <2>2. QED
    BY <1>1, <2>1, FirstAndRest
<1>3. /\ \A x : x \in ToSet(q) <=> \E j \in 1..m : q[j] = x
      /\ DOMAIN q = 1..m
  <2> HIDE DEF q
  <2>1. QED
    BY <1>1, ElementsOf
<1>4. DOMAIN q = 1..m
  BY <1>3
<1>5. v = [seq |-> u.seq, poller |-> P, free |-> t, used |-> u.used + 1]
  <2>1. v = [u EXCEPT !.poller = P, !.free = t, !.used = u.used + 1]
    BY DEF AllocEpollSlot
  <2> HIDE DEF P, t, v
  <2>2. QED
    BY <2>1 DEF Units
<1>6. P \in [Slots -> Conns \cup {Nobody, Listener}]
  BY <1>1, <1>2
<1> HIDE DEF q, m, t
<1>7. v \in Units
  <2> HIDE DEF P, v
  <2>1. QED
    BY <1>1, <1>2, <1>5, <1>6 DEF Units
<1>8. i \in ToSet(q)
  BY <1>2, <1>3
<1>9. u.poller[i] = Nobody /\ i # 0
  BY <1>1, <1>2, <1>8, SlotZero
<1>10. /\ \A x : x \in ToSet(t) <=> \E j \in 1..Len(t) : t[j] = x
       /\ DOMAIN t = 1..Len(t)
  BY <1>2, ElementsOf
<1>11. \A g, h \in 1..m : q[g] = q[h] => g = h
  BY <1>1, <1>4 DEF IsInjective
<1>12. ASSUME NEW j \in 1..Len(t) PROVE j + 1 \in 1..m /\ j + 1 # 1 /\ t[j] = q[j + 1]
  BY <1>2
<1>13. IsInjective(t)
  <2>1. ASSUME NEW g \in 1..Len(t), NEW h \in 1..Len(t), t[g] = t[h] PROVE g = h
    <3>1. g + 1 = h + 1
      BY <1>11, <1>12, <2>1
    <3>2. g \in Int /\ h \in Int
      BY <1>2
    <3>3. QED
      BY <3>1, <3>2
  <2>2. QED
    BY <1>10, <2>1 DEF IsInjective
<1>14. ASSUME NEW x PROVE x \in ToSet(t) <=> x \in ToSet(q) /\ x # i
  <2>1. ASSUME x \in ToSet(t) PROVE x \in ToSet(q) /\ x # i
    <3>1. PICK j \in 1..Len(t) : t[j] = x
      BY <1>10, <2>1
    <3>2. 1 \in 1..m
      BY <1>2
    <3>3. j + 1 \in 1..m /\ q[j + 1] = x /\ x # q[1]
      BY <1>11, <1>12, <3>1, <3>2
    <3>4. QED
      BY <1>2, <1>3, <3>3
  <2>2. ASSUME x \in ToSet(q), x # i PROVE x \in ToSet(t)
    <3>1. PICK j \in 1..m : q[j] = x
      BY <1>3, <2>2
    <3> DEFINE h == j - 1
    <3>2. h \in 1..m - 1 /\ h \in 1..Len(t) /\ h + 1 = j
      <4>1. j # 1
        BY <1>2, <2>2, <3>1
      <4>2. QED
        BY <1>2, <4>1
    <3> HIDE DEF h
    <3>3. t[h] = x
      BY <1>2, <3>1, <3>2
    <3>4. QED
      BY <1>10, <3>2, <3>3
  <2>3. QED
    BY <2>1, <2>2
<1>15. ASSUME NEW j \in Slots PROVE (P[j] = Nobody) <=> (j \in ToSet(t))
  BY <1>1, <1>14, SlotZero
<1>16. u.used + 1 = MaxPollers - Len(t)
  BY <1>1, <1>2, ReactorAssumption DEF m
<1>17. P[0] = Listener
  BY <1>1, <1>9, SlotZero
<1> HIDE DEF P, v
<1>18. SlotsOK(v)
  BY <1>1, <1>5, <1>13, <1>15, <1>16, <1>17 DEF SlotsOK
<1>19. QED
  BY <1>2, <1>5, <1>7, <1>9, <1>18 DEF v, P, t, q

\* A handler that is not attached yet.
Fresh(b, u, c) ==
  /\ b \in Calls /\ b.u = u /\ Stream(b.k, c)
  /\ b.o.state = "live" /\ b.o.slot = NoSlot /\ b.o.w = <<>> /\ b.o.new = {"in"}
  /\ b.k.fd = "open" /\ b.k.got = <<>>

LEMMA FreshBegins ==
  ASSUME NEW u \in Units, NEW o \in Objects, NEW k \in Sockets, NEW c \in Conns,
         ConnOK(u, o, k, c), k.fd = "backlog", NEW left \in Packets \cup {NoPacket}
  PROVE  Fresh(Callback([o EXCEPT !.state = "live", !.last = left, !.new = {"in"}],
                        [k EXCEPT !.fd = "open"], u, 0, Never), u, c)
<1> DEFINE x == [o EXCEPT !.state = "live", !.last = left, !.new = {"in"}]
           y == [k EXCEPT !.fd = "open"]
           b == Callback(x, y, u, 0, Never)
<1>1. o.state = "none" /\ o.slot = NoSlot /\ o.w = <<>> /\ k.got = <<>> /\ Stream(k, c)
  BY DEF ConnOK, Objects
<1>2. {"in"} \in Interests
  BY DEF Interests
<1>3. /\ x \in Objects /\ x.state = "live" /\ x.slot = NoSlot /\ x.w = <<>> /\ x.new = {"in"}
  BY <1>1, <1>2 DEF Objects
<1>4. /\ y \in Sockets /\ y.fd = "open" /\ y.got = <<>> /\ y.in = k.in /\ y.sent = k.sent
  BY <1>1 DEF Sockets
<1> HIDE DEF x, y
<1>5. Stream(y, c)
  BY <1>1, <1>4 DEF Stream
<1>6. b \in Calls /\ b.o = x /\ b.k = y /\ b.u = u
  BY <1>3, <1>4 DEF Callback, Calls, Stages, Never
<1> HIDE DEF b
<1>7. Fresh(b, u, c)
  BY <1>3, <1>4, <1>5, <1>6 DEF Fresh
<1>8. QED
  BY <1>7 DEF b, x, y

\* What accepting connection c leaves behind, in a slot i that was nobody's.
Registered(s, u, c, i) ==
  /\ s.o \in Objects /\ s.k \in Sockets /\ s.u \in Units
  /\ SlotsOK(s.u) /\ ConnOK(s.u, s.o, s.k, c) /\ Answers(s.o, s.k, c)
  /\ s.k.fd \in {"open", "closed"}
  /\ i \in Slots => /\ u.poller[i] = Nobody
                    /\ \/ s.u.poller[i] = Nobody
                       \/ s.u.poller[i] = c /\ s.o.slot = i /\ s.o.state = "live"
  /\ \A j \in Slots \ {i} : s.u.seq[j] = u.seq[j] /\ s.u.poller[j] = u.poller[j]

\* A handler without replies answers nothing wrong.
LEMMA NoAnswers ==
  ASSUME NEW k \in Sockets, NEW c, NEW o, o.w = <<>>, k.got = <<>>
  PROVE  Answers(o, k, c)
<1>1. Len(<<>>) = 0 /\ <<>> \in Seq(Replies) /\ Len(k.sent) \in Nat
  BY SocketTypes, EmptyLen
<1>2. k.got \o o.w = <<>>
  <2>1. <<>> \o <<>> = <<>>
    BY <1>1, ConcatEmptySeq
  <2>2. QED
    BY <2>1
<1>3. Ordered(<<>>, c)
  BY <1>1 DEF Ordered
<1>4. QED
  BY <1>1, <1>2, <1>3 DEF Answers

\* A deleted handler without replies.
LEMMA GoneOK ==
  ASSUME NEW t \in Calls, NEW u, NEW c \in Conns,
         t.o.state = "deleted", t.o.slot = NoSlot, t.o.w = <<>>,
         t.k.fd = "closed", t.k.reg = NoReg, t.k.in = <<>>, t.k.got = <<>>
  PROVE  ConnOK(u, t.o, t.k, c) /\ Answers(t.o, t.k, c)
<1>1. Len(<<>>) = 0 /\ t.k \in Sockets
  BY CallTypes
<1>2. Stream(t.k, c)
  BY <1>1 DEF Stream
<1>3. ConnOK(u, t.o, t.k, c)
  BY <1>2 DEF ConnOK
<1>4. QED
  BY <1>1, <1>3, NoAnswers

\* No slot is free.
LEMMA RefusedForSlot ==
  ASSUME NEW u \in Units, SlotsOK(u), NEW c \in Conns, NEW b, Fresh(b, u, c)
  PROVE  Registered(Close(b), u, c, NoSlot)
<1> DEFINE t == Close(b)
<1>1. t = Delete(b) /\ b \in Calls /\ b.o.slot = NoSlot /\ b.u = u /\ b.k.got = <<>>
  BY DEF Close, Fresh
<1> HIDE DEF t
<1>2. /\ t \in Calls
      /\ t.o.state = "deleted" /\ t.o.slot = NoSlot /\ t.o.w = <<>>
      /\ t.k.fd = "closed" /\ t.k.reg = NoReg /\ t.k.in = <<>> /\ t.k.got = <<>>
      /\ t.u = u
  BY <1>1, DeleteDoes
<1>3. ConnOK(t.u, t.o, t.k, c) /\ Answers(t.o, t.k, c)
  BY <1>2, GoneOK
<1>4. Registered(t, u, c, NoSlot)
  BY <1>2, <1>3, CallTypes, SlotZero DEF Registered
<1>5. QED
  BY <1>4 DEF t

\* The handler takes a slot.
Takes(b, t, c) == t = [b EXCEPT !.o.slot = Head(b.u.free), !.u = AllocEpollSlot(@, c)]

LEMMA TakesSlot ==
  ASSUME NEW u \in Units, SlotsOK(u), NEW c \in Conns, NEW b, Fresh(b, u, c),
         u.free # <<>>, NEW i, i = Head(u.free), NEW t, Takes(b, t, c)
  PROVE  /\ t \in Calls /\ t.k = b.k /\ t.u = AllocEpollSlot(u, c)
         /\ t.o.slot = i /\ t.o.state = "live" /\ t.o.w = <<>> /\ t.o.new = {"in"}
<1> DEFINE O == [b.o EXCEPT !.slot = i]
           v == AllocEpollSlot(u, c)
<1>1. b \in Calls /\ b.o \in Objects /\ b.u = u
  BY CallTypes DEF Fresh
<1>2. v \in Units /\ i \in Slots
  BY SlotsTaken
<1>3. /\ O \in Objects /\ O.slot = i /\ O.state = "live" /\ O.w = <<>> /\ O.new = {"in"}
  BY <1>1, <1>2 DEF Objects, Fresh
<1>4. t = [b EXCEPT !.o = O, !.u = v]
  BY <1>1 DEF Takes
<1> HIDE DEF O, v
<1>5. t \in Calls /\ t.k = b.k /\ t.u = v /\ t.o = O
  BY <1>1, <1>2, <1>3, <1>4 DEF Calls
<1>6. QED
  BY <1>3, <1>5 DEF v

\* It is attached.
LEMMA Attached ==
  ASSUME NEW u \in Units, SlotsOK(u), NEW c \in Conns, NEW b, Fresh(b, u, c),
         u.free # <<>>, NEW i, i = Head(u.free), NEW t, Takes(b, t, c)
  PROVE  Registered(Epctl(t), u, c, i)
<1> DEFINE v == AllocEpollSlot(u, c)
           s == Epctl(t)
<1>1. /\ t \in Calls /\ t.k = b.k /\ t.u = v
      /\ t.o.slot = i /\ t.o.state = "live" /\ t.o.w = <<>> /\ t.o.new = {"in"}
  BY TakesSlot
<1>2. /\ v \in Units /\ SlotsOK(v) /\ i \in Slots /\ i # 0 /\ u.poller[i] = Nobody
      /\ v.poller = [u.poller EXCEPT ![i] = c] /\ v.seq = u.seq
  BY SlotsTaken
<1> HIDE DEF v
<1>3. /\ s \in Calls /\ Rest(t, s)
      /\ s.o.old = t.o.new /\ s.o.new = t.o.new
      /\ s.o.state = t.o.state /\ s.o.slot = i
      /\ s.k.fd = t.k.fd /\ s.k.peer = t.k.peer /\ s.k.sent = t.k.sent
      /\ s.k.reg = [slot |-> i, seq |-> s.u.seq[i], events |-> s.o.old]
      /\ s.u.poller = t.u.poller /\ s.u.free = t.u.free /\ s.u.used = t.u.used
      /\ \A j \in Slots \ {i} : s.u.seq[j] = t.u.seq[j]
  BY <1>1, <1>2, EpctlDoes
<1> HIDE DEF s
<1>4. s.o \in Objects /\ s.k \in Sockets /\ s.u \in Units
  BY <1>3, CallTypes
<1>5. /\ s.o.w = <<>> /\ s.o.state = "live" /\ s.o.old = {"in"} /\ s.o.new = {"in"}
      /\ s.k.got = <<>> /\ s.k.in = b.k.in /\ s.k.sent = b.k.sent /\ s.k.fd = "open"
  BY <1>1, <1>3 DEF Rest, Fresh
<1>6. SlotsOK(s.u)
  <2>1. s.u.seq[0] = v.seq[0]
    BY <1>1, <1>2, <1>3, SlotZero
  <2>2. QED
    BY <1>1, <1>2, <1>3, <2>1, SlotsKept
<1>7. Stream(s.k, c)
  BY <1>5 DEF Fresh, Stream
<1>8. u.poller \in [Slots -> Conns \cup {Nobody, Listener}]
  BY UnitTypes
<1>9. s.u.poller[i] = c /\ \A j \in Slots \ {i} : s.u.poller[j] = u.poller[j] /\ s.u.seq[j] = u.seq[j]
  BY <1>1, <1>2, <1>3, <1>8
<1>10. Serving(s.u, s.o, s.k, c)
  <2>1. Len(<<>>) <= 3 * (Expected(s.k) - 1)
    <3> DEFINE e == Expected(s.k)
    <3>1. e \in Nat \ {0} /\ Len(<<>>) = 0
      BY <1>4, <1>7, ExpectedType
    <3> HIDE DEF e
    <3>2. Len(<<>>) <= 3 * (e - 1)
      BY <3>1
    <3>3. QED
      BY <3>2 DEF e
  <2>2. <<>> \o <<>> = <<>>
    <3>1. <<>> \in Seq(Replies)
      OBVIOUS
    <3>2. QED
      BY <3>1, ConcatEmptySeq
  <2>3. EndsBefore(s.k.got \o s.o.w, Expected(s.k), 0)
    BY <1>5, <2>2 DEF EndsBefore
  <2>4. s.o.old = Wanted(s.o.w)
    BY <1>5, WantedTypes
  <2>5. QED
    BY <1>2, <1>3, <1>5, <1>9, <2>1, <2>3, <2>4 DEF Serving
<1>11. ConnOK(s.u, s.o, s.k, c)
  BY <1>5, <1>7, <1>10 DEF ConnOK
<1>12. Answers(s.o, s.k, c)
  BY <1>4, <1>5, NoAnswers
<1>13. Registered(s, u, c, i)
  BY <1>2, <1>3, <1>4, <1>5, <1>6, <1>9, <1>11, <1>12 DEF Registered
<1>14. QED
  BY <1>13 DEF s

\* epoll refuses the descriptor: the slot is given back.
Counted(t, z) == z = [t EXCEPT !.u.seq[t.o.slot] = @ + 1]

LEMMA RefusedByEpoll ==
  ASSUME NEW u \in Units, SlotsOK(u), NEW c \in Conns, NEW b, Fresh(b, u, c),
         u.free # <<>>, NEW i, i = Head(u.free), NEW t, Takes(b, t, c), NEW z, Counted(t, z)
  PROVE  Registered(Close(z), u, c, i)
<1> DEFINE v == AllocEpollSlot(u, c)
           r == Tail(u.free)
           Q == [v.seq EXCEPT ![i] = @ + 1]
           U == [v EXCEPT !.seq = Q]
           s == Close(z)
<1>1. /\ t \in Calls /\ t.k = b.k /\ t.u = v
      /\ t.o.slot = i /\ t.o.state = "live" /\ t.o.w = <<>>
  BY TakesSlot
<1>2. /\ v \in Units /\ i \in Slots /\ i # 0 /\ i # NoSlot /\ u.poller[i] = Nobody
      /\ v.poller = [u.poller EXCEPT ![i] = c] /\ v.seq = u.seq
      /\ v.free = r /\ v.used = u.used + 1
  BY SlotsTaken, SlotZero
<1> HIDE DEF v, r
<1>3. v.seq \in [Slots -> Nat]
  BY <1>2, UnitTypes
<1>4. Q \in [Slots -> Nat] /\ \A j \in Slots \ {i} : Q[j] = u.seq[j]
  BY <1>2, <1>3
<1>5. z = [t EXCEPT !.u = U]
  BY <1>1 DEF Counted
<1> HIDE DEF Q
<1>6. /\ U \in Units /\ U.poller = v.poller /\ U.free = r /\ U.used = u.used + 1 /\ U.seq = Q
  BY <1>2, <1>4 DEF Units
<1> HIDE DEF U
<1>7. z \in Calls /\ z.u = U /\ z.o = t.o /\ z.k = t.k
  BY <1>1, <1>5, <1>6 DEF Calls
<1>8. s = Delete(z)
  BY <1>1, <1>7 DEF Close
<1> HIDE DEF s
<1>9. /\ s \in Calls
      /\ s.o.state = "deleted" /\ s.o.slot = NoSlot /\ s.o.w = <<>>
      /\ s.k.fd = "closed" /\ s.k.reg = NoReg /\ s.k.in = <<>> /\ s.k.got = z.k.got
      /\ s.u.poller = [z.u.poller EXCEPT ![i] = Nobody]
      /\ s.u.free = <<i>> \o z.u.free /\ s.u.used = z.u.used - 1
      /\ \A j \in Slots \ {i} : s.u.seq[j] = z.u.seq[j]
  <2>1. z \in Calls /\ z.o.slot = i /\ i # NoSlot /\ s = Delete(z)
    BY <1>1, <1>2, <1>7, <1>8
  <2>2. QED
    BY <2>1, DeleteDoes
<1>10. s.k.got = <<>>
  BY <1>1, <1>7, <1>9 DEF Fresh
<1>11. ConnOK(s.u, s.o, s.k, c) /\ Answers(s.o, s.k, c)
  BY <1>9, <1>10, GoneOK
<1>12. /\ u.poller \in [Slots -> Conns \cup {Nobody, Listener}] /\ u.free \in Seq(Slots)
       /\ u.used \in Int
  BY UnitTypes
<1>13. s.u.poller = u.poller
  <2> DEFINE P == u.poller
             W == s.u.poller
  <2>1. /\ P \in [Slots -> Conns \cup {Nobody, Listener}] /\ P[i] = Nobody /\ i \in Slots
        /\ W = [[P EXCEPT ![i] = c] EXCEPT ![i] = Nobody]
    BY <1>2, <1>6, <1>7, <1>9, <1>12
  <2> HIDE DEF P, W
  <2>2. W = P
    BY <2>1
  <2>3. QED
    BY <2>2 DEF P, W
<1>14. s.u.free = u.free
  <2>1. <<i>> \o r = u.free
    BY <1>12, FirstAndRest DEF r
  <2>2. QED
    BY <1>6, <1>7, <1>9, <2>1
<1>15. s.u.used = u.used
  BY <1>6, <1>7, <1>9, <1>12
<1>16. \A j \in Slots \ {i} : s.u.seq[j] = u.seq[j]
  BY <1>4, <1>6, <1>7, <1>9
<1>17. SlotsOK(s.u)
  <2>1. s.u.seq[0] = u.seq[0]
    BY <1>2, <1>16, SlotZero
  <2>2. QED
    BY <1>13, <1>14, <1>15, <2>1, SlotsKept
<1>18. Registered(s, u, c, i)
  BY <1>2, <1>9, <1>11, <1>13, <1>16, <1>17, CallTypes DEF Registered
<1>19. QED
  BY <1>18 DEF s

LEMMA RegistClientDoes ==
  ASSUME NEW u \in Units, SlotsOK(u), NEW c \in Conns, NEW b, Fresh(b, u, c),
         NEW added \in BOOLEAN
  PROVE  \E i : Registered(RegistClient(b, c, added), u, c, i)
<1> DEFINE t == [b EXCEPT !.o.slot = Head(b.u.free), !.u = AllocEpollSlot(@, c)]
           z == [t EXCEPT !.u.seq[t.o.slot] = @ + 1]
           s == RegistClient(b, c, added)
<1>1. b.u = u
  BY DEF Fresh
<1>2. Takes(b, t, c) /\ Counted(t, z)
  BY DEF Takes, Counted
<1>3. CASE u.free = <<>>
  <2>1. s = Close(b)
    BY <1>1, <1>3 DEF RegistClient
  <2>2. Registered(Close(b), u, c, NoSlot)
    BY RefusedForSlot
  <2>3. QED
    BY <2>1, <2>2
<1>4. CASE u.free # <<>> /\ added
  <2>1. s = Epctl(t)
    BY <1>1, <1>4 DEF RegistClient, AttachPoller
  <2> HIDE DEF t, s
  <2>2. Registered(Epctl(t), u, c, Head(u.free))
    BY <1>2, <1>4, Attached
  <2>3. Registered(s, u, c, Head(u.free))
    BY <2>1, <2>2
  <2>4. QED
    BY <2>3 DEF s
<1>5. CASE u.free # <<>> /\ ~added
  <2>1. s = Close(z)
    BY <1>1, <1>5 DEF RegistClient, AttachPoller
  <2> HIDE DEF t, z, s
  <2>2. Registered(Close(z), u, c, Head(u.free))
    BY <1>2, <1>5, RefusedByEpoll
  <2>3. Registered(s, u, c, Head(u.free))
    BY <2>1, <2>2
  <2>4. QED
    BY <2>3 DEF s
<1>6. QED
  BY <1>3, <1>4, <1>5

\* The worlds that the loop of proc_request goes through: after j turns only the
\* first j connections of the backlog have changed, and only those that are not
\* served are lost.
Worlds == [u : Units, obj : [Conns -> Objects], sock : [Conns -> Sockets]]

Accepting(w, j, served) ==
  /\ w \in Worlds /\ World(w.u, w.obj, w.sock)
  /\ \A ev \in batch : EventOK(ev, w.u, w.obj, w.sock)
  /\ \A d \in Conns : (\A h \in 1..j : backlog[h] # d) =>
                         w.obj[d] = obj[d] /\ w.sock[d] = sock[d]
  /\ \A d \in Conns : w.sock[d].fd = "lost" =>
                         \/ sock[d].fd = "lost"
                         \/ d \notin served /\ \E h \in 1..Len(backlog) : backlog[h] = d

\* A turn of the loop.
Turn(w, z, c, p, q) ==
  /\ z = [u |-> z.u, obj |-> p, sock |-> q] /\ World(z.u, p, q)
  /\ \A d \in Conns \ {c} : p[d] = w.obj[d] /\ q[d] = w.sock[d]
  /\ \A ev \in batch : EventOK(ev, z.u, p, q)

LEMMA TurnKeeps ==
  ASSUME NEW n \in Nat, n = Len(backlog), NEW j \in 1..n, NEW served,
         NEW w, Accepting(w, j - 1, served),
         NEW c \in Conns, c = backlog[j], NEW z, NEW p, NEW q, Turn(w, z, c, p, q),
         q[c].fd = "lost" => c \notin served
  PROVE  Accepting(z, j, served)
<1>1. z.obj = p /\ z.sock = q /\ z \in Worlds
  <2>1. z = [u |-> z.u, obj |-> p, sock |-> q]
    BY DEF Turn
  <2>2. z.u \in Units /\ p \in [Conns -> Objects] /\ q \in [Conns -> Sockets]
    BY DEF Turn, World
  <2> DEFINE v == z.u
  <2>3. z = [u |-> v, obj |-> p, sock |-> q] /\ v \in Units
    BY <2>1, <2>2
  <2> HIDE DEF v
  <2>4. QED
    BY <2>2, <2>3 DEF Worlds
<1>2. ASSUME NEW d \in Conns, \A h \in 1..j : backlog[h] # d
      PROVE  z.obj[d] = obj[d] /\ z.sock[d] = sock[d]
  <2>1. d # c
    BY <1>2
  <2>2. \A h \in 1..j - 1 : backlog[h] # d
    BY <1>2
  <2>3. w.obj[d] = obj[d] /\ w.sock[d] = sock[d]
    BY <2>2 DEF Accepting
  <2>4. QED
    BY <1>1, <2>1, <2>3 DEF Turn
<1>3. ASSUME NEW d \in Conns, z.sock[d].fd = "lost"
      PROVE  \/ sock[d].fd = "lost"
             \/ d \notin served /\ \E h \in 1..Len(backlog) : backlog[h] = d
  <2>1. CASE d = c
    BY <1>1, <1>3, <2>1
  <2>2. CASE d # c
    <3>1. z.sock[d] = w.sock[d]
      BY <1>1, <2>2 DEF Turn
    <3>2. QED
      BY <1>3, <3>1 DEF Accepting
  <2>3. QED
    BY <2>1, <2>2
<1>4. QED
  BY <1>1, <1>2, <1>3 DEF Accepting, Turn

\* What connection c was before its turn.
LEMMA BeforeTurn ==
  ASSUME IInv, proc = "running", NEW n \in Nat, n = Len(backlog), NEW j \in 1..n, NEW served,
         NEW w, Accepting(w, j - 1, served)
  PROVE  LET c == backlog[j]
         IN  /\ c \in Conns /\ sock[c].fd = "backlog" /\ w.obj[c] = obj[c] /\ w.sock[c] = sock[c]
             /\ w.u \in Units /\ SlotsOK(w.u)
             /\ obj[c] \in Objects /\ sock[c] \in Sockets
             /\ ConnOK(w.u, obj[c], sock[c], c) /\ Answers(obj[c], sock[c], c)
<1> DEFINE c == backlog[j]
<1>1. Typed /\ Running
  BY RunningWorld
<1>2. c \in Conns /\ sock[c].fd = "backlog"
  BY <1>1 DEF Typed, Running, BacklogOK
<1>3. \A h \in 1..n : backlog[h] = backlog[j] => h = j
  BY <1>1 DEF Running, BacklogOK
<1>4. \A h \in 1..j - 1 : h \in 1..n /\ h # j
  OBVIOUS
<1>5. w.obj[c] = obj[c] /\ w.sock[c] = sock[c]
  <2>1. \A h \in 1..j - 1 : backlog[h] # c
    BY <1>3, <1>4
  <2> HIDE DEF c
  <2>2. QED
    BY <1>2, <2>1 DEF Accepting
<1> HIDE DEF c
<1>6. World(w.u, w.obj, w.sock)
  BY DEF Accepting
<1>7. /\ w.u \in Units /\ SlotsOK(w.u) /\ w.obj[c] \in Objects /\ w.sock[c] \in Sockets
      /\ ConnOK(w.u, w.obj[c], w.sock[c], c) /\ Answers(w.obj[c], w.sock[c], c)
  BY <1>2, <1>6 DEF World
<1>8. QED
  BY <1>2, <1>5, <1>7 DEF c

LEMMA LostTurn ==
  ASSUME IInv, proc = "running", NEW n \in Nat, n = Len(backlog), NEW j \in 1..n, NEW served,
         NEW w, Accepting(w, j - 1, served), NEW c, c = backlog[j], c \notin served
  PROVE  Accepting([w EXCEPT !.sock[c].fd = "lost"], j, served)
<1> DEFINE k == sock[c]
           y == [k EXCEPT !.fd = "lost"]
           p == w.obj
           q == [w.sock EXCEPT ![c] = y]
           z == [w EXCEPT !.sock[c].fd = "lost"]
<1>1. /\ c \in Conns /\ k.fd = "backlog" /\ w.obj[c] = obj[c] /\ w.sock[c] = k
      /\ w.u \in Units /\ SlotsOK(w.u)
      /\ obj[c] \in Objects /\ k \in Sockets
      /\ ConnOK(w.u, obj[c], k, c) /\ Answers(obj[c], k, c)
  BY BeforeTurn
<1>2. w \in Worlds /\ World(w.u, w.obj, w.sock) /\ \A ev \in batch : EventOK(ev, w.u, w.obj, w.sock)
  BY DEF Accepting
<1>3. z = [u |-> w.u, obj |-> p, sock |-> q]
  BY <1>1, <1>2 DEF Worlds
<1>4. obj[c].state = "none"
  <2>1. obj[c].state \in {"none", "live", "deleted"}
    BY <1>1 DEF Objects
  <2>2. QED
    BY <1>1, <2>1 DEF ConnOK
<1>5. /\ y \in Sockets /\ y.fd = "lost" /\ y.in = k.in
      /\ y.reg = k.reg /\ y.sent = k.sent /\ y.got = k.got
  BY <1>1 DEF Sockets
<1> HIDE DEF y
<1>6. ConnOK(w.u, obj[c], y, c) /\ Answers(obj[c], y, c)
  BY <1>1, <1>4, <1>5 DEF ConnOK, Answers, Stream
<1>7. /\ p \in [Conns -> Objects] /\ q \in [Conns -> Sockets] /\ p[c] = obj[c] /\ q[c] = y
      /\ \A d \in Conns \ {c} : p[d] = w.obj[d] /\ q[d] = w.sock[d]
  BY <1>1, <1>2, <1>5 DEF Worlds
<1> HIDE DEF p, q, z
<1>8. Local(w.u, w.obj, w.sock, w.u, p, q, c, NoSlot)
  BY <1>1, <1>4, <1>6, <1>7, SlotZero DEF Local
<1>9. World(w.u, p, q) /\ \A ev \in batch : EventOK(ev, w.u, p, q)
  <2>1. /\ World(w.u, p, q)
        /\ \A ev : EventOK(ev, w.u, w.obj, w.sock) /\ ev.slot # NoSlot => EventOK(ev, w.u, p, q)
    BY <1>1, <1>2, <1>8, WorldStep
  <2>2. \A ev \in batch : ev.slot # NoSlot
    BY <1>2, SlotZero DEF EventOK, Events
  <2>3. QED
    BY <1>2, <2>1, <2>2
<1>10. Turn(w, z, c, p, q)
  <2>1. z.u = w.u
    BY <1>3
  <2>2. QED
    BY <1>3, <1>7, <1>9, <2>1 DEF Turn
<1>11. Accepting(z, j, served)
  BY <1>1, <1>10, TurnKeeps
<1>12. QED
  BY <1>11 DEF z

LEMMA ServedTurn ==
  ASSUME IInv, proc = "running", NEW n \in Nat, n = Len(backlog), NEW j \in 1..n, NEW served,
         NEW w, Accepting(w, j - 1, served), NEW c, c = backlog[j],
         NEW s, NEW i, Registered(s, w.u, c, i)
  PROVE  Accepting([u |-> s.u, obj |-> [w.obj EXCEPT ![c] = s.o],
                    sock |-> [w.sock EXCEPT ![c] = s.k]], j, served)
<1> DEFINE p == [w.obj EXCEPT ![c] = s.o]
           q == [w.sock EXCEPT ![c] = s.k]
           z == [u |-> s.u, obj |-> p, sock |-> q]
<1>1. /\ c \in Conns /\ sock[c].fd = "backlog" /\ w.obj[c] = obj[c]
      /\ ConnOK(w.u, obj[c], sock[c], c)
  BY BeforeTurn
<1>2. w \in Worlds /\ World(w.u, w.obj, w.sock) /\ \A ev \in batch : EventOK(ev, w.u, w.obj, w.sock)
  BY DEF Accepting
<1>3. w.obj[c].state # "live"
  BY <1>1 DEF ConnOK
<1>4. /\ s.o \in Objects /\ s.k \in Sockets /\ s.u \in Units
      /\ SlotsOK(s.u) /\ ConnOK(s.u, s.o, s.k, c) /\ Answers(s.o, s.k, c)
      /\ s.k.fd # "lost"
      /\ i \in Slots => /\ w.u.poller[i] = Nobody
                        /\ \/ s.u.poller[i] = Nobody
                           \/ s.u.poller[i] = c /\ s.o.slot = i /\ s.o.state = "live"
      /\ \A h \in Slots \ {i} : s.u.seq[h] = w.u.seq[h] /\ s.u.poller[h] = w.u.poller[h]
  BY DEF Registered
<1>5. /\ p \in [Conns -> Objects] /\ q \in [Conns -> Sockets] /\ p[c] = s.o /\ q[c] = s.k
      /\ \A d \in Conns \ {c} : p[d] = w.obj[d] /\ q[d] = w.sock[d]
  BY <1>1, <1>2, <1>4 DEF Worlds
<1> HIDE DEF p, q
<1>6. Local(w.u, w.obj, w.sock, s.u, p, q, c, i)
  BY <1>3, <1>4, <1>5 DEF Local
<1>7. World(s.u, p, q) /\ \A ev \in batch : EventOK(ev, s.u, p, q)
  <2>1. /\ World(s.u, p, q)
        /\ \A ev : EventOK(ev, w.u, w.obj, w.sock) /\ ev.slot # i => EventOK(ev, s.u, p, q)
    BY <1>1, <1>2, <1>6, WorldStep
  <2>2. \A ev \in batch : ev.slot # i
    BY <1>2, <1>4 DEF EventOK, Events
  <2>3. QED
    BY <1>2, <2>1, <2>2
<1>8. Turn(w, z, c, p, q)
  BY <1>5, <1>7 DEF Turn
<1> HIDE DEF z
<1>9. Accepting(z, j, served)
  BY <1>1, <1>4, <1>5, <1>8, TurnKeeps
<1>10. QED
  BY <1>9 DEF z, p, q

LEMMA RegistKeeps ==
  ASSUME IInv, proc = "running", NEW n \in Nat, n = Len(backlog), NEW j \in 1..n, NEW served,
         NEW w, Accepting(w, j - 1, served), NEW added \in BOOLEAN,
         NEW left \in Packets \cup {NoPacket}
  PROVE  Accepting(Regist(w, backlog[j], served, added, left), j, served)
<1> DEFINE c == backlog[j]
           b == Callback([obj[c] EXCEPT !.state = "live", !.last = left, !.new = {"in"}],
                         [sock[c] EXCEPT !.fd = "open"], w.u, 0, Never)
           s == RegistClient(b, c, added)
<1>1. CASE c \notin served
  <2>1. Regist(w, c, served, added, left) = [w EXCEPT !.sock[c].fd = "lost"]
    BY <1>1 DEF Regist
  <2>2. Accepting([w EXCEPT !.sock[c].fd = "lost"], j, served)
    <3> HIDE DEF c
    <3>1. c = backlog[j]
      BY DEF c
    <3>2. QED
      BY <1>1, <3>1, LostTurn
  <2>3. QED
    BY <2>1, <2>2
<1>2. CASE c \in served
  <2>1. Regist(w, c, served, added, left)
          = [u |-> s.u, obj |-> [w.obj EXCEPT ![c] = s.o], sock |-> [w.sock EXCEPT ![c] = s.k]]
    BY <1>2 DEF Regist
  <2>2. /\ c \in Conns /\ sock[c].fd = "backlog" /\ w.u \in Units /\ SlotsOK(w.u)
        /\ obj[c] \in Objects /\ sock[c] \in Sockets /\ ConnOK(w.u, obj[c], sock[c], c)
    BY BeforeTurn
  <2>3. c = backlog[j]
    OBVIOUS
  <2> HIDE DEF s
  <2>4. Fresh(b, w.u, c)
    <3> HIDE DEF c
    <3>1. QED
      BY <2>2, FreshBegins
  <2> HIDE DEF b, c
  <2>5. PICK i : Registered(s, w.u, c, i)
    BY <2>2, <2>4, RegistClientDoes DEF s
  <2>6. Accepting([u |-> s.u, obj |-> [w.obj EXCEPT ![c] = s.o],
                   sock |-> [w.sock EXCEPT ![c] = s.k]], j, served)
    BY <2>3, <2>5, ServedTurn
  <2>7. QED
    BY <2>1, <2>6 DEF c
<1>3. QED
  BY <1>1, <1>2

\* The loop over the backlog.
LEMMA RegistLoopKeeps ==
  ASSUME IInv, proc = "running", NEW n, n = Len(backlog), NEW served,
         NEW added \in BOOLEAN, NEW left \in Packets \cup {NoPacket}
  PROVE  Accepting(RegistLoop(served, added, left)[n], n, served)
<1> DEFINE a == [u |-> unit, obj |-> obj, sock |-> sock]
           S == [j \in 0..n |-> {x \in Worlds : Accepting(x, j, served)}]
           T(x, j) == Regist(x, backlog[j], served, added, left)
           F == [j \in 1..n |-> [x \in S[j - 1] |-> T(x, j)]]
           g == RegistLoop(served, added, left)
<1>1. World(unit, obj, sock) /\ Typed /\ \A ev \in batch : EventOK(ev, unit, obj, sock)
  BY RunningWorld
<1>2. n \in Nat
  BY <1>1, EmptyLen DEF Typed
<1>3. ASSUME NEW j \in 0..n, NEW x PROVE x \in S[j] <=> x \in Worlds /\ Accepting(x, j, served)
  OBVIOUS
<1> HIDE DEF S
<1>4. ASSUME NEW j \in 1..n, NEW x \in S[j - 1] PROVE T(x, j) \in S[j]
  <2> DEFINE h == j - 1
  <2>1. h \in 0..n /\ j \in 0..n
    BY <1>2
  <2> HIDE DEF h
  <2>2. Accepting(x, h, served)
    BY <1>3, <1>4, <2>1 DEF h
  <2>3. Accepting(T(x, j), j, served)
    <3>1. Accepting(x, j - 1, served)
      BY <2>2 DEF h
    <3>2. QED
      BY <1>2, <3>1, RegistKeeps
  <2> HIDE DEF T
  <2>4. T(x, j) \in Worlds
    BY <2>3 DEF Accepting
  <2>5. QED
    BY <1>3, <2>1, <2>3, <2>4
<1> HIDE DEF T
<1>5. ASSUME NEW j \in 1..n, NEW x \in S[j - 1] PROVE F[j][x] = T(x, j)
  OBVIOUS
<1>6. a \in S[0]
  <2>1. 0 \in 0..n
    BY <1>2
  <2>2. a \in Worlds /\ a.u = unit /\ a.obj = obj /\ a.sock = sock
    BY <1>1 DEF Typed, Worlds
  <2> HIDE DEF a
  <2>3. Accepting(a, 0, served)
    BY <1>1, <2>2 DEF Accepting
  <2>4. QED
    BY <1>3, <2>1, <2>2, <2>3
<1> HIDE DEF F, a
<1>7. IsSteps(n, S, a, F)
  BY <1>2, <1>4, <1>5, <1>6 DEF IsSteps
<1>8. PICK f : /\ f = [j \in 0..n |-> IF j = 0 THEN a ELSE F[j][f[j - 1]]]
               /\ \A j \in 0..n : f[j] \in S[j]
  BY <1>7, StepsExist
<1>9. f = [j \in 0..n |-> IF j = 0 THEN a ELSE T(f[j - 1], j)]
  <2>1. ASSUME NEW j \in 0..n, j # 0 PROVE F[j][f[j - 1]] = T(f[j - 1], j)
    <3> DEFINE h == j - 1
    <3>1. j \in 1..n /\ h \in 0..n
      BY <1>2, <2>1
    <3> HIDE DEF h
    <3>2. f[h] \in S[h]
      BY <1>8, <3>1
    <3>3. QED
      BY <1>5, <3>1, <3>2 DEF h
  <2>2. QED
    BY <1>8, <2>1
<1>10. g = [j \in 0..n |-> IF j = 0 THEN a ELSE T(g[j - 1], j)]
  BY <1>9 DEF RegistLoop, a, T
<1> HIDE DEF g
<1>11. g[0] \in S[0]
  BY <1>2, <1>6, <1>10
<1>12. ASSUME NEW j \in 1..n, g[j - 1] \in S[j - 1] PROVE g[j] \in S[j]
  <2>1. j \in 0..n /\ j # 0
    BY <1>2
  <2>2. g[j] = T(g[j - 1], j)
    BY <1>10, <2>1
  <2>3. QED
    BY <1>4, <1>12, <2>2
<1>13. n \in 0..n
  BY <1>2
<1>14. \A j \in 0..n : g[j] \in S[j]
  BY <1>2, <1>11, <1>12, StepInvariant
<1>15. Accepting(g[n], n, served)
  BY <1>3, <1>13, <1>14
<1>16. QED
  BY <1>15 DEF g

\* What Accept leaves behind.
AcceptedBy(served, w) ==
  /\ Accepting(w, Len(backlog), served)
  /\ unit' = w.u /\ obj' = w.obj /\ sock' = w.sock /\ backlog' = <<>> /\ proc' = proc

LEMMA AcceptStep ==
  ASSUME IInv, proc = "running", Accept
  PROVE  \E calls \in AcceptCalls : \E w :
           AcceptedBy({ConnOfCall(calls, p) : p \in ServedCalls(calls)}, w)
<1>1. PICK calls \in AcceptCalls, added \in BOOLEAN, left \in Leftovers :
        LET served == {ConnOfCall(calls, p) : p \in ServedCalls(calls)}
        IN  \E w \in {RegistLoop(served, added, left)[Len(backlog)]} :
              /\ unit' = w.u /\ obj' = w.obj /\ sock' = w.sock
              /\ backlog' = <<>>
              /\ UNCHANGED proc
  BY DEF Accept
<1> DEFINE served == {ConnOfCall(calls, p) : p \in ServedCalls(calls)}
           w == RegistLoop(served, added, left)[Len(backlog)]
<1>2. unit' = w.u /\ obj' = w.obj /\ sock' = w.sock /\ backlog' = <<>> /\ proc' = proc
  BY <1>1
<1> HIDE DEF served
<1>3. left \in Packets \cup {NoPacket}
  <2>1. \A c \in Conns : obj[c].last \in Packets \cup {NoPacket}
    BY RunningWorld, ObjectTypes DEF Typed
  <2>2. QED
    BY <2>1 DEF Leftovers
<1>4. Accepting(w, Len(backlog), served)
  BY <1>3, RegistLoopKeeps
<1> HIDE DEF w
<1>5. AcceptedBy(served, w)
  BY <1>2, <1>4 DEF AcceptedBy
<1>6. QED
  BY <1>5 DEF served

LEMMA AcceptInv ==
  ASSUME IInv, proc = "running", NEW ev \in batch, Accept, batch' = batch \ {ev}
  PROVE  IInv'
<1>1. PICK served, w : AcceptedBy(served, w)
  BY AcceptStep
<1>2. /\ unit' = w.u /\ obj' = w.obj /\ sock' = w.sock /\ backlog' = <<>> /\ proc' = "running"
      /\ World(w.u, w.obj, w.sock) /\ \A e \in batch : EventOK(e, w.u, w.obj, w.sock)
  BY <1>1 DEF AcceptedBy, Accepting
<1>3. World(unit', obj', sock') /\ \A e \in batch' : EventOK(e, unit', obj', sock')
  BY <1>2
<1>4. OnePerSlot(batch')
  BY RunningWorld, OtherEvents DEF Running
<1>5. BacklogOK(backlog', sock') /\ backlog' \in Seq(Conns)
  BY <1>2 DEF BacklogOK
<1>6. Running' /\ Typed'
  BY <1>2, <1>3, <1>4, <1>5 DEF Running, Typed, World
<1>7. QED
  BY <1>2, <1>3, <1>6 DEF IInv, World

-----------------------------------------------------------------------------
(***************************************************************************)
(* The theorems                                                            *)
(***************************************************************************)

\* A turn of the loop of ProcessPollerEvents serves a connection or accepts.
LEMMA PollerTurn ==
  ASSUME IInv, ProcessPollerEvents
  PROVE  /\ proc = "running"
         /\ \E ev \in batch :
              /\ batch' = IF proc' = "dead" THEN {} ELSE batch \ {ev}
              /\ \/ Accept /\ proc' = "running"
                 \/ \E c \in Conns : unit.poller[ev.slot] = c /\ Serve(ev, c)
<1>1. PICK ev \in batch :
        /\ IF ~VerifyEvents(ev) THEN UNCHANGED <<unit, obj, sock, backlog, proc>>
           ELSE IF unit.poller[ev.slot] = Listener THEN Accept
           ELSE Serve(ev, unit.poller[ev.slot])
        /\ batch' = IF proc' = "dead" THEN {} ELSE batch \ {ev}
  BY DEF ProcessPollerEvents
<1>2. proc = "running"
  BY DEF ProcessPollerEvents
<1>3. EventOK(ev, unit, obj, sock) /\ World(unit, obj, sock)
  BY <1>2, RunningWorld
<1>4. VerifyEvents(ev)
  BY <1>3 DEF EventOK, VerifyEvents
<1>5. CASE unit.poller[ev.slot] = Listener
  <2>1. Accept
    BY <1>1, <1>4, <1>5
  <2>2. proc' = "running"
    BY <1>2, <2>1 DEF Accept
  <2>3. QED
    BY <1>1, <1>2, <2>1, <2>2
<1>6. CASE unit.poller[ev.slot] # Listener
  <2> DEFINE c == unit.poller[ev.slot]
  <2>1. Serve(ev, c)
    BY <1>1, <1>4, <1>6
  <2>2. c \in Conns
    <3>1. ev.slot \in Slots /\ c # Nobody
      BY <1>3 DEF EventOK, Events
    <3>2. unit.poller \in [Slots -> Conns \cup {Nobody, Listener}]
      BY <1>3, UnitTypes DEF World
    <3>3. QED
      BY <1>6, <3>1, <3>2
  <2>3. unit.poller[ev.slot] = c
    OBVIOUS
  <2> HIDE DEF c
  <2>4. QED
    BY <1>1, <1>2, <2>1, <2>2, <2>3
<1>7. QED
  BY <1>5, <1>6

LEMMA StepInv == IInv /\ [Next]_vars => IInv'
<1> SUFFICES ASSUME IInv, [Next]_vars PROVE IInv'
  OBVIOUS
<1>1. CASE WaitPollerEvents
  BY <1>1, WaitInv
<1>2. CASE ProcessPollerEvents
  <2>1. /\ proc = "running"
        /\ \E ev \in batch :
             /\ batch' = IF proc' = "dead" THEN {} ELSE batch \ {ev}
             /\ \/ Accept /\ proc' = "running"
                \/ \E c \in Conns : unit.poller[ev.slot] = c /\ Serve(ev, c)
    BY <1>2, PollerTurn
  <2>2. PICK ev \in batch :
          /\ batch' = IF proc' = "dead" THEN {} ELSE batch \ {ev}
          /\ \/ Accept /\ proc' = "running"
             \/ \E c \in Conns : unit.poller[ev.slot] = c /\ Serve(ev, c)
    BY <2>1
  <2>3. CASE Accept /\ proc' = "running"
    <3>1. batch' = batch \ {ev}
      BY <2>2, <2>3
    <3>2. QED
      BY <2>1, <2>3, <3>1, AcceptInv
  <2>4. CASE \E c \in Conns : unit.poller[ev.slot] = c /\ Serve(ev, c)
    BY <2>1, <2>2, <2>4, ServeInv
  <2>5. QED
    BY <2>2, <2>3, <2>4
<1>3. CASE \E c \in Conns : \/ PeerConnect(c) \/ PeerSend(c) \/ PeerReads(c)
                             \/ PeerCloses(c) \/ PeerResets(c)
  BY <1>3, ConnectInv, SendInv, QuietPeerInv
<1>4. CASE UNCHANGED vars
  BY <1>4 DEF vars, IInv, Typed, SlotsOK, Running, Owners, OnePerSlot, BacklogOK
<1>5. QED
  BY <1>1, <1>2, <1>3, <1>4 DEF Next

LEMMA Invariance == Spec => []IInv
BY InitInv, StepInv, PTL DEF Spec

\* A free list without repetitions is no longer than the unit has slots.
LEMMA FreeBound ==
  ASSUME NEW u \in Units, SlotsOK(u)
  PROVE  u.used \in 0..MaxPollers
<1> DEFINE q == u.free
           m == Len(q)
<1>1. q \in Seq(Slots) /\ IsInjective(q) /\ u.used = MaxPollers - m
  BY UnitTypes DEF SlotsOK
<1> HIDE DEF q
<1>2. m \in Nat /\ DOMAIN q = 1..m /\ \A j \in 1..m : q[j] \in Slots
  BY <1>1
<1>3. q = [j \in 1..m |-> q[j]]
  BY <1>1
<1>4. q \in [1..m -> Slots]
  BY <1>2, <1>3
<1>5. q \in Injection(1..m, Slots)
  BY <1>1, <1>4 DEF Injection
<1>6. MaxPollers \in Nat \ {0}
  BY ReactorAssumption
<1>7. IsFiniteSet(Slots) /\ Cardinality(Slots) = MaxPollers
  <2>1. 0 \in Int /\ MaxPollers - 1 \in Int
    BY <1>6
  <2>2. QED
    BY <1>6, <2>1, FS_Interval DEF Slots
<1>8. Cardinality(1..m) = m
  BY <1>2, FS_Interval
<1>9. m <= MaxPollers
  BY <1>5, <1>7, <1>8, FS_Injection
<1>10. QED
  BY <1>1, <1>2, <1>6, <1>9

LEMMA TypesSound ==
  ASSUME IInv
  PROVE  TypeOK
<1>1. Typed /\ SlotsOK(unit)
  BY DEF IInv
<1>2. /\ unit.seq \in [Slots -> Nat] /\ unit.poller \in [Slots -> Conns \cup {Nobody, Listener}]
      /\ unit.free \in Seq(Slots) /\ unit.used \in 0..MaxPollers
  BY <1>1, UnitTypes, FreeBound DEF Typed
<1>3. ASSUME NEW c \in Conns
      PROVE  /\ obj[c].state \in {"none", "live", "deleted"} /\ obj[c].slot \in Slots \cup {NoSlot}
             /\ obj[c].old \subseteq {"in", "out"} /\ Len(obj[c].r) <= 1
             /\ Len(obj[c].w) <= 3 * Len(sock[c].sent)
             /\ sock[c].fd \in {"none", "backlog", "open", "lost", "closed"}
             /\ sock[c].peer \in {"open", "closed", "reset"}
  <2>1. obj[c] \in Objects /\ sock[c] \in Sockets
    BY <1>1 DEF Typed
  <2>2. Len(obj[c].w) <= 3 * Len(sock[c].sent)
    BY DEF IInv, Answers
  <2>3. QED
    BY <2>1, <2>2 DEF Objects, Sockets, Interests
<1>4. ASSUME NEW ev \in batch PROVE ev.slot \in Slots /\ ev.events \subseteq {"in", "out", "hup"}
  <2>1. proc = "running"
    BY <1>1 DEF IInv, Typed
  <2>2. ev \in Events
    BY <2>1, RunningWorld DEF EventOK
  <2>3. QED
    BY <2>2 DEF Events
<1>5. QED
  BY <1>1, <1>2, <1>3, <1>4 DEF TypeOK, Typed

\* PollerSound: a slot, its handler and the registration in the kernel never
\* disagree between two turns of the event loop, whatever handlers delete
\* themselves and whatever connections reuse their slots meanwhile.
THEOREM PollerSoundAlways == Spec => []PollerSound
<1>1. ASSUME IInv PROVE PollerSound
  <2>1. TypeOK
    BY <1>1, TypesSound
  <2>2. SUFFICES ASSUME proc = "running"
        PROVE /\ \A c \in Conns :
                   /\ Live(c) <=> sock[c].fd = "open"
                   /\ Live(c) => LET i == obj[c].slot
                                 IN  /\ unit.poller[i] = c
                                     /\ sock[c].reg = [slot |-> i, seq |-> unit.seq[i],
                                                       events |-> obj[c].old]
                                     /\ obj[c].new = obj[c].old
                                     /\ obj[c].old = {"in"} \cup {e \in {"out"} : obj[c].w # <<>>}
              /\ IsInjective(unit.free)
              /\ \A i \in Slots : (unit.poller[i] = Nobody) <=> (i \in ToSet(unit.free))
              /\ \A i \in Slots : unit.poller[i] \in Conns => Live(unit.poller[i])
              /\ unit.used = MaxPollers - Len(unit.free)
    BY <2>1 DEF PollerSound
  <2>3. World(unit, obj, sock)
    BY <1>1, <2>2, RunningWorld
  <2>4. ASSUME NEW c \in Conns
        PROVE  /\ Live(c) <=> sock[c].fd = "open"
               /\ Live(c) => LET i == obj[c].slot
                             IN  /\ unit.poller[i] = c
                                 /\ sock[c].reg = [slot |-> i, seq |-> unit.seq[i],
                                                   events |-> obj[c].old]
                                 /\ obj[c].new = obj[c].old
                                 /\ obj[c].old = {"in"} \cup {e \in {"out"} : obj[c].w # <<>>}
    <3>1. ConnOK(unit, obj[c], sock[c], c)
      BY <2>3 DEF World
    <3>2. QED
      BY <3>1 DEF ConnOK, Serving, Live, Wanted
  <2>5. SlotsOK(unit) /\ Owners(unit, obj)
    BY <2>3 DEF World
  <2>6. \A i \in Slots : unit.poller[i] \in Conns => Live(unit.poller[i])
    BY <2>5 DEF Owners, Live
  <2>7. QED
    BY <2>4, <2>5, <2>6 DEF SlotsOK
<1>2. QED
  BY <1>1, Invariance, PTL

\* NoStaleEvent: every event of a batch is served for the registration it was
\* raised for, although earlier events of the batch free and reuse slots.
THEOREM NoStaleEventAlways == Spec => []NoStaleEvent
<1>1. ASSUME IInv PROVE NoStaleEvent
  <2>1. ASSUME NEW ev \in batch PROVE VerifyEvents(ev)
    <3>1. proc = "running"
      BY <1>1 DEF IInv, Typed
    <3>2. EventOK(ev, unit, obj, sock)
      BY <1>1, <3>1, RunningWorld
    <3>3. QED
      BY <3>2 DEF EventOK, VerifyEvents
  <2>2. QED
    BY <2>1 DEF NoStaleEvent
<1>2. QED
  BY <1>1, Invariance, PTL

\* RepliesInOrder: what has left and what waits are the replies to the requests of
\* this connection, whole and in order.
THEOREM RepliesInOrderAlways == Spec => []RepliesInOrder
<1>1. ASSUME IInv PROVE RepliesInOrder
  <2>1. ASSUME NEW c \in Conns, "big" \notin ToSet(sock[c].sent)
        PROVE  Ordered(sock[c].got \o obj[c].w, c)
    BY <1>1, <2>1 DEF IInv, Answers
  <2>2. QED
    BY <2>1 DEF RepliesInOrder, Ordered, Follows
<1>2. QED
  BY <1>1, Invariance, PTL

\* DiesOnlyWithPeerGone: the call through a destroyed handler needs a send that
\* fails, which takes a peer that has gone.
THEOREM DiesOnlyWithPeerGoneAlways == Spec => []DiesOnlyWithPeerGone
<1>1. IInv => DiesOnlyWithPeerGone
  BY DEF IInv, DiesOnlyWithPeerGone
<1>2. QED
  BY <1>1, Invariance, PTL

-----------------------------------------------------------------------------
(***************************************************************************)
(* What a step may do to a descriptor                                      *)
(***************************************************************************)

\* Peers and epoll_wait: a descriptor at most enters the backlog.
LEMMA PeersKeepDescriptors ==
  ASSUME IInv, NEW d \in Conns,
         \/ WaitPollerEvents
         \/ \E c \in Conns : \/ PeerConnect(c) \/ PeerSend(c) \/ PeerReads(c)
                              \/ PeerCloses(c) \/ PeerResets(c)
         \/ UNCHANGED vars
  PROVE  sock'[d].fd = sock[d].fd \/ sock'[d].fd = "backlog"
<1>1. sock \in [Conns -> Sockets]
  BY DEF IInv, Typed
<1>2. CASE WaitPollerEvents \/ UNCHANGED vars
  BY <1>2 DEF WaitPollerEvents, vars
<1>3. CASE \E c \in Conns : \/ PeerConnect(c) \/ PeerSend(c) \/ PeerReads(c)
                             \/ PeerCloses(c) \/ PeerResets(c)
  <2>1. PICK c \in Conns : \/ PeerConnect(c) \/ PeerSend(c) \/ PeerReads(c)
                            \/ PeerCloses(c) \/ PeerResets(c)
    BY <1>3
  <2>2. sock[c] \in Sockets
    BY <1>1
  <2>3. \E y : PeerStep(c, y) /\ (y.fd = sock[c].fd \/ y.fd = "backlog")
    <3>1. CASE PeerConnect(c)
      BY <2>2, <3>1 DEF PeerConnect, Sockets
    <3>2. CASE PeerSend(c)
      <4>1. PICK kind \in Kinds :
              PeerStep(c, [sock[c] EXCEPT !.sent = Append(@, kind),
                             !.in = @ \o Pieces(c, Len(sock[c].sent) + 1, kind)])
        BY <3>2 DEF PeerSend
      <4> DEFINE p == Append(sock[c].sent, kind)
                 q == sock[c].in \o Pieces(c, Len(sock[c].sent) + 1, kind)
                 y == [sock[c] EXCEPT !.sent = p, !.in = q]
      <4>2. PeerStep(c, y)
        BY <4>1
      <4> HIDE DEF p, q
      <4>3. y.fd = sock[c].fd
        BY <2>2 DEF Sockets
      <4> HIDE DEF y
      <4>4. QED
        BY <4>2, <4>3
    <3>3. CASE PeerReads(c)
      BY <2>2, <3>3 DEF PeerReads, Sockets
    <3>4. CASE PeerCloses(c)
      BY <2>2, <3>4 DEF PeerCloses, Sockets
    <3>5. CASE PeerResets(c)
      BY <2>2, <3>5 DEF PeerResets, Sockets
    <3>6. QED
      BY <2>1, <3>1, <3>2, <3>3, <3>4, <3>5
  <2>4. PICK y : PeerStep(c, y) /\ (y.fd = sock[c].fd \/ y.fd = "backlog")
    BY <2>3
  <2>5. sock' = [sock EXCEPT ![c] = y]
    BY <2>4 DEF PeerStep
  <2>6. QED
    BY <1>1, <2>4, <2>5
<1>4. QED
  BY <1>2, <1>3

\* Serving a connection: every other one keeps its descriptor while the process runs.
LEMMA ServeDescriptors ==
  ASSUME IInv, proc = "running", NEW c \in Conns, NEW i, NEW s, NEW b, ServedBy(s, b, c, i),
         NEW d \in Conns
  PROVE  /\ sock'[d].fd \in {sock[d].fd, "open", "closed"}
         /\ ~s.dead => sock'[d] = IF d = c THEN s.k ELSE sock[d]
<1>1. sock \in [Conns -> Sockets] /\ Typed
  BY DEF IInv, Typed
<1>2. s.k.fd \in {"open", "closed"}
  <2>1. Outcome(s, i, b, c)
    BY DEF ServedBy
  <2>2. QED
    BY <2>1 DEF Outcome
<1>3. CASE s.dead
  <2>1. sock' = [Ended EXCEPT ![c] = s.k]
    BY <1>3 DEF ServedBy
  <2>2. Ended \in [Conns -> Sockets]
    BY <1>1, EndedKeeps
  <2>3. Ended[d].fd \in {sock[d].fd, "closed"}
    BY <1>1 DEF Ended, Sockets
  <2>4. sock'[d] = IF d = c THEN s.k ELSE Ended[d]
    BY <2>1, <2>2
  <2>5. QED
    BY <1>2, <1>3, <2>3, <2>4
<1>4. CASE ~s.dead
  <2>1. sock' = [sock EXCEPT ![c] = s.k]
    BY <1>4 DEF ServedBy
  <2>2. sock'[d] = IF d = c THEN s.k ELSE sock[d]
    BY <1>1, <2>1
  <2>3. QED
    BY <1>2, <2>2
<1>5. QED
  BY <1>3, <1>4

\* Accepting changes no connection that is open.
LEMMA AcceptDescriptors ==
  ASSUME IInv, proc = "running", NEW served, NEW w, AcceptedBy(served, w),
         NEW d \in Conns, sock[d].fd # "backlog"
  PROVE  sock'[d] = sock[d]
<1>1. BacklogOK(backlog, sock)
  BY RunningWorld DEF Running
<1>2. \A h \in 1..Len(backlog) : backlog[h] # d
  BY <1>1 DEF BacklogOK
<1>3. w.sock[d] = sock[d]
  BY <1>2 DEF AcceptedBy, Accepting
<1>4. QED
  BY <1>3 DEF AcceptedBy

\* HealthyKept: a handler ends only when its peer has gone, when it was sent
\* something that is no packet, or when input met replies that were waiting.
THEOREM HealthyKeptAlways == Spec => HealthyKept
<1> DEFINE Kept(c) ==
      (sock[c].fd = "open" /\ sock'[c].fd = "closed" /\ proc' = "running") =>
        \/ sock[c].peer # "open"
        \/ ToSet(sock[c].sent) \cap {"bad", "policy"} # {}
        \/ obj[c].w # <<>> /\ sock[c].in # <<>>
<1>1. ASSUME IInv, [Next]_vars, NEW d \in Conns PROVE Kept(d)
  <2>1. CASE \/ WaitPollerEvents
             \/ \E c \in Conns : \/ PeerConnect(c) \/ PeerSend(c) \/ PeerReads(c)
                                  \/ PeerCloses(c) \/ PeerResets(c)
             \/ UNCHANGED vars
    <3>1. sock'[d].fd = sock[d].fd \/ sock'[d].fd = "backlog"
      BY <1>1, <2>1, PeersKeepDescriptors
    <3>2. QED
      BY <3>1
  <2>2. CASE ProcessPollerEvents
    <3>1. proc = "running"
      BY <1>1, <2>2, PollerTurn
    <3>2. PICK ev \in batch :
             \/ Accept /\ proc' = "running"
             \/ \E c \in Conns : unit.poller[ev.slot] = c /\ Serve(ev, c)
      BY <1>1, <2>2, PollerTurn
    <3>3. CASE Accept
      <4>1. \E calls \in AcceptCalls : \E w :
              AcceptedBy({ConnOfCall(calls, p) : p \in ServedCalls(calls)}, w)
        BY <1>1, <3>1, <3>3, AcceptStep
      <4>2. sock[d].fd = "open" => sock'[d] = sock[d]
        BY <1>1, <3>1, <4>1, AcceptDescriptors
      <4>3. QED
        BY <4>2
    <3>4. CASE \E c \in Conns : unit.poller[ev.slot] = c /\ Serve(ev, c)
      <4>1. PICK c \in Conns : unit.poller[ev.slot] = c /\ Serve(ev, c)
        BY <3>4
      <4>2. PICK s, b : ServedBy(s, b, c, ev.slot)
        BY <1>1, <3>1, <4>1, ServeStep
      <4>3. /\ b.k = sock[c] /\ b.o = obj[c] /\ s.k.peer = b.k.peer
            /\ s.dead => proc' = "dead"
            /\ After(s, ev.slot, b, c, SentNoPacket(b) \/ (b.o.w # <<>> /\ b.k.in # <<>>))
        <5>1. Outcome(s, ev.slot, b, c)
          BY <4>2 DEF ServedBy
        <5>2. s.k.peer = b.k.peer
          BY <5>1 DEF Outcome
        <5>3. QED
          BY <4>2, <5>2 DEF ServedBy
      <4>4. CASE s.dead
        BY <4>3, <4>4
      <4>5. CASE ~s.dead
        <5>1. sock'[d] = IF d = c THEN s.k ELSE sock[d]
          <6>1. ~s.dead => sock'[d] = IF d = c THEN s.k ELSE sock[d]
            BY <1>1, <3>1, <4>2, ServeDescriptors
          <6>2. QED
            BY <4>5, <6>1
        <5>2. CASE d # c
          BY <5>1, <5>2
        <5>3. CASE d = c
          <6>1. CASE Standing(s, ev.slot, b, c)
            <7>1. s.k.fd = "open"
              BY <6>1 DEF Standing, Work, Held
            <7>2. QED
              BY <5>1, <5>3, <7>1
          <6>2. CASE s.k.peer # "open" \/ SentNoPacket(b) \/ (b.o.w # <<>> /\ b.k.in # <<>>)
            BY <4>3, <5>3, <6>2 DEF SentNoPacket
          <6>3. QED
            BY <4>3, <6>1, <6>2 DEF After
        <5>4. QED
          BY <5>2, <5>3
      <4>6. QED
        BY <4>4, <4>5
    <3>5. QED
      BY <3>2, <3>3, <3>4
  <2>3. QED
    BY <1>1, <2>1, <2>2 DEF Next
<1>2. IInv /\ [Next]_vars => [\A c \in Conns : Kept(c)]_vars
  BY <1>1
<1>3. QED
  BY <1>2, Invariance, PTL DEF Spec, HealthyKept

-----------------------------------------------------------------------------
(***************************************************************************)
(* The array of accept and the loop that goes through it                   *)
(***************************************************************************)

\* Turns k..k + A - 1 of a round that begins at a multiple of A are of one round.
LEMMA SameRound ==
  ASSUME NEW A \in Nat \ {0}, NEW p \in Nat \ {0}, NEW k, k = p - ((p - 1) % A),
         NEW q \in k..p
  PROVE  (q - 1) \div A = (p - 1) \div A /\ k \in 1..p
<1> DEFINE a == p - 1
           b == q - 1
<1>1. a \in Nat /\ a = A * (a \div A) + (a % A) /\ a % A \in 0..(A - 1) /\ a \div A \in Nat
  <2>1. a \in Nat
    OBVIOUS
  <2> HIDE DEF a
  <2>2. QED
    BY <2>1, DivMod
<1>2. k = p - (a % A)
  OBVIOUS
<1>3. A * (a \div A) \in Nat /\ k - 1 = A * (a \div A)
  BY <1>1, <1>2
<1>4. k \in 1..p
  BY <1>1, <1>2, <1>3
<1>5. b \in Nat /\ b >= A * (a \div A) /\ b <= a
  BY <1>3, <1>4
<1>6. b = A * (b \div A) + (b % A) /\ b % A \in 0..(A - 1) /\ b \div A \in Nat
  <2> HIDE DEF b
  <2>1. QED
    BY <1>5, DivMod
<1> DEFINE d == (b \div A) - (a \div A)
<1>7. d \in Int /\ A * d = (A * (b \div A)) - (A * (a \div A))
  <2> DEFINE x == b \div A
             y == a \div A
  <2>1. x \in Nat /\ y \in Nat
    BY <1>1, <1>6
  <2> HIDE DEF x, y
  <2>2. x - y \in Int /\ A * (x - y) = (A * x) - (A * y)
    BY <2>1
  <2>3. QED
    BY <2>2 DEF x, y
<1>8. A * d < A /\ A * d > -A
  <2> DEFINE u == A * (a \div A)
             v == A * (b \div A)
             x == a % A
             y == b % A
  <2>1. u \in Int /\ v \in Int /\ x \in 0..(A - 1) /\ y \in 0..(A - 1)
        /\ a = u + x /\ b = v + y /\ A * d = v - u /\ b >= u /\ b <= a
    BY <1>1, <1>3, <1>5, <1>6, <1>7
  <2> HIDE DEF u, v, x, y, a, b, d
  <2>2. QED
    BY <1>5, <1>1, <2>1
<1>9. d = 0
  <2> HIDE DEF d
  <2>1. QED
    BY <1>7, <1>8, SmallMultiple
<1>10. QED
  BY <1>1, <1>4, <1>6, <1>9

\* The calls of accept: all of them take a connection but one, if any.
OneInterrupted(calls, n, e) ==
  /\ DOMAIN calls = 1..n /\ n \in Nat /\ e \in 0..n
  /\ \A q \in 1..n : calls[q] = "ok" <=> q # e

LEMMA CallsInterrupted ==
  ASSUME IInv, NEW calls \in AcceptCalls
  PROVE  \E n, e : /\ OneInterrupted(calls, n, e)
                   /\ n = Len(backlog) + (IF e = 0 THEN 0 ELSE 1)
<1> DEFINE m == Len(backlog)
<1>1. m \in Nat
  BY EmptyLen DEF IInv, Typed
<1> HIDE DEF m
<1>2. CASE calls = [p \in 1..m |-> "ok"]
  <2>1. OneInterrupted(calls, m, 0)
    BY <1>1, <1>2 DEF OneInterrupted
  <2>2. QED
    BY <1>1, <2>1 DEF m
<1>3. CASE \E p \in 1..m + 1 : calls = [[x \in 1..m + 1 |-> "ok"] EXCEPT ![p] = "EINTR"]
  <2>1. PICK p \in 1..m + 1 : calls = [[x \in 1..m + 1 |-> "ok"] EXCEPT ![p] = "EINTR"]
    BY <1>3
  <2>2. OneInterrupted(calls, m + 1, p)
    BY <1>1, <2>1 DEF OneInterrupted
  <2>3. QED
    BY <1>1, <2>2 DEF m
<1>4. QED
  BY <1>2, <1>3 DEF AcceptCalls, m

\* An entry that the loop misses is the last of the round of the interrupted call.
LEMMA MissedEntry ==
  ASSUME NEW calls, NEW n, NEW e, OneInterrupted(calls, n, e),
         NEW p \in 1..n, p # e, p \notin ServedCalls(calls)
  PROVE  /\ e \in 1..n /\ (e - 1) \div AcceptCnt = (p - 1) \div AcceptCnt
         /\ \A q \in p + 1..n : (q - 1) \div AcceptCnt # (p - 1) \div AcceptCnt
<1> DEFINE A == AcceptCnt
           Round == {q \in DOMAIN calls : (q - 1) \div A = (p - 1) \div A}
           taken == {q \in Round : calls[q] = "ok"}
           r == (p - 1) % A
           k == p - r
<1>1. /\ DOMAIN calls = 1..n /\ n \in Nat /\ e \in 0..n
      /\ \A q \in 1..n : calls[q] = "ok" <=> q # e
  BY DEF OneInterrupted
<1>2. A \in Nat \ {0}
  BY ReactorAssumption
<1>3. r \in Nat /\ ~(r < Cardinality(taken))
  <2>1. ~(r < Cardinality(taken))
    BY <1>1 DEF ServedCalls
  <2>2. p - 1 \in Nat
    BY <1>1
  <2>3. r \in Nat
    BY <1>2, <2>2, DivMod
  <2>4. QED
    BY <2>1, <2>3
<1>4. ASSUME NEW q \in k..p PROVE (q - 1) \div A = (p - 1) \div A /\ k \in 1..p
  <2>1. p \in Nat \ {0}
    BY <1>1
  <2> HIDE DEF A
  <2>2. QED
    BY <1>2, <2>1, SameRound
<1>5. k \in 1..p
  <2>1. p \in k..p
    BY <1>3
  <2>2. QED
    BY <1>4, <2>1
<1>6. \A q \in k..p : q \in Round
  BY <1>1, <1>4, <1>5
<1>7. IsFiniteSet(taken) /\ Cardinality(taken) \in Nat
  <2>1. taken \subseteq 1..n
    BY <1>1
  <2>2. IsFiniteSet(1..n)
    BY <1>1, FS_Interval
  <2> HIDE DEF taken
  <2>3. QED
    BY <2>1, <2>2, FS_Subset, FS_CardinalityType
<1>8. IsFiniteSet(k..p) /\ Cardinality(k..p) = r + 1
  <2>1. k \in Int /\ p \in Int /\ k <= p /\ p - k + 1 = r + 1
    BY <1>3, <1>5
  <2> HIDE DEF k, r
  <2>2. QED
    BY <2>1, FS_Interval
<1>9. ASSUME NEW S, IsFiniteSet(S), Cardinality(S) = r + 1, S \subseteq taken PROVE FALSE
  <2>1. Cardinality(S) <= Cardinality(taken)
    BY <1>7, <1>9, FS_Subset
  <2> HIDE DEF taken, r
  <2>2. QED
    BY <1>3, <1>7, <1>9, <2>1
<1>10. e \in k..p
  <2> SUFFICES ASSUME e \notin k..p PROVE FALSE
    OBVIOUS
  <2>1. k..p \subseteq taken
    BY <1>1, <1>5, <1>6
  <2> HIDE DEF taken, k, r
  <2>2. QED
    BY <1>8, <1>9, <2>1
<1>11. ASSUME NEW q \in p + 1..n, (q - 1) \div A = (p - 1) \div A PROVE FALSE
  <2> DEFINE S == ((k..p) \ {e}) \cup {q}
  <2>1. q \in taken
    BY <1>1, <1>5, <1>10, <1>11
  <2>2. S \subseteq taken
    BY <1>1, <1>5, <1>6, <2>1
  <2>3. IsFiniteSet((k..p) \ {e}) /\ Cardinality((k..p) \ {e}) = r
    <3> HIDE DEF k
    <3>1. IsFiniteSet((k..p) \ {e}) /\ Cardinality((k..p) \ {e}) = Cardinality(k..p) - 1
      BY <1>8, <1>10, FS_RemoveElement
    <3> HIDE DEF r
    <3>2. QED
      BY <1>3, <1>8, <3>1
  <2>4. q \notin (k..p) \ {e}
    BY <1>5
  <2>5. IsFiniteSet(S) /\ Cardinality(S) = r + 1
    <3> HIDE DEF k, r
    <3>1. QED
      BY <2>3, <2>4, FS_AddElement
  <2> HIDE DEF S, taken, r, k
  <2>6. QED
    BY <1>9, <2>2, <2>5
<1>12. QED
  BY <1>1, <1>4, <1>5, <1>10, <1>11

LEMMA OneMissedEntry ==
  ASSUME NEW calls, NEW n, NEW e, OneInterrupted(calls, n, e),
         NEW p \in 1..n, p # e, p \notin ServedCalls(calls),
         NEW q \in 1..n, q # e, q \notin ServedCalls(calls)
  PROVE  p = q
<1>1. n \in Nat
  BY DEF OneInterrupted
<1>2. /\ (e - 1) \div AcceptCnt = (p - 1) \div AcceptCnt
      /\ \A x \in p + 1..n : (x - 1) \div AcceptCnt # (p - 1) \div AcceptCnt
  BY MissedEntry
<1>3. /\ (e - 1) \div AcceptCnt = (q - 1) \div AcceptCnt
      /\ \A x \in q + 1..n : (x - 1) \div AcceptCnt # (q - 1) \div AcceptCnt
  BY MissedEntry
<1>4. ~(p < q)
  BY <1>1, <1>2, <1>3
<1>5. ~(q < p)
  BY <1>1, <1>2, <1>3
<1>6. QED
  BY <1>1, <1>4, <1>5


\* The call that took the h-th connection of the backlog.
CallOf(e, h) == IF e = 0 \/ h < e THEN h ELSE h + 1

LEMMA CallTakes ==
  ASSUME NEW calls, NEW n, NEW e, OneInterrupted(calls, n, e),
         n = Len(backlog) + (IF e = 0 THEN 0 ELSE 1), Len(backlog) \in Nat,
         NEW h \in 1..Len(backlog)
  PROVE  /\ CallOf(e, h) \in 1..n /\ CallOf(e, h) # e
         /\ ConnOfCall(calls, CallOf(e, h)) = backlog[h]
<1> DEFINE p == CallOf(e, h)
           taken == {q \in 1..p : calls[q] = "ok"}
<1>1. /\ n \in Nat /\ e \in 0..n
      /\ \A q \in 1..n : calls[q] = "ok" <=> q # e
  BY DEF OneInterrupted
<1>2. p \in 1..n /\ p # e
  BY <1>1 DEF CallOf
<1>3. IsFiniteSet(1..p) /\ Cardinality(1..p) = p
  <2> HIDE DEF p
  <2>1. p \in Int /\ 1 \in Int /\ ~(1 > p) /\ p - 1 + 1 = p
    BY <1>1, <1>2
  <2>2. IsFiniteSet(1..p) /\ Cardinality(1..p) = IF 1 > p THEN 0 ELSE p - 1 + 1
    BY <2>1, FS_Interval
  <2>3. QED
    BY <2>1, <2>2
<1>4. CASE e = 0 \/ h < e
  <2>1. p = h
    BY <1>4 DEF CallOf
  <2>2. taken = 1..p
    BY <1>1, <1>2, <1>4, <2>1
  <2>3. Cardinality(taken) = h
    BY <1>3, <2>1, <2>2
  <2>4. QED
    BY <1>2, <2>3 DEF ConnOfCall
<1>5. CASE ~(e = 0 \/ h < e)
  <2>1. p = h + 1 /\ e \in 1..p
    BY <1>1, <1>5 DEF CallOf
  <2>2. taken = (1..p) \ {e}
    BY <1>1, <1>2
  <2>3. Cardinality((1..p) \ {e}) = Cardinality(1..p) - 1
    <3> HIDE DEF p
    <3>1. QED
      BY <1>3, <2>1, FS_RemoveElement
  <2>4. Cardinality(taken) = p - 1
    BY <1>3, <2>2, <2>3
  <2>5. Cardinality(taken) = h
    <3> HIDE DEF p, taken
    <3>1. QED
      BY <2>1, <2>4
  <2>6. QED
    BY <1>2, <2>5 DEF ConnOfCall
<1>6. QED
  BY <1>4, <1>5

\* Two connections of the backlog that are not served are the same.
LEMMA OneUnserved ==
  ASSUME IInv, NEW calls \in AcceptCalls, NEW served,
         served = {ConnOfCall(calls, p) : p \in ServedCalls(calls)},
         NEW h \in 1..Len(backlog), backlog[h] \notin served,
         NEW j \in 1..Len(backlog), backlog[j] \notin served
  PROVE  h = j
<1>1. Len(backlog) \in Nat
  BY EmptyLen DEF IInv, Typed
<1>2. PICK n, e : /\ OneInterrupted(calls, n, e)
                  /\ n = Len(backlog) + (IF e = 0 THEN 0 ELSE 1)
  BY CallsInterrupted
<1> DEFINE p == CallOf(e, h)
           q == CallOf(e, j)
<1>3. p \in 1..n /\ p # e /\ ConnOfCall(calls, p) = backlog[h]
  BY <1>1, <1>2, CallTakes
<1>4. q \in 1..n /\ q # e /\ ConnOfCall(calls, q) = backlog[j]
  BY <1>1, <1>2, CallTakes
<1>5. p \notin ServedCalls(calls) /\ q \notin ServedCalls(calls)
  BY <1>3, <1>4
<1>6. p = q
  <2> HIDE DEF p, q
  <2>1. QED
    BY <1>2, <1>3, <1>4, <1>5, OneMissedEntry
<1>7. e \in Nat
  BY <1>2 DEF OneInterrupted
<1>8. QED
  BY <1>1, <1>6, <1>7 DEF CallOf

\* A set whose members are all the same has at most one.
LEMMA AtMostOne ==
  ASSUME NEW S, \A x, y \in S : x = y
  PROVE  Cardinality(S) <= 1
<1>1. CASE S = {}
  BY <1>1, FS_EmptySet
<1>2. CASE S # {}
  <2>1. PICK x : x \in S
    BY <1>2
  <2>2. S = {x}
    BY <2>1
  <2>3. QED
    BY <2>2, FS_Singleton
<1>3. QED
  BY <1>1, <1>2

\* OneLostPerInterrupt: the loop of proc_request goes by the number of connections
\* that were taken, and so misses at most one entry of the array.
THEOREM OneLostPerInterruptAlways == Spec => OneLostPerInterrupt
<1> DEFINE lost == {c \in Conns : sock'[c].fd = "lost" /\ sock[c].fd # "lost"}
<1>1. ASSUME IInv, [Next]_vars PROVE \A x, y \in lost : x = y
  <2>1. CASE \/ WaitPollerEvents
             \/ \E c \in Conns : \/ PeerConnect(c) \/ PeerSend(c) \/ PeerReads(c)
                                  \/ PeerCloses(c) \/ PeerResets(c)
             \/ UNCHANGED vars
    <3>1. \A d \in Conns : sock'[d].fd = sock[d].fd \/ sock'[d].fd = "backlog"
      BY <1>1, <2>1, PeersKeepDescriptors
    <3>2. QED
      BY <3>1
  <2>2. CASE ProcessPollerEvents
    <3>1. proc = "running"
      BY <1>1, <2>2, PollerTurn
    <3>2. PICK ev \in batch :
             \/ Accept /\ proc' = "running"
             \/ \E c \in Conns : unit.poller[ev.slot] = c /\ Serve(ev, c)
      BY <1>1, <2>2, PollerTurn
    <3>3. CASE Accept
      <4>1. PICK calls \in AcceptCalls : \E w :
              AcceptedBy({ConnOfCall(calls, p) : p \in ServedCalls(calls)}, w)
        BY <1>1, <3>1, <3>3, AcceptStep
      <4> DEFINE served == {ConnOfCall(calls, p) : p \in ServedCalls(calls)}
      <4>2. PICK w : AcceptedBy(served, w)
        BY <4>1
      <4>3. served = {ConnOfCall(calls, p) : p \in ServedCalls(calls)}
        OBVIOUS
      <4> HIDE DEF served
      <4>4. ASSUME NEW d \in lost
            PROVE  d \notin served /\ \E h \in 1..Len(backlog) : backlog[h] = d
        BY <4>2 DEF AcceptedBy, Accepting
      <4>5. ASSUME NEW h \in 1..Len(backlog), backlog[h] \notin served,
                   NEW j \in 1..Len(backlog), backlog[j] \notin served
            PROVE  h = j
        BY <1>1, <4>3, <4>5, OneUnserved
      <4>6. QED
        BY <4>4, <4>5
    <3>4. CASE \E c \in Conns : unit.poller[ev.slot] = c /\ Serve(ev, c)
      <4>1. PICK c \in Conns : unit.poller[ev.slot] = c /\ Serve(ev, c)
        BY <3>4
      <4>2. PICK s, b : ServedBy(s, b, c, ev.slot)
        BY <1>1, <3>1, <4>1, ServeStep
      <4>3. \A d \in Conns : sock'[d].fd \in {sock[d].fd, "open", "closed"}
        BY <1>1, <3>1, <4>2, ServeDescriptors
      <4>4. QED
        BY <4>3
    <3>5. QED
      BY <3>2, <3>3, <3>4
  <2>3. QED
    BY <1>1, <2>1, <2>2 DEF Next
<1>2. ASSUME IInv, [Next]_vars PROVE Cardinality(lost) <= 1
  <2>1. \A x, y \in lost : x = y
    BY <1>1, <1>2
  <2> HIDE DEF lost
  <2>2. QED
    BY <2>1, AtMostOne
<1>3. IInv /\ [Next]_vars => [Cardinality(lost) <= 1]_vars
  BY <1>2
<1>4. QED
  BY <1>3, Invariance, PTL DEF Spec, OneLostPerInterrupt

=============================================================================
