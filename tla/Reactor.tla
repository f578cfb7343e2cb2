------------------------------- MODULE Reactor -------------------------------
(***************************************************************************)
(* The connections of halls and game servers: the slots of the poller      *)
(* (src/core/poller.cpp), the listening socket (src/CCSocketServer.cpp),   *)
(* and ClientHandler objects that receive, decode, answer and delete       *)
(* themselves inside their own callbacks (src/CCSocketHandler.cpp).        *)
(*                                                                         *)
(* Events of one epoll_wait form a batch that is served one by one while   *)
(* peers go on acting.  A method of a handler is an operator on its        *)
(* surroundings: the object o, its socket k, the poller unit u, and what   *)
(* the kernel will do with its calls.                                      *)
(***************************************************************************)
EXTENDS Integers, FiniteSets, SequencesExt

CONSTANTS
  Conns,       \* connections that are ever made
  MaxPollers,  \* slots of the poller unit; the listening socket has the first
  AcceptCnt,   \* accepts of one round
  Kinds,       \* kinds of packets that peers send
  MaxPackets   \* bound: packets that all peers send

Nobody == "nobody"
Listener == "listener"

ASSUME ReactorAssumption ==
  /\ MaxPollers \in Nat \ {0} /\ AcceptCnt \in Nat \ {0, 1} /\ MaxPackets \in Nat
  /\ {Nobody, Listener} \cap Conns = {}
  /\ Kinds \subseteq {"note", "ask", "kick", "big", "bad", "policy"}

VARIABLES
  unit,     \* CPollerUnit: per slot its seq and its poller, and the free list
  obj,      \* the ClientHandler of each connection
  sock,     \* the socket of each connection and what its peer does (external)
  backlog,  \* connections not accepted yet
  batch,    \* ep_events: the events still to be served
  proc      \* the process: running or dead

vars == <<unit, obj, sock, backlog, batch, proc>>

Slots == 0..MaxPollers - 1
NoSlot == -1
NoReg == [slot |-> NoSlot, seq |-> 0, events |-> {}]
NoPacket == [n |-> 0]
Never == -1

\* A callback begins: the object, its socket, the poller unit and the kernel.
Callback(o, k, u, room, fuse) ==
  [o |-> o, k |-> k, u |-> u, room |-> room, fuse |-> fuse, stage |-> "idle", dead |-> FALSE]

\* The pieces of the n-th packet of a connection: a head that is not valid is a
\* piece of its own; any other packet is a head and a body.
Pieces(c, n, kind) ==
  [i \in 1..(IF kind \in {"bad", "policy"} THEN 1 ELSE 2) |->
     [n |-> n, conn |-> c, kind |-> kind, last |-> (i = 2)]]

-----------------------------------------------------------------------------
(* CPollerUnit and CPollerObject                                           *)

AllocEpollSlot(u, c) ==
  [u EXCEPT !.poller[Head(u.free)] = c, !.free = Tail(@), !.used = @ + 1]

FreeEpollSlot(u, i) ==
  [u EXCEPT !.poller[i] = Nobody, !.seq[i] = @ + 1,
            !.free = <<i>> \o @, !.used = @ - 1]

\* Mutant: the registration carries the number from before the increment.
EpctlPostIncrement(s) ==
  LET i == s.o.slot
  IN  [s EXCEPT !.u.seq[i] = @ + 1, !.o.old = s.o.new,
                !.k.reg = [slot |-> i, seq |-> s.u.seq[i], events |-> s.o.new]]

\* Registers the wanted events under the next sequence number of the slot.
Epctl(s) ==
  LET i == s.o.slot
      q == s.u.seq[i] + 1
  IN  [s EXCEPT !.u.seq[i] = q, !.o.old = s.o.new,
                !.k.reg = [slot |-> i, seq |-> q, events |-> s.o.new]]

ApplyEvents(s) == IF s.o.old = s.o.new THEN s ELSE Epctl(s)

EnableOutput(s) == ApplyEvents([s EXCEPT !.o.new = @ \cup {"out"}])
DisableOutput(s) == ApplyEvents([s EXCEPT !.o.new = @ \ {"out"}])

\* The destructors: both caches are emptied, the slot is freed and the
\* descriptor closed, which also ends its registration with epoll.
Delete(s) ==
  [s EXCEPT !.u = IF s.o.slot = NoSlot THEN @ ELSE FreeEpollSlot(@, s.o.slot),
            !.o = [@ EXCEPT !.state = "deleted", !.slot = NoSlot, !.r = <<>>, !.w = <<>>],
            !.k = [@ EXCEPT !.fd = "closed", !.reg = NoReg, !.in = <<>>]]

\* What every error does to a handler without the reconnect flag.  For an object
\* that has been deleted before, OnClose is called through a destroyed object and
\* the process ends.
Close(s) == IF s.o.state = "deleted" THEN [s EXCEPT !.dead = TRUE] ELSE Delete(s)

-----------------------------------------------------------------------------
(* Sending.  Of what the handler sends in this callback the kernel takes    *)
(* s.room replies; the send after s.fuse further ones fails.                *)

Deliver(s, n, replies) ==
  [s EXCEPT !.k = [s.k EXCEPT !.got = s.k.got \o SubSeq(replies, 1, n),
                               !.full = (n < Len(replies))],
            !.room = @ - n, !.fuse = @ - 1]

\* Mutant: output events stay enabled when everything is sent.
handle_output_enabled(s) ==
  LET n == IF s.room < Len(s.o.w) THEN s.room ELSE Len(s.o.w)
      t == [Deliver(s, n, s.o.w) EXCEPT !.o.w = SubSeq(s.o.w, n + 1, Len(s.o.w))]
  IN  IF s.o.w = <<>> \/ s.fuse = 0 THEN [s EXCEPT !.stage = "fatal"]
      ELSE IF n = Len(s.o.w) THEN [t EXCEPT !.stage = "sent"]
      ELSE [EnableOutput(t) EXCEPT !.stage = "sending"]

\* Sends what waits in _w.  Called with nothing to send it reports an error.
handle_output(s) ==
  LET n == IF s.room < Len(s.o.w) THEN s.room ELSE Len(s.o.w)
      t == [Deliver(s, n, s.o.w) EXCEPT !.o.w = SubSeq(s.o.w, n + 1, Len(s.o.w))]
  IN  CASE s.o.w = <<>> -> [DisableOutput(s) EXCEPT !.stage = "fatal"]
        [] s.o.w # <<>> /\ s.fuse = 0 ->
             [ApplyEvents([s EXCEPT !.o.new = {}]) EXCEPT !.stage = "fatal"]
        [] s.o.w # <<>> /\ s.fuse # 0 /\ n = Len(s.o.w) ->
             [DisableOutput(t) EXCEPT !.stage = "sent"]
        [] OTHER -> [EnableOutput(t) EXCEPT !.stage = "sending"]

\* What follows a notification: an error closes the connection.
CloseIf(s, failed) == IF s.stage = failed THEN Close(s) ELSE s

OutputNotify(s) == CloseIf(handle_output(s), "fatal")

\* Mutant: the reply overtakes the ones that wait.
SendPast(s, reply) ==
  IF s.o.state = "deleted" \/ s.fuse = 0 THEN Close(s)
  ELSE IF s.room > 0 THEN Deliver(s, 1, <<reply>>)
  ELSE EnableOutput([Deliver(s, 0, <<reply>>) EXCEPT !.o.w = Append(@, reply)])

\* Mutant: a send that would block is taken for an error.
SendAgainFails(s, reply) ==
  IF s.o.state = "deleted" \/ s.fuse = 0 \/ s.room = 0 THEN Close(s)
  ELSE Deliver(s, 1, <<reply>>)

\* Mutant: a reply that has to wait does not ask for output events.
SendNoOutput(s, reply) ==
  IF s.o.state = "deleted" \/ s.fuse = 0 THEN Close(s)
  ELSE IF s.room > 0 /\ s.o.w = <<>> THEN Deliver(s, 1, <<reply>>)
  ELSE [Deliver(s, 0, <<reply>>) EXCEPT !.o.w = Append(@, reply)]

\* Send: at once if nothing waits, behind the rest otherwise.  On the object
\* that an earlier Send of the same packet deleted netfd is 0, which is no socket,
\* and ::send fails again.
Send(s, reply) ==
  IF s.o.state = "deleted" THEN Close(s)
  ELSE IF s.o.w # <<>> THEN OutputNotify([s EXCEPT !.o.w = Append(@, reply)])
  ELSE IF s.fuse = 0 THEN Close(s)
  ELSE IF s.room > 0 THEN Deliver(s, 1, <<reply>>)
  ELSE EnableOutput([Deliver(s, 0, <<reply>>) EXCEPT !.o.w = Append(@, reply)])

-----------------------------------------------------------------------------
(* Receiving                                                               *)

\* ProcessPacket: a request has one reply; a login of a user of another hall sends
\* a kick, a close and the result; no handler looks at the result of Send.  When a
\* packet is processed again its read position is at its end, so that every field
\* reads as -1: a request is answered once more, a login finds no inner packet.
ProcessPacket(s, again) ==
  LET Reply(j) == [n |-> s.o.last.n, conn |-> s.o.last.conn, part |-> j]
  IN  IF s.o.last = NoPacket THEN s
      ELSE CASE s.o.last.kind = "ask" -> Send(s, Reply(1))
             [] s.o.last.kind = "kick" /\ ~again ->
                  Send(Send(Send(s, Reply(1)), Reply(2)), Reply(3))
             [] OTHER -> s

\* _copy: the packet fits in the buffer of a PacketBase.
Fits(packet) == packet.kind # "big"

\* OnPacketComplete copies the packet into pPacket, whose buffer is smaller than
\* what the decoder lets through, and does not look whether that succeeded.
OnPacketComplete(s, packet) ==
  IF Fits(packet) THEN ProcessPacket([s EXCEPT !.o.last = packet], FALSE)
  ELSE ProcessPacket(s, TRUE)

\* The decoder's verdict on a head.
CheckHead(piece) == piece.kind \notin {"bad", "policy"}

\* ParsePacket on _r with one more piece, and what handle_input does with the
\* verdict: an invalid head, a packet that is not complete, or a packet.
ParsePacket(s, piece) ==
  IF s.stage # "idle" \/ s.o.state = "deleted" THEN s
  ELSE IF ~CheckHead(piece) THEN [s EXCEPT !.stage = "error"]
  ELSE IF ~piece.last THEN [s EXCEPT !.o.r = <<piece>>]
  ELSE [OnPacketComplete(s, [n |-> piece.n, conn |-> piece.conn, kind |-> piece.kind])
          EXCEPT !.o.r = <<>>, !.stage = "idle"]

\* The loop of handle_input over the pieces of one recv.
ParseLoop(s, chunk) ==
  LET after[j \in 0..Len(chunk)] ==
        IF j = 0 THEN s ELSE ParsePacket(after[j - 1], chunk[j])
  IN  after

\* handle_input, where recv takes the first n pieces: none if the peer has
\* closed or reset the connection.  A recv that is exactly a policy request is
\* answered and then treated as an error.
handle_input(s, n) ==
  LET chunk == SubSeq(s.k.in, 1, n)
      t == [s EXCEPT !.k.in = SubSeq(@, n + 1, Len(@))]
  IN  CASE n = 0 -> [s EXCEPT !.stage = "error"]
        [] n = 1 /\ chunk[1].kind = "policy" ->
             [Send(t, [n |-> chunk[1].n, conn |-> chunk[1].conn, part |-> 1])
                EXCEPT !.stage = "error"]
        [] OTHER -> ParseLoop(t, chunk)[n]

-----------------------------------------------------------------------------
(* Dispatching one event                                                   *)

InputNotify(s, n) == CloseIf(handle_input(s, n), "error")

\* After a notification the poller uses the object further only if slot i still
\* belongs to it and the notification returned POLLER_SUCC.
Gone(s, i) == s.u.poller[i] = Nobody \/ s.stage \in {"error", "fatal", "sent"}

DispatchInput(s, ev, n) == IF "in" \in ev THEN InputNotify(s, n) ELSE s
DispatchOutput(s, i, ev) ==
  IF Gone(s, i) \/ "out" \notin ev THEN s ELSE OutputNotify(s)
DispatchApply(s, i) == IF Gone(s, i) THEN s ELSE ApplyEvents(s)

\* The body of the loop of ProcessPollerEvents.
Dispatch(s, ev, n) ==
  IF "hup" \in ev THEN Close(s)
  ELSE DispatchApply(DispatchOutput(DispatchInput(s, ev, n), s.o.slot, ev), s.o.slot)

\* How a process that ended leaves the connections.
Ended == [c \in Conns |->
            IF sock[c].fd \in {"open", "lost", "backlog"}
            THEN [sock[c] EXCEPT !.fd = "closed", !.reg = NoReg, !.in = <<>>]
            ELSE sock[c]]

\* What recv may take: all or part of what is there; nothing if the connection
\* was reset, whatever is there.
RecvLengths(c) == IF sock[c].peer = "reset" \/ sock[c].in = <<>> THEN {0}
                  ELSE 1..Len(sock[c].in)

\* A socket takes at least one reply until it is full; a send fails only when
\* the peer is gone, and then at the latest once the reset has arrived.
Rooms(c) == IF sock[c].full THEN {0} ELSE 1..3 * MaxPackets
Fuses(c) == CASE sock[c].peer = "open" -> {Never}
              [] sock[c].peer = "closed" -> Never..2
              [] sock[c].peer = "reset" -> {0}

Serve(ev, c) ==
  \E n \in RecvLengths(c), room \in Rooms(c), fuse \in Fuses(c) :
    \E s \in {Dispatch(Callback([obj[c] EXCEPT !.new = obj[c].old], sock[c], unit, room, fuse),
                       ev.events, n)} :
      /\ unit' = s.u
      /\ obj' = [obj EXCEPT ![c] = s.o]
      /\ IF s.dead THEN /\ proc' = "dead"
                        /\ sock' = [Ended EXCEPT ![c] = s.k]
                   ELSE /\ proc' = proc
                        /\ sock' = [sock EXCEPT ![c] = s.k]
      /\ UNCHANGED backlog

-----------------------------------------------------------------------------
(* Accepting                                                               *)

\* What the memory of a new pPacket may hold: nothing of use, or the packet of a
\* handler that was deleted (the constructor does not set it).
Leftovers == {NoPacket} \cup {obj[c].last : c \in {d \in Conns : obj[d].state = "deleted"}}

\* AttachPoller: takes a slot and registers the descriptor, if epoll adds it.
AttachPoller(s, c, added) ==
  LET t == [s EXCEPT !.o.slot = Head(s.u.free), !.u = AllocEpollSlot(@, c)]
  IN  IF added THEN Epctl(t) ELSE [t EXCEPT !.u.seq[t.o.slot] = @ + 1]

\* Mutant: when epoll refuses the descriptor the slot is not given back.
RegistClientLeaks(s, c, added) ==
  CASE s.u.free = <<>> -> Close(s)
    [] s.u.free # <<>> /\ added -> AttachPoller(s, c, added)
    [] s.u.free # <<>> /\ ~added -> Close([AttachPoller(s, c, added) EXCEPT !.o.slot = NoSlot])

\* The body of the loop of proc_request: a handler that cannot be attached, for
\* want of a slot or because epoll refuses, is deleted.
RegistClient(s, c, added) ==
  CASE s.u.free = <<>> -> Close(s)
    [] s.u.free # <<>> /\ added -> AttachPoller(s, c, added)
    [] s.u.free # <<>> /\ ~added -> Close(AttachPoller(s, c, added))

\* The results of the calls of accept: the whole backlog, with at most one call
\* that was interrupted.
AcceptCalls ==
  LET m == Len(backlog)
      Ok(n) == [p \in 1..n |-> "ok"]
  IN  {Ok(m)} \cup {[Ok(m + 1) EXCEPT ![p] = "EINTR"] : p \in 1..m + 1}

\* Mutant: the loop of proc_request ends at the first empty entry.
ServedCallsBreak(calls) ==
  {p \in DOMAIN calls :
     \A q \in 1..p : (q - 1) \div AcceptCnt = (p - 1) \div AcceptCnt => calls[q] = "ok"}

\* An interrupted call leaves its entry of _fd_array empty and is not counted in
\* _newfd_cnt, by which proc_request then goes through the array.
ServedCalls(calls) ==
  LET Round(p) == {q \in DOMAIN calls : (q - 1) \div AcceptCnt = (p - 1) \div AcceptCnt}
      newfd_cnt(p) == Cardinality({q \in Round(p) : calls[q] = "ok"})
  IN  {p \in DOMAIN calls : calls[p] = "ok" /\ (p - 1) % AcceptCnt < newfd_cnt(p)}

ConnOfCall(calls, p) == backlog[Cardinality({q \in 1..p : calls[q] = "ok"})]

\* The turn of that loop for one connection of the backlog; the entry of one that
\* is not served was overwritten, and its descriptor is lost.
Regist(w, c, served, added, left) ==
  IF c \notin served
  THEN [w EXCEPT !.sock[c].fd = "lost"]
  ELSE LET o == [obj[c] EXCEPT !.state = "live", !.last = left, !.new = {"in"}]
           k == [sock[c] EXCEPT !.fd = "open"]
           s == RegistClient(Callback(o, k, w.u, 0, Never), c, added)
       IN  [u |-> s.u, obj |-> [w.obj EXCEPT ![c] = s.o],
            sock |-> [w.sock EXCEPT ![c] = s.k]]

RegistLoop(served, added, left) ==
  LET after[j \in 0..Len(backlog)] ==
        IF j = 0 THEN [u |-> unit, obj |-> obj, sock |-> sock]
        ELSE Regist(after[j - 1], backlog[j], served, added, left)
  IN  after

\* CCSocketServer::InputNotify: rounds of proc_accept and proc_request until no
\* connection waits.
Accept ==
  \E calls \in AcceptCalls, added \in BOOLEAN, left \in Leftovers :
    LET served == {ConnOfCall(calls, p) : p \in ServedCalls(calls)}
    IN  \E w \in {RegistLoop(served, added, left)[Len(backlog)]} :
          /\ unit' = w.u /\ obj' = w.obj /\ sock' = w.sock
          /\ backlog' = <<>>
          /\ UNCHANGED proc

-----------------------------------------------------------------------------
(* The event loop                                                          *)

ReadyEvents(c) ==
  IF sock[c].reg = NoReg THEN {}
  ELSE {e \in {"hup"} : sock[c].peer = "reset"}
       \cup {e \in {"in"} \cap sock[c].reg.events :
               sock[c].in # <<>> \/ sock[c].peer # "open"}
       \cup {e \in {"out"} \cap sock[c].reg.events : ~sock[c].full}

\* epoll_wait: events of all descriptors that are ready.
WaitPollerEvents ==
  /\ proc = "running" /\ batch = {}
  /\ batch' = {[slot |-> sock[c].reg.slot, seq |-> sock[c].reg.seq,
                events |-> ReadyEvents(c)] : c \in {d \in Conns : ReadyEvents(d) # {}}}
              \cup {ev \in {[slot |-> 0, seq |-> 1, events |-> {"in"}]} : backlog # <<>>}
  /\ batch' # {}
  /\ UNCHANGED <<unit, obj, sock, backlog, proc>>

VerifyEvents(ev) == ev.seq = unit.seq[ev.slot]

\* One turn of the loop of ProcessPollerEvents.
ProcessPollerEvents ==
  /\ proc = "running"
  /\ \E ev \in batch :
       /\ IF ~VerifyEvents(ev) THEN UNCHANGED <<unit, obj, sock, backlog, proc>>
          ELSE IF unit.poller[ev.slot] = Listener THEN Accept
          ELSE Serve(ev, unit.poller[ev.slot])
       /\ batch' = IF proc' = "dead" THEN {} ELSE batch \ {ev}

-----------------------------------------------------------------------------
(* The peers and the network (external)                                    *)

PeerStep(c, s) ==
  /\ proc = "running" /\ sock' = [sock EXCEPT ![c] = s]
  /\ UNCHANGED <<unit, obj, batch, proc>>

PeerConnect(c) ==
  /\ sock[c].fd = "none"
  /\ PeerStep(c, [sock[c] EXCEPT !.fd = "backlog"])
  /\ backlog' = Append(backlog, c)

Connected(c) == sock[c].fd \in {"backlog", "open", "lost"}

PeerSend(c) ==
  /\ Connected(c) /\ sock[c].peer = "open"
  /\ SumFunction([d \in Conns |-> Len(sock[d].sent)]) < MaxPackets
  /\ \E kind \in Kinds :
       PeerStep(c, [sock[c] EXCEPT !.sent = Append(@, kind),
                      !.in = @ \o Pieces(c, Len(sock[c].sent) + 1, kind)])
  /\ UNCHANGED backlog

PeerReads(c) ==
  /\ Connected(c) /\ sock[c].peer = "open" /\ sock[c].full
  /\ PeerStep(c, [sock[c] EXCEPT !.full = FALSE])
  /\ UNCHANGED backlog

PeerCloses(c) ==
  /\ Connected(c) /\ sock[c].peer = "open"
  /\ PeerStep(c, [sock[c] EXCEPT !.peer = "closed"])
  /\ UNCHANGED backlog

PeerResets(c) ==
  /\ Connected(c) /\ sock[c].peer # "reset"
  /\ PeerStep(c, [sock[c] EXCEPT !.peer = "reset"])
  /\ UNCHANGED backlog

-----------------------------------------------------------------------------
\* InitializePollerUnit; then the listening socket is attached.
Init ==
  /\ unit = [seq |-> [i \in Slots |-> IF i = 0 THEN 1 ELSE 0],
             poller |-> [i \in Slots |-> IF i = 0 THEN Listener ELSE Nobody],
             free |-> [i \in 1..MaxPollers - 1 |-> i], used |-> 1]
  /\ obj = [c \in Conns |-> [state |-> "none", slot |-> NoSlot, old |-> {}, new |-> {},
                             r |-> <<>>, w |-> <<>>, last |-> NoPacket]]
  /\ sock = [c \in Conns |-> [fd |-> "none", peer |-> "open", in |-> <<>>, full |-> FALSE,
                              reg |-> NoReg, sent |-> <<>>, got |-> <<>>]]
  /\ backlog = <<>> /\ batch = {} /\ proc = "running"

Next ==
  \/ WaitPollerEvents
  \/ ProcessPollerEvents
  \/ \E c \in Conns : \/ PeerConnect(c) \/ PeerSend(c) \/ PeerReads(c)
                       \/ PeerCloses(c) \/ PeerResets(c)

Spec == Init /\ [][Next]_vars

\* The event loop goes on, and a peer reads what was sent to it.  A batch only
\* shrinks until it is empty, so that weak fairness of ProcessPollerEvents means
\* that the batch is empty again and again.
Fairness ==
  /\ WF_vars(WaitPollerEvents) /\ []<>(batch = {})
  /\ \A c \in Conns : WF_vars(PeerReads(c))

FairSpec == Spec /\ Fairness
-----------------------------------------------------------------------------
Live(c) == obj[c].state = "live"

\* Every variable has its type; no buffer outgrows what was sent.
TypeOK ==
  /\ unit.seq \in [Slots -> Nat] /\ unit.used \in 0..MaxPollers
  /\ unit.poller \in [Slots -> Conns \cup {Nobody, Listener}]
  /\ unit.free \in Seq(Slots)
  /\ \A c \in Conns :
       /\ obj[c].state \in {"none", "live", "deleted"} /\ obj[c].slot \in Slots \cup {NoSlot}
       /\ obj[c].old \subseteq {"in", "out"} /\ Len(obj[c].r) <= 1
       /\ Len(obj[c].w) <= 3 * Len(sock[c].sent)
       /\ sock[c].fd \in {"none", "backlog", "open", "lost", "closed"}
       /\ sock[c].peer \in {"open", "closed", "reset"}
  /\ backlog \in Seq(Conns) /\ proc \in {"running", "dead"}
  /\ \A ev \in batch : ev.slot \in Slots /\ ev.events \subseteq {"in", "out", "hup"}

\* Object, slot and kernel agree: an open descriptor belongs to a live handler,
\* whose slot points back at it and whose registration carries the sequence
\* number and the events of the object; output is asked for exactly while
\* replies wait; every other slot is on the free list, once.
PollerSound ==
  /\ TypeOK
  /\ proc = "running" =>
       /\ \A c \in Conns :
            /\ Live(c) <=> sock[c].fd = "open"
            /\ Live(c) => LET i == obj[c].slot
                          IN  /\ unit.poller[i] = c
                              /\ sock[c].reg = [slot |-> i, seq |-> unit.seq[i],
                                                events |-> obj[c].old]
                              /\ obj[c].new = obj[c].old
                              /\ obj[c].old = {"in"} \cup {e \in {"out"} : obj[c].w # <<>>}
       /\ IsInjective(unit.free)
       /\ \A i \in Slots : (unit.poller[i] = Nobody) <=> (i \in ToSet(unit.free))
       /\ \A i \in Slots : unit.poller[i] \in Conns => Live(unit.poller[i])
       /\ unit.used = MaxPollers - Len(unit.free)

\* An event of the batch finds the registration it was raised for, although
\* slots are freed and reused between epoll_wait and the event: no handler
\* touches another one, so VerifyEvents has nothing to refuse.
NoStaleEvent == \A ev \in batch : VerifyEvents(ev)

\* Replies arrive whole and in the order of the requests, also when some had to
\* wait for an output event, as long as no packet was too long for pPacket.
RepliesInOrder ==
  \A c \in Conns : "big" \notin ToSet(sock[c].sent) =>
    LET all == sock[c].got \o obj[c].w
    IN  \A i \in 1..Len(all) :
          /\ all[i].conn = c
          /\ i > 1 => \/ all[i].n > all[i-1].n
                      \/ all[i].n = all[i-1].n /\ all[i].part = all[i-1].part + 1

\* A connection is closed only if its peer has gone or sent something that is no
\* packet, or if input and output came in one event: the replies to the input
\* may then empty _w before OutputNotify runs, which takes that for an error.
HealthyKept ==
  [][\A c \in Conns :
       (sock[c].fd = "open" /\ sock'[c].fd = "closed" /\ proc' = "running") =>
         \/ sock[c].peer # "open"
         \/ ToSet(sock[c].sent) \cap {"bad", "policy"} # {}
         \/ obj[c].w # <<>> /\ sock[c].in # <<>>]_vars

\* The process ends only by serving a connection whose peer has gone.
DiesOnlyWithPeerGone == proc = "dead" => \E c \in Conns : sock[c].peer # "open"

\* One interrupted accept loses at most one connection.
OneLostPerInterrupt ==
  [][Cardinality({c \in Conns : sock'[c].fd = "lost" /\ sock[c].fd # "lost"}) <= 1]_vars

\* What a peer has sent is read and the replies leave, or the connection ends.
Pending(c) == sock[c].fd \in {"backlog", "open"} /\ (sock[c].in # <<>> \/ obj[c].w # <<>>)
Served == \A c \in Conns : Pending(c) ~> ~Pending(c)
=============================================================================
