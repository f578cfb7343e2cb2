----------------------------- MODULE BackServer -----------------------------
(***************************************************************************)
(* The link to the statistics (TJ) server: CBackServer, a socket handler   *)
(* that reconnects and a timer in one object (Server/CBackServer.cpp,      *)
(* src/CCSocketHandler.cpp, include/ICC_Timer_Handler.h).  Its callbacks   *)
(* call each other: connecting reports at once, reporting may fail and     *)
(* close the link, closing starts the timer that connects again.           *)
(*                                                                         *)
(* Each method is an operator from the state of the object to its state    *)
(* afterwards.  A report is a packet of several pieces; what one ::send    *)
(* does is a number o, the pieces the kernel accepts at most, or Error.    *)
(***************************************************************************)
EXTENDS Integers, Sequences

CONSTANTS
  Pieces,      \* pieces a packet may be broken into by partial sends
  StatBound,   \* bound: changes of the counters
  QueueBound   \* bound: pieces waiting in _w

ASSUME LinkAssumption ==
  /\ Pieces \in Nat \ {0} /\ StatBound \in Nat
  /\ QueueBound \in Nat /\ QueueBound >= 2 * Pieces

VARIABLES
  link,   \* the CBackServer object, and what the TJ server has read from it
  stat,   \* the counters of CStat, as the number of changes made to them
  peer,   \* "up" if the TJ server accepts connections
  calm    \* from now on nothing outside fails or changes (for liveness only)

vars == <<link, stat, peer, calm>>

Error == -1
Garbage == -1

Piece == (0..StatBound) \X (1..Pieces)

\* One report: the pieces of the packet SynData builds from the counters.
Packet(v) == [i \in 1..Pieces |-> <<v, i>>]

\* The fields of the object:
\*   connected  m_bIsConnected
\*   active     _stage is not CONN_IDLE
\*   fd         netfd: none (-1), open, broken (open, but the peer has gone), or
\*              stale (closed after a failed connect, the number was kept)
\*   epslot     none (NULL), watched (its descriptor is registered with epoll),
\*              or unwatched (set, though epoll refused the registration)
\*   timer      the timer is on its list;  loop: _isloop
\*   w          _w, the bytes still to be sent;  out: EPOLLOUT is enabled
\* and besides them: denied, whether the last attempt to attach the link to the
\* poller failed; and of the TJ server (external) part, what it holds of an
\* unfinished packet of this connection, and got, the last report it has read.
Link == [connected : BOOLEAN, active : BOOLEAN,
         fd : {"none", "open", "broken", "stale"},
         epslot : {"none", "watched", "unwatched"}, denied : BOOLEAN,
         timer : BOOLEAN, loop : BOOLEAN,
         w : Seq(Piece), out : BOOLEAN, part : Seq(Piece), got : Garbage..StatBound]

\* Every field keeps to its values.
TypeOK == /\ link \in Link /\ stat \in 0..StatBound
          /\ peer \in {"up", "down"} /\ calm \in BOOLEAN

-----------------------------------------------------------------------------
(* The TJ server cuts what it reads into packets by their length (external) *)

\* The place of the i-th piece read in its packet.
Place(i) == 1 + ((i - 1) % Pieces)

\* The first n pieces of what was read are the pieces of reports, each from its
\* first to its last, and none is older than the one before.
AreReports(p, n) ==
  /\ \A i \in 1..n : p[i][2] = Place(i)
  /\ \A i \in 1..n : i > 1 /\ p[i][2] > 1 => p[i][1] = p[i - 1][1]
  /\ \A i, j \in 1..n : i <= j => p[i][1] <= p[j][1]

\* Complete packets are read, the rest waits in part.  What the kernel accepts
\* for a broken connection is lost.
Transmit(s, pieces) ==
  LET p == s.part \o pieces
      n == Pieces * (Len(p) \div Pieces)
  IN  IF s.fd # "open" THEN s
      ELSE [s EXCEPT !.part = SubSeq(p, n + 1, Len(p)),
                     !.got = IF n = 0 THEN @
                             ELSE IF AreReports(p, n) THEN p[n][1] ELSE Garbage]

-----------------------------------------------------------------------------
(* CCTimer                                                                 *)

StartTimer(s, isloop) == [s EXCEPT !.timer = TRUE, !.loop = isloop]
StopTimer(s) == [s EXCEPT !.timer = FALSE, !.loop = FALSE]

-----------------------------------------------------------------------------
(* CCSocketHandler and CBackServer                                         *)

\* Without a descriptor there is nothing to attach; with a slot only its events
\* are applied again.  Otherwise a is added, noslot (the poller has no slot left)
\* or refused (EPOLL_CTL_ADD fails, and the slot is kept).  No caller looks at
\* the result.  No slot comes free within a callback, so that one a serves for
\* both attempts OnConnected and Connect make.
AttachPoller(s, a) ==
  IF s.fd = "none" \/ s.epslot # "none" THEN s
  ELSE [s EXCEPT !.epslot = CASE a = "added"  -> "watched"
                              [] a = "noslot" -> "none"
                              [] OTHER        -> "unwatched",
                 !.denied = (a # "added")]

\* Reset with DetachPoller: a descriptor that was never registered cannot be
\* taken out of epoll, and then the slot is not given back.
Reset(s) == [s EXCEPT !.w = <<>>, !.out = FALSE,
                      !.epslot = IF @ = "unwatched" THEN @ ELSE "none",
                      !.fd = "none", !.active = FALSE]

\* Mutant: m_bIsConnected is not reset.
OnCloseConnected(s) == StartTimer(s, TRUE)

\* Mutant: no timer is started.
OnCloseIdle(s) == [s EXCEPT !.connected = FALSE]

OnClose(s) == StartTimer([s EXCEPT !.connected = FALSE], TRUE)

\* What every notification does with an error: the object has the reconnect
\* flag, so it is reset rather than deleted.
Close(s) == Reset(OnClose(s))

\* ::send of the buffer, of which n pieces are accepted; the rest waits in _w
\* for an output event.
Flush(s, buffer, o) ==
  LET n == IF o < Len(buffer) THEN o ELSE Len(buffer)
  IN  [Transmit(s, SubSeq(buffer, 1, n)) EXCEPT
         !.w = SubSeq(buffer, n + 1, Len(buffer)),
         !.out = (n < Len(buffer)),
         !.active = TRUE]

\* OutputNotify with handle_output: an output event without data is an error.
HandleOutput(s, o) ==
  IF o = Error \/ s.w = <<>> THEN Close(s) ELSE Flush(s, s.w, o)

\* Mutant: the data goes to the socket although older data waits.
SendPast(s, packet, o, a) ==
  LET t == AttachPoller(s, a)
      u == Flush(t, packet, o)
  IN  IF o = Error THEN Close(t)
      ELSE [u EXCEPT !.w = t.w \o @, !.out = (t.w \o u.w # <<>>)]

\* Mutant: a live link is not attached again.
SendOnly(s, packet, o, a) ==
  IF s.w # <<>> THEN HandleOutput([s EXCEPT !.w = @ \o packet], o)
  ELSE IF o = Error THEN Close(s)
  ELSE Flush(s, packet, o)

\* Send: with the reconnect flag it first calls Connect, which for a live link
\* (LinkConsistent: there is no other when something is sent) only attaches.
\* The data goes straight to the socket unless older data waits in _w.
Send(s, packet, o, a) ==
  LET t == AttachPoller(s, a)
  IN  IF t.w # <<>> THEN HandleOutput([t EXCEPT !.w = @ \o packet], o)
      ELSE IF o = Error THEN Close(t)
      ELSE Flush(t, packet, o)

\* ReportData, SynData
SynData(s, o, a) == IF s.connected THEN Send(s, Packet(stat), o, a) ELSE s

OnConnected(s, o, a) ==
  StopTimer(SynData([s EXCEPT !.connected = TRUE], o, a))

\* Connect, where c is the outcome of tcp_connect: connected, refused (or timed
\* out), or no socket to be had.  A link that is not idle and has a descriptor
\* is taken to be connected.
Connect(s, c, o, a) ==
  CASE s.active /\ s.fd # "none" -> AttachPoller(s, a)
    [] c = "connected" ->
         AttachPoller(OnConnected([s EXCEPT !.fd = "open", !.active = TRUE,
                                            !.part = <<>>], o, a), a)
    [] c = "refused" -> [s EXCEPT !.fd = "stale"]
    [] OTHER -> [s EXCEPT !.fd = "none"]

\* TimerNotify, with ProcessOnTimerOut and reConnect: the timer has left its
\* list; it is put back if the callback did not stop it.
TimerNotify(s, c, o, a) ==
  LET t == Connect([s EXCEPT !.timer = FALSE], c, o, a)
  IN  IF t.loop THEN StartTimer(t, t.loop) ELSE t

-----------------------------------------------------------------------------
(* What happens                                                            *)

\* What may become of a connect, of an attempt to attach and of a send.
Connects ==
  (IF peer = "up" THEN {"connected"} ELSE {}) \cup
  (IF calm THEN {} ELSE {"refused", "nosocket"})
Attaches == IF calm THEN {"added"} ELSE {"added", "noslot", "refused"}
Fates(fd) == IF calm /\ fd # "broken" THEN 0..QueueBound ELSE Error..QueueBound

Fresh == [connected |-> FALSE, active |-> FALSE, fd |-> "none", epslot |-> "none",
          denied |-> FALSE, timer |-> FALSE, loop |-> FALSE, w |-> <<>>,
          out |-> FALSE, part |-> <<>>, got |-> 0]

\* InitBackServer connects before the event loop runs, and goes on either way.
Init ==
  /\ stat = 0
  /\ peer \in {"up", "down"}
  /\ calm = FALSE
  /\ \E c \in Connects, o \in Fates("open"), a \in Attaches :
       link = Connect(Fresh, c, o, a)

TimerOut ==
  /\ link.timer
  /\ \E c \in Connects, o \in Fates("open"), a \in Attaches :
       link' = TimerNotify(link, c, o, a)
  /\ UNCHANGED <<stat, peer, calm>>

\* Options::ProcessTimeCheck, where the send of the report has outcome o.
Report(o) ==
  /\ \E a \in Attaches : link' = SynData(link, o, a)
  /\ Len(link'.w) <= QueueBound
  /\ UNCHANGED <<stat, peer, calm>>

ProcessTimeCheck == \E o \in Fates(link.fd) : Report(o)

\* InputNotify or HangupNotify: the connection is gone, or sent nonsense.
CloseNotify ==
  /\ link.epslot = "watched"
  /\ link.fd = "broken" \/ ~calm
  /\ link' = Close(link)
  /\ UNCHANGED <<stat, peer, calm>>

\* The poller reports output only when the kernel has room again.
OutputNotify ==
  /\ link.epslot = "watched" /\ link.out
  /\ \E o \in Fates(link.fd) \ {0} : link' = HandleOutput(link, o)
  /\ UNCHANGED <<stat, peer, calm>>

\* The counters change (CStat, see UserServer).
Count ==
  /\ stat < StatBound /\ ~calm
  /\ stat' = stat + 1
  /\ UNCHANGED <<link, peer, calm>>

PeerDown ==
  /\ peer = "up" /\ ~calm
  /\ peer' = "down"
  /\ link' = [link EXCEPT !.fd = IF @ = "open" THEN "broken" ELSE @]
  /\ UNCHANGED <<stat, calm>>

PeerUp ==
  /\ peer = "down"
  /\ peer' = "up"
  /\ UNCHANGED <<link, stat, calm>>

BecomeCalm ==
  /\ peer = "up" /\ ~calm
  /\ calm' = TRUE
  /\ UNCHANGED <<link, stat, peer>>

Next == \/ TimerOut \/ ProcessTimeCheck \/ CloseNotify \/ OutputNotify
        \/ Count \/ PeerDown \/ PeerUp \/ BecomeCalm

Spec == Init /\ [][Next]_vars

Up == link.connected /\ link.fd = "open"

\* The event loop serves its timers, a writable socket and a dead connection.  Of
\* a link epoll does not watch it hears nothing; there the kernel fails a report
\* to a peer that has gone sooner or later, and has room for one sooner or later
\* while the peer reads (which QueueBound alone would imply as well).
Fairness ==
  /\ WF_vars(TimerOut)
  /\ WF_vars(ProcessTimeCheck)
  /\ WF_vars(OutputNotify)
  /\ WF_vars(link.fd = "broken" /\ CloseNotify)
  /\ WF_vars(link.fd = "broken" /\ Report(Error))
  /\ WF_vars(calm /\ Up /\ Report(QueueBound))

FairSpec == Spec /\ Fairness
-----------------------------------------------------------------------------

\* m_bIsConnected is set exactly for a live descriptor that Connect would not
\* replace, and then no reconnect is pending; so SynData never sends on a dead or
\* foreign descriptor.  The event loop watches a connected link unless the last
\* attempt to attach it failed, and never watches another descriptor.  Output
\* events are enabled exactly while data waits, so handle_output never finds _w
\* empty.
LinkConsistent ==
  /\ TypeOK
  /\ link.connected <=> link.fd \in {"open", "broken"}
  /\ link.connected => link.active /\ ~link.timer
  /\ link.epslot = "watched" \/ link.out \/ link.active => link.connected
  /\ link.connected => (link.epslot = "watched" <=> ~link.denied)
  /\ link.out <=> link.w # <<>>

\* The TJ server reads whole reports, never older than the one before, across
\* partial sends, queued packets, lost connections and reconnects.
ReportsInOrder == [][link'.got >= link.got]_vars

\* A link that is connected or is to be reconnected stays so; it is given up
\* only by a reconnect that succeeds and whose first report then fails.
GivenUpOnlyByReconnect ==
  [][link.timer \/ link.connected =>
       \/ link'.timer \/ link'.connected
       \/ link.timer /\ peer = "up" /\ link'.fd = "none"]_vars

\* Once the TJ server stays up, a link that is connected or is to be reconnected
\* comes up, the TJ server learns the final counters, and the link has a slot of
\* the poller: one that found none free is attached by a later report.
CatchesUp ==
  (calm /\ (link.timer \/ link.connected))
    ~> (Up /\ link.got = stat /\ link.epslot # "none")
=============================================================================
