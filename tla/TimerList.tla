----------------------------- MODULE TimerList -----------------------------
(***************************************************************************)
(* The timers of the process: one list per interval (src/core/timerlist),  *)
(* the CCTimer objects on them (include/ICC_Timer_Handler.h) and the loop  *)
(* of the reactor that waits for the first expiry, serves socket events    *)
(* and then runs what has expired (CCReactor::RunEventLoop).               *)
(*                                                                         *)
(* The timers are the three of Options (report, flush and offline check),  *)
(* which stop and start themselves in their callback, and the timer of the *)
(* TJ link, which repeats until the link is connected.                     *)
(*                                                                         *)
(* Only differences of times matter to the code, so an expiry is kept as   *)
(* its distance from GET_TIMESTAMP(), which falls as time passes.  The     *)
(* time stamps are those of the wall clock, which may be set while the     *)
(* process runs; due is the same distance in true time.                    *)
(***************************************************************************)
EXTENDS Integers, SequencesExt

CONSTANTS
  Checks,       \* the checks with a fixed period: FLUSH_CHECK, OFFLINE_CHECK
  FlushInterval, OfflineInterval, LinkInterval,  \* milliseconds
  TJIntervals,  \* what m_nTJInteval may be set to; 0 stands for all below 1
  Precision,    \* time stamps per millisecond
  MaxWait,      \* milliseconds: the loop never waits longer
  MaxWork,      \* bound: time stamps that the handlers of one round take
  Overrun,      \* bound: time stamps that epoll_wait returns late
  ClockBound    \* bound: time stamps the clock is set back, and forward

ASSUME TimerAssumption ==
  /\ Checks \subseteq {"flush_check", "offline_check"}
  /\ {FlushInterval, OfflineInterval, LinkInterval} \subseteq Nat \ {0}
  /\ TJIntervals \subseteq Nat /\ TJIntervals # {0}
  /\ Precision \in Nat \ {0} /\ MaxWait \in Nat
  /\ MaxWork \in Nat /\ Overrun \in Nat /\ ClockBound \in Nat

TIME_CHECK == "time_check"
FLUSH_CHECK == "flush_check"
OFFLINE_CHECK == "offline_check"
LINK == "link"
Timers == Checks \cup {TIME_CHECK, LINK}
NoList == -1

Timeouts == {FlushInterval, OfflineInterval, LinkInterval} \cup TJIntervals

VARIABLES
  unit,      \* the CTimerUnit and the timers
  phase,     \* where RunEventLoop is: wait, events or expired
  lag,       \* GET_TIMESTAMP() - now, the time since the wait of this round
  tl,        \* the list CheckExpired is at, by its timeout
  interval,  \* m_nTJInteval
  up,        \* the TJ link is connected
  work,      \* the time the handlers of this round have taken
  back,      \* how far the clock has been set back in all
  ahead,     \* and how far forward
  fired      \* the timer whose callback the last step ran, or none

vars == <<unit, phase, lag, tl, interval, up, work, back, ahead, fired>>

\*   next    the chain of CTimerList objects, by their timeouts
\*   tlist   the timers on the list of a timeout
\*   objexp  objexp - GET_TIMESTAMP();  due: the same in true time
\*   loop    _isloop;  timeout: _interval
EmptyUnit == [next |-> <<>>, tlist |-> [i \in Timeouts |-> <<>>],
              objexp |-> [t \in Timers |-> 0], due |-> [t \in Timers |-> 0],
              loop |-> [t \in Timers |-> FALSE],
              timeout |-> [t \in Timers |-> 0]]

\* The timer is on a list.
Armed(s, t) == \E i \in Timeouts : t \in ToSet(s.tlist[i])

-----------------------------------------------------------------------------
(* The lists                                                               *)

\* A list without the timer.
Unlinked(list, t) ==
  IF t \in ToSet(list) THEN RemoveAt(list, CHOOSE n \in DOMAIN list : list[n] = t) ELSE list

\* list_del_init: an object that is on no list points to itself, so that it
\* may be taken off again.
ListDel(s, t) == [s EXCEPT !.tlist = [i \in Timeouts |-> Unlinked(@[i], t)],
                           !.due[t] = 0]

DisableTimer(s, t) == ListDel(s, t)

\* GetTimerList: a list that does not exist yet is put in front of the chain.
GetTimerList(s, to) ==
  IF to \in ToSet(s.next) THEN s ELSE [s EXCEPT !.next = <<to>> \o @]

\* Mutant: the expiry of an object that has one is not renewed.
AttachTimerOnce(s, t, to) ==
  LET u == ListDel(s, t)
      renewed == to > 0 /\ u.objexp[t] = 0
  IN  [u EXCEPT !.tlist[to] = Append(@, t),
                !.objexp[t] = IF renewed THEN to * Precision ELSE @,
                !.due[t] = to * Precision]

\* Mutant: list_move instead of list_move_tail.
AttachTimerFront(s, t, to) ==
  LET u == ListDel(s, t)
  IN  [u EXCEPT !.tlist[to] = <<t>> \o @,
                !.objexp[t] = IF to > 0 THEN to * Precision ELSE @,
                !.due[t] = to * Precision]

\* AttachTimer: a list with timeout 0 leaves the expiry as it was.
AttachTimer(s, t, to) ==
  LET u == ListDel(s, t)
  IN  [u EXCEPT !.tlist[to] = Append(@, t),
                !.objexp[t] = IF to > 0 THEN to * Precision ELSE @,
                !.due[t] = to * Precision]

RegistTimer(s, t, to) == AttachTimer(DisableTimer(GetTimerList(s, to), t), t, to)

StartTimer(s, t, to, isloop) ==
  RegistTimer([s EXCEPT !.timeout[t] = to, !.loop[t] = isloop], t, to)

\* The expiry of the timer of the link is not read before it is set again.
StopTimer(s, t) == [DisableTimer(s, t) EXCEPT !.loop[t] = FALSE,
                                              !.objexp[t] = IF t = LINK THEN 0 ELSE @]

\* Mutant: the first list that has a timer decides.
ExpireFirstList(s, msec) ==
  LET used == {n \in DOMAIN s.next : s.tlist[s.next[n]] # <<>>}
      e == IF used = {} THEN msec * Precision
           ELSE s.objexp[Head(s.tlist[s.next[Min(used)]])]
  IN  IF e <= 0 THEN 0
      ELSE IF e < msec * Precision THEN e \div Precision ELSE msec

\* ExpireMicroSeconds: the time to the first expiry at the head of a list, at
\* most msec, in whole milliseconds.
ExpireMicroSeconds(s, msec) ==
  LET heads == {s.objexp[Head(s.tlist[i])] : i \in {j \in Timeouts : s.tlist[j] # <<>>}}
      exp == Min(heads \cup {msec * Precision})
  IN  IF exp <= 0 THEN 0 ELSE exp \div Precision

\* The times f of the timers when d has passed.
Sooner(s, f, d) == [t \in Timers |-> IF Armed(s, t) THEN f[t] - d ELSE f[t]]

\* Time passes.
Elapse(s, d) == [s EXCEPT !.objexp = Sooner(s, @, d), !.due = Sooner(s, @, d)]

\* The clock is set forward by d, back if d is negative.
ClockStep(s, d) == [s EXCEPT !.objexp = Sooner(s, @, d)]

-----------------------------------------------------------------------------
(* The callbacks                                                           *)

\* CBackServer::OnClose: the link is lost, its timer repeats until it is up.
OnClose(s) == StartTimer(s, LINK, LinkInterval, TRUE)

\* CBackServer::ProcessOnTimerOut, reConnect: the connect fails (the timer goes
\* on), succeeds, or succeeds but the first report fails, in which case OnClose
\* starts the timer and OnConnected stops it.
Reconnects(s, result) ==
  CASE result = "fails"     -> s
    [] result = "connected" -> StopTimer(s, LINK)
    [] result = "lost"      -> StopTimer(OnClose(s), LINK)

\* Mutant: the check returns without starting its timer again.
ProcessCheckReturns(s, t, w, lost, to) ==
  LET u == Elapse(StopTimer(s, t), w)
      v == IF lost THEN OnClose(u) ELSE u
  IN  IF lost THEN v ELSE StartTimer(v, t, to, FALSE)

\* ProcessTimeCheck, ProcessFlushCheck, ProcessOfflineCheck: the check stops its
\* timer, works for w and starts it again; a report may lose the link.
ProcessCheck(s, t, w, lost, to) ==
  LET u == [Elapse(StopTimer(s, t), w) EXCEPT !.objexp[t] = @ - w]
      v == IF lost THEN OnClose(u) ELSE u
  IN  StartTimer(v, t, to, FALSE)

\* CCTimer::TimerNotify: after the callback a timer that loops is started again.
TimerNotify(s, t) ==
  IF s.loop[t] THEN StartTimer(s, t, s.timeout[t], TRUE) ELSE s

\* The period each check starts its timer with.
Period(t, to) == CASE t = TIME_CHECK    -> to
                   [] t = FLUSH_CHECK   -> FlushInterval
                   [] t = OFFLINE_CHECK -> OfflineInterval

\* InitTimer, at the start of the process.
InitTimer(to) ==
  LET Started(s, t) == IF t \in Timers THEN StartTimer(s, t, Period(t, to), FALSE) ELSE s
  IN  Started(Started(Started(EmptyUnit, TIME_CHECK), FLUSH_CHECK), OFFLINE_CHECK)

Init ==
  /\ interval \in TJIntervals \ {0}
  /\ unit = InitTimer(interval)
  /\ up \in BOOLEAN      \* a first connect that fails starts no timer
  /\ phase = "wait" /\ tl = NoList /\ lag = 0 /\ work = 0
  /\ back = 0 /\ ahead = 0 /\ fired = "none"

-----------------------------------------------------------------------------
(* RunEventLoop                                                            *)

\* epoll_wait returns after the timeout, or earlier with events; now is taken.
WaitPollerEvents(d) ==
  /\ phase = "wait"
  /\ d \in 0..(ExpireMicroSeconds(unit, MaxWait) * Precision + Overrun)
  /\ unit' = Elapse(unit, d)
  /\ phase' = "events" /\ lag' = 0 /\ work' = 0 /\ fired' = "none"
  /\ UNCHANGED <<tl, interval, up, back, ahead>>

\* An event closes the TJ link.
LinkEvent ==
  /\ phase = "events" /\ up
  /\ unit' = OnClose(unit) /\ up' = FALSE
  /\ UNCHANGED <<phase, lag, tl, interval, work, back, ahead, fired>>

\* A packet sets the interval of the report (ProcessTJSwitch).
SetTjSwitch(to) ==
  /\ phase = "events" /\ to # interval
  /\ interval' = to
  /\ UNCHANGED <<unit, phase, lag, tl, up, work, back, ahead, fired>>

\* Any other event takes some time.
OtherEvent ==
  /\ phase = "events" /\ work < MaxWork
  /\ unit' = Elapse(unit, 1) /\ work' = work + 1 /\ lag' = lag + 1
  /\ UNCHANGED <<phase, tl, interval, up, back, ahead, fired>>

\* The first timer of the list has expired, by the time the round started at.
Expired(s, l, ago) == s.tlist[l] # <<>> /\ s.objexp[Head(s.tlist[l])] + ago <= 0

\* The chain from list l on, as it is by now, up to a list that has a timer to
\* run: the loops of the two CheckExpired between two callbacks.
DueList(s, l, ago) ==
  LET n == CHOOSE i \in DOMAIN s.next : s.next[i] = l
      due == {i \in n..Len(s.next) : Expired(s, s.next[i], ago)}
  IN  IF due = {} THEN NoList ELSE s.next[Min(due)]

\* CheckExpired goes on to the next timer, and without one the loop waits again
\* (nothing is ever put on the pending list).
GoOn(l, ago, w) ==
  /\ tl' = l
  /\ phase' = IF l = NoList THEN "wait" ELSE "expired"
  /\ lag' = IF l = NoList THEN 0 ELSE ago
  /\ work' = IF l = NoList THEN 0 ELSE w

\* All events are served; CheckExpired starts at the first list.
CheckExpired ==
  /\ phase = "events"
  /\ GoOn(DueList(unit, unit.next[1], lag), lag, work)
  /\ UNCHANGED <<unit, interval, up, back, ahead, fired>>

\* A check of Options runs.
CheckNotify(t, w, lost) ==
  /\ phase = "expired" /\ Head(unit.tlist[tl]) = t /\ t # LINK
  /\ w + work <= MaxWork
  /\ lost => up /\ t = TIME_CHECK
  /\ unit' = TimerNotify(
               ProcessCheck(ListDel(unit, t), t, w, lost, Period(t, interval)), t)
  /\ GoOn(DueList(unit', tl, lag + w), lag + w, work + w)
  /\ up' = (up /\ ~lost) /\ fired' = t
  /\ UNCHANGED <<interval, back, ahead>>

\* The timer of the link runs.
LinkNotify(result) ==
  /\ phase = "expired" /\ Head(unit.tlist[tl]) = LINK
  /\ unit' = TimerNotify(Reconnects(ListDel(unit, LINK), result), LINK)
  /\ GoOn(DueList(unit', tl, lag), lag, work)
  /\ up' = (result = "connected") /\ fired' = LINK
  /\ UNCHANGED <<interval, back, ahead>>

\* The clock of the machine is set by d, by another process.
SetClock(d) ==
  /\ unit' = ClockStep(unit, d)
  /\ lag' = (IF phase = "wait" THEN 0 ELSE lag + d)
  /\ fired' = "none"
  /\ UNCHANGED <<phase, tl, interval, up, work>>

SetClockBack ==
  /\ back < ClockBound /\ back' = back + 1
  /\ SetClock(-1) /\ UNCHANGED ahead

SetClockForward ==
  /\ ahead < ClockBound /\ ahead' = ahead + 1
  /\ SetClock(1) /\ UNCHANGED back

Loop ==
  \/ \E d \in 0..(MaxWait * Precision + Overrun) : WaitPollerEvents(d)
  \/ CheckExpired
  \/ \E t \in Timers, w \in 0..MaxWork, lost \in BOOLEAN : CheckNotify(t, w, lost)
  \/ \E result \in {"fails", "connected", "lost"} : LinkNotify(result)

Next ==
  \/ Loop
  \/ LinkEvent \/ OtherEvent
  \/ \E to \in TJIntervals : SetTjSwitch(to)
  \/ SetClockBack \/ SetClockForward

Spec == Init /\ [][Next]_vars

\* The loop goes on, as nothing in it blocks, and time passes in its waits.
FairSpec ==
  /\ Spec /\ WF_vars(Loop)
  /\ SF_vars(\E d \in 1..(MaxWait * Precision + Overrun) : WaitPollerEvents(d))

-----------------------------------------------------------------------------
(* Properties                                                              *)

\* Every list of the chain is there once, a timer is on the list of its own
\* interval and on no other, and CheckExpired is at a list of the chain.
ListsLinked ==
  /\ IsInjective(unit.next)
  /\ \A i \in Timeouts :
       /\ unit.tlist[i] # <<>> => i \in ToSet(unit.next)
       /\ IsInjective(unit.tlist[i])
       /\ \A t \in ToSet(unit.tlist[i]) : unit.timeout[t] = i
  /\ tl # NoList => tl \in ToSet(unit.next)

\* Each list is ordered by expiry, as long as nobody sets the clock back; set
\* forward, it brings all expiries nearer alike.
ListsOrdered ==
  back = 0 =>
    \A i \in Timeouts : i > 0 =>
      \A m, n \in 1..Len(unit.tlist[i]) :
        m < n => unit.objexp[unit.tlist[i][m]] <= unit.objexp[unit.tlist[i][n]]

\* The chain and the lists stay sound though callbacks put new lists in front of
\* the chain and move timers between the lists while CheckExpired walks them; it
\* looks at the head of a list only, so the order matters.
ListsSound == ListsLinked /\ ListsOrdered

\* No timer is overdue by more than two rounds of handlers, the delay of
\* epoll_wait and what the clock was set back, whatever was started, stopped and
\* moved meanwhile: the wait never goes past an expiry, rounding to milliseconds
\* makes it shorter and not longer, and a round misses none that is due.  Only a
\* timer with interval 0 is left out, whose expiry is never renewed.
NotLate ==
  \A t \in Timers : Armed(unit, t) /\ unit.timeout[t] > 0 =>
    unit.due[t] >= -(2 * MaxWork + Overrun + back)

\* A callback runs early only by what the clock was set forward: now is taken
\* before the handlers run, so a timer that one of them starts cannot run in the
\* same round, unless the clock was set back by a whole interval.
NotEarly ==
  [][\A t \in Timers : fired' = t /\ unit' # unit =>
       unit.due[t] <= ahead \/ back >= unit.timeout[t] * Precision]_vars

\* The checks of Options go on for ever: each stops and starts itself in its
\* callback, and CheckExpired comes to an end.  With a report interval of 0 it
\* does not: the report is due again whenever it has run.
ChecksGoOn ==
  <>(interval = 0) \/ \A t \in Timers \ {LINK} : []<>(fired = t)
=============================================================================
