--------------------------- MODULE TimerListProofs ---------------------------
(***************************************************************************)
(* The timer lists stay sound and the timers run in time, for any          *)
(* intervals, any precision of the clock, however long handlers take and   *)
(* however far the clock is set back and forward.                          *)
(***************************************************************************)
EXTENDS TimerList, ProofBasics

Units ==
  [next : Seq(Timeouts), tlist : [Timeouts -> Seq(Timers)],
   objexp : [Timers -> Int], due : [Timers -> Int],
   loop : [Timers -> BOOLEAN], timeout : [Timers -> Nat]]

\* An interval in time stamps.
Span(to) == to * Precision

Ordered(list, f) == \A m, n \in DOMAIN list : m < n => f[list[m]] <= f[list[n]]

\* A list of the unit, by its timeout: its timers are those with this interval,
\* each once, and what started first is due first, in true time.
ListOK(s, i) ==
  /\ s.tlist[i] # <<>> => i \in ToSet(s.next)
  /\ IsInjective(s.tlist[i])
  /\ \A t \in ToSet(s.tlist[i]) : s.timeout[t] = i /\ s.due[t] <= Span(i)
  /\ Ordered(s.tlist[i], s.due)

UnitOK(s) ==
  /\ s \in Units /\ IsInjective(s.next)
  /\ \A i \in Timeouts : ListOK(s, i)
  /\ \A t \in Timers : s.loop[t] => t = LINK /\ s.timeout[t] = LinkInterval

\* The two expiries of a timer that is on a list: the clock has lost b at most and
\* gained f at most, and the timer was started before now was taken, or since then,
\* w ago in true time and ago by the clock.
Timely(s, t, ago, w, b, f) ==
  /\ s.due[t] - f <= s.objexp[t] /\ s.objexp[t] <= s.due[t] + b
  /\ \/ /\ s.due[t] + w - f <= s.objexp[t] + ago
        /\ s.objexp[t] + ago <= s.due[t] + w + b
     \/ /\ s.objexp[t] + ago >= Span(s.timeout[t]) - b
        /\ s.due[t] + w >= Span(s.timeout[t])
  /\ s.due[t] + w >= -(MaxWork + Overrun + b)

Running(s, t) == Armed(s, t) /\ s.timeout[t] > 0

TimesOK(s, ago, w, b, f) == \A t \in Timers : Running(s, t) => Timely(s, t, ago, w, b, f)

\* Every list is in the order of its expiries.
InOrder(s) == \A i \in Timeouts : i > 0 => Ordered(s.tlist[i], s.objexp)

\* The lists from l on.
Position(s, l) == CHOOSE i \in DOMAIN s.next : s.next[i] = l
Rest(s, l) == {s.next[i] : i \in Position(s, l)..Len(s.next)}

\* The timers of the lists outside of L were not due when now was taken.
Passed(s, L, w, b) ==
  \A t \in Timers : Running(s, t) /\ s.timeout[t] \notin L => s.due[t] + w >= -b

\* The unit in the middle of a round: ago and w since now was taken, by the clock
\* and in true time, all lists but L checked, the clock set back by b and forward
\* by f in all.
Sound(s, L, ago, w, b, f) ==
  /\ UnitOK(s)
  /\ b \in Nat /\ f \in Nat /\ w \in Nat
  /\ ago \in Int /\ w - b <= ago /\ ago <= w + f
  /\ TimesOK(s, ago, w, b, f) /\ Passed(s, L, w, b)
  /\ b = 0 => InOrder(s)

TimerInv ==
  /\ Sound(unit, Timeouts, lag, work, back, ahead) /\ unit.next # <<>>
  /\ interval \in TJIntervals /\ work <= MaxWork
  /\ phase \in {"wait", "events", "expired"}
  /\ phase = "wait" => /\ lag = 0 /\ work = 0
                       /\ Passed(unit, {}, MaxWork, back)
  /\ phase # "expired" => tl = NoList
  /\ phase = "events" => fired = "none"
  /\ phase = "expired" => /\ tl \in ToSet(unit.next) /\ Expired(unit, tl, lag)
                          /\ Passed(unit, Rest(unit, tl), work, back)

-----------------------------------------------------------------------------
(* The lists                                                               *)

\* What comes first in k comes first in l.
Within(k, l) ==
  \A m, n \in DOMAIN k : m < n =>
    \E p, q \in DOMAIN l : p < q /\ l[p] = k[m] /\ l[q] = k[n]

LEMMA Removed ==
  ASSUME NEW S, NEW l \in Seq(S), NEW i \in DOMAIN l
  PROVE  /\ RemoveAt(l, i) \in Seq(S) /\ Len(RemoveAt(l, i)) = Len(l) - 1
         /\ Len(l) \in Nat /\ i \in 1..Len(l)
         /\ \A n \in 1..(Len(l) - 1) :
              RemoveAt(l, i)[n] = IF n < i THEN l[n] ELSE l[n + 1]
<1> DEFINE p == SubSeq(l, 1, i - 1)
           q == SubSeq(l, i + 1, Len(l))
<1>1. Len(l) \in Nat /\ i \in 1..Len(l) /\ i - 1 \in 0..Len(l) /\ i \in 0..Len(l)
  OBVIOUS
<1>2. p \in Seq(S) /\ Len(p) = i - 1 /\ \A n \in 1..(i - 1) : p[n] = l[n]
  BY <1>1, Prefix
<1>3. /\ q \in Seq(S) /\ Len(q) = Len(l) - i
      /\ \A n \in 1..(Len(l) - i) : q[n] = l[n + i]
  BY <1>1, Suffix
<1>4. RemoveAt(l, i) = p \o q
  BY DEF RemoveAt
<1> HIDE DEF p, q
<1>5. p \in Seq(S) /\ q \in Seq(S)
  BY <1>2, <1>3
<1> DEFINE c == p \o q
<1>6. /\ c \in Seq(S) /\ Len(c) = Len(p) + Len(q)
      /\ \A n \in 1..Len(p) : c[n] = p[n]
      /\ \A n \in 1..Len(q) : c[Len(p) + n] = q[n]
  BY <1>5, Concat
<1> HIDE DEF c
<1>7. ASSUME NEW n \in 1..(Len(l) - 1)
      PROVE  c[n] = IF n < i THEN l[n] ELSE l[n + 1]
  <2>1. CASE n < i
    <3>1. n \in 1..(i - 1)
      BY <1>1, <2>1
    <3>2. c[n] = p[n] /\ p[n] = l[n]
      BY <1>2, <1>6, <3>1
    <3>3. QED
      BY <2>1, <3>2
  <2>2. CASE ~(n < i)
    <3> DEFINE m == n - (i - 1)
    <3>1. m \in 1..(Len(l) - i) /\ (i - 1) + m = n /\ m + i = n + 1
      BY <1>1, <2>2
    <3> HIDE DEF m
    <3>2. c[(i - 1) + m] = q[m] /\ q[m] = l[m + i]
      BY <1>2, <1>3, <1>6, <3>1
    <3>3. QED
      BY <2>2, <3>1, <3>2
  <2>3. QED
    BY <2>1, <2>2
<1>8. Len(c) = Len(l) - 1
  BY <1>1, <1>2, <1>3, <1>6
<1>9. RemoveAt(l, i) = c
  BY <1>4 DEF c
<1>10. QED
  BY <1>1, <1>6, <1>7, <1>8, <1>9

\* list_del_init takes one timer off and leaves the others in their order.
LEMMA UnlinkedList ==
  ASSUME NEW S, NEW l \in Seq(S), IsInjective(l), NEW t
  PROVE  /\ Unlinked(l, t) \in Seq(S) /\ IsInjective(Unlinked(l, t))
         /\ ToSet(Unlinked(l, t)) = ToSet(l) \ {t}
         /\ Within(Unlinked(l, t), l)
         /\ t \notin ToSet(l) => Unlinked(l, t) = l
<1>1. CASE t \notin ToSet(l)
  BY <1>1 DEF Unlinked, Within
<1>2. CASE t \in ToSet(l)
  <2> DEFINE i == CHOOSE n \in DOMAIN l : l[n] = t
             k == RemoveAt(l, i)
  <2>1. i \in DOMAIN l /\ l[i] = t /\ Unlinked(l, t) = k
    BY <1>2 DEF ToSet, Unlinked
  <2> HIDE DEF i
  <2>2. /\ k \in Seq(S) /\ Len(k) = Len(l) - 1
        /\ Len(l) \in Nat /\ i \in 1..Len(l)
        /\ \A n \in 1..(Len(l) - 1) : k[n] = IF n < i THEN l[n] ELSE l[n + 1]
    BY <2>1, Removed
  <2> HIDE DEF k
  <2>3. DOMAIN k = 1..(Len(l) - 1) /\ DOMAIN l = 1..Len(l)
    BY <2>2
  <2>4. \A m, n \in 1..Len(l) : l[m] = l[n] => m = n
    BY <2>3 DEF IsInjective
  <2>5. IsInjective(k)
    <3>1. ASSUME NEW m \in 1..(Len(l) - 1), NEW n \in 1..(Len(l) - 1), k[m] = k[n]
          PROVE  m = n
      BY <2>2, <2>4, <3>1
    <3>2. QED
      BY <2>3, <3>1 DEF IsInjective
  <2>6. ToSet(k) = ToSet(l) \ {t}
    <3>1. ASSUME NEW n \in 1..(Len(l) - 1) PROVE k[n] \in ToSet(l) /\ k[n] # t
      <4>1. n \in 1..Len(l) /\ n + 1 \in 1..Len(l)
        BY <2>2
      <4>2. k[n] = IF n < i THEN l[n] ELSE l[n + 1]
        BY <2>2
      <4>3. n < i => n # i
        BY <2>2
      <4>4. ~(n < i) => n + 1 # i
        BY <2>2
      <4>5. QED
        BY <2>1, <2>2, <2>3, <2>4, <4>1, <4>2, <4>3, <4>4 DEF ToSet
    <3>2. ASSUME NEW n \in 1..Len(l), l[n] # t PROVE \E m \in 1..(Len(l) - 1) : k[m] = l[n]
      <4>1. CASE n < i
        <5>1. n \in 1..(Len(l) - 1)
          BY <2>2, <4>1
        <5>2. QED
          BY <2>2, <4>1, <5>1
      <4>2. CASE n > i
        <5>1. n - 1 \in 1..(Len(l) - 1) /\ ~(n - 1 < i) /\ (n - 1) + 1 = n
          BY <2>2, <4>2
        <5>2. k[n - 1] = l[(n - 1) + 1]
          BY <2>2, <5>1
        <5>3. QED
          BY <5>1, <5>2
      <4>3. n # i
        BY <2>1, <3>2
      <4>4. n < i \/ n > i
        BY <2>2, <4>3
      <4>5. QED
        BY <4>1, <4>2, <4>4
    <3>3. \A x : x \in ToSet(k) <=> \E n \in 1..(Len(l) - 1) : k[n] = x
      BY <2>3 DEF ToSet
    <3>4. \A x : x \in ToSet(l) <=> \E n \in 1..Len(l) : l[n] = x
      BY <2>3 DEF ToSet
    <3>5. QED
      BY <3>1, <3>2, <3>3, <3>4
  <2>7. Within(k, l)
    <3>1. ASSUME NEW m \in DOMAIN k, NEW n \in DOMAIN k, m < n
          PROVE  \E p, q \in DOMAIN l : p < q /\ l[p] = k[m] /\ l[q] = k[n]
      <4> DEFINE p == IF m < i THEN m ELSE m + 1
                 q == IF n < i THEN n ELSE n + 1
      <4>1. p \in DOMAIN l /\ q \in DOMAIN l /\ p < q
        BY <2>2, <2>3, <3>1
      <4>2. l[p] = k[m] /\ l[q] = k[n]
        BY <2>2, <2>3
      <4>3. QED
        BY <4>1, <4>2
    <3>2. QED
      BY <3>1 DEF Within
  <2>8. QED
    BY <1>2, <2>1, <2>2, <2>5, <2>6, <2>7
<1>3. QED
  BY <1>1, <1>2

LEMMA WithinOrdered ==
  ASSUME NEW k, NEW l, NEW f, Within(k, l), Ordered(l, f)
  PROVE  Ordered(k, f)
BY DEF Within, Ordered

\* list_add_tail of a timer that is not on the list.
LEMMA Appended ==
  ASSUME NEW S, NEW l \in Seq(S), IsInjective(l), NEW t \in S, t \notin ToSet(l)
  PROVE  /\ Append(l, t) \in Seq(S) /\ IsInjective(Append(l, t))
         /\ ToSet(Append(l, t)) = ToSet(l) \cup {t}
         /\ Append(l, t) # <<>>
<1>1. /\ Append(l, t) \in Seq(S) /\ Len(l) \in Nat /\ DOMAIN l = 1..Len(l)
      /\ DOMAIN Append(l, t) = 1..(Len(l) + 1)
      /\ Append(l, t)[Len(l) + 1] = t
      /\ \A n \in 1..Len(l) : Append(l, t)[n] = l[n]
      /\ Append(l, t) # <<>>
  OBVIOUS
<1> DEFINE k == Append(l, t)
<1> HIDE DEF k
<1>2. /\ DOMAIN k = 1..(Len(l) + 1) /\ k[Len(l) + 1] = t
      /\ \A n \in 1..Len(l) : k[n] = l[n]
  BY <1>1 DEF k
<1>3. \A n \in 1..(Len(l) + 1) : n = Len(l) + 1 \/ n \in 1..Len(l)
  BY <1>1
<1>4. \A n \in 1..Len(l) : l[n] # t
  BY <1>1 DEF ToSet
<1>5. \A m, n \in 1..Len(l) : l[m] = l[n] => m = n
  BY <1>1 DEF IsInjective
<1>6. IsInjective(k)
  BY <1>2, <1>3, <1>4, <1>5 DEF IsInjective
<1>7. ToSet(k) = ToSet(l) \cup {t}
  <2>1. \A n \in 1..Len(l) : n \in 1..(Len(l) + 1)
    BY <1>1
  <2>2. Len(l) + 1 \in 1..(Len(l) + 1)
    BY <1>1
  <2>3. QED
    BY <1>1, <1>2, <1>3, <2>1, <2>2 DEF ToSet
<1>8. QED
  BY <1>1, <1>6, <1>7 DEF k

\* The list stays ordered if the last timer is due last.
LEMMA AppendOrdered ==
  ASSUME NEW S, NEW l \in Seq(S), NEW t \in S, NEW f, Ordered(l, f),
         f[t] \in Int, \A x \in ToSet(l) : f[x] \in Int /\ f[x] <= f[t]
  PROVE  Ordered(Append(l, t), f)
<1> DEFINE k == Append(l, t)
<1>1. /\ Len(l) \in Nat /\ DOMAIN l = 1..Len(l)
      /\ DOMAIN k = 1..(Len(l) + 1) /\ k[Len(l) + 1] = t
      /\ \A n \in 1..Len(l) : k[n] = l[n]
  OBVIOUS
<1> HIDE DEF k
<1>2. \A n \in 1..Len(l) : f[l[n]] \in Int /\ f[l[n]] <= f[t]
  BY <1>1 DEF ToSet
<1>3. ASSUME NEW m \in DOMAIN k, NEW n \in DOMAIN k, m < n PROVE f[k[m]] <= f[k[n]]
  <2>1. m \in 1..Len(l)
    BY <1>1, <1>3
  <2>2. n \in 1..Len(l) \/ n = Len(l) + 1
    BY <1>1
  <2>3. QED
    BY <1>1, <1>2, <1>3, <2>1, <2>2 DEF Ordered
<1>4. QED
  BY <1>3 DEF Ordered, k

-----------------------------------------------------------------------------
(* What the operations do to the unit                                      *)

Others(s, u, t) ==
  \A x \in Timers \ {t} :
    /\ u.objexp[x] = s.objexp[x] /\ u.due[x] = s.due[x]
    /\ u.timeout[x] = s.timeout[x] /\ (u.loop[x] => s.loop[x])

\* The timer is off its list; its own times may be any.
Stopped(s, u, t) ==
  /\ u \in Units /\ u.next = s.next
  /\ \A i \in Timeouts : u.tlist[i] = Unlinked(s.tlist[i], t)
  /\ Others(s, u, t)
  /\ u.timeout[t] = s.timeout[t] /\ (u.loop[t] => s.loop[t])

\* The timer is the last of the list of its new interval.
Started(s, u, t, to) ==
  /\ u \in Units
  /\ u.next = IF to \in ToSet(s.next) THEN s.next ELSE <<to>> \o s.next
  /\ \A i \in Timeouts : i # to => u.tlist[i] = Unlinked(s.tlist[i], t)
  /\ u.tlist[to] = Append(Unlinked(s.tlist[to], t), t)
  /\ Others(s, u, t)
  /\ u.timeout[t] = to /\ u.due[t] = Span(to)
  /\ to > 0 => u.objexp[t] = Span(to)
  /\ u.loop[t] => t = LINK /\ to = LinkInterval

LEMMA ConstantsOK ==
  /\ Timeouts \subseteq Nat /\ NoList \notin Timeouts
  /\ LINK \in Timers /\ TIME_CHECK \in Timers /\ LinkInterval \in Timeouts
  /\ FlushInterval \in Timeouts /\ OfflineInterval \in Timeouts
  /\ TJIntervals \subseteq Timeouts
  /\ Timers \subseteq {"flush_check", "offline_check", "time_check", "link"}
<1>1. Timeouts \subseteq Nat /\ -1 \notin Nat
  <2>1. FlushInterval \in Nat /\ OfflineInterval \in Nat /\ LinkInterval \in Nat
        /\ TJIntervals \subseteq Nat
    BY TimerAssumption
  <2>2. -1 \notin Nat
    OBVIOUS
  <2>3. QED
    BY <2>1, <2>2 DEF Timeouts
<1>2. /\ LinkInterval \in Timeouts /\ FlushInterval \in Timeouts
      /\ OfflineInterval \in Timeouts /\ TJIntervals \subseteq Timeouts
  BY DEF Timeouts
<1>3. LINK \in Timers /\ TIME_CHECK \in Timers
  BY DEF Timers
<1>4. Timers \subseteq {"flush_check", "offline_check", "time_check", "link"}
  BY TimerAssumption DEF Timers, LINK, TIME_CHECK
<1>5. QED
  BY <1>1, <1>2, <1>3, <1>4 DEF NoList

LEMMA SpanOK ==
  ASSUME NEW to \in Nat
  PROVE  Span(to) \in Nat /\ (to = 0 => Span(to) = 0)
BY TimerAssumption DEF Span

\* All that the operations need of a unit to work on it.
Tidy(s) == s \in Units /\ \A i \in Timeouts : IsInjective(s.tlist[i])

LEMMA UnitTidy ==
  ASSUME NEW s, UnitOK(s)
  PROVE  Tidy(s)
BY DEF UnitOK, Tidy, ListOK

LEMMA TidyLists ==
  ASSUME NEW s, Tidy(s), NEW i \in Timeouts
  PROVE  s.tlist[i] \in Seq(Timers) /\ IsInjective(s.tlist[i])
BY DEF Tidy, Units

LEMMA ListDelStops ==
  ASSUME NEW s, Tidy(s), NEW t \in Timers
  PROVE  Stopped(s, ListDel(s, t), t)
<1> DEFINE l == [i \in Timeouts |-> Unlinked(s.tlist[i], t)]
           d == [s.due EXCEPT ![t] = 0]
           u == ListDel(s, t)
<1>1. \A i \in Timeouts : Unlinked(s.tlist[i], t) \in Seq(Timers)
  BY TidyLists, UnlinkedList
<1>2. l \in [Timeouts -> Seq(Timers)] /\ \A i \in Timeouts : l[i] = Unlinked(s.tlist[i], t)
  BY <1>1
<1>3. s \in Units
  BY DEF Tidy
<1>4. d \in [Timers -> Int] /\ \A x \in Timers \ {t} : d[x] = s.due[x]
  BY <1>3 DEF Units
<1> DEFINE v == [s EXCEPT !.tlist = l]
<1>5. v \in Units /\ v.next = s.next /\ v.tlist = l /\ v.objexp = s.objexp
      /\ v.due = s.due /\ v.loop = s.loop /\ v.timeout = s.timeout
  BY <1>2, <1>3 DEF Units
<1>6. u = [v EXCEPT !.due = d]
  BY <1>3 DEF ListDel, Units
<1> HIDE DEF l, d, u, v
<1>7. u \in Units /\ u.next = s.next /\ u.tlist = l /\ u.objexp = s.objexp
      /\ u.due = d /\ u.loop = s.loop /\ u.timeout = s.timeout
  BY <1>4, <1>5, <1>6 DEF Units
<1>8. Others(s, u, t)
  BY <1>4, <1>7 DEF Others
<1>9. Stopped(s, u, t)
  BY <1>2, <1>7, <1>8 DEF Stopped
<1>10. QED
  BY <1>9 DEF u

LEMMA StoppedTidy ==
  ASSUME NEW s, Tidy(s), NEW t \in Timers, NEW u, Stopped(s, u, t)
  PROVE  Tidy(u)
<1>1. \A i \in Timeouts : IsInjective(u.tlist[i])
  BY TidyLists, UnlinkedList DEF Stopped
<1>2. QED
  BY <1>1 DEF Stopped, Tidy

LEMMA StoppedTwice ==
  ASSUME NEW s, Tidy(s), NEW t \in Timers, NEW u, Stopped(s, u, t),
         NEW v, Stopped(u, v, t)
  PROVE  Stopped(s, v, t)
<1>1. ASSUME NEW i \in Timeouts PROVE v.tlist[i] = Unlinked(s.tlist[i], t)
  <2>1. t \notin ToSet(u.tlist[i]) /\ u.tlist[i] \in Seq(Timers) /\ IsInjective(u.tlist[i])
    BY TidyLists, UnlinkedList DEF Stopped
  <2>2. Unlinked(u.tlist[i], t) = u.tlist[i]
    BY <2>1, UnlinkedList
  <2>3. QED
    BY <2>2 DEF Stopped
<1>2. QED
  BY <1>1 DEF Stopped, Others

\* GetTimerList, DisableTimer and AttachTimer, for a timer whose interval and
\* loop are set.
LEMMA RegistStarts ==
  ASSUME NEW s, Tidy(s), NEW t \in Timers, NEW to \in Timeouts,
         s.timeout[t] = to, s.loop[t] => t = LINK /\ to = LinkInterval
  PROVE  Started(s, RegistTimer(s, t, to), t, to)
<1> DEFINE g == GetTimerList(s, to)
           h == ListDel(g, t)
           k == ListDel(h, t)
           u == AttachTimer(h, t, to)
<1>1. RegistTimer(s, t, to) = u
  BY DEF RegistTimer, DisableTimer
<1>2. to \in Nat /\ Span(to) \in Int
  BY ConstantsOK, SpanOK
<1>3. /\ g \in Units /\ g.tlist = s.tlist /\ g.objexp = s.objexp /\ g.due = s.due
      /\ g.loop = s.loop /\ g.timeout = s.timeout
      /\ g.next = IF to \in ToSet(s.next) THEN s.next ELSE <<to>> \o s.next
  <2>1. s \in Units /\ s.next \in Seq(Timeouts)
    BY DEF Tidy, Units
  <2>2. <<to>> \o s.next \in Seq(Timeouts)
    BY <2>1
  <2>3. QED
    BY <2>1, <2>2 DEF GetTimerList, Units
<1>4. Tidy(g)
  BY <1>3 DEF Tidy
<1> HIDE DEF g
<1>5. Stopped(g, h, t)
  BY <1>4, ListDelStops
<1>6. Tidy(h)
  BY <1>4, <1>5, StoppedTidy
<1>7. u = [k EXCEPT !.tlist[to] = Append(@, t),
                    !.objexp[t] = IF to > 0 THEN to * Precision ELSE @,
                    !.due[t] = to * Precision]
  BY DEF AttachTimer
<1> HIDE DEF h, u
<1>8. Stopped(h, k, t)
  BY <1>6, ListDelStops
<1>9. Tidy(k)
  BY <1>6, <1>8, StoppedTidy
<1>10. Stopped(g, k, t)
  BY <1>4, <1>5, <1>8, StoppedTwice
<1> HIDE DEF k
<1>11. k \in Units
  BY <1>9 DEF Tidy
<1> DEFINE l == [k.tlist EXCEPT ![to] = Append(@, t)]
           o == [k.objexp EXCEPT ![t] = IF to > 0 THEN Span(to) ELSE @]
           d == [k.due EXCEPT ![t] = Span(to)]
           v == [k EXCEPT !.tlist = l]
           w == [v EXCEPT !.objexp = o]
<1>12. l \in [Timeouts -> Seq(Timers)] /\ l[to] = Append(k.tlist[to], t)
       /\ \A i \in Timeouts : i # to => l[i] = k.tlist[i]
  BY <1>11 DEF Units
<1>13. o \in [Timers -> Int] /\ (to > 0 => o[t] = Span(to))
       /\ \A x \in Timers \ {t} : o[x] = k.objexp[x]
  BY <1>2, <1>11 DEF Units
<1>14. d \in [Timers -> Int] /\ d[t] = Span(to)
       /\ \A x \in Timers \ {t} : d[x] = k.due[x]
  BY <1>2, <1>11 DEF Units
<1>15. u = [w EXCEPT !.due = d]
  BY <1>7, <1>11 DEF Units, Span
<1> HIDE DEF l, o, d
<1>16. v \in Units /\ v.next = k.next /\ v.tlist = l /\ v.objexp = k.objexp
       /\ v.due = k.due /\ v.loop = k.loop /\ v.timeout = k.timeout
  BY <1>11, <1>12 DEF Units
<1> HIDE DEF v
<1>17. w \in Units /\ w.next = k.next /\ w.tlist = l /\ w.objexp = o
       /\ w.due = k.due /\ w.loop = k.loop /\ w.timeout = k.timeout
  BY <1>13, <1>16 DEF Units
<1> HIDE DEF w
<1>18. u \in Units /\ u.next = k.next /\ u.tlist = l /\ u.objexp = o
       /\ u.due = d /\ u.loop = k.loop /\ u.timeout = k.timeout
  BY <1>14, <1>15, <1>17 DEF Units
<1>19. /\ k.next = g.next /\ (k.loop[t] => s.loop[t]) /\ k.timeout[t] = to
       /\ \A i \in Timeouts : k.tlist[i] = Unlinked(s.tlist[i], t)
       /\ \A x \in Timers \ {t} : /\ k.objexp[x] = s.objexp[x] /\ k.due[x] = s.due[x]
                                  /\ k.timeout[x] = s.timeout[x] /\ (k.loop[x] => s.loop[x])
  BY <1>3, <1>10 DEF Stopped, Others
<1>20. Others(s, u, t)
  BY <1>13, <1>14, <1>18, <1>19 DEF Others
<1>21. /\ \A i \in Timeouts : i # to => u.tlist[i] = Unlinked(s.tlist[i], t)
       /\ u.tlist[to] = Append(Unlinked(s.tlist[to], t), t)
  BY <1>12, <1>18, <1>19
<1>22. Started(s, u, t, to)
  BY <1>3, <1>13, <1>14, <1>18, <1>19, <1>20, <1>21 DEF Started
<1>23. QED
  BY <1>1, <1>22

\* StartTimer only looks at what stays of the timer's lists.
LEMMA SetupStarts ==
  ASSUME NEW s, Tidy(s), NEW t \in Timers, NEW to \in Timeouts,
         NEW r, r \in Units, r.next = s.next, r.tlist = s.tlist,
         r.objexp = s.objexp, r.due = s.due,
         \A x \in Timers \ {t} : r.timeout[x] = s.timeout[x] /\ r.loop[x] = s.loop[x],
         r.timeout[t] = to, r.loop[t] => t = LINK /\ to = LinkInterval
  PROVE  Started(s, RegistTimer(r, t, to), t, to)
<1>1. Tidy(r)
  BY DEF Tidy
<1> DEFINE u == RegistTimer(r, t, to)
<1>2. Started(r, u, t, to)
  BY <1>1, RegistStarts
<1> HIDE DEF u
<1>3. Others(s, u, t)
  BY <1>2 DEF Started, Others
<1>4. Started(s, u, t, to)
  BY <1>2, <1>3 DEF Started
<1>5. QED
  BY <1>4 DEF u

LEMMA StartCheck ==
  ASSUME NEW s, Tidy(s), NEW t \in Timers, NEW to \in Timeouts
  PROVE  Started(s, StartTimer(s, t, to, FALSE), t, to)
<1> DEFINE r == [s EXCEPT !.timeout[t] = to, !.loop[t] = FALSE]
           m == [s.timeout EXCEPT ![t] = to]
           p == [s.loop EXCEPT ![t] = FALSE]
           v == [s EXCEPT !.timeout = m]
<1>1. s \in Units /\ to \in Nat
  BY ConstantsOK DEF Tidy
<1>2. m \in [Timers -> Nat] /\ m[t] = to /\ \A x \in Timers \ {t} : m[x] = s.timeout[x]
  BY <1>1 DEF Units
<1>3. p \in [Timers -> BOOLEAN] /\ p[t] = FALSE /\ \A x \in Timers \ {t} : p[x] = s.loop[x]
  BY <1>1 DEF Units
<1>4. r = [v EXCEPT !.loop = p]
  BY <1>1 DEF Units
<1>5. StartTimer(s, t, to, FALSE) = RegistTimer(r, t, to)
  BY DEF StartTimer
<1> HIDE DEF m, p, r
<1>6. v \in Units /\ v.next = s.next /\ v.tlist = s.tlist /\ v.objexp = s.objexp
      /\ v.due = s.due /\ v.loop = s.loop /\ v.timeout = m
  BY <1>1, <1>2 DEF Units
<1> HIDE DEF v
<1>7. r \in Units /\ r.next = s.next /\ r.tlist = s.tlist /\ r.objexp = s.objexp
      /\ r.due = s.due /\ r.loop = p /\ r.timeout = m
  BY <1>3, <1>4, <1>6 DEF Units
<1>8. Started(s, RegistTimer(r, t, to), t, to)
  BY <1>2, <1>3, <1>7, SetupStarts
<1>9. QED
  BY <1>5, <1>8

LEMMA StartLink ==
  ASSUME NEW s, Tidy(s)
  PROVE  Started(s, StartTimer(s, LINK, LinkInterval, TRUE), LINK, LinkInterval)
<1> DEFINE t == LINK
           to == LinkInterval
           r == [s EXCEPT !.timeout[t] = to, !.loop[t] = TRUE]
           m == [s.timeout EXCEPT ![t] = to]
           p == [s.loop EXCEPT ![t] = TRUE]
           v == [s EXCEPT !.timeout = m]
<1>1. s \in Units /\ to \in Nat /\ t \in Timers /\ to \in Timeouts
  BY ConstantsOK DEF Tidy
<1>2. m \in [Timers -> Nat] /\ m[t] = to /\ \A x \in Timers \ {t} : m[x] = s.timeout[x]
  BY <1>1 DEF Units
<1>3. p \in [Timers -> BOOLEAN] /\ p[t] = TRUE /\ \A x \in Timers \ {t} : p[x] = s.loop[x]
  BY <1>1 DEF Units
<1>4. r = [v EXCEPT !.loop = p]
  BY <1>1 DEF Units
<1>5. StartTimer(s, t, to, TRUE) = RegistTimer(r, t, to)
  BY DEF StartTimer
<1> HIDE DEF m, p, r
<1>6. v \in Units /\ v.next = s.next /\ v.tlist = s.tlist /\ v.objexp = s.objexp
      /\ v.due = s.due /\ v.loop = s.loop /\ v.timeout = m
  BY <1>1, <1>2 DEF Units
<1> HIDE DEF v
<1>7. r \in Units /\ r.next = s.next /\ r.tlist = s.tlist /\ r.objexp = s.objexp
      /\ r.due = s.due /\ r.loop = p /\ r.timeout = m
  BY <1>3, <1>4, <1>6 DEF Units
<1>8. Started(s, RegistTimer(r, t, to), t, to)
  BY <1>1, <1>2, <1>3, <1>7, SetupStarts
<1>9. QED
  BY <1>5, <1>8

LEMMA StopStops ==
  ASSUME NEW s, Tidy(s), NEW t \in Timers
  PROVE  Stopped(s, StopTimer(s, t), t) /\ StopTimer(s, t).loop[t] = FALSE
<1> DEFINE h == ListDel(s, t)
           p == [h.loop EXCEPT ![t] = FALSE]
           o == [h.objexp EXCEPT ![t] = IF t = LINK THEN 0 ELSE @]
           v == [h EXCEPT !.loop = p]
           u == StopTimer(s, t)
<1>1. Stopped(s, h, t)
  BY ListDelStops
<1>2. u = [h EXCEPT !.loop[t] = FALSE, !.objexp[t] = IF t = LINK THEN 0 ELSE @]
  BY DEF StopTimer, DisableTimer
<1> HIDE DEF h, u
<1>3. h \in Units
  BY <1>1 DEF Stopped
<1>4. p \in [Timers -> BOOLEAN] /\ p[t] = FALSE /\ \A x \in Timers \ {t} : p[x] = h.loop[x]
  BY <1>3 DEF Units
<1>5. o \in [Timers -> Int] /\ \A x \in Timers \ {t} : o[x] = h.objexp[x]
  BY <1>3 DEF Units
<1>6. u = [v EXCEPT !.objexp = o]
  BY <1>2, <1>3 DEF Units
<1> HIDE DEF p, o
<1>7. v \in Units /\ v.next = h.next /\ v.tlist = h.tlist /\ v.objexp = h.objexp
      /\ v.due = h.due /\ v.loop = p /\ v.timeout = h.timeout
  BY <1>3, <1>4 DEF Units
<1> HIDE DEF v
<1>8. u \in Units /\ u.next = h.next /\ u.tlist = h.tlist /\ u.objexp = o
      /\ u.due = h.due /\ u.loop = p /\ u.timeout = h.timeout
  BY <1>5, <1>6, <1>7 DEF Units
<1>9. Others(s, u, t)
  BY <1>1, <1>4, <1>5, <1>8 DEF Stopped, Others
<1>10. Stopped(s, u, t) /\ u.loop[t] = FALSE
  BY <1>1, <1>4, <1>8, <1>9 DEF Stopped
<1>11. QED
  BY <1>10 DEF u

LEMMA ElapseFields ==
  ASSUME NEW s, s \in Units, NEW d \in Int, NEW u, u = Elapse(s, d)
  PROVE  /\ u \in Units /\ u.next = s.next /\ u.tlist = s.tlist
         /\ u.loop = s.loop /\ u.timeout = s.timeout
         /\ \A x \in Timers : Armed(s, x) => /\ u.objexp[x] = s.objexp[x] - d
                                             /\ u.due[x] = s.due[x] - d
<1> DEFINE o == Sooner(s, s.objexp, d)
           e == Sooner(s, s.due, d)
           v == [s EXCEPT !.objexp = o]
<1>1. \A x \in Timers : s.objexp[x] \in Int /\ s.due[x] \in Int
  BY DEF Units
<1>2. o \in [Timers -> Int] /\ \A x \in Timers : Armed(s, x) => o[x] = s.objexp[x] - d
  BY <1>1 DEF Sooner
<1>3. e \in [Timers -> Int] /\ \A x \in Timers : Armed(s, x) => e[x] = s.due[x] - d
  BY <1>1 DEF Sooner
<1>4. u = [v EXCEPT !.due = e]
  BY DEF Elapse, Units
<1> HIDE DEF o, e
<1>5. v \in Units /\ v.next = s.next /\ v.tlist = s.tlist /\ v.objexp = o
      /\ v.due = s.due /\ v.loop = s.loop /\ v.timeout = s.timeout
  BY <1>2 DEF Units
<1> HIDE DEF v
<1>6. u \in Units /\ u.next = s.next /\ u.tlist = s.tlist /\ u.objexp = o
      /\ u.due = e /\ u.loop = s.loop /\ u.timeout = s.timeout
  BY <1>3, <1>4, <1>5 DEF Units
<1>7. QED
  BY <1>2, <1>3, <1>6

LEMMA ClockStepFields ==
  ASSUME NEW s, s \in Units, NEW d \in Int, NEW u, u = ClockStep(s, d)
  PROVE  /\ u \in Units /\ u.next = s.next /\ u.tlist = s.tlist
         /\ u.loop = s.loop /\ u.timeout = s.timeout /\ u.due = s.due
         /\ \A x \in Timers : Armed(s, x) => u.objexp[x] = s.objexp[x] - d
<1> DEFINE o == Sooner(s, s.objexp, d)
<1>1. \A x \in Timers : s.objexp[x] \in Int
  BY DEF Units
<1>2. o \in [Timers -> Int] /\ \A x \in Timers : Armed(s, x) => o[x] = s.objexp[x] - d
  BY <1>1 DEF Sooner
<1>3. u = [s EXCEPT !.objexp = o]
  BY DEF ClockStep
<1> HIDE DEF o
<1>4. u \in Units /\ u.next = s.next /\ u.tlist = s.tlist /\ u.objexp = o
      /\ u.due = s.due /\ u.loop = s.loop /\ u.timeout = s.timeout
  BY <1>2, <1>3 DEF Units
<1>5. QED
  BY <1>2, <1>4

-----------------------------------------------------------------------------
(* The operations keep the unit sound                                      *)

LEMMA EmptyList ==
  ASSUME NEW S, NEW l \in Seq(S)
  PROVE  l = <<>> <=> ToSet(l) = {}
<1>1. Len(l) \in Nat /\ DOMAIN l = 1..Len(l) /\ (l = <<>> <=> Len(l) = 0)
  OBVIOUS
<1>2. ToSet(l) = {} <=> \A n \in 1..Len(l) : FALSE
  BY <1>1 DEF ToSet
<1>3. (\A n \in 1..Len(l) : FALSE) <=> Len(l) = 0
  BY <1>1
<1>4. QED
  BY <1>1, <1>2, <1>3

LEMMA OrderedSame ==
  ASSUME NEW l, NEW f, NEW g, Ordered(l, f), \A x \in ToSet(l) : g[x] = f[x]
  PROVE  Ordered(l, g)
BY DEF Ordered, ToSet

\* What is left of list i without the timer is a sound list.
LeftList(s, u, t, i, k) ==
  /\ k \in Seq(Timers) /\ IsInjective(k) /\ ToSet(k) = ToSet(s.tlist[i]) \ {t}
  /\ k # <<>> => i \in ToSet(s.next)
  /\ \A x \in ToSet(k) : u.timeout[x] = i /\ u.due[x] \in Int /\ u.due[x] <= Span(i)
  /\ Ordered(k, u.due)

LEMMA RestOfList ==
  ASSUME NEW s, UnitOK(s), NEW t \in Timers, NEW u, Others(s, u, t), NEW i \in Timeouts
  PROVE  LeftList(s, u, t, i, Unlinked(s.tlist[i], t))
<1> DEFINE l == s.tlist[i]
           k == Unlinked(l, t)
<1>1. l \in Seq(Timers) /\ IsInjective(l)
  BY UnitTidy, TidyLists
<1>2. /\ k \in Seq(Timers) /\ IsInjective(k) /\ ToSet(k) = ToSet(l) \ {t} /\ Within(k, l)
  BY <1>1, UnlinkedList
<1> HIDE DEF k
<1>3. /\ (l # <<>> => i \in ToSet(s.next)) /\ Ordered(l, s.due)
      /\ \A x \in ToSet(l) : s.timeout[x] = i /\ s.due[x] <= Span(i)
  BY DEF UnitOK, ListOK
<1>4. \A x \in Timers : s.due[x] \in Int
  BY DEF UnitOK, Units
<1>5. ToSet(l) \subseteq Timers
  BY <1>1 DEF ToSet
<1> HIDE DEF l
<1>6. k # <<>> => l # <<>>
  BY <1>1, <1>2, EmptyList
<1>7. \A x \in ToSet(k) : u.timeout[x] = s.timeout[x] /\ u.due[x] = s.due[x]
  BY <1>2, <1>5 DEF Others
<1>8. Ordered(k, s.due)
  BY <1>2, <1>3, WithinOrdered
<1>9. Ordered(k, u.due)
  BY <1>7, <1>8, OrderedSame
<1>10. \A x \in ToSet(k) : x \in ToSet(l) /\ x \in Timers
  BY <1>2, <1>5
<1>11. QED
  BY <1>2, <1>3, <1>4, <1>6, <1>7, <1>9, <1>10 DEF l, k, LeftList

LEMMA StoppedOK ==
  ASSUME NEW s, UnitOK(s), NEW t \in Timers, NEW u, Stopped(s, u, t)
  PROVE  UnitOK(u) /\ ~Armed(u, t) /\ \A x \in Timers : Armed(u, x) => Armed(s, x)
<1>1. u \in Units /\ u.next = s.next /\ IsInjective(u.next)
  BY DEF Stopped, UnitOK
<1>2. Others(s, u, t)
  BY DEF Stopped
<1>3. ASSUME NEW i \in Timeouts
      PROVE  ListOK(u, i) /\ t \notin ToSet(u.tlist[i]) /\ ToSet(u.tlist[i]) \subseteq ToSet(s.tlist[i])
  <2> DEFINE k == u.tlist[i]
  <2>1. k = Unlinked(s.tlist[i], t)
    BY DEF Stopped
  <2> HIDE DEF k
  <2>2. LeftList(s, u, t, i, k)
    BY <1>2, <2>1, RestOfList
  <2>3. QED
    BY <1>1, <2>2 DEF ListOK, k, LeftList
<1>4. \A x \in Timers : u.loop[x] => x = LINK /\ u.timeout[x] = LinkInterval
  BY DEF Stopped, Others, UnitOK
<1>5. UnitOK(u)
  BY <1>1, <1>3, <1>4 DEF UnitOK
<1>6. ~Armed(u, t) /\ \A x \in Timers : Armed(u, x) => Armed(s, x)
  BY <1>3 DEF Armed
<1>7. QED
  BY <1>5, <1>6

\* The chain m is the chain n behind a list.
Longer(n, to, m) ==
  /\ m \in Seq(Timeouts) /\ IsInjective(m) /\ ToSet(m) = ToSet(n) \cup {to}
  /\ Len(n) \in Nat /\ Len(m) = Len(n) + 1 /\ \A i \in 1..Len(n) : m[i + 1] = n[i]
  /\ DOMAIN n = 1..Len(n) /\ DOMAIN m = 1..(Len(n) + 1)

LEMMA GrownChain ==
  ASSUME NEW n \in Seq(Timeouts), IsInjective(n), NEW to \in Timeouts, to \notin ToSet(n),
         NEW m, m = <<to>> \o n
  PROVE  Longer(n, to, m)
<1>1. /\ m \in Seq(Timeouts) /\ Len(m) = Len(n) + 1 /\ Len(n) \in Nat /\ DOMAIN n = 1..Len(n)
      /\ DOMAIN m = 1..(Len(n) + 1) /\ m[1] = to
      /\ \A i \in 1..Len(n) : m[i + 1] = n[i]
  OBVIOUS
<1>2. \A i \in 1..(Len(n) + 1) : i = 1 \/ (i - 1 \in 1..Len(n) /\ (i - 1) + 1 = i)
  BY <1>1
<1>3. \A i \in 1..(Len(n) + 1) : i = 1 \/ (i - 1 \in 1..Len(n) /\ m[i] = n[i - 1])
  BY <1>1, <1>2
<1>4. \A i \in 1..Len(n) : n[i] # to
  BY <1>1 DEF ToSet
<1>5. \A i, j \in 1..Len(n) : n[i] = n[j] => i = j
  BY <1>1 DEF IsInjective
<1>6. ASSUME NEW i \in 1..(Len(n) + 1), NEW j \in 1..(Len(n) + 1), m[i] = m[j] PROVE i = j
  <2>1. CASE i = 1 \/ j = 1
    BY <1>1, <1>3, <1>4, <1>6, <2>1
  <2>2. CASE i # 1 /\ j # 1
    <3>1. i - 1 = j - 1
      BY <1>3, <1>5, <1>6, <2>2
    <3>2. QED
      BY <1>1, <3>1
  <2>3. QED
    BY <2>1, <2>2
<1>7. IsInjective(m)
  BY <1>1, <1>6 DEF IsInjective
<1>8. ToSet(m) = ToSet(n) \cup {to}
  <2>1. \A x : x \in ToSet(m) <=> \E i \in 1..(Len(n) + 1) : m[i] = x
    BY <1>1 DEF ToSet
  <2>2. \A x : x \in ToSet(n) <=> \E i \in 1..Len(n) : n[i] = x
    BY <1>1 DEF ToSet
  <2>3. \A i \in 1..Len(n) : i + 1 \in 1..(Len(n) + 1)
    BY <1>1
  <2>4. 1 \in 1..(Len(n) + 1)
    BY <1>1
  <2>5. ASSUME NEW x \in ToSet(m) PROVE x \in ToSet(n) \cup {to}
    <3>1. PICK i \in 1..(Len(n) + 1) : m[i] = x
      BY <2>1
    <3>2. CASE i = 1
      BY <1>1, <3>1, <3>2
    <3>3. CASE i # 1
      <4>1. i - 1 \in 1..Len(n) /\ n[i - 1] = x
        BY <1>3, <3>1, <3>3
      <4>2. x \in ToSet(n)
        BY <2>2, <4>1
      <4>3. QED
        BY <4>2
    <3>4. QED
      BY <3>2, <3>3
  <2>6. to \in ToSet(m)
    BY <1>1, <2>1, <2>4
  <2>7. ASSUME NEW i \in 1..Len(n) PROVE n[i] \in ToSet(m)
    <3>1. i + 1 \in 1..(Len(n) + 1) /\ m[i + 1] = n[i]
      BY <1>1, <2>3
    <3>2. QED
      BY <2>1, <3>1
  <2>8. \A x \in ToSet(n) : x \in ToSet(m)
    BY <2>2, <2>7
  <2>9. QED
    BY <2>5, <2>6, <2>8
<1>9. QED
  BY <1>1, <1>7, <1>8 DEF Longer

LEMMA PositionOK ==
  ASSUME NEW s, s.next \in Seq(Timeouts), IsInjective(s.next), NEW l \in ToSet(s.next)
  PROVE  /\ Len(s.next) \in Nat /\ DOMAIN s.next = 1..Len(s.next)
         /\ Position(s, l) \in 1..Len(s.next) /\ s.next[Position(s, l)] = l
         /\ \A i \in 1..Len(s.next) : s.next[i] = l => i = Position(s, l)
<1>1. Len(s.next) \in Nat /\ DOMAIN s.next = 1..Len(s.next)
  OBVIOUS
<1>2. \E i \in DOMAIN s.next : s.next[i] = l
  BY DEF ToSet
<1>3. Position(s, l) \in DOMAIN s.next /\ s.next[Position(s, l)] = l
  BY <1>2 DEF Position
<1>4. QED
  BY <1>1, <1>3 DEF IsInjective

\* The chain has only grown in front.
Grown(s, u) ==
  ToSet(s.next) \subseteq ToSet(u.next) /\ \A l \in ToSet(s.next) : Rest(u, l) = Rest(s, l)

LEMMA GrownInFront ==
  ASSUME NEW s, s.next \in Seq(Timeouts), IsInjective(s.next),
         NEW to \in Timeouts, to \notin ToSet(s.next), NEW u, u.next = <<to>> \o s.next
  PROVE  Grown(s, u)
<1> DEFINE n == s.next
           m == u.next
<1>1. /\ m \in Seq(Timeouts) /\ IsInjective(m) /\ ToSet(m) = ToSet(n) \cup {to}
      /\ Len(n) \in Nat /\ Len(m) = Len(n) + 1 /\ \A i \in 1..Len(n) : m[i + 1] = n[i]
      /\ DOMAIN n = 1..Len(n) /\ DOMAIN m = 1..(Len(n) + 1)
  <2>1. n \in Seq(Timeouts) /\ IsInjective(n) /\ to \notin ToSet(n) /\ m = <<to>> \o n
    OBVIOUS
  <2> HIDE DEF n, m
  <2>2. Longer(n, to, m)
    BY <2>1, GrownChain
  <2>3. QED
    BY <2>2 DEF Longer
<1>2. ASSUME NEW l \in ToSet(n) PROVE Rest(u, l) = Rest(s, l)
  <2> DEFINE p == Position(s, l)
             q == Position(u, l)
  <2>1. p \in 1..Len(n) /\ n[p] = l
    BY PositionOK
  <2>2. l \in ToSet(m)
    BY <1>1
  <2>3. /\ q \in 1..Len(m) /\ m[q] = l
        /\ \A i \in 1..Len(m) : m[i] = l => i = q
    BY <1>1, <2>2, PositionOK
  <2> HIDE DEF p, q
  <2>4. p + 1 \in 1..Len(m) /\ m[p + 1] = l
    BY <1>1, <2>1
  <2>5. q = p + 1
    BY <2>3, <2>4
  <2>6. {m[i] : i \in q..Len(m)} = {n[i] : i \in p..Len(n)}
    <3>1. \A i \in q..Len(m) : i - 1 \in p..Len(n) /\ m[i] = n[i - 1]
      <4>1. ASSUME NEW i \in q..Len(m) PROVE i - 1 \in p..Len(n) /\ m[i] = n[i - 1]
        <5>1. i - 1 \in p..Len(n) /\ i - 1 \in 1..Len(n) /\ (i - 1) + 1 = i
          BY <1>1, <2>1, <2>5
        <5>2. m[(i - 1) + 1] = n[i - 1]
          BY <1>1, <5>1
        <5>3. QED
          BY <5>1, <5>2
      <4>2. QED
        BY <4>1
    <3>2. \A i \in p..Len(n) : i + 1 \in q..Len(m) /\ m[i + 1] = n[i]
      BY <1>1, <2>1, <2>5
    <3> DEFINE A == {m[i] : i \in q..Len(m)}
               B == {n[i] : i \in p..Len(n)}
    <3>3. A \subseteq B
      BY <3>1
    <3>4. B \subseteq A
      BY <3>2
    <3> HIDE DEF A, B
    <3>5. A = B
      BY <3>3, <3>4
    <3>6. QED
      BY <3>5 DEF A, B
  <2>7. QED
    BY <2>6 DEF Rest, p, q
<1>3. QED
  BY <1>1, <1>2 DEF Grown

LEMMA StartedOK ==
  ASSUME NEW s, UnitOK(s), NEW t \in Timers, NEW to \in Timeouts, NEW u, Started(s, u, t, to)
  PROVE  /\ UnitOK(u) /\ u.next # <<>> /\ Grown(s, u)
         /\ \A x \in Timers \ {t} : Armed(u, x) => Armed(s, x)
<1>1. /\ u \in Units /\ Others(s, u, t)
      /\ s.next \in Seq(Timeouts) /\ IsInjective(s.next)
  BY DEF Started, UnitOK, Units
<1>2. Others(s, u, t)
  BY <1>1
<1>3. /\ IsInjective(u.next) /\ u.next \in Seq(Timeouts) /\ Grown(s, u)
      /\ ToSet(s.next) \subseteq ToSet(u.next) /\ to \in ToSet(u.next)
  <2>1. CASE to \in ToSet(s.next)
    <3>1. u.next = s.next
      BY <2>1 DEF Started
    <3>2. Grown(s, u)
      BY <3>1 DEF Grown, Rest, Position
    <3>3. QED
      BY <1>1, <2>1, <3>1, <3>2
  <2>2. CASE to \notin ToSet(s.next)
    <3>1. u.next = <<to>> \o s.next
      BY <2>2 DEF Started
    <3>2. /\ u.next \in Seq(Timeouts) /\ IsInjective(u.next)
          /\ ToSet(u.next) = ToSet(s.next) \cup {to}
      BY <1>1, <2>2, <3>1, GrownChain DEF Longer
    <3>3. Grown(s, u)
      BY <1>1, <2>2, <3>1, GrownInFront
    <3>4. QED
      BY <3>2, <3>3
  <2>3. QED
    BY <2>1, <2>2
<1>4. ASSUME NEW i \in Timeouts
      PROVE  ListOK(u, i) /\ ToSet(u.tlist[i]) \subseteq ToSet(s.tlist[i]) \cup {t}
  <2> DEFINE k == Unlinked(s.tlist[i], t)
  <2>1. LeftList(s, u, t, i, k)
    BY <1>2, RestOfList
  <2> HIDE DEF k
  <2>2. CASE i # to
    <3>1. u.tlist[i] = k
      BY <2>2 DEF Started, k
    <3>2. QED
      BY <1>3, <2>1, <3>1 DEF ListOK, LeftList
  <2>3. CASE i = to
    <3>1. u.tlist[i] = Append(k, t)
      BY <2>3 DEF Started, k
    <3>2. k \in Seq(Timers) /\ IsInjective(k) /\ ToSet(k) = ToSet(s.tlist[i]) \ {t}
          /\ t \notin ToSet(k) /\ Ordered(k, u.due)
      BY <2>1 DEF LeftList
    <3>3. /\ IsInjective(Append(k, t)) /\ ToSet(Append(k, t)) = ToSet(k) \cup {t}
      BY <3>2, Appended
    <3>4. u.timeout[t] = i /\ u.due[t] = Span(i) /\ Span(i) \in Int
      BY <2>3, ConstantsOK, SpanOK DEF Started
    <3>5. \A x \in ToSet(k) : u.timeout[x] = i /\ u.due[x] \in Int /\ u.due[x] <= Span(i)
      BY <2>1 DEF LeftList
    <3>6. \A x \in ToSet(k) : u.due[x] \in Int /\ u.due[x] <= u.due[t]
      BY <3>4, <3>5
    <3>7. u.due[t] \in Int
      BY <3>4
    <3> DEFINE d == u.due
    <3> HIDE DEF d
    <3>8. Ordered(Append(k, t), d)
      BY <3>2, <3>6, <3>7, AppendOrdered DEF d
    <3>9. \A x \in ToSet(Append(k, t)) : u.timeout[x] = i /\ u.due[x] <= Span(i)
      BY <3>3, <3>4, <3>5
    <3>10. QED
      BY <1>3, <2>3, <3>1, <3>2, <3>3, <3>8, <3>9 DEF ListOK, d
  <2>4. QED
    BY <2>2, <2>3
<1>5. \A x \in Timers : u.loop[x] => x = LINK /\ u.timeout[x] = LinkInterval
  BY DEF Started, Others, UnitOK
<1>6. UnitOK(u)
  BY <1>1, <1>3, <1>4, <1>5 DEF UnitOK
<1>7. u.next # <<>>
  BY <1>3, EmptyList
<1>8. \A x \in Timers \ {t} : Armed(u, x) => Armed(s, x)
  BY <1>4 DEF Armed
<1>9. QED
  BY <1>3, <1>6, <1>7, <1>8

-----------------------------------------------------------------------------
(* The operations keep the times                                           *)

LEMMA UnitTimes ==
  ASSUME NEW s, UnitOK(s), NEW t \in Timers
  PROVE  /\ s.objexp[t] \in Int /\ s.due[t] \in Int /\ s.timeout[t] \in Nat
         /\ Span(s.timeout[t]) \in Nat
BY SpanOK DEF UnitOK, Units

LEMMA BoundsOK == MaxWork \in Nat /\ Overrun \in Nat /\ MaxWait \in Nat
BY TimerAssumption

LEMMA OnList ==
  ASSUME NEW s, NEW i \in Timeouts, NEW t \in ToSet(s.tlist[i])
  PROVE  Armed(s, t)
BY DEF Armed

LEMMA ListTimers ==
  ASSUME NEW s, UnitOK(s), NEW i \in Timeouts
  PROVE  ToSet(s.tlist[i]) \subseteq Timers
BY UnitTidy, TidyLists DEF ToSet

LEMMA ArmedList ==
  ASSUME NEW s, UnitOK(s), NEW t, Armed(s, t)
  PROVE  /\ t \in Timers /\ s.timeout[t] \in Timeouts
         /\ t \in ToSet(s.tlist[s.timeout[t]]) /\ s.due[t] <= Span(s.timeout[t])
<1>1. PICK i \in Timeouts : t \in ToSet(s.tlist[i])
  BY DEF Armed
<1>2. QED
  BY <1>1, ListTimers DEF UnitOK, ListOK

\* A timer whose times have not changed.
LEMMA TimelySame ==
  ASSUME NEW s, NEW u, NEW t, NEW ago, NEW w, NEW b, NEW f, Timely(s, t, ago, w, b, f),
         u.objexp[t] = s.objexp[t], u.due[t] = s.due[t], u.timeout[t] = s.timeout[t]
  PROVE  Timely(u, t, ago, w, b, f)
BY DEF Timely

\* The lists stay in the order of their expiries when a timer is taken off, when
\* one is started, as nothing on its list expires later, and when time passes.
LEMMA StoppedInOrder ==
  ASSUME NEW s, UnitOK(s), InOrder(s), NEW t \in Timers, NEW u, Stopped(s, u, t)
  PROVE  InOrder(u)
<1>1. ASSUME NEW i \in Timeouts, i > 0 PROVE Ordered(u.tlist[i], u.objexp)
  <2> DEFINE l == s.tlist[i]
             k == Unlinked(l, t)
  <2>1. l \in Seq(Timers) /\ IsInjective(l) /\ Ordered(l, s.objexp)
    BY <1>1, UnitTidy, TidyLists DEF InOrder
  <2> HIDE DEF l
  <2>2. ToSet(k) = ToSet(l) \ {t} /\ Within(k, l)
    BY <2>1, UnlinkedList
  <2>3. u.tlist[i] = k
    BY DEF Stopped, l
  <2> HIDE DEF k
  <2>4. Ordered(k, s.objexp)
    BY <2>1, <2>2, WithinOrdered
  <2>5. ToSet(l) \subseteq Timers
    BY <2>1 DEF ToSet
  <2>6. \A x \in ToSet(k) : u.objexp[x] = s.objexp[x]
    BY <2>2, <2>5 DEF Stopped, Others
  <2>7. QED
    BY <2>3, <2>4, <2>6, OrderedSame
<1>2. QED
  BY <1>1 DEF InOrder

LEMMA StartedInOrder ==
  ASSUME NEW s, UnitOK(s), InOrder(s), NEW t \in Timers, NEW to \in Timeouts,
         NEW u, Started(s, u, t, to),
         \A x \in Timers : Running(s, x) => s.objexp[x] <= Span(s.timeout[x])
  PROVE  InOrder(u)
<1>1. ASSUME NEW i \in Timeouts, i > 0 PROVE Ordered(u.tlist[i], u.objexp)
  <2> DEFINE l == s.tlist[i]
             k == Unlinked(l, t)
  <2>1. l \in Seq(Timers) /\ IsInjective(l) /\ Ordered(l, s.objexp)
    BY <1>1, UnitTidy, TidyLists DEF InOrder
  <2>2. \A x \in ToSet(l) : x \in Timers /\ Running(s, x) /\ s.timeout[x] = i
    BY <1>1, ListTimers, OnList DEF UnitOK, ListOK, Running
  <2> HIDE DEF l
  <2>3. /\ k \in Seq(Timers) /\ ToSet(k) = ToSet(l) \ {t} /\ Within(k, l)
    BY <2>1, UnlinkedList
  <2>4. Ordered(k, s.objexp)
    BY <2>1, <2>3, WithinOrdered
  <2>5. u.tlist[i] = IF i = to THEN Append(k, t) ELSE k
    BY DEF Started, l
  <2> HIDE DEF k
  <2>6. \A x \in ToSet(k) : /\ u.objexp[x] = s.objexp[x] /\ s.objexp[x] \in Int
                            /\ s.objexp[x] <= Span(i)
    BY <2>2, <2>3, UnitTimes DEF Started, Others
  <2>7. Ordered(k, u.objexp)
    BY <2>4, <2>6, OrderedSame
  <2>8. CASE i # to
    BY <2>5, <2>7, <2>8
  <2>9. CASE i = to
    <3>1. u.objexp[t] = Span(i) /\ Span(i) \in Int
      BY <1>1, <2>9, ConstantsOK, SpanOK DEF Started
    <3>2. \A x \in ToSet(k) : u.objexp[x] \in Int /\ u.objexp[x] <= u.objexp[t]
      BY <2>6, <3>1
    <3> DEFINE e == u.objexp
    <3>3. Ordered(k, e) /\ e[t] \in Int /\ \A x \in ToSet(k) : e[x] \in Int /\ e[x] <= e[t]
      BY <2>7, <3>1, <3>2
    <3> HIDE DEF e
    <3>4. Ordered(Append(k, t), e)
      BY <2>3, <3>3, AppendOrdered
    <3>5. QED
      BY <2>5, <2>9, <3>4 DEF e
  <2>10. QED
    BY <2>8, <2>9
<1>2. QED
  BY <1>1 DEF InOrder

LEMMA ShiftedInOrder ==
  ASSUME NEW s, UnitOK(s), InOrder(s), NEW d \in Int, NEW u, u.tlist = s.tlist,
         \A x \in Timers : Armed(s, x) => u.objexp[x] = s.objexp[x] - d
  PROVE  InOrder(u)
<1>1. ASSUME NEW i \in Timeouts, i > 0 PROVE Ordered(u.tlist[i], u.objexp)
  <2> DEFINE l == s.tlist[i]
  <2>1. \A x \in ToSet(l) : u.objexp[x] = s.objexp[x] - d /\ s.objexp[x] \in Int
    BY OnList, ListTimers, UnitTimes
  <2>2. \A n \in DOMAIN l : u.objexp[l[n]] = s.objexp[l[n]] - d /\ s.objexp[l[n]] \in Int
    BY <2>1 DEF ToSet
  <2>3. \A m, n \in DOMAIN l : m < n => s.objexp[l[m]] <= s.objexp[l[n]]
    BY <1>1 DEF InOrder, Ordered
  <2>4. u.tlist[i] = l
    OBVIOUS
  <2> HIDE DEF l
  <2>5. \A m, n \in DOMAIN l : m < n => u.objexp[l[m]] <= u.objexp[l[n]]
    BY <2>2, <2>3
  <2>6. QED
    BY <2>4, <2>5 DEF Ordered
<1>2. QED
  BY <1>1 DEF InOrder

LEMMA StoppedSound ==
  ASSUME NEW s, NEW L, NEW ago, NEW w, NEW b, NEW f, Sound(s, L, ago, w, b, f),
         NEW t \in Timers, NEW u, Stopped(s, u, t)
  PROVE  Sound(u, L, ago, w, b, f) /\ u.next = s.next /\ ~Armed(u, t)
<1>1. UnitOK(s) /\ TimesOK(s, ago, w, b, f) /\ Passed(s, L, w, b)
  BY DEF Sound
<1>2. UnitOK(u) /\ ~Armed(u, t) /\ \A x \in Timers : Armed(u, x) => Armed(s, x)
  BY <1>1, StoppedOK
<1>3. Others(s, u, t) /\ u.next = s.next
  BY DEF Stopped
<1>4. ASSUME NEW x \in Timers, Running(u, x)
      PROVE  /\ Running(s, x) /\ u.objexp[x] = s.objexp[x] /\ u.due[x] = s.due[x]
             /\ u.timeout[x] = s.timeout[x]
  BY <1>2, <1>3, <1>4 DEF Others, Running
<1>5. TimesOK(u, ago, w, b, f)
  BY <1>1, <1>4, TimelySame DEF TimesOK
<1>6. Passed(u, L, w, b)
  BY <1>1, <1>4 DEF Passed
<1>7. b = 0 => InOrder(u)
  BY <1>1, StoppedInOrder DEF Sound
<1>8. QED
  BY <1>2, <1>3, <1>5, <1>6, <1>7 DEF Sound

LEMMA StartedSound ==
  ASSUME NEW s, NEW L, NEW ago, NEW w, NEW b, NEW f, Sound(s, L, ago, w, b, f),
         NEW t \in Timers, NEW to \in Timeouts, NEW u, Started(s, u, t, to)
  PROVE  Sound(u, L, ago, w, b, f) /\ Grown(s, u) /\ u.next # <<>>
<1>1. UnitOK(s) /\ TimesOK(s, ago, w, b, f) /\ Passed(s, L, w, b)
  BY DEF Sound
<1>2. /\ UnitOK(u) /\ u.next # <<>> /\ Grown(s, u)
      /\ \A x \in Timers \ {t} : Armed(u, x) => Armed(s, x)
  BY <1>1, StartedOK
<1>3. Others(s, u, t)
  BY DEF Started
<1>4. ASSUME NEW x \in Timers \ {t}, Running(u, x)
      PROVE  /\ Running(s, x) /\ u.objexp[x] = s.objexp[x] /\ u.due[x] = s.due[x]
             /\ u.timeout[x] = s.timeout[x]
  BY <1>2, <1>3, <1>4 DEF Others, Running
<1>5. ASSUME Running(u, t)
      PROVE  Timely(u, t, ago, w, b, f) /\ u.due[t] + w >= -b
  <2>1. u.timeout[t] = to /\ u.due[t] = Span(to) /\ u.objexp[t] = Span(to)
    BY <1>5 DEF Running, Started
  <2>2. Span(to) \in Nat
    BY ConstantsOK, SpanOK
  <2>3. /\ b \in Nat /\ f \in Nat /\ w \in Nat
        /\ ago \in Int /\ w - b <= ago /\ ago <= w + f
    BY DEF Sound
  <2>4. QED
    BY <2>1, <2>2, <2>3, BoundsOK DEF Timely
<1>6. TimesOK(u, ago, w, b, f)
  <2>1. ASSUME NEW x \in Timers, Running(u, x) PROVE Timely(u, x, ago, w, b, f)
    <3>1. CASE x = t
      BY <1>5, <2>1, <3>1
    <3>2. CASE x # t
      BY <1>1, <1>4, <2>1, <3>2, TimelySame DEF TimesOK
    <3>3. QED
      BY <3>1, <3>2
  <2>2. QED
    BY <2>1 DEF TimesOK
<1>7. Passed(u, L, w, b)
  <2>1. ASSUME NEW x \in Timers, Running(u, x), u.timeout[x] \notin L
        PROVE  u.due[x] + w >= -b
    <3>1. CASE x = t
      BY <1>5, <2>1, <3>1
    <3>2. CASE x # t
      BY <1>1, <1>4, <2>1, <3>2 DEF Passed
    <3>3. QED
      BY <3>1, <3>2
  <2>2. QED
    BY <2>1 DEF Passed
<1>8. b = 0 => InOrder(u)
  <2>1. SUFFICES ASSUME b = 0 PROVE InOrder(u)
    OBVIOUS
  <2>2. ASSUME NEW x \in Timers, Running(s, x) PROVE s.objexp[x] <= Span(s.timeout[x])
    <3>1. s.objexp[x] <= s.due[x] + b
      BY <1>1, <2>2 DEF TimesOK, Timely
    <3>2. s.due[x] <= Span(s.timeout[x])
      BY <1>1, <2>2, ArmedList DEF Running
    <3>3. s.objexp[x] \in Int /\ s.due[x] \in Int /\ Span(s.timeout[x]) \in Nat
      BY <1>1, UnitTimes
    <3>4. QED
      BY <2>1, <3>1, <3>2, <3>3
  <2>3. InOrder(s) /\ UnitOK(s)
    BY <1>1, <2>1 DEF Sound
  <2>4. QED
    BY <2>2, <2>3, StartedInOrder
<1>9. QED
  BY <1>2, <1>6, <1>7, <1>8 DEF Sound

\* Time that passes leaves the lists as they are.
LEMMA ElapseOK ==
  ASSUME NEW s, UnitOK(s), NEW d \in Nat, NEW u, u = Elapse(s, d)
  PROVE  UnitOK(u)
<1>1. /\ u \in Units /\ u.next = s.next /\ u.tlist = s.tlist
      /\ u.loop = s.loop /\ u.timeout = s.timeout
      /\ \A x \in Timers : Armed(s, x) => /\ u.objexp[x] = s.objexp[x] - d
                                          /\ u.due[x] = s.due[x] - d
  BY ElapseFields DEF UnitOK
<1>2. ASSUME NEW i \in Timeouts PROVE ListOK(u, i)
  <2>1. /\ (s.tlist[i] # <<>> => i \in ToSet(s.next)) /\ IsInjective(s.tlist[i])
        /\ \A t \in ToSet(s.tlist[i]) : s.timeout[t] = i /\ s.due[t] <= Span(i)
        /\ Ordered(s.tlist[i], s.due)
    BY DEF UnitOK, ListOK
  <2>2. \A t \in ToSet(s.tlist[i]) : u.due[t] = s.due[t] - d /\ s.due[t] \in Int
    BY <1>1, OnList, ListTimers, UnitTimes
  <2>3. Span(i) \in Nat
    BY ConstantsOK, SpanOK
  <2>4. \A t \in ToSet(s.tlist[i]) : u.timeout[t] = i /\ u.due[t] <= Span(i)
    BY <1>1, <2>1, <2>2, <2>3
  <2>5. Ordered(s.tlist[i], u.due)
    <3> DEFINE l == s.tlist[i]
    <3>1. \A n \in DOMAIN l : u.due[l[n]] = s.due[l[n]] - d /\ s.due[l[n]] \in Int
      BY <2>2 DEF ToSet
    <3>2. \A m, n \in DOMAIN l : m < n => s.due[l[m]] <= s.due[l[n]]
      BY <2>1 DEF Ordered
    <3> HIDE DEF l
    <3>3. \A m, n \in DOMAIN l : m < n => u.due[l[m]] <= u.due[l[n]]
      BY <3>1, <3>2
    <3>4. QED
      BY <3>3 DEF Ordered, l
  <2>6. QED
    BY <1>1, <2>1, <2>4, <2>5 DEF ListOK
<1>3. QED
  BY <1>1, <1>2 DEF UnitOK

LEMMA ElapseSound ==
  ASSUME NEW s, NEW L, NEW ago, NEW w, NEW b, NEW f, Sound(s, L, ago, w, b, f),
         NEW d \in Nat, NEW u, u = Elapse(s, d)
  PROVE  Sound(u, L, ago + d, w + d, b, f) /\ u.next = s.next
<1>1. /\ UnitOK(s) /\ TimesOK(s, ago, w, b, f) /\ Passed(s, L, w, b)
      /\ b \in Nat /\ f \in Nat /\ w \in Nat
      /\ ago \in Int /\ w - b <= ago /\ ago <= w + f
  BY DEF Sound
<1>2. UnitOK(u)
  BY <1>1, ElapseOK
<1>3. /\ u.next = s.next /\ u.tlist = s.tlist /\ u.timeout = s.timeout
      /\ \A x \in Timers : Armed(s, x) => /\ u.objexp[x] = s.objexp[x] - d
                                          /\ u.due[x] = s.due[x] - d
  <2>1. s \in Units /\ d \in Int
    BY <1>1 DEF UnitOK
  <2>2. QED
    BY <2>1, ElapseFields
<1>4. ASSUME NEW x \in Timers, Running(u, x)
      PROVE  /\ Running(s, x) /\ u.timeout[x] = s.timeout[x]
             /\ u.objexp[x] = s.objexp[x] - d /\ u.due[x] = s.due[x] - d
             /\ s.objexp[x] \in Int /\ s.due[x] \in Int /\ Span(s.timeout[x]) \in Nat
  <2>1. Armed(s, x) /\ u.timeout[x] = s.timeout[x]
    BY <1>3, <1>4 DEF Running, Armed
  <2>2. Running(s, x)
    BY <1>4, <2>1 DEF Running
  <2>3. QED
    BY <1>1, <1>3, <2>1, <2>2, UnitTimes
<1>5. TimesOK(u, ago + d, w + d, b, f)
  <2>1. ASSUME NEW x \in Timers, Running(u, x) PROVE Timely(u, x, ago + d, w + d, b, f)
    <3>1. Timely(s, x, ago, w, b, f)
      BY <1>1, <1>4, <2>1 DEF TimesOK
    <3> DEFINE p == Span(s.timeout[x])
    <3>2. p \in Nat
      BY <1>4, <2>1
    <3> HIDE DEF p
    <3>3. /\ s.due[x] - f <= s.objexp[x] /\ s.objexp[x] <= s.due[x] + b
          /\ \/ s.due[x] + w - f <= s.objexp[x] + ago /\ s.objexp[x] + ago <= s.due[x] + w + b
             \/ s.objexp[x] + ago >= p - b /\ s.due[x] + w >= p
          /\ s.due[x] + w >= -(MaxWork + Overrun + b)
      BY <3>1 DEF Timely, p
    <3>4. /\ u.due[x] - f <= u.objexp[x] /\ u.objexp[x] <= u.due[x] + b
          /\ \/ /\ u.due[x] + (w + d) - f <= u.objexp[x] + (ago + d)
                /\ u.objexp[x] + (ago + d) <= u.due[x] + (w + d) + b
             \/ u.objexp[x] + (ago + d) >= p - b /\ u.due[x] + (w + d) >= p
          /\ u.due[x] + (w + d) >= -(MaxWork + Overrun + b)
      BY <1>1, <1>4, <2>1, <3>2, <3>3, BoundsOK
    <3>5. QED
      BY <1>4, <2>1, <3>4 DEF Timely, p
  <2>2. QED
    BY <2>1 DEF TimesOK
<1>6. Passed(u, L, w + d, b)
  <2>1. ASSUME NEW x \in Timers, Running(u, x), u.timeout[x] \notin L
        PROVE  u.due[x] + (w + d) >= -b
    <3>1. s.due[x] + w >= -b
      BY <1>1, <1>4, <2>1 DEF Passed
    <3>2. QED
      BY <1>1, <1>4, <2>1, <3>1
  <2>2. QED
    BY <2>1 DEF Passed
<1>7. w + d \in Nat /\ ago + d \in Int /\ (w + d) - b <= ago + d /\ ago + d <= (w + d) + f
  BY <1>1
<1>8. b = 0 => InOrder(u)
  BY <1>1, <1>3, ShiftedInOrder DEF Sound
<1>9. QED
  BY <1>1, <1>2, <1>3, <1>5, <1>6, <1>7, <1>8 DEF Sound

LEMMA ClockStepOK ==
  ASSUME NEW s, UnitOK(s), NEW d \in Int, NEW u, u = ClockStep(s, d)
  PROVE  /\ UnitOK(u) /\ u.next = s.next /\ u.tlist = s.tlist
         /\ \A x \in Timers : Armed(s, x) => u.objexp[x] = s.objexp[x] - d
         /\ u.timeout = s.timeout /\ u.due = s.due
<1>1. s \in Units
  BY DEF UnitOK
<1>2. /\ u \in Units /\ u.next = s.next /\ u.tlist = s.tlist
      /\ u.loop = s.loop /\ u.timeout = s.timeout /\ u.due = s.due
      /\ \A x \in Timers : Armed(s, x) => u.objexp[x] = s.objexp[x] - d
  BY <1>1, ClockStepFields
<1>3. UnitOK(u)
  BY <1>2 DEF UnitOK, ListOK
<1>4. QED
  BY <1>2, <1>3

\* A step of the clock by d takes the totals from b and f to c and g.
Counted(d, b, f, c, g) == \/ d = -1 /\ c = b + 1 /\ g = f
                          \/ d = 1 /\ c = b /\ g = f + 1

\* The clock is set in the middle of a round, or while the loop waits.
LEMMA ClockSound ==
  ASSUME NEW s, NEW L, NEW ago, NEW w, NEW b, NEW f, Sound(s, L, ago, w, b, f),
         NEW d, NEW c, NEW g, Counted(d, b, f, c, g), NEW u, u = ClockStep(s, d),
         NEW a, a = ago + d \/ (a = 0 /\ ago = 0 /\ w = 0)
  PROVE  Sound(u, L, a, w, c, g) /\ u.next = s.next
<1>1. /\ UnitOK(s) /\ TimesOK(s, ago, w, b, f) /\ Passed(s, L, w, b)
      /\ b \in Nat /\ f \in Nat /\ w \in Nat
      /\ ago \in Int /\ w - b <= ago /\ ago <= w + f
  BY DEF Sound
<1>2. UnitOK(s) /\ d \in Int /\ c \in Nat /\ g \in Nat
  BY <1>1 DEF Counted
<1>3. /\ UnitOK(u) /\ u.next = s.next /\ u.tlist = s.tlist
      /\ \A x \in Timers : Armed(s, x) => u.objexp[x] = s.objexp[x] - d
      /\ u.timeout = s.timeout /\ u.due = s.due
  BY <1>2, ClockStepOK
<1>4. ASSUME NEW x \in Timers, Running(u, x)
      PROVE  /\ Running(s, x) /\ u.timeout[x] = s.timeout[x]
             /\ u.objexp[x] = s.objexp[x] - d /\ u.due[x] = s.due[x]
             /\ s.objexp[x] \in Int /\ s.due[x] \in Int /\ Span(s.timeout[x]) \in Nat
  <2>1. Armed(s, x) /\ u.timeout[x] = s.timeout[x]
    BY <1>3, <1>4 DEF Running, Armed
  <2>2. Running(s, x)
    BY <1>4, <2>1 DEF Running
  <2>3. QED
    BY <1>2, <1>3, <2>1, <2>2, UnitTimes
<1>5. TimesOK(u, a, w, c, g)
  <2>1. ASSUME NEW x \in Timers, Running(u, x) PROVE Timely(u, x, a, w, c, g)
    <3>1. Timely(s, x, ago, w, b, f)
      BY <1>1, <1>4, <2>1 DEF TimesOK
    <3> DEFINE p == Span(s.timeout[x])
               o == s.objexp[x]
               q == u.objexp[x]
               e == s.due[x]
    <3>2. p \in Nat /\ o \in Int /\ e \in Int /\ q = o - d /\ u.due[x] = e
          /\ u.timeout[x] = s.timeout[x]
      BY <1>4, <2>1
    <3>3. /\ e - f <= o /\ o <= e + b
          /\ \/ e + w - f <= o + ago /\ o + ago <= e + w + b
             \/ o + ago >= p - b /\ e + w >= p
          /\ e + w >= -(MaxWork + Overrun + b)
      BY <3>1 DEF Timely
    <3> HIDE DEF p, o, q, e
    <3>4. /\ e - g <= q /\ q <= e + c
          /\ e + w >= -(MaxWork + Overrun + c)
      BY <1>1, <3>2, <3>3, BoundsOK DEF Counted
    <3>5. \/ e + w - g <= q + a /\ q + a <= e + w + c
          \/ q + a >= p - c /\ e + w >= p
      <4>1. CASE a = ago + d
        BY <1>1, <3>2, <3>3, <4>1 DEF Counted
      <4>2. CASE a = 0 /\ ago = 0 /\ w = 0
        BY <1>1, <3>2, <3>4, <4>2 DEF Counted
      <4>3. QED
        BY <4>1, <4>2
    <3>6. QED
      BY <3>2, <3>4, <3>5 DEF Timely, p, q, e
  <2>2. QED
    BY <2>1 DEF TimesOK
<1>6. Passed(u, L, w, c)
  <2>1. ASSUME NEW x \in Timers, Running(u, x), u.timeout[x] \notin L
        PROVE  u.due[x] + w >= -c
    <3>1. s.due[x] + w >= -b
      BY <1>1, <1>4, <2>1 DEF Passed
    <3>2. QED
      BY <1>1, <1>4, <2>1, <3>1 DEF Counted
  <2>2. QED
    BY <2>1 DEF Passed
<1>7. w - c <= a /\ a <= w + g /\ a \in Int
  BY <1>1 DEF Counted
<1>8. c = 0 => InOrder(u)
  <2>1. SUFFICES ASSUME c = 0 PROVE InOrder(u)
    OBVIOUS
  <2>2. b = 0
    BY <1>1, <2>1 DEF Counted
  <2>3. QED
    BY <1>2, <1>3, <2>2, ShiftedInOrder DEF Sound
<1>9. QED
  BY <1>1, <1>2, <1>3, <1>5, <1>6, <1>7, <1>8 DEF Sound

-----------------------------------------------------------------------------
(* The lists that CheckExpired goes through                                *)

LEMMA RestLists ==
  ASSUME NEW s, UnitOK(s), NEW l \in ToSet(s.next)
  PROVE  l \in Timeouts /\ Rest(s, l) \subseteq ToSet(s.next) /\ ToSet(s.next) \subseteq Timeouts
<1>1. s.next \in Seq(Timeouts) /\ IsInjective(s.next)
  BY DEF UnitOK, Units
<1>2. Position(s, l) \in 1..Len(s.next) /\ Len(s.next) \in Nat /\ DOMAIN s.next = 1..Len(s.next)
  BY <1>1, PositionOK
<1>3. \A i \in Position(s, l)..Len(s.next) : i \in DOMAIN s.next
  BY <1>2
<1>4. Rest(s, l) \subseteq ToSet(s.next)
  BY <1>3 DEF Rest, ToSet
<1>5. ToSet(s.next) \subseteq Timeouts
  BY <1>1 DEF ToSet
<1>6. QED
  BY <1>4, <1>5

\* Where CheckExpired stops next, and what it has passed by.
LEMMA DueListOK ==
  ASSUME NEW s, UnitOK(s), NEW l \in ToSet(s.next), NEW ago,
         NEW r, r = DueList(s, l, ago)
  PROVE  \/ r = NoList /\ \A i \in Rest(s, l) : ~Expired(s, i, ago)
         \/ /\ r \in ToSet(s.next) /\ Expired(s, r, ago)
            /\ \A i \in Rest(s, l) \ Rest(s, r) : ~Expired(s, i, ago)
<1> DEFINE n == Position(s, l)
           due == {i \in n..Len(s.next) : Expired(s, s.next[i], ago)}
<1>1. s.next \in Seq(Timeouts) /\ IsInjective(s.next)
  BY DEF UnitOK, Units
<1>2. /\ Len(s.next) \in Nat /\ DOMAIN s.next = 1..Len(s.next)
      /\ n \in 1..Len(s.next) /\ s.next[n] = l
  BY <1>1, PositionOK
<1>3. r = IF due = {} THEN NoList ELSE s.next[Min(due)]
  BY DEF DueList, Position
<1>4. Rest(s, l) = {s.next[i] : i \in n..Len(s.next)}
  BY DEF Rest
<1> HIDE DEF n
<1>5. CASE due = {}
  <2>1. \A i \in n..Len(s.next) : ~Expired(s, s.next[i], ago)
    BY <1>5
  <2>2. QED
    BY <1>3, <1>4, <1>5, <2>1
<1>6. CASE due # {}
  <2> DEFINE m == Min(due)
  <2>1. due \in SUBSET Nat
    BY <1>2
  <2>2. \E i \in due : \A k \in due : i <= k
    BY <1>6, <2>1, NatMin
  <2>3. m \in due /\ \A k \in due : m <= k
    BY <2>2 DEF Min
  <2>4. r = s.next[m]
    BY <1>3, <1>6
  <2> HIDE DEF m
  <2>5. m \in n..Len(s.next) /\ Expired(s, s.next[m], ago)
    BY <2>3
  <2>6. m \in 1..Len(s.next)
    BY <1>2, <2>5
  <2>7. r \in ToSet(s.next)
    BY <1>2, <2>4, <2>6 DEF ToSet
  <2>8. m = Position(s, r)
    BY <1>1, <2>4, <2>6, <2>7, PositionOK
  <2>9. Rest(s, r) = {s.next[i] : i \in m..Len(s.next)}
    BY <2>8 DEF Rest
  <2>10. ASSUME NEW i \in Rest(s, l) \ Rest(s, r) PROVE ~Expired(s, i, ago)
    <3>1. PICK k \in n..Len(s.next) : i = s.next[k]
      BY <1>4
    <3>2. k \notin m..Len(s.next)
      BY <2>9, <2>10, <3>1
    <3>3. ~(m <= k)
      BY <1>2, <2>6, <3>1, <3>2
    <3>4. k \notin due
      BY <2>3, <3>3
    <3>5. QED
      BY <3>1, <3>4
  <2>11. QED
    BY <2>4, <2>5, <2>7, <2>10
<1>7. QED
  BY <1>5, <1>6

\* The head of a list is due first.
LEMMA HeadOK ==
  ASSUME NEW s, UnitOK(s), NEW i \in Timeouts, s.tlist[i] # <<>>,
         NEW h, h = Head(s.tlist[i])
  PROVE  /\ h \in Timers /\ Armed(s, h) /\ s.timeout[h] = i /\ s.due[h] <= Span(i)
         /\ \A t \in ToSet(s.tlist[i]) : s.due[h] <= s.due[t]
<1> DEFINE l == s.tlist[i]
<1>1. /\ Ordered(l, s.due) /\ l \in Seq(Timers)
      /\ \A t \in ToSet(l) : s.timeout[t] = i /\ s.due[t] <= Span(i)
  BY UnitTidy, TidyLists DEF UnitOK, ListOK
<1>2. ToSet(l) \subseteq Timers
  BY ListTimers
<1> HIDE DEF l
<1>3. Len(l) \in Nat /\ DOMAIN l = 1..Len(l) /\ h = l[1] /\ 1 \in 1..Len(l)
  BY <1>1 DEF l
<1>4. h \in ToSet(l)
  BY <1>3 DEF ToSet
<1>5. \A t \in ToSet(l) : s.due[t] \in Int
  BY <1>2, UnitTimes
<1>6. ASSUME NEW t \in ToSet(l) PROVE s.due[h] <= s.due[t]
  <2>1. PICK n \in 1..Len(l) : t = l[n]
    BY <1>3 DEF ToSet
  <2>2. n = 1 \/ 1 < n
    BY <1>3
  <2>3. QED
    BY <1>1, <1>3, <1>4, <1>5, <2>1, <2>2 DEF Ordered
<1>7. QED
  BY <1>1, <1>2, <1>4, <1>6, OnList DEF l

\* No timer of a list that has not expired was due when now was taken.
LEMMA NotExpired ==
  ASSUME NEW s, NEW L, NEW ago, NEW w, NEW b, NEW f, Sound(s, L, ago, w, b, f),
         NEW t \in Timers, Running(s, t), ~Expired(s, s.timeout[t], ago)
  PROVE  s.due[t] + w >= -b
<1> DEFINE i == s.timeout[t]
           h == Head(s.tlist[i])
<1>1. /\ UnitOK(s) /\ TimesOK(s, ago, w, b, f) /\ b \in Nat /\ w \in Nat /\ ago \in Int
  BY DEF Sound
<1>2. UnitOK(s) /\ Armed(s, t)
  BY <1>1 DEF Running
<1>3. i \in Timeouts /\ t \in ToSet(s.tlist[i])
  BY <1>2, ArmedList
<1>4. s.tlist[i] # <<>>
  BY <1>2, <1>3, TidyLists, UnitTidy, EmptyList
<1>5. /\ h \in Timers /\ Armed(s, h) /\ s.timeout[h] = i
      /\ s.due[h] <= s.due[t]
  BY <1>2, <1>3, <1>4, HeadOK
<1>6. Running(s, h)
  BY <1>5 DEF Running
<1>7. \/ s.objexp[h] + ago <= s.due[h] + w + b
      \/ s.due[h] + w >= Span(i)
  BY <1>1, <1>5, <1>6 DEF TimesOK, Timely
<1>8. s.objexp[h] \in Int /\ s.due[h] \in Int /\ s.due[t] \in Int /\ Span(i) \in Nat
  BY <1>2, <1>5, UnitTimes
<1>9. ~(s.objexp[h] + ago <= 0)
  BY <1>4 DEF Expired
<1>10. QED
  <2> DEFINE o == s.objexp[h]
             e == s.due[h]
             d == s.due[t]
             p == Span(i)
  <2>1. /\ o \in Int /\ e \in Int /\ d \in Int /\ p \in Nat /\ e <= d
        /\ o + ago <= e + w + b \/ e + w >= p
        /\ ~(o + ago <= 0)
    BY <1>5, <1>7, <1>8, <1>9
  <2>2. b \in Nat /\ w \in Nat /\ ago \in Int
    BY <1>1
  <2> HIDE DEF o, e, d, p
  <2>3. d + w >= -b
    BY <2>1, <2>2
  <2>4. QED
    BY <2>3 DEF d

\* CheckExpired goes on from a list, or at the first one.
LEMMA DueListSound ==
  ASSUME NEW s, NEW l \in ToSet(s.next), NEW ago, NEW w, NEW b, NEW f,
         Sound(s, Rest(s, l), ago, w, b, f), NEW r, r = DueList(s, l, ago)
  PROVE  \/ r = NoList /\ Sound(s, {}, ago, w, b, f)
         \/ /\ r # NoList /\ r \in ToSet(s.next) /\ Expired(s, r, ago)
            /\ Sound(s, Rest(s, r), ago, w, b, f)
<1>1. UnitOK(s) /\ Passed(s, Rest(s, l), w, b)
  BY DEF Sound
<1>2. ASSUME NEW K, \A i \in Rest(s, l) \ K : ~Expired(s, i, ago)
      PROVE  Sound(s, K, ago, w, b, f)
  <2>1. ASSUME NEW t \in Timers, Running(s, t), s.timeout[t] \notin K
        PROVE  s.due[t] + w >= -b
    <3>1. CASE s.timeout[t] \in Rest(s, l)
      <4>1. ~Expired(s, s.timeout[t], ago)
        BY <1>2, <2>1, <3>1
      <4>2. QED
        BY <2>1, <4>1, NotExpired
    <3>2. CASE s.timeout[t] \notin Rest(s, l)
      BY <1>1, <2>1, <3>2 DEF Passed
    <3>3. QED
      BY <3>1, <3>2
  <2>2. Passed(s, K, w, b)
    BY <2>1 DEF Passed
  <2>3. QED
    BY <2>2 DEF Sound
<1>3. \/ r = NoList /\ \A i \in Rest(s, l) : ~Expired(s, i, ago)
      \/ /\ r \in ToSet(s.next) /\ Expired(s, r, ago)
         /\ \A i \in Rest(s, l) \ Rest(s, r) : ~Expired(s, i, ago)
  BY <1>1, DueListOK
<1>4. CASE r = NoList /\ \A i \in Rest(s, l) : ~Expired(s, i, ago)
  BY <1>2, <1>4
<1>5. CASE /\ r \in ToSet(s.next) /\ Expired(s, r, ago)
           /\ \A i \in Rest(s, l) \ Rest(s, r) : ~Expired(s, i, ago)
  BY <1>1, <1>2, <1>5, RestLists, ConstantsOK
<1>6. QED
  BY <1>3, <1>4, <1>5

\* At the first list nothing is passed by yet.
LEMMA FirstList ==
  ASSUME NEW s, NEW ago, NEW w, NEW b, NEW f, Sound(s, Timeouts, ago, w, b, f), s.next # <<>>
  PROVE  s.next[1] \in ToSet(s.next) /\ Sound(s, Rest(s, s.next[1]), ago, w, b, f)
<1> DEFINE l == s.next[1]
<1>1. UnitOK(s) /\ s.next \in Seq(Timeouts) /\ IsInjective(s.next)
  BY DEF Sound, UnitOK, Units
<1>2. Len(s.next) \in Nat /\ DOMAIN s.next = 1..Len(s.next) /\ 1 \in 1..Len(s.next)
  BY <1>1
<1>3. l \in ToSet(s.next)
  BY <1>2 DEF ToSet
<1>4. Position(s, l) = 1
  BY <1>1, <1>2, <1>3, PositionOK
<1>5. Rest(s, l) = ToSet(s.next)
  BY <1>2, <1>4 DEF Rest, ToSet
<1>6. ASSUME NEW t \in Timers, Running(s, t) PROVE s.timeout[t] \in Rest(s, l)
  <2> DEFINE i == s.timeout[t]
  <2>1. i \in Timeouts /\ t \in ToSet(s.tlist[i])
    BY <1>1, <1>6, ArmedList DEF Running
  <2>2. s.tlist[i] # <<>>
    BY <1>1, <2>1, TidyLists, UnitTidy, EmptyList
  <2>3. i \in ToSet(s.next)
    BY <1>1, <2>1, <2>2 DEF UnitOK, ListOK
  <2>4. QED
    BY <1>5, <2>3
<1>7. Passed(s, Rest(s, l), w, b)
  BY <1>6 DEF Passed
<1>8. QED
  BY <1>3, <1>7 DEF Sound

-----------------------------------------------------------------------------
(* The wait                                                                *)

\* Nothing waits past the expiry of the first timer of a list.
LEMMA ExpireOK ==
  ASSUME NEW s, UnitOK(s), NEW i \in Timeouts, s.tlist[i] # <<>>,
         NEW e, e = ExpireMicroSeconds(s, MaxWait)
  PROVE  /\ Span(e) \in Int
         /\ Span(e) <= 0 \/ Span(e) <= s.objexp[Head(s.tlist[i])]
<1> DEFINE used == {j \in Timeouts : s.tlist[j] # <<>>}
           heads == {s.objexp[Head(s.tlist[j])] : j \in used}
           T == heads \cup {MaxWait * Precision}
           exp == Min(T)
<1>1. e = IF exp <= 0 THEN 0 ELSE exp \div Precision
  BY DEF ExpireMicroSeconds
<1>2. Precision \in Nat \ {0} /\ MaxWait * Precision \in Int
  BY TimerAssumption
<1>3. \A j \in used : Head(s.tlist[j]) \in Timers
  BY HeadOK
<1> DEFINE A == {s.objexp["flush_check"], s.objexp["offline_check"],
                 s.objexp["time_check"], s.objexp["link"], MaxWait * Precision}
<1>4. T \subseteq A
  BY <1>3, ConstantsOK
<1>5. IsFiniteSet(A)
  <2> DEFINE a == s.objexp["flush_check"]
             b == s.objexp["offline_check"]
             c == s.objexp["time_check"]
             d == s.objexp["link"]
             m == MaxWait * Precision
  <2>1. IsFiniteSet({a})
    BY FS_Singleton
  <2>2. IsFiniteSet({a} \cup {b})
    BY <2>1, FS_AddElement
  <2>3. IsFiniteSet(({a} \cup {b}) \cup {c})
    BY <2>2, FS_AddElement
  <2>4. IsFiniteSet((({a} \cup {b}) \cup {c}) \cup {d})
    BY <2>3, FS_AddElement
  <2>5. IsFiniteSet(((({a} \cup {b}) \cup {c}) \cup {d}) \cup {m})
    BY <2>4, FS_AddElement
  <2>6. A = ((({a} \cup {b}) \cup {c}) \cup {d}) \cup {m}
    <3> HIDE DEF a, b, c, d, m
    <3>1. {a, b, c, d, m} = ((({a} \cup {b}) \cup {c}) \cup {d}) \cup {m}
      OBVIOUS
    <3>2. QED
      BY <3>1 DEF a, b, c, d, m
  <2> HIDE DEF a, b, c, d, m, A
  <2>7. QED
    BY <2>5, <2>6
<1>6. heads \subseteq Int
  BY <1>3, UnitTimes
<1>7. T \in SUBSET Int /\ T # {}
  BY <1>2, <1>6
<1> HIDE DEF A
<1>8. IsFiniteSet(T)
  BY <1>4, <1>5, FS_Subset
<1>9. s.objexp[Head(s.tlist[i])] \in T
  OBVIOUS
<1> DEFINE o == s.objexp[Head(s.tlist[i])]
<1> HIDE DEF T, o
<1>10. \E m \in T : \A k \in T : m <= k
  BY <1>7, <1>8, IntMin
<1>11. exp \in T /\ \A k \in T : exp <= k
  BY <1>10 DEF Min
<1> HIDE DEF exp
<1>12. exp \in Int /\ o \in Int /\ exp <= o
  BY <1>7, <1>9, <1>11 DEF o
<1>13. CASE exp <= 0
  <2>1. e = 0
    BY <1>1, <1>13
  <2>2. QED
    BY <2>1, SpanOK
<1>14. CASE ~(exp <= 0)
  <2>1. e = exp \div Precision /\ exp \in Nat
    BY <1>1, <1>12, <1>14
  <2>2. /\ exp = Precision * (exp \div Precision) + (exp % Precision)
        /\ exp % Precision \in 0..(Precision - 1) /\ exp \div Precision \in Nat
    BY <1>2, <2>1, DivMod
  <2> DEFINE q == exp \div Precision
             r == exp % Precision
             p == q * Precision
  <2>3. q \in Nat /\ r \in 0..(Precision - 1) /\ exp = Precision * q + r
    BY <2>2
  <2> HIDE DEF q, r
  <2>4. p \in Nat /\ exp = p + r
    BY <1>2, <2>3
  <2>5. Span(e) = p
    BY <2>1 DEF Span, q
  <2> HIDE DEF p
  <2>6. p <= exp
    BY <1>2, <2>1, <2>3, <2>4
  <2>7. p <= o
    BY <1>12, <2>4, <2>6
  <2>8. QED
    BY <2>4, <2>5, <2>7 DEF o
<1>15. QED
  BY <1>13, <1>14

LEMMA WaitSound ==
  ASSUME NEW s, NEW L, NEW b, NEW f, Sound(s, L, 0, 0, b, f), Passed(s, {}, MaxWork, b),
         NEW d \in Nat, d <= Span(ExpireMicroSeconds(s, MaxWait)) + Overrun,
         NEW u, u = Elapse(s, d)
  PROVE  Sound(u, Timeouts, 0, 0, b, f) /\ u.next = s.next
<1>1. /\ UnitOK(s) /\ TimesOK(s, 0, 0, b, f) /\ b \in Nat /\ f \in Nat
  BY DEF Sound
<1>2. Sound(u, L, 0 + d, 0 + d, b, f) /\ u.next = s.next
  BY ElapseSound
<1>3. UnitOK(u) /\ TimesOK(u, 0 + d, 0 + d, b, f)
  BY <1>2 DEF Sound
<1>4. s \in Units /\ d \in Int
  BY <1>1 DEF UnitOK
<1>5. /\ u.tlist = s.tlist /\ u.timeout = s.timeout
      /\ \A x \in Timers : Armed(s, x) => u.due[x] = s.due[x] - d
  BY <1>4, ElapseFields
<1>6. ASSUME NEW t \in Timers, Running(u, t) PROVE Timely(u, t, 0, 0, b, f)
  <2>1. Armed(s, t) /\ Running(s, t)
    BY <1>5, <1>6 DEF Running, Armed
  <2>2. u.due[t] = s.due[t] - d
    BY <1>5, <2>1
  <2> DEFINE i == s.timeout[t]
             h == Head(s.tlist[i])
             e == ExpireMicroSeconds(s, MaxWait)
             p == Span(e)
  <2>3. i \in Timeouts /\ t \in ToSet(s.tlist[i])
    BY <1>1, <2>1, ArmedList
  <2>4. s.tlist[i] # <<>>
    BY <1>1, <2>3, TidyLists, UnitTidy, EmptyList
  <2>5. h \in Timers /\ Armed(s, h) /\ s.timeout[h] = i /\ s.due[h] <= s.due[t]
    BY <1>1, <2>3, <2>4, HeadOK
  <2>6. Running(s, h)
    BY <2>1, <2>5 DEF Running
  <2>7. s.objexp[h] <= s.due[h] + b
    BY <1>1, <2>5, <2>6 DEF TimesOK, Timely
  <2>8. p \in Int /\ (p <= 0 \/ p <= s.objexp[h])
    BY <1>1, <2>3, <2>4, ExpireOK
  <2>9. s.due[t] + MaxWork >= -b
    BY <2>1 DEF Passed
  <2>10. s.due[t] \in Int /\ s.due[h] \in Int /\ s.objexp[h] \in Int
    BY <1>1, <2>5, UnitTimes
  <2>11. u.due[t] \in Int /\ u.objexp[t] \in Int
    BY <1>3, UnitTimes
  <2>12. d <= p + Overrun
    OBVIOUS
  <2> HIDE DEF p, h
  <2>13. u.due[t] + 0 >= -(MaxWork + Overrun + b)
    BY <1>1, <2>2, <2>5, <2>7, <2>8, <2>9, <2>10, <2>12, BoundsOK
  <2>14. u.due[t] - f <= u.objexp[t] /\ u.objexp[t] <= u.due[t] + b
    BY <1>3, <1>6 DEF TimesOK, Timely
  <2>15. u.due[t] + 0 - f <= u.objexp[t] + 0 /\ u.objexp[t] + 0 <= u.due[t] + 0 + b
    BY <1>1, <2>11, <2>14
  <2>16. QED
    BY <2>13, <2>14, <2>15 DEF Timely
<1>7. TimesOK(u, 0, 0, b, f)
  BY <1>6 DEF TimesOK
<1>8. Passed(u, Timeouts, 0, b)
  BY <1>3, ArmedList DEF Passed, Running
<1>9. QED
  BY <1>1, <1>2, <1>3, <1>7, <1>8 DEF Sound

-----------------------------------------------------------------------------
(* The invariant of the loop                                               *)

LEMMA AnySound ==
  ASSUME NEW s, NEW L, NEW ago, NEW w, NEW b, NEW f, Sound(s, L, ago, w, b, f)
  PROVE  Sound(s, Timeouts, ago, w, b, f)
<1>1. UnitOK(s)
  BY DEF Sound
<1>2. Passed(s, Timeouts, w, b)
  BY <1>1, ArmedList DEF Passed, Running
<1>3. QED
  BY <1>2 DEF Sound

\* A round that is over is the start of a wait.
LEMMA RoundOver ==
  ASSUME NEW s, NEW ago, NEW w, NEW b, NEW f, Sound(s, {}, ago, w, b, f), w <= MaxWork
  PROVE  Sound(s, Timeouts, 0, 0, b, f) /\ Passed(s, {}, MaxWork, b)
<1>1. /\ UnitOK(s) /\ TimesOK(s, ago, w, b, f) /\ Passed(s, {}, w, b)
      /\ b \in Nat /\ f \in Nat /\ w \in Nat
  BY DEF Sound
<1>2. ASSUME NEW t \in Timers, Running(s, t)
      PROVE  Timely(s, t, 0, 0, b, f) /\ s.due[t] + MaxWork >= -b
  <2>1. s.due[t] + w >= -b /\ s.due[t] - f <= s.objexp[t] /\ s.objexp[t] <= s.due[t] + b
    BY <1>1, <1>2 DEF Passed, TimesOK, Timely
  <2>2. s.due[t] \in Int /\ s.objexp[t] \in Int
    BY <1>1, UnitTimes
  <2>3. QED
    BY <1>1, <2>1, <2>2, BoundsOK DEF Timely
<1>3. TimesOK(s, 0, 0, b, f) /\ Passed(s, {}, MaxWork, b)
  BY <1>2 DEF TimesOK, Passed
<1>4. Passed(s, Timeouts, 0, b)
  BY <1>1, ArmedList DEF Passed, Running
<1>5. QED
  BY <1>1, <1>3, <1>4 DEF Sound

\* CheckExpired goes on to the next callback, or the loop to the next wait.
LEMMA RoundGoesOn ==
  ASSUME NEW l \in ToSet(unit'.next), NEW ago, NEW w,
         Sound(unit', Rest(unit', l), ago, w, back', ahead'), w <= MaxWork,
         unit'.next # <<>>, interval' \in TJIntervals,
         NEW r, r = DueList(unit', l, ago), GoOn(r, ago, w)
  PROVE  TimerInv'
<1>1. \/ r = NoList /\ Sound(unit', {}, ago, w, back', ahead')
      \/ /\ r # NoList /\ r \in ToSet(unit'.next) /\ Expired(unit', r, ago)
         /\ Sound(unit', Rest(unit', r), ago, w, back', ahead')
  BY DueListSound
<1>2. CASE r = NoList /\ Sound(unit', {}, ago, w, back', ahead')
  <2>1. tl' = NoList /\ phase' = "wait" /\ lag' = 0 /\ work' = 0
    BY <1>2 DEF GoOn
  <2>2. Sound(unit', Timeouts, 0, 0, back', ahead') /\ Passed(unit', {}, MaxWork, back')
    BY <1>2, RoundOver
  <2>3. QED
    BY <2>1, <2>2, BoundsOK DEF TimerInv
<1>3. CASE /\ r # NoList /\ r \in ToSet(unit'.next) /\ Expired(unit', r, ago)
           /\ Sound(unit', Rest(unit', r), ago, w, back', ahead')
  <2>1. tl' = r /\ phase' = "expired" /\ lag' = ago /\ work' = w
    BY <1>3 DEF GoOn
  <2>2. Sound(unit', Timeouts, ago, w, back', ahead')
    BY <1>3, AnySound
  <2>3. Passed(unit', Rest(unit', r), w, back')
    BY <1>3 DEF Sound
  <2>4. QED
    BY <1>3, <2>1, <2>2, <2>3 DEF TimerInv
<1>4. QED
  BY <1>1, <1>2, <1>3

LEMMA PeriodOK ==
  ASSUME NEW t \in Timers \ {LINK}, NEW to \in TJIntervals
  PROVE  Period(t, to) \in Timeouts
BY ConstantsOK DEF Period, TIME_CHECK, FLUSH_CHECK, OFFLINE_CHECK, LINK

LEMMA NamesOK == /\ TIME_CHECK # LINK /\ FLUSH_CHECK # LINK /\ OFFLINE_CHECK # LINK
                 /\ "none" \notin Timers
BY ConstantsOK DEF TIME_CHECK, FLUSH_CHECK, OFFLINE_CHECK, LINK

\* The unit at the start of the process.
LEMMA InitUnit ==
  ASSUME NEW to \in TJIntervals
  PROVE  Sound(InitTimer(to), {}, 0, 0, 0, 0) /\ InitTimer(to).next # <<>>
<1> DEFINE Started1(s, t) ==
             IF t \in Timers THEN StartTimer(s, t, Period(t, to), FALSE) ELSE s
           s0 == EmptyUnit
           s1 == Started1(s0, TIME_CHECK)
           s2 == Started1(s1, FLUSH_CHECK)
           s3 == Started1(s2, OFFLINE_CHECK)
<1>1. InitTimer(to) = s3
  BY DEF InitTimer
<1>2. s0 \in Units /\ s0.next = <<>> /\ (\A i \in Timeouts : s0.tlist[i] = <<>>)
      /\ \A t \in Timers : s0.loop[t] = FALSE
  BY DEF EmptyUnit, Units
<1>3. UnitOK(s0) /\ \A t \in Timers : ~Armed(s0, t)
  <2>1. \A x : x \notin ToSet(<<>>)
    BY DEF ToSet
  <2>2. IsInjective(<<>>)
    BY DEF IsInjective
  <2>3. \A i \in Timeouts : ListOK(s0, i)
    BY <1>2, <2>1, <2>2 DEF ListOK, Ordered
  <2>4. QED
    BY <1>2, <2>1, <2>2, <2>3 DEF UnitOK, Armed
<1>4. Sound(s0, {}, 0, 0, 0, 0)
  <2>1. InOrder(s0)
    BY <1>2 DEF InOrder, Ordered
  <2>2. TimesOK(s0, 0, 0, 0, 0) /\ Passed(s0, {}, 0, 0)
    BY <1>3 DEF TimesOK, Passed, Running
  <2>3. QED
    BY <1>3, <2>1, <2>2 DEF Sound
<1> HIDE DEF s0
<1>5. ASSUME NEW s, Sound(s, {}, 0, 0, 0, 0), NEW t \in Timers \ {LINK},
             NEW u, u = StartTimer(s, t, Period(t, to), FALSE)
      PROVE  Sound(u, {}, 0, 0, 0, 0) /\ u.next # <<>>
  <2>1. Tidy(s)
    BY <1>5, UnitTidy DEF Sound
  <2>2. Period(t, to) \in Timeouts
    BY PeriodOK
  <2>3. Started(s, u, t, Period(t, to))
    BY <1>5, <2>1, <2>2, StartCheck
  <2>4. QED
    BY <1>5, <2>2, <2>3, StartedSound
<1>6. TIME_CHECK \in Timers \ {LINK}
  BY ConstantsOK, NamesOK
<1>7. Sound(s1, {}, 0, 0, 0, 0) /\ s1.next # <<>>
  BY <1>4, <1>5, <1>6
<1> HIDE DEF s1
<1>8. Sound(s2, {}, 0, 0, 0, 0) /\ s2.next # <<>>
  BY <1>5, <1>7, NamesOK
<1> HIDE DEF s2
<1>9. Sound(s3, {}, 0, 0, 0, 0) /\ s3.next # <<>>
  BY <1>5, <1>8, NamesOK
<1>10. QED
  BY <1>1, <1>9

LEMMA InitInv == Init => TimerInv
<1>1. SUFFICES ASSUME Init PROVE TimerInv
  OBVIOUS
<1>2. /\ interval \in TJIntervals /\ unit = InitTimer(interval) /\ phase = "wait"
      /\ tl = NoList /\ lag = 0 /\ work = 0 /\ back = 0 /\ ahead = 0
  BY <1>1 DEF Init
<1>3. Sound(unit, {}, 0, 0, 0, 0) /\ unit.next # <<>>
  BY <1>2, InitUnit
<1>4. Sound(unit, Timeouts, 0, 0, 0, 0) /\ Passed(unit, {}, MaxWork, 0)
  BY <1>3, BoundsOK, RoundOver
<1>5. QED
  BY <1>2, <1>3, <1>4, BoundsOK DEF TimerInv

-----------------------------------------------------------------------------
(* The callbacks                                                           *)

LEMMA SameGrown ==
  ASSUME NEW s, NEW u, u.next = s.next
  PROVE  Grown(s, u)
BY DEF Grown, Rest, Position

LEMMA GrownTwice ==
  ASSUME NEW s, NEW u, NEW v, Grown(s, u), Grown(u, v)
  PROVE  Grown(s, v)
BY DEF Grown

LEMMA ListDelSound ==
  ASSUME NEW s, NEW L, NEW ago, NEW w, NEW b, NEW f, Sound(s, L, ago, w, b, f), NEW t \in Timers
  PROVE  /\ Sound(ListDel(s, t), L, ago, w, b, f) /\ ~Armed(ListDel(s, t), t)
         /\ Grown(s, ListDel(s, t))
<1>1. Stopped(s, ListDel(s, t), t)
  BY UnitTidy, ListDelStops DEF Sound
<1>2. QED
  BY <1>1, StoppedSound, SameGrown

LEMMA StopSound ==
  ASSUME NEW s, NEW L, NEW ago, NEW w, NEW b, NEW f, Sound(s, L, ago, w, b, f), NEW t \in Timers
  PROVE  /\ Sound(StopTimer(s, t), L, ago, w, b, f) /\ ~Armed(StopTimer(s, t), t)
         /\ Grown(s, StopTimer(s, t)) /\ StopTimer(s, t).loop[t] = FALSE
<1>1. Stopped(s, StopTimer(s, t), t) /\ StopTimer(s, t).loop[t] = FALSE
  BY UnitTidy, StopStops DEF Sound
<1>2. QED
  BY <1>1, StoppedSound, SameGrown

LEMMA OnCloseSound ==
  ASSUME NEW s, NEW L, NEW ago, NEW w, NEW b, NEW f, Sound(s, L, ago, w, b, f)
  PROVE  Sound(OnClose(s), L, ago, w, b, f) /\ Grown(s, OnClose(s)) /\ OnClose(s).next # <<>>
<1>1. Started(s, OnClose(s), LINK, LinkInterval)
  BY UnitTidy, StartLink DEF Sound, OnClose
<1>2. LINK \in Timers /\ LinkInterval \in Timeouts
  BY ConstantsOK
<1> DEFINE u == OnClose(s)
<1> HIDE DEF u
<1>3. Started(s, u, LINK, LinkInterval)
  BY <1>1 DEF u
<1>4. Sound(u, L, ago, w, b, f) /\ Grown(s, u) /\ u.next # <<>>
  BY <1>2, <1>3, StartedSound
<1>5. QED
  BY <1>4 DEF u

\* The expiry of a timer that is on no list falls while the clock goes on.
LEMMA ExpirySound ==
  ASSUME NEW s, NEW L, NEW ago, NEW w, NEW b, NEW f, Sound(s, L, ago, w, b, f),
         NEW t \in Timers, ~Armed(s, t), NEW d \in Nat,
         NEW u, u = [s EXCEPT !.objexp[t] = @ - d]
  PROVE  Sound(u, L, ago, w, b, f) /\ Grown(s, u)
<1> DEFINE o == [s.objexp EXCEPT ![t] = @ - d]
<1>1. s \in Units
  BY DEF Sound, UnitOK
<1>2. o \in [Timers -> Int] /\ \A x \in Timers \ {t} : o[x] = s.objexp[x]
  BY <1>1 DEF Units
<1>3. u = [s EXCEPT !.objexp = o]
  BY <1>1 DEF Units
<1> HIDE DEF o
<1>4. u \in Units /\ u.next = s.next /\ u.tlist = s.tlist /\ u.objexp = o
      /\ u.due = s.due /\ u.loop = s.loop /\ u.timeout = s.timeout
  BY <1>1, <1>2, <1>3 DEF Units
<1>5. \A i \in Timeouts : u.tlist[i] = Unlinked(s.tlist[i], t)
  BY <1>4 DEF Armed, Unlinked
<1>6. Others(s, u, t)
  BY <1>2, <1>4 DEF Others
<1>7. Stopped(s, u, t)
  BY <1>4, <1>5, <1>6 DEF Stopped
<1>8. QED
  BY <1>4, <1>7, StoppedSound, SameGrown

LEMMA StartCheckSound ==
  ASSUME NEW s, NEW L, NEW ago, NEW w, NEW b, NEW f, Sound(s, L, ago, w, b, f),
         NEW t \in Timers \ {LINK}, NEW to \in Timeouts,
         NEW u, u = StartTimer(s, t, to, FALSE)
  PROVE  Sound(u, L, ago, w, b, f) /\ Grown(s, u) /\ u.next # <<>> /\ ~u.loop[t]
<1>1. Started(s, u, t, to)
  BY UnitTidy, StartCheck DEF Sound
<1>2. Sound(u, L, ago, w, b, f) /\ Grown(s, u) /\ u.next # <<>>
  BY <1>1, StartedSound
<1>3. ~u.loop[t]
  BY <1>1 DEF Started
<1>4. QED
  BY <1>2, <1>3

\* A check of Options, from the moment it is taken off its list.
LEMMA CheckSound ==
  ASSUME NEW s, NEW L, NEW ago, NEW w, NEW b, NEW f, Sound(s, L, ago, w, b, f),
         NEW t \in Timers \ {LINK}, NEW to \in Timeouts, NEW d \in Nat, NEW lost,
         NEW u, u = TimerNotify(ProcessCheck(ListDel(s, t), t, d, lost, to), t)
  PROVE  Sound(u, L, ago + d, w + d, b, f) /\ Grown(s, u) /\ u.next # <<>>
<1> DEFINE s1 == ListDel(s, t)
           s2 == StopTimer(s1, t)
           s3 == Elapse(s2, d)
           s4 == [s3 EXCEPT !.objexp[t] = @ - d]
           s5 == IF lost THEN OnClose(s4) ELSE s4
           s6 == StartTimer(s5, t, to, FALSE)
<1>1. ProcessCheck(s1, t, d, lost, to) = s6
  BY DEF ProcessCheck
<1>2. Sound(s1, L, ago, w, b, f) /\ Grown(s, s1)
  BY ListDelSound
<1> HIDE DEF s1
<1>3. Sound(s2, L, ago, w, b, f) /\ Grown(s1, s2) /\ ~Armed(s2, t)
  BY <1>2, StopSound
<1> HIDE DEF s2
<1>4. Sound(s3, L, ago + d, w + d, b, f) /\ s3.next = s2.next
  BY <1>3, ElapseSound
<1>5. Grown(s2, s3)
  BY <1>4, SameGrown
<1>6. ~Armed(s3, t)
  <2>1. s2 \in Units /\ d \in Int
    BY <1>3 DEF Sound, UnitOK
  <2>2. s3.tlist = s2.tlist
    BY <2>1, ElapseFields
  <2>3. QED
    BY <1>3, <2>2 DEF Armed
<1> HIDE DEF s3
<1> DEFINE a == ago + d
           e == w + d
<1> HIDE DEF a, e
<1>7. Sound(s3, L, a, e, b, f)
  BY <1>4 DEF a, e
<1>8. Sound(s4, L, a, e, b, f) /\ Grown(s3, s4)
  BY <1>6, <1>7, ExpirySound
<1> HIDE DEF s4
<1>9. s5 = OnClose(s4) \/ s5 = s4
  OBVIOUS
<1> HIDE DEF s5
<1>10. Sound(s5, L, a, e, b, f) /\ Grown(s4, s5)
  BY <1>8, <1>9, OnCloseSound, SameGrown
<1>11. Sound(s6, L, a, e, b, f) /\ Grown(s5, s6) /\ s6.next # <<>> /\ ~s6.loop[t]
  BY <1>10, StartCheckSound
<1> HIDE DEF s6
<1>12. TimerNotify(s6, t) = s6
  BY <1>11 DEF TimerNotify
<1>13. u = s6
  BY <1>1, <1>12 DEF s1
<1>14. Grown(s, s3)
  BY <1>2, <1>3, <1>5, GrownTwice
<1>15. Grown(s, s6)
  BY <1>8, <1>10, <1>11, <1>14, GrownTwice
<1>16. QED
  BY <1>11, <1>13, <1>15 DEF a, e

\* The timer of the link.
LEMMA LinkSound ==
  ASSUME NEW s, NEW L, NEW ago, NEW w, NEW b, NEW f, Sound(s, L, ago, w, b, f), s.next # <<>>,
         NEW result \in {"fails", "connected", "lost"},
         NEW u, u = TimerNotify(Reconnects(ListDel(s, LINK), result), LINK)
  PROVE  Sound(u, L, ago, w, b, f) /\ Grown(s, u)
<1> DEFINE s1 == ListDel(s, LINK)
           s2 == Reconnects(s1, result)
<1>1. LINK \in Timers
  BY ConstantsOK
<1>2. Sound(s1, L, ago, w, b, f) /\ Grown(s, s1)
  BY <1>1, ListDelSound
<1> HIDE DEF s1
<1>3. Sound(s2, L, ago, w, b, f) /\ Grown(s1, s2)
  <2>1. CASE result = "fails"
    <3>1. s2 = s1
      BY <2>1 DEF Reconnects
    <3>2. QED
      BY <1>2, <3>1, SameGrown
  <2>2. CASE result = "connected"
    <3>1. s2 = StopTimer(s1, LINK)
      BY <2>2 DEF Reconnects
    <3>2. QED
      BY <1>1, <1>2, <3>1, StopSound
  <2>3. CASE result = "lost"
    <3> DEFINE c == OnClose(s1)
    <3>1. s2 = StopTimer(c, LINK)
      BY <2>3 DEF Reconnects
    <3>2. Sound(c, L, ago, w, b, f) /\ Grown(s1, c)
      BY <1>2, OnCloseSound
    <3> HIDE DEF c
    <3>3. Sound(s2, L, ago, w, b, f) /\ Grown(c, s2)
      BY <1>1, <3>1, <3>2, StopSound
    <3>4. QED
      BY <3>2, <3>3, GrownTwice
  <2>4. QED
    BY <2>1, <2>2, <2>3
<1>4. u = TimerNotify(s2, LINK)
  BY DEF s1
<1> HIDE DEF s2
<1>5. CASE ~s2.loop[LINK]
  <2>1. u = s2
    BY <1>4, <1>5 DEF TimerNotify
  <2>2. QED
    BY <1>2, <1>3, <2>1, GrownTwice
<1>6. CASE s2.loop[LINK]
  <2>1. s2.timeout[LINK] = LinkInterval
    BY <1>1, <1>3, <1>6 DEF Sound, UnitOK
  <2>2. u = OnClose(s2)
    BY <1>4, <1>6, <2>1 DEF TimerNotify, OnClose
  <2>3. Sound(u, L, ago, w, b, f) /\ Grown(s2, u)
    BY <1>3, <2>2, OnCloseSound
  <2>4. QED
    BY <1>2, <1>3, <2>3, GrownTwice
<1>7. QED
  BY <1>5, <1>6

-----------------------------------------------------------------------------
(* The steps                                                               *)

\* The round is at list l of the chain; the list is still there after a callback.
LEMMA RestKept ==
  ASSUME NEW s, NEW u, NEW ago, NEW w, NEW b, NEW f, NEW l \in ToSet(s.next), Grown(s, u),
         Sound(u, Rest(s, l), ago, w, b, f)
  PROVE  l \in ToSet(u.next) /\ Sound(u, Rest(u, l), ago, w, b, f)
BY DEF Grown

LEMMA AtList ==
  ASSUME TimerInv, phase = "expired"
  PROVE  /\ tl \in ToSet(unit.next) /\ Expired(unit, tl, lag)
         /\ Sound(unit, Rest(unit, tl), lag, work, back, ahead)
BY DEF TimerInv, Sound

LEMMA WaitStep ==
  ASSUME TimerInv, NEW d \in 0..(MaxWait * Precision + Overrun), WaitPollerEvents(d)
  PROVE  TimerInv'
<1>1. /\ phase = "wait" /\ unit' = Elapse(unit, d) /\ phase' = "events"
      /\ lag' = 0 /\ work' = 0 /\ fired' = "none" /\ tl' = tl
      /\ interval' = interval /\ back' = back /\ ahead' = ahead
      /\ d \in 0..(Span(ExpireMicroSeconds(unit, MaxWait)) + Overrun)
  BY DEF WaitPollerEvents, Span
<1>2. /\ Sound(unit, Timeouts, 0, 0, back, ahead) /\ Passed(unit, {}, MaxWork, back)
      /\ unit.next # <<>> /\ interval \in TJIntervals /\ tl = NoList
  BY <1>1 DEF TimerInv
<1> DEFINE e == Span(ExpireMicroSeconds(unit, MaxWait)) + Overrun
<1>3. d \in Nat /\ d <= e
  <2> HIDE DEF e
  <2>1. d \in 0..e
    BY <1>1 DEF e
  <2>2. QED
    BY <2>1
<1>4. d <= Span(ExpireMicroSeconds(unit, MaxWait)) + Overrun
  BY <1>3
<1> HIDE DEF e
<1>5. Sound(unit', Timeouts, 0, 0, back, ahead) /\ unit'.next = unit.next
  BY <1>1, <1>2, <1>3, <1>4, WaitSound
<1>6. QED
  BY <1>1, <1>2, <1>5, BoundsOK DEF TimerInv

LEMMA CheckExpiredStep ==
  ASSUME TimerInv, CheckExpired
  PROVE  TimerInv'
<1>1. /\ unit' = unit /\ interval' = interval /\ back' = back /\ ahead' = ahead
      /\ GoOn(DueList(unit', unit'.next[1], lag), lag, work)
  BY DEF CheckExpired
<1>2. /\ Sound(unit, Timeouts, lag, work, back, ahead) /\ unit.next # <<>>
      /\ interval \in TJIntervals /\ work <= MaxWork
  BY DEF TimerInv
<1>3. /\ unit'.next[1] \in ToSet(unit'.next)
      /\ Sound(unit', Rest(unit', unit'.next[1]), lag, work, back', ahead')
  BY <1>1, <1>2, FirstList
<1> DEFINE l == unit'.next[1]
<1> HIDE DEF l
<1>4. l \in ToSet(unit'.next) /\ Sound(unit', Rest(unit', l), lag, work, back', ahead')
      /\ GoOn(DueList(unit', l, lag), lag, work)
  BY <1>1, <1>3 DEF l
<1>5. QED
  BY <1>1, <1>2, <1>4, RoundGoesOn

LEMMA CheckNotifyStep ==
  ASSUME TimerInv, NEW t \in Timers, NEW w \in 0..MaxWork, NEW lost,
         CheckNotify(t, w, lost)
  PROVE  TimerInv'
<1> DEFINE to == Period(t, interval)
<1>1. /\ phase = "expired" /\ t # LINK /\ w + work <= MaxWork
      /\ unit' = TimerNotify(ProcessCheck(ListDel(unit, t), t, w, lost, to), t)
      /\ GoOn(DueList(unit', tl, lag + w), lag + w, work + w)
      /\ interval' = interval /\ back' = back /\ ahead' = ahead
  BY DEF CheckNotify
<1>2. /\ tl \in ToSet(unit.next) /\ Sound(unit, Rest(unit, tl), lag, work, back, ahead)
  BY <1>1, AtList
<1>3. interval \in TJIntervals /\ work \in Nat /\ w \in Nat
  BY BoundsOK DEF TimerInv, Sound
<1>4. to \in Timeouts /\ t \in Timers \ {LINK}
  BY <1>1, <1>3, PeriodOK
<1> HIDE DEF to
<1>5. /\ Sound(unit', Rest(unit, tl), lag + w, work + w, back, ahead)
      /\ Grown(unit, unit') /\ unit'.next # <<>>
  BY <1>1, <1>2, <1>3, <1>4, CheckSound
<1> DEFINE a == lag + w
           e == work + w
<1>6. e <= MaxWork
  BY <1>1, <1>3, BoundsOK
<1> HIDE DEF a, e
<1>7. Sound(unit', Rest(unit, tl), a, e, back, ahead)
  BY <1>5 DEF a, e
<1>8. tl \in ToSet(unit'.next) /\ Sound(unit', Rest(unit', tl), a, e, back, ahead)
  BY <1>2, <1>5, <1>7, RestKept
<1>9. GoOn(DueList(unit', tl, a), a, e)
  BY <1>1 DEF a, e
<1>10. QED
  BY <1>1, <1>3, <1>5, <1>6, <1>8, <1>9, RoundGoesOn

LEMMA LinkNotifyStep ==
  ASSUME TimerInv, NEW result \in {"fails", "connected", "lost"}, LinkNotify(result)
  PROVE  TimerInv'
<1>1. /\ phase = "expired"
      /\ unit' = TimerNotify(Reconnects(ListDel(unit, LINK), result), LINK)
      /\ GoOn(DueList(unit', tl, lag), lag, work)
      /\ interval' = interval /\ back' = back /\ ahead' = ahead
  BY DEF LinkNotify
<1>2. /\ tl \in ToSet(unit.next) /\ Sound(unit, Rest(unit, tl), lag, work, back, ahead)
  BY <1>1, AtList
<1>3. interval \in TJIntervals /\ work <= MaxWork /\ unit.next # <<>>
  BY DEF TimerInv
<1>4. Sound(unit', Rest(unit, tl), lag, work, back, ahead) /\ Grown(unit, unit')
  BY <1>1, <1>2, <1>3, LinkSound
<1>5. tl \in ToSet(unit'.next) /\ Sound(unit', Rest(unit', tl), lag, work, back, ahead)
  BY <1>2, <1>4, RestKept
<1>6. unit'.next # <<>>
  BY <1>5, EmptyList DEF Sound, UnitOK, Units
<1>7. QED
  BY <1>1, <1>3, <1>5, <1>6, RoundGoesOn

LEMMA EventStep ==
  ASSUME TimerInv, LinkEvent \/ OtherEvent \/ \E to \in TJIntervals : SetTjSwitch(to)
  PROVE  TimerInv'
<1>1. /\ Sound(unit, Timeouts, lag, work, back, ahead) /\ unit.next # <<>>
      /\ interval \in TJIntervals /\ work <= MaxWork
      /\ phase = "events" => tl = NoList /\ fired = "none"
  BY DEF TimerInv
<1>2. CASE LinkEvent
  <2>1. /\ phase = "events" /\ unit' = OnClose(unit) /\ phase' = phase /\ lag' = lag
        /\ tl' = tl /\ interval' = interval /\ work' = work /\ back' = back /\ ahead' = ahead
        /\ fired' = fired
    BY <1>2 DEF LinkEvent
  <2>2. Sound(unit', Timeouts, lag, work, back, ahead) /\ unit'.next # <<>>
    BY <1>1, <2>1, OnCloseSound
  <2>3. QED
    BY <1>1, <2>1, <2>2 DEF TimerInv
<1>3. CASE OtherEvent
  <2>1. /\ phase = "events" /\ unit' = Elapse(unit, 1) /\ phase' = phase /\ lag' = lag + 1
        /\ tl' = tl /\ interval' = interval /\ work' = work + 1 /\ back' = back /\ ahead' = ahead
        /\ fired' = fired /\ work < MaxWork
    BY <1>3 DEF OtherEvent
  <2>2. Sound(unit', Timeouts, lag + 1, work + 1, back, ahead) /\ unit'.next = unit.next
    BY <1>1, <2>1, ElapseSound
  <2>3. work + 1 <= MaxWork
    BY <1>1, <2>1, BoundsOK DEF Sound
  <2>4. QED
    BY <1>1, <2>1, <2>2, <2>3 DEF TimerInv
<1>4. CASE \E to \in TJIntervals : SetTjSwitch(to)
  <2>1. /\ phase = "events" /\ unit' = unit /\ phase' = phase /\ lag' = lag
        /\ tl' = tl /\ interval' \in TJIntervals /\ work' = work /\ back' = back /\ ahead' = ahead
        /\ fired' = fired
    BY <1>4 DEF SetTjSwitch
  <2>2. QED
    BY <1>1, <2>1 DEF TimerInv
<1>5. QED
  BY <1>2, <1>3, <1>4

LEMMA SetClockStep ==
  ASSUME TimerInv, NEW d, SetClock(d), Counted(d, back, ahead, back', ahead')
  PROVE  TimerInv'
<1>1. /\ unit' = ClockStep(unit, d) /\ lag' = (IF phase = "wait" THEN 0 ELSE lag + d)
      /\ fired' = "none" /\ phase' = phase /\ tl' = tl
      /\ interval' = interval /\ work' = work
  BY DEF SetClock
<1>2. /\ Sound(unit, Timeouts, lag, work, back, ahead) /\ unit.next # <<>>
      /\ interval \in TJIntervals /\ work <= MaxWork
      /\ phase = "wait" => lag = 0 /\ work = 0
  BY DEF TimerInv
<1>3. /\ UnitOK(unit) /\ back \in Nat /\ lag \in Int /\ work \in Nat /\ d \in Int
      /\ back' \in Nat /\ back <= back'
  BY <1>2 DEF Sound, Counted
<1>4. lag' = lag + d \/ (lag' = 0 /\ lag = 0 /\ work = 0)
  BY <1>1, <1>2
<1>5. Sound(unit', Timeouts, lag', work, back', ahead') /\ unit'.next = unit.next
  BY <1>1, <1>2, <1>4, ClockSound
<1>6. CASE phase = "wait"
  <2>1. Passed(unit, {}, MaxWork, back) /\ tl = NoList
    BY <1>6 DEF TimerInv
  <2>2. Passed(unit', {}, MaxWork, back')
    <3>1. unit'.timeout = unit.timeout /\ unit'.due = unit.due /\ unit'.tlist = unit.tlist
      BY <1>1, <1>3, ClockStepOK
    <3>2. ASSUME NEW x \in Timers, Running(unit', x)
          PROVE  unit'.due[x] + MaxWork >= -back'
      <4>1. Running(unit, x)
        BY <3>1, <3>2 DEF Running, Armed
      <4>2. unit.due[x] + MaxWork >= -back /\ unit.due[x] \in Int
        BY <1>3, <2>1, <4>1, UnitTimes DEF Passed
      <4>3. QED
        BY <1>3, <3>1, <4>2, BoundsOK
    <3>3. QED
      BY <3>2 DEF Passed
  <2>3. QED
    BY <1>1, <1>2, <1>5, <1>6, <2>1, <2>2 DEF TimerInv
<1>7. CASE phase = "events"
  <2>1. tl = NoList
    BY <1>7 DEF TimerInv
  <2>2. QED
    BY <1>1, <1>2, <1>5, <1>7, <2>1 DEF TimerInv
<1>8. CASE phase = "expired"
  <2>1. /\ tl \in ToSet(unit.next) /\ Expired(unit, tl, lag)
        /\ Sound(unit, Rest(unit, tl), lag, work, back, ahead)
    BY <1>8, AtList
  <2>2. lag' = lag + d
    BY <1>1, <1>8
  <2>3. Rest(unit', tl) = Rest(unit, tl) /\ tl \in ToSet(unit'.next)
    BY <1>5, <2>1, SameGrown DEF Grown
  <2>4. Sound(unit', Rest(unit, tl), lag', work, back', ahead')
    BY <1>1, <2>1, <2>2, ClockSound
  <2>5. Passed(unit', Rest(unit', tl), work, back')
    BY <2>3, <2>4 DEF Sound
  <2>6. Expired(unit', tl, lag')
    <3> DEFINE h == Head(unit.tlist[tl])
    <3>1. tl \in Timeouts /\ unit.tlist[tl] # <<>> /\ unit.objexp[h] + lag <= 0
      BY <1>3, <2>1, RestLists DEF Expired
    <3>2. h \in Timers /\ Armed(unit, h)
      BY <1>3, <3>1, HeadOK
    <3>3. unit'.tlist = unit.tlist /\ unit'.objexp[h] = unit.objexp[h] - d
      BY <1>1, <1>3, <3>2, ClockStepOK
    <3>4. unit.objexp[h] \in Int
      BY <1>3, <3>2, UnitTimes
    <3>5. unit'.objexp[h] + lag' <= 0
      BY <1>3, <2>2, <3>1, <3>3, <3>4
    <3>6. QED
      BY <3>1, <3>3, <3>5 DEF Expired
  <2>7. QED
    BY <1>1, <1>2, <1>5, <1>8, <2>3, <2>5, <2>6 DEF TimerInv
<1>9. QED
  BY <1>6, <1>7, <1>8 DEF TimerInv

LEMMA NextInv == TimerInv /\ [Next]_vars => TimerInv'
<1>1. SUFFICES ASSUME TimerInv, [Next]_vars PROVE TimerInv'
  OBVIOUS
<1>2. ASSUME NEW d \in 0..(MaxWait * Precision + Overrun), WaitPollerEvents(d) PROVE TimerInv'
  BY <1>1, <1>2, WaitStep
<1>3. ASSUME NEW t \in Timers, NEW w \in 0..MaxWork, NEW lost \in BOOLEAN,
             CheckNotify(t, w, lost)
      PROVE  TimerInv'
  BY <1>1, <1>3, CheckNotifyStep
<1>4. ASSUME NEW result \in {"fails", "connected", "lost"}, LinkNotify(result) PROVE TimerInv'
  BY <1>1, <1>4, LinkNotifyStep
<1>5. CASE Loop
  BY <1>1, <1>2, <1>3, <1>4, <1>5, CheckExpiredStep DEF Loop
<1>6. CASE LinkEvent \/ OtherEvent \/ \E to \in TJIntervals : SetTjSwitch(to)
  BY <1>1, <1>6, EventStep
<1>7. CASE SetClockBack \/ SetClockForward
  <2>1. PICK d : SetClock(d) /\ Counted(d, back, ahead, back', ahead')
    BY <1>7 DEF SetClockBack, SetClockForward, Counted
  <2>2. QED
    BY <1>1, <2>1, SetClockStep
<1>8. CASE UNCHANGED vars
  BY <1>1, <1>8 DEF vars, TimerInv
<1>9. QED
  BY <1>1, <1>5, <1>6, <1>7, <1>8 DEF Next

LEMMA SpecInv == Spec => []TimerInv
BY InitInv, NextInv, PTL DEF Spec

\* Every chain and list of CTimerUnit stays sound, and ordered by expiry unless the
\* clock is set back, whatever the callbacks of CheckExpired start, stop and move;
\* a clock set forward disturbs no order.
THEOREM TimerListsAreSound == Spec => []ListsSound
<1>1. TimerInv => ListsSound
  <2>1. SUFFICES ASSUME TimerInv PROVE ListsSound
    OBVIOUS
  <2>2. UnitOK(unit) /\ (back = 0 => InOrder(unit))
    BY <2>1 DEF TimerInv, Sound
  <2>3. tl # NoList => tl \in ToSet(unit.next)
    BY <2>1 DEF TimerInv
  <2>4. ListsLinked
    BY <2>2, <2>3 DEF ListsLinked, UnitOK, ListOK
  <2>5. ASSUME back = 0, NEW i \in Timeouts, i > 0,
               NEW m \in 1..Len(unit.tlist[i]), NEW n \in 1..Len(unit.tlist[i]), m < n
        PROVE  unit.objexp[unit.tlist[i][m]] <= unit.objexp[unit.tlist[i][n]]
    <3>1. unit.tlist[i] \in Seq(Timers) /\ Ordered(unit.tlist[i], unit.objexp)
      BY <2>2, <2>5, UnitTidy, TidyLists DEF InOrder
    <3>2. QED
      BY <2>5, <3>1 DEF Ordered
  <2>6. QED
    BY <2>4, <2>5 DEF ListsSound, ListsOrdered
<1>2. QED
  BY <1>1, SpecInv, PTL

\* Every timer with an interval runs at most two rounds of handlers and the delay
\* of epoll_wait after its expiry, and what the clock was set back.
THEOREM TimersAreNotLate == Spec => []NotLate
<1>1. TimerInv => NotLate
  <2>1. SUFFICES ASSUME TimerInv, NEW t \in Timers, Running(unit, t)
        PROVE  unit.due[t] >= -(2 * MaxWork + Overrun + back)
    BY DEF NotLate, Running
  <2>2. /\ UnitOK(unit) /\ TimesOK(unit, lag, work, back, ahead)
        /\ back \in Nat /\ work \in Nat /\ work <= MaxWork
    BY <2>1 DEF TimerInv, Sound
  <2>3. unit.due[t] + work >= -(MaxWork + Overrun + back) /\ unit.due[t] \in Int
    BY <2>1, <2>2, UnitTimes DEF TimesOK, Timely
  <2>4. QED
    BY <2>2, <2>3, BoundsOK
<1>2. QED
  BY <1>1, SpecInv, PTL

\* The timer at the head of an expired list has waited for its interval, but for
\* what the clock was set forward.
LEMMA HeadNotEarly ==
  ASSUME TimerInv, phase = "expired", NEW t, t = Head(unit.tlist[tl])
  PROVE  unit.due[t] <= ahead \/ back >= unit.timeout[t] * Precision
<1>1. /\ tl \in ToSet(unit.next) /\ Expired(unit, tl, lag)
      /\ Sound(unit, Rest(unit, tl), lag, work, back, ahead)
  BY AtList
<1>2. /\ UnitOK(unit) /\ TimesOK(unit, lag, work, back, ahead)
      /\ back \in Nat /\ ahead \in Nat /\ work \in Nat /\ lag \in Int
  BY <1>1 DEF Sound
<1>3. tl \in Timeouts /\ unit.tlist[tl] # <<>> /\ unit.objexp[t] + lag <= 0
  BY <1>1, <1>2, RestLists DEF Expired
<1>4. t \in Timers /\ Armed(unit, t) /\ unit.timeout[t] = tl /\ unit.due[t] <= Span(tl)
  BY <1>2, <1>3, HeadOK
<1>5. unit.due[t] \in Int /\ unit.objexp[t] \in Int /\ Span(tl) \in Nat /\ tl \in Nat
  BY <1>2, <1>4, UnitTimes
<1>6. CASE tl = 0
  BY <1>2, <1>4, <1>5, <1>6, SpanOK
<1>7. CASE tl > 0
  <2>1. Timely(unit, t, lag, work, back, ahead)
    BY <1>2, <1>4, <1>7 DEF TimesOK, Running
  <2>2. \/ unit.due[t] + work - ahead <= unit.objexp[t] + lag
        \/ unit.objexp[t] + lag >= Span(tl) - back
    BY <1>4, <2>1 DEF Timely
  <2>3. unit.due[t] <= ahead \/ back >= Span(tl)
    <3> DEFINE d == unit.due[t]
               o == unit.objexp[t]
               p == Span(tl)
    <3>1. /\ d \in Int /\ o \in Int /\ p \in Nat /\ work \in Nat /\ lag \in Int
          /\ back \in Nat /\ ahead \in Nat /\ o + lag <= 0
          /\ d + work - ahead <= o + lag \/ o + lag >= p - back
      BY <1>2, <1>3, <1>5, <2>2
    <3> HIDE DEF d, o, p
    <3>2. d <= ahead \/ back >= p
      BY <3>1
    <3>3. QED
      BY <3>2 DEF d, o, p
  <2>4. QED
    BY <1>4, <2>3 DEF Span
<1>8. QED
  BY <1>5, <1>6, <1>7

\* A callback of CheckExpired runs early by at most what the clock was set forward,
\* unless the clock was set back by the whole interval of its timer.
THEOREM TimersAreNotEarly == Spec => NotEarly
<1> DEFINE InTime == \A t \in Timers : fired' = t /\ unit' # unit =>
                       unit.due[t] <= ahead \/ back >= unit.timeout[t] * Precision
<1>1. TimerInv /\ [Next]_vars => [InTime]_vars
  <2>1. SUFFICES ASSUME TimerInv, Next, NEW t \in Timers, fired' = t, unit' # unit
                 PROVE  unit.due[t] <= ahead \/ back >= unit.timeout[t] * Precision
    OBVIOUS
  <2>2. CASE \E u \in Timers, w \in 0..MaxWork, lost \in BOOLEAN : CheckNotify(u, w, lost)
    <3>1. phase = "expired" /\ Head(unit.tlist[tl]) = t
      BY <2>1, <2>2 DEF CheckNotify
    <3>2. QED
      BY <2>1, <3>1, HeadNotEarly
  <2>3. CASE \E result \in {"fails", "connected", "lost"} : LinkNotify(result)
    <3>1. phase = "expired" /\ Head(unit.tlist[tl]) = t
      BY <2>1, <2>3 DEF LinkNotify
    <3>2. QED
      BY <2>1, <3>1, HeadNotEarly
  <2>4. CASE LinkEvent \/ OtherEvent
    <3>1. fired' = fired /\ phase = "events"
      BY <2>4 DEF LinkEvent, OtherEvent
    <3>2. fired = "none"
      BY <2>1, <3>1 DEF TimerInv
    <3>3. QED
      BY <2>1, <3>1, <3>2, NamesOK
  <2>5. CASE CheckExpired \/ \E to \in TJIntervals : SetTjSwitch(to)
    BY <2>1, <2>5 DEF CheckExpired, SetTjSwitch
  <2>6. CASE SetClockBack \/ SetClockForward \/ \E d \in 0..(MaxWait * Precision + Overrun) : WaitPollerEvents(d)
    <3>1. fired' = "none"
      BY <2>6 DEF SetClockBack, SetClockForward, SetClock, WaitPollerEvents
    <3>2. QED
      BY <2>1, <3>1, NamesOK
  <2>7. QED
    BY <2>1, <2>2, <2>3, <2>4, <2>5, <2>6 DEF Next, Loop
<1>2. QED
  BY <1>1, SpecInv, PTL DEF Spec, NotEarly

=============================================================================
