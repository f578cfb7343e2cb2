----------------------------- MODULE UserServer -----------------------------
(***************************************************************************)
(* The business core of the user server: the table of users kept in shared *)
(* memory, the packets of halls and game servers that update it            *)
(* (Server/ClientHandler.cpp), the list of users who lost their hall and   *)
(* the periodic checks that clean up (Server/Options.cpp), the statistics  *)
(* derived from all of it (module Stat) and the restart of the process     *)
(* (Server/Main.cpp).                                                      *)
(*                                                                         *)
(* The process is single threaded: a handler or a timer callback runs to   *)
(* completion, so each is one action.  What happens in between - which     *)
(* packet comes next, what memcached answers, when time passes, when the   *)
(* process dies - is nondeterministic.                                     *)
(*                                                                         *)
(* A table id is abstracted to the game server that hosts the table        *)
(* (tid >> 16), times to ages: m_nUpdateTime and the offline time are      *)
(* represented by the time that has passed since then.                     *)
(***************************************************************************)
EXTENDS Stat, Functions

CONSTANTS
  Users,          \* user ids, all positive
  Halls,          \* ids of the hall servers
  NoHall,         \* -1: not connected to any hall
  Servers,        \* ids of the game servers
  NoTable,        \* tid 0: at no table
  NotFound,       \* result of gshm.Find for a user who is not in the table
  Capacity,       \* node_total_ of the shared memory table
  OfflineLimit,   \* 5*60: an offline user older than this is dropped
  IdleLimit,      \* 1*60*60: the same for a user at no table ...
  PlayLimit,      \* 2*60*60: ... and for a user at a table
  OfflinePeriod,  \* TIME_INTEVAL, period of the offline check
  FlushPeriod,    \* FLUSH_CHECK_TIME, period of the flush check
  LoginWindow,    \* TIME_INTEVAL, how long after the start a login asks memcached
  MaxCount,       \* bound on the online and level counters
  MaxLook,        \* bound on the look-on counters
  MaxRestarts     \* bound on the number of restarts

NotOffline == -1  \* no entry in m_OfflineUserMgr

ASSUME UserServerAssumption ==
  /\ IsFiniteSet(Users)
  /\ NoHall \notin Halls
  /\ NoTable \notin Servers
  /\ Capacity \in Nat
  /\ OfflineLimit \in Nat \ {0} /\ IdleLimit \in Nat \ {0} /\ PlayLimit \in Nat
  /\ IdleLimit <= PlayLimit
  /\ OfflinePeriod \in Nat \ {0} /\ FlushPeriod \in Nat \ {0}
  /\ LoginWindow \in Nat
  /\ MaxCount \in Nat /\ MaxLook \in Nat /\ MaxRestarts \in Nat

\* CGameUser, without the key m_nUid.  The age of a record stops at PlayLimit:
\* the code only compares it with limits that are no larger.
CGameUser == [hall : Halls \cup {NoHall}, tid : Servers \cup {NoTable},
              term : Terminals, level : AllLevels, age : 0..PlayLimit]

User(h, s, t, l, a) ==
  [hall |-> h, tid |-> s, term |-> t, level |-> l, age |-> a]

ASSUME NotFoundAssumption == NotFound \notin CGameUser

VARIABLES
  shm,          \* gshm: the user table in shared memory, survives a restart
  terminalStat, \* CStat::m_terminalStatMap
  levelMgr,     \* CStat::m_LevelMgr
  offline,      \* Options::m_OfflineUserMgr: age of the entry, or NotOffline
  serverList,   \* Options::m_ServerList: level of the server, or NoLevel
  uptime,       \* time since m_nStartTime, stops at LoginWindow + 1
  offTimer,     \* time until m_CheckOfflineTimer fires
  flushTimer,   \* time until m_CheckFlushTimer fires
  restarts      \* number of restarts so far

stat == <<terminalStat, levelMgr>>
timers == <<uptime, offTimer, flushTimer, restarts>>
vars == <<shm, terminalStat, levelMgr, offline, serverList,
          uptime, offTimer, flushTimer, restarts>>

OfflineBound == OfflineLimit + OfflinePeriod - 1

\* Type correctness.
TypeOK ==
  /\ shm \in [Users -> CGameUser \cup {NotFound}]
  /\ terminalStat \in [Terminals -> DATAINFO]
  /\ levelMgr \in [AllLevels -> LEVELINFO \cup {NoEntry}]
  /\ offline \in [Users -> Nat \cup {NotOffline}]
  /\ serverList \in [Servers -> AllLevels]
  /\ uptime \in 0..(LoginWindow + 1)
  /\ offTimer \in 0..OfflinePeriod
  /\ flushTimer \in 0..FlushPeriod
  /\ restarts \in 0..MaxRestarts

-----------------------------------------------------------------------------
(* The user table, as the handlers use it.                                 *)

Found(u) == shm[u] # NotFound
Table == {u \in Users : Found(u)}
Seated(u) == Found(u) /\ shm[u].tid # NoTable
Detached(u) == Found(u) /\ shm[u].hall = NoHall

\* insert or replace: a new user is refused when no node is free, and no
\* caller looks at the result.
SetValue(u, r) ==
  shm' = IF Found(u) \/ Cardinality(Table) < Capacity
         THEN [shm EXCEPT ![u] = r] ELSE shm

\* How many users of S are on each terminal, and on each level.
PerTerminal(S) == [t \in Terminals |-> Cardinality({u \in S : shm[u].term = t})]

PerLevel(S) ==
  [l \in AllLevels |-> IF l = NoLevel THEN 0
                       ELSE Cardinality({u \in S : shm[u].level = l})]

\* GetServer, then GetServerInfoFromMc or GetServerFromMc: lv is the level
\* learnt, NoLevel when memcached has no usable record; a hit is remembered.
FindServer(s, lv) ==
  /\ lv \in IF serverList[s] # NoLevel THEN {serverList[s]} ELSE AllLevels
  /\ serverList' = [serverList EXCEPT ![s] = lv]

Init ==
  /\ shm = [u \in Users |-> NotFound]
  /\ terminalStat = NoTerminals
  /\ levelMgr = NoLevels
  /\ offline = [u \in Users |-> NotOffline]
  /\ serverList = [s \in Servers |-> NoLevel]
  /\ uptime = 0
  /\ offTimer = OfflinePeriod
  /\ flushTimer = FlushPeriod
  /\ restarts = 0

-----------------------------------------------------------------------------
(* Packets of the halls                                                    *)

\* Mutant: the offline entry is forgotten.
StoreLoginStillOffline(u, r) ==
  /\ \/ /\ r.tid = NoTable
        /\ SetValue(u, r)
        /\ UNCHANGED serverList
     \/ /\ r.tid # NoTable
        /\ \E lv \in AllLevels :
             FindServer(r.tid, lv) /\ SetValue(u, [r EXCEPT !.level = lv])
  /\ UNCHANGED offline

\* Second half of ProcessUserLogin: the offline entry goes, the user record r
\* gets the level of the server the user sits at, whatever it was before, and
\* is stored.
StoreLogin(u, r) ==
  /\ offline' = [offline EXCEPT ![u] = NotOffline]
  /\ \/ /\ r.tid = NoTable
        /\ SetValue(u, r)
        /\ UNCHANGED serverList
     \/ /\ r.tid # NoTable
        /\ \E lv \in AllLevels :
             FindServer(r.tid, lv) /\ SetValue(u, [r EXCEPT !.level = lv])

\* ProcessUserLogin of a user in the table: the terminal statistics follow the
\* user, table and level are taken over from the old record.
ReLogin(u, h, t) ==
  /\ Found(u)
  /\ shm[u].term # t => terminalStat[t].online < MaxCount
  /\ terminalStat' = UserReloadHall(terminalStat, shm[u].term,
                                    shm[u].tid # NoTable, t)
  /\ StoreLogin(u, User(h, shm[u].tid, t, shm[u].level, 0))
  /\ UNCHANGED <<levelMgr, timers>>

\* ProcessUserLogin of a new user: counted online, and shortly after a start
\* put back at the table memcached remembers (tid), which is not counted.
FirstLogin(u, h, t, tid) ==
  /\ ~Found(u)
  /\ terminalStat[t].online < MaxCount
  /\ tid # NoTable => uptime <= LoginWindow
  /\ terminalStat' = UserLoginHall(terminalStat, t)
  /\ StoreLogin(u, User(h, tid, t, NoLevel, 0))
  /\ UNCHANGED <<levelMgr, timers>>

ProcessUserLogin(u, h, t) ==
  \/ ReLogin(u, h, t)
  \/ \E tid \in Servers \cup {NoTable} : FirstLogin(u, h, t, tid)

\* ProcessClientClose of a user at a table: kept, but watched from now on.
CloseAtTable(u) ==
  /\ Seated(u)
  /\ offline' = [offline EXCEPT ![u] = 0]
  /\ SetValue(u, User(NoHall, shm[u].tid, shm[u].term, shm[u].level, 0))
  /\ UNCHANGED <<stat, serverList, timers>>

\* ProcessClientClose of a user at no table: the end of the session.
CloseInHall(u) ==
  /\ Found(u) /\ ~Seated(u)
  /\ offline' = [offline EXCEPT ![u] = NotOffline]
  /\ terminalStat' = UserLogoutHall(terminalStat, PerTerminal({u}))
  /\ shm' = [shm EXCEPT ![u] = NotFound]
  /\ UNCHANGED <<levelMgr, serverList, timers>>

ProcessClientClose(u) == CloseAtTable(u) \/ CloseInHall(u)

\* ProcessGetUserTable, for a user at a table; otherwise it only replies.
ProcessGetUserTable(u) ==
  /\ Seated(u)
  /\ \E lv \in AllLevels : FindServer(shm[u].tid, lv)
  /\ SetValue(u, [shm[u] EXCEPT !.age = 0])
  /\ UNCHANGED <<stat, offline, timers>>

\* Mutant: the users are detached, but not put on the offline list.
HallCoreUnwatched(h) ==
  /\ shm' = [u \in Users |-> IF Found(u) /\ shm[u].hall = h
                             THEN [shm[u] EXCEPT !.hall = NoHall] ELSE shm[u]]
  /\ UNCHANGED <<stat, offline, serverList, timers>>

\* SetUserOfflineHallCore: every user of a hall that died is detached; an
\* offline entry that is already there keeps its time.
ProcessHallCore(h) ==
  LET lost == {u \in Table : shm[u].hall = h}
  IN  /\ offline' = [u \in Users |-> IF u \in lost /\ offline[u] = NotOffline
                                     THEN 0 ELSE offline[u]]
      /\ shm' = [u \in Users |-> IF u \in lost
                                 THEN [shm[u] EXCEPT !.hall = NoHall]
                                 ELSE shm[u]]
      /\ UNCHANGED <<stat, serverList, timers>>

-----------------------------------------------------------------------------
(* Packets of the game servers                                             *)

\* ProcessReportUserEnterRoom
ProcessReportUserEnterRoom(u, s) ==
  /\ Found(u)
  /\ terminalStat' = IF Seated(u) THEN terminalStat
                     ELSE UserLoginTable(terminalStat, shm[u].term)
  /\ \E lv \in AllLevels :
       LET old == shm[u].level
           moves == lv # NoLevel /\ lv # old
       IN  /\ FindServer(s, lv)
           /\ moves => LevelPlay(levelMgr, lv) < MaxCount
           /\ levelMgr' = IF moves
                          THEN LevelLogin(LevelLogout(levelMgr, PerLevel({u})), lv)
                          ELSE levelMgr
           /\ SetValue(u, User(shm[u].hall, s, shm[u].term,
                               IF moves THEN lv ELSE old, 0))
  /\ UNCHANGED <<offline, timers>>

\* Mutant: the level of the user who leaves is not logged out of.
LeaveRoomKeepsCount(u) ==
  /\ Found(u)
  /\ terminalStat' = IF Seated(u)
                     THEN UserLogoutTable(terminalStat, PerTerminal({u}))
                     ELSE terminalStat
  /\ SetValue(u, User(shm[u].hall, NoTable, shm[u].term, NoLevel, 0))
  /\ UNCHANGED <<levelMgr, offline, serverList, timers>>

\* ProcessReportUserLeaveRoom
ProcessReportUserLeaveRoom(u) ==
  /\ Found(u)
  /\ terminalStat' = IF Seated(u)
                     THEN UserLogoutTable(terminalStat, PerTerminal({u}))
                     ELSE terminalStat
  /\ levelMgr' = LevelLogout(levelMgr, PerLevel({u}))
  /\ SetValue(u, User(shm[u].hall, NoTable, shm[u].term, NoLevel, 0))
  /\ UNCHANGED <<offline, serverList, timers>>

\* ProcessReportUserStandRoom: the level counted is the user's, not that of
\* the server looked up.
ProcessReportUserStandRoom(u, s) ==
  /\ Found(u)
  /\ terminalStat[shm[u].term].look < MaxLook
  /\ levelMgr[shm[u].level] # NoEntry => levelMgr[shm[u].level].look < MaxLook
  /\ terminalStat' = UserStandTable(terminalStat, shm[u].term)
  /\ \E lv \in AllLevels :
       /\ FindServer(s, lv)
       /\ levelMgr' = IF lv = NoLevel THEN levelMgr
                      ELSE LevelStandIn(levelMgr, shm[u].level)
  /\ UNCHANGED <<shm, offline, timers>>

\* ProcessReportStandLeaveRoom
ProcessReportStandLeaveRoom(u) ==
  /\ Found(u)
  /\ terminalStat' = UserStandLeaveTable(terminalStat, shm[u].term)
  /\ levelMgr' = IF shm[u].level = NoLevel THEN levelMgr
                 ELSE LevelStandOut(levelMgr, shm[u].level)
  /\ UNCHANGED <<shm, offline, serverList, timers>>

\* Mutant: the users stand up with the level they had.
LogicCoreKeepsLevel(s) ==
  LET up == {u \in Table : shm[u].tid = s}
  IN  /\ serverList' = [serverList EXCEPT ![s] = NoLevel]
      /\ terminalStat' = UserLogoutTable(terminalStat, PerTerminal(up))
      /\ levelMgr' = LevelLogout(levelMgr, PerLevel(up))
      /\ shm' = [u \in Users |-> IF u \in up THEN [shm[u] EXCEPT !.tid = NoTable]
                                 ELSE shm[u]]
      /\ UNCHANGED <<offline, timers>>

\* ProcessLogicCore: a game server died.  It is forgotten, and its users stand
\* up from their tables; the times of their records stay.
ProcessLogicCore(s) ==
  LET up == {u \in Table : shm[u].tid = s}
  IN  /\ serverList' = [serverList EXCEPT ![s] = NoLevel]
      /\ terminalStat' = UserLogoutTable(terminalStat, PerTerminal(up))
      /\ levelMgr' = LevelLogout(levelMgr, PerLevel(up))
      /\ shm' = [u \in Users |->
                   IF u \in up
                   THEN User(shm[u].hall, NoTable, shm[u].term, NoLevel, shm[u].age)
                   ELSE shm[u]]
      /\ UNCHANGED <<offline, timers>>

\* ProcessClearServerInfo, an administrator's command.
ProcessClearServerInfo ==
  /\ serverList' = [s \in Servers |-> NoLevel]
  /\ UNCHANGED <<shm, stat, offline, timers>>

-----------------------------------------------------------------------------
(* Time                                                                    *)

\* The event loop runs expired timers before it waits again, so time does not
\* pass while a check is due.
Tick ==
  /\ offTimer > 0 /\ flushTimer > 0
  /\ offTimer' = offTimer - 1
  /\ flushTimer' = flushTimer - 1
  /\ uptime' = IF uptime > LoginWindow THEN uptime ELSE uptime + 1
  /\ offline' = [u \in Users |-> IF offline[u] = NotOffline THEN NotOffline
                                 ELSE offline[u] + 1]
  /\ shm' = [u \in Users |->
               IF Found(u) /\ shm[u].age < PlayLimit
               THEN [shm[u] EXCEPT !.age = @ + 1] ELSE shm[u]]
  /\ UNCHANGED <<stat, serverList, restarts>>

\* Mutant: users who are dropped at a table stay counted as players.
DropUsersOnline(gone) ==
  /\ terminalStat' = UserLogoutHall(terminalStat, PerTerminal(gone))
  /\ levelMgr' = LevelLogout(levelMgr, PerLevel(gone))
  /\ shm' = [u \in Users |-> IF u \in gone THEN NotFound ELSE shm[u]]

\* The users of gone leave everything: counters, and the table.
DropUsers(gone) ==
  /\ terminalStat' =
       UserLogoutTable(UserLogoutHall(terminalStat, PerTerminal(gone)),
                       PerTerminal({u \in gone : Seated(u)}))
  /\ levelMgr' = LevelLogout(levelMgr, PerLevel(gone))
  /\ shm' = [u \in Users |-> IF u \in gone THEN NotFound ELSE shm[u]]

\* Mutant: > instead of >=.
OfflineCheckLate ==
  LET due == {u \in Users : offline[u] > OfflineLimit}
  IN  /\ offTimer = 0
      /\ DropUsers(due \cap Table)
      /\ offline' = [u \in Users |-> IF u \in due THEN NotOffline
                                     ELSE offline[u]]
      /\ offTimer' = OfflinePeriod
      /\ UNCHANGED <<serverList, uptime, flushTimer, restarts>>

ProcessOfflineCheck ==
  LET due == {u \in Users : offline[u] >= OfflineLimit}
  IN  /\ offTimer = 0
      /\ DropUsers(due \cap Table)
      /\ offline' = [u \in Users |-> IF u \in due THEN NotOffline
                                     ELSE offline[u]]
      /\ offTimer' = OfflinePeriod
      /\ UNCHANGED <<serverList, uptime, flushTimer, restarts>>

\* Mutant: users at a table are left to the offline check.
FlushCheckIdle ==
  LET stale == {u \in Table : ~Seated(u) /\ shm[u].age >= IdleLimit}
  IN  /\ flushTimer = 0
      /\ DropUsers(stale)
      /\ offline' = [u \in Users |-> IF u \in stale THEN NotOffline
                                     ELSE offline[u]]
      /\ flushTimer' = FlushPeriod
      /\ UNCHANGED <<serverList, uptime, offTimer, restarts>>

ProcessFlushCheck ==
  LET stale == {u \in Table :
                  shm[u].age >= IF Seated(u) THEN PlayLimit ELSE IdleLimit}
  IN  /\ flushTimer = 0
      /\ DropUsers(stale)
      /\ offline' = [u \in Users |-> IF u \in stale THEN NotOffline
                                     ELSE offline[u]]
      /\ flushTimer' = FlushPeriod
      /\ UNCHANGED <<serverList, uptime, offTimer, restarts>>

-----------------------------------------------------------------------------
(* Restart                                                                 *)

\* Mutant: only the users at a table are counted.
CountSeated(t) ==
  [x \in Terminals |->
     LET n == Cardinality({u \in Users : /\ t[u] # NotFound /\ t[u].term = x
                                         /\ t[u].tid # NoTable})
     IN  [online |-> n, play |-> n, look |-> 0]]

\* ReportStartTJData: the statistics of the users the table t holds.  A user
\* at a table is counted on his level even when that is NoLevel.
CountTerminals(t) ==
  [x \in Terminals |->
     [online |-> Cardinality({u \in Users : t[u] # NotFound /\ t[u].term = x}),
      play |-> Cardinality({u \in Users : /\ t[u] # NotFound /\ t[u].term = x
                                          /\ t[u].tid # NoTable}),
      look |-> 0]]

CountLevels(t) ==
  [l \in AllLevels |->
     LET n == Cardinality({u \in Users : /\ t[u] # NotFound /\ t[u].level = l
                                         /\ t[u].tid # NoTable})
     IN  IF n = 0 THEN NoEntry ELSE [play |-> n, look |-> 0]]

\* The process dies between two callbacks and is started again after down
\* units of time.  Only the table survives, and not even that when ShmHashMap's
\* Init, which passes an uninitialised flag to open for a segment that exists,
\* happens to ask for a fresh one (wiped).
Restart(down, wiped) ==
  /\ restarts < MaxRestarts
  /\ restarts' = restarts + 1
  /\ shm' = [u \in Users |->
               IF wiped \/ ~Found(u) THEN NotFound
               ELSE [shm[u] EXCEPT !.age = IF @ + down > PlayLimit
                                           THEN PlayLimit ELSE @ + down]]
  /\ terminalStat' = CountTerminals(shm')
  /\ levelMgr' = CountLevels(shm')
  /\ offline' = [u \in Users |-> NotOffline]
  /\ serverList' = [s \in Servers |-> NoLevel]
  /\ uptime' = 0
  /\ offTimer' = OfflinePeriod
  /\ flushTimer' = FlushPeriod

-----------------------------------------------------------------------------
HallPacket ==
  \/ \E u \in Users, h \in Halls, t \in Terminals : ProcessUserLogin(u, h, t)
  \/ \E u \in Users : ProcessClientClose(u) \/ ProcessGetUserTable(u)
  \/ \E h \in Halls : ProcessHallCore(h)

ServerPacket ==
  \/ \E u \in Users, s \in Servers : \/ ProcessReportUserEnterRoom(u, s)
                                     \/ ProcessReportUserStandRoom(u, s)
  \/ \E u \in Users : \/ ProcessReportUserLeaveRoom(u)
                      \/ ProcessReportStandLeaveRoom(u)
  \/ \E s \in Servers : ProcessLogicCore(s)
  \/ ProcessClearServerInfo

Timer == Tick \/ ProcessOfflineCheck \/ ProcessFlushCheck

Next ==
  \/ HallPacket
  \/ ServerPacket
  \/ Timer
  \/ \E down \in 0..PlayLimit, wiped \in BOOLEAN : Restart(down, wiped)

Spec == Init /\ [][Next]_vars

\* Time passes and the event loop serves its timers; packets and restarts are
\* up to the environment.
Fairness == WF_vars(Tick) /\ WF_vars(ProcessOfflineCheck) /\ WF_vars(ProcessFlushCheck)

FairSpec == Spec /\ Fairness
-----------------------------------------------------------------------------
(* What the counters have to do with the table                             *)

OnTerminal(t) == {u \in Table : shm[u].term = t}
SeatedOn(t) == {u \in OnTerminal(t) : shm[u].tid # NoTable}
OnLevel(l) == {u \in Table : shm[u].level = l}

\* No terminal ever reports fewer users online than the table holds, however
\* often users change terminals, are dropped by the checks or recounted after
\* a restart; and if the table can hold every user the number is exact.  (A
\* user refused by a full table stays counted: UpdateTerminalInfo comes before
\* SetValue, whose result nobody reads.)
OnlineCounted ==
  \A t \in Terminals :
    /\ terminalStat[t].online >= Cardinality(OnTerminal(t))
    /\ Cardinality(Users) <= Capacity
         => terminalStat[t].online = Cardinality(OnTerminal(t))

\* No terminal ever reports more users playing than sit at a table.
PlayNeverOver ==
  \A t \in Terminals : terminalStat[t].play <= Cardinality(SeatedOn(t))

\* Users at a table who are missing from the play counters.
PlayGap ==
  SumFunction([t \in Terminals |->
                 Cardinality(SeatedOn(t)) - terminalStat[t].play])

\* Users go missing from the play counters only when a new user is put back at
\* the table memcached remembers, and so only within LoginWindow of a start.
PlayGapOnlyAtRecovery ==
  [][PlayGap' > PlayGap =>
       /\ uptime <= LoginWindow
       /\ \E u \in Users : ~Found(u) /\ Seated(u)']_vars

\* By how much the play count of level l is wrong.
LevelError(l) ==
  LET n == Cardinality(OnLevel(l))
      c == LevelPlay(levelMgr, l)
  IN  IF c > n THEN c - n ELSE n - c

\* The count of a level departs from the number of users recorded on it only
\* when a user who is at a table logs in: ProcessUserLogin overwrites the level
\* of the record and tells CStat nothing.  Every other handler and check keeps
\* the two in step or brings them closer.
LevelErrorOnlyAtLogin ==
  [][\A l \in Levels : LevelError(l)' > LevelError(l) =>
       \E u \in Users : /\ Seated(u)' /\ offline'[u] = NotOffline
                        /\ shm'[u].age = 0 /\ shm'[u].hall # NoHall
                        /\ UNCHANGED levelMgr]_vars

\* A level is recorded only for a user at a table, so ProcessFlushCheck's
\* correction for a user with a level and no table has nothing to correct.
LevelOnlyAtTable ==
  \A u \in Table : shm[u].level # NoLevel => shm[u].tid # NoTable

-----------------------------------------------------------------------------
(* Users without a hall                                                    *)

\* The offline list only names users who are in the table without a hall: the
\* offline check never drops a user who came back, or one who left for good.
OfflineDetached == \A u \in Users : offline[u] # NotOffline => Detached(u)

Unwatched(u) == Detached(u) /\ offline[u] = NotOffline

\* Every user who loses his hall is put on the offline list and stays there
\* until he returns or is dropped; only a restart forgets the list.
OnlyRestartUnwatches ==
  [][restarts' = restarts =>
       \A u \in Users : Unwatched(u)' => Unwatched(u)]_vars

\* The check that drops a user comes less than a period after his entry is due:
\* no entry is older than OfflineBound when the next check runs.
OfflineBounded ==
  \A u \in Users : offline[u] # NotOffline => offline[u] + offTimer <= OfflineBound

\* A user without a hall about whom no packet arrives does not stay in the
\* table for ever, restarts included: he comes back, is dropped, or his record
\* is renewed again and again.
DetachedResolved ==
  \A u \in Users : []<>(~Detached(u) \/ shm[u].age = 0)

\* Once nobody is in the table no level has players.  The corrections in
\* ProcessOfflineCheck and ProcessFlushCheck are there for this.
LevelDrained ==
  Table = {} => \A l \in Levels : LevelPlay(levelMgr, l) = 0
=============================================================================
