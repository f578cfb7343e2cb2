-------------------------- MODULE UserServerProofs --------------------------
(***************************************************************************)
(* Proofs about the user server, for every set of users, halls, servers,   *)
(* terminals and levels, every capacity and every choice of limits: types, *)
(* the offline list, and what the counters of CStat have to do with the    *)
(* table of users.                                                         *)
(***************************************************************************)
EXTENDS UserServer, ProofBasics

-----------------------------------------------------------------------------
(* The statistics keep their types                                         *)

LEMMA MonusNat == \A a, b \in Nat : Monus(a, b) \in Nat
BY DEF Monus

(* Every operation of CStat on the terminal map yields a map of counters.    *)

LEMMA LoginHallType ==
  ASSUME NEW st \in [Terminals -> DATAINFO], NEW t \in Terminals
  PROVE  UserLoginHall(st, t) \in [Terminals -> DATAINFO]
BY DEF UserLoginHall, DATAINFO

LEMMA ReloadHallType ==
  ASSUME NEW st \in [Terminals -> DATAINFO], NEW t \in Terminals,
         NEW pre \in Terminals, NEW seated \in BOOLEAN
  PROVE  UserReloadHall(st, pre, seated, t) \in [Terminals -> DATAINFO]
<1>1. CASE pre = t
  BY <1>1 DEF UserReloadHall
<1>2. CASE pre # t
  <2> DEFINE m == IF seated /\ st[pre].play > 0 THEN 1 ELSE 0
  <2>1. m \in Nat /\ st[pre].play - m \in Nat
    BY DEF DATAINFO
  <2> DEFINE f(x) ==
            IF x = pre THEN [online |-> Monus(st[x].online, 1),
                             play |-> st[x].play - m, look |-> st[x].look]
            ELSE IF x = t THEN [online |-> st[x].online + 1,
                                play |-> st[x].play + m, look |-> st[x].look]
            ELSE st[x]
  <2>2. UserReloadHall(st, pre, seated, t) = [x \in Terminals |-> f(x)]
    BY <1>2 DEF UserReloadHall
  <2>3. ASSUME NEW x \in Terminals PROVE f(x) \in DATAINFO
    <3> HIDE DEF m
    <3>1. CASE x = pre
      BY <3>1, <2>1, MonusNat DEF DATAINFO
    <3>2. CASE x # pre /\ x = t
      BY <3>2, <2>1 DEF DATAINFO
    <3>3. CASE x # pre /\ x # t
      BY <3>3
    <3>4. QED BY <3>1, <3>2, <3>3
  <2> HIDE DEF f
  <2>4. QED BY <2>2, <2>3
<1>3. QED BY <1>1, <1>2

LEMMA LogoutHallType ==
  ASSUME NEW st \in [Terminals -> DATAINFO], NEW n \in [Terminals -> Nat]
  PROVE  UserLogoutHall(st, n) \in [Terminals -> DATAINFO]
BY MonusNat DEF UserLogoutHall, DATAINFO

LEMMA LoginTableType ==
  ASSUME NEW st \in [Terminals -> DATAINFO], NEW t \in Terminals
  PROVE  UserLoginTable(st, t) \in [Terminals -> DATAINFO]
BY DEF UserLoginTable, DATAINFO

LEMMA LogoutTableType ==
  ASSUME NEW st \in [Terminals -> DATAINFO], NEW n \in [Terminals -> Nat]
  PROVE  UserLogoutTable(st, n) \in [Terminals -> DATAINFO]
BY MonusNat DEF UserLogoutTable, DATAINFO

LEMMA StandTableType ==
  ASSUME NEW st \in [Terminals -> DATAINFO], NEW t \in Terminals
  PROVE  /\ UserStandTable(st, t) \in [Terminals -> DATAINFO]
         /\ UserStandLeaveTable(st, t) \in [Terminals -> DATAINFO]
BY MonusNat DEF UserStandTable, UserStandLeaveTable, DATAINFO

(* The same for the level map.                                             *)

LEMMA LevelLoginType ==
  ASSUME NEW lm \in [AllLevels -> LEVELINFO \cup {NoEntry}],
         NEW l \in AllLevels
  PROVE  LevelLogin(lm, l) \in [AllLevels -> LEVELINFO \cup {NoEntry}]
BY DEF LevelLogin, LEVELINFO

LEMMA LevelLogoutType ==
  ASSUME NEW lm \in [AllLevels -> LEVELINFO \cup {NoEntry}],
         NEW n \in [AllLevels -> Nat]
  PROVE  LevelLogout(lm, n) \in [AllLevels -> LEVELINFO \cup {NoEntry}]
BY MonusNat DEF LevelLogout, LEVELINFO

LEMMA LevelStandInType ==
  ASSUME NEW lm \in [AllLevels -> LEVELINFO \cup {NoEntry}],
         NEW l \in AllLevels
  PROVE  LevelStandIn(lm, l) \in [AllLevels -> LEVELINFO \cup {NoEntry}]
BY DEF LevelStandIn, LEVELINFO

LEMMA LevelStandOutType ==
  ASSUME NEW lm \in [AllLevels -> LEVELINFO \cup {NoEntry}],
         NEW l \in AllLevels
  PROVE  LevelStandOut(lm, l) \in [AllLevels -> LEVELINFO \cup {NoEntry}]
BY MonusNat DEF LevelStandOut, LEVELINFO

-----------------------------------------------------------------------------
(* Type correctness                                                        *)

LEMMA CountType ==
  ASSUME NEW S \in SUBSET Users
  PROVE  /\ IsFiniteSet(S) /\ Cardinality(S) \in Nat
         /\ PerTerminal(S) \in [Terminals -> Nat]
         /\ PerLevel(S) \in [AllLevels -> Nat]
<1>1. \A T \in SUBSET S : IsFiniteSet(T) /\ Cardinality(T) \in Nat
  BY UserServerAssumption, FS_Subset, FS_CardinalityType
<1>2. PerTerminal(S) \in [Terminals -> Nat]
  BY <1>1 DEF PerTerminal
<1>3. PerLevel(S) \in [AllLevels -> Nat]
  BY <1>1 DEF PerLevel
<1>4. QED BY <1>1, <1>2, <1>3

LEMMA FindServerType ==
  ASSUME serverList \in [Servers -> AllLevels],
         NEW s \in Servers, NEW lv, FindServer(s, lv)
  PROVE  lv \in AllLevels /\ serverList' \in [Servers -> AllLevels]
BY DEF FindServer

LEMMA SetValueType ==
  ASSUME shm \in [Users -> CGameUser \cup {NotFound}],
         NEW u \in Users, NEW r \in CGameUser, SetValue(u, r)
  PROVE  shm' \in [Users -> CGameUser \cup {NotFound}]
BY DEF SetValue

\* Records are built from, and taken apart into, well typed fields.
LEMMA UserType ==
  ASSUME NEW h \in Halls \cup {NoHall}, NEW s \in Servers \cup {NoTable},
         NEW t \in Terminals, NEW l \in AllLevels, NEW a \in 0..PlayLimit
  PROVE  User(h, s, t, l, a) \in CGameUser
BY DEF User, CGameUser

LEMMA FieldType ==
  ASSUME TypeOK, NEW u \in Users, Found(u)
  PROVE  /\ shm[u] \in CGameUser
         /\ shm[u].hall \in Halls \cup {NoHall}
         /\ shm[u].tid \in Servers \cup {NoTable}
         /\ shm[u].term \in Terminals
         /\ shm[u].level \in AllLevels
         /\ shm[u].age \in 0..PlayLimit
BY DEF TypeOK, Found, CGameUser

LEMMA ZeroAge == 0 \in 0..PlayLimit
BY UserServerAssumption

\* StoreLogin keeps the types of what it changes.
LEMMA StoreLoginType ==
  ASSUME TypeOK, NEW u \in Users, NEW r \in CGameUser, StoreLogin(u, r)
  PROVE  /\ shm' \in [Users -> CGameUser \cup {NotFound}]
         /\ offline' \in [Users -> Nat \cup {NotOffline}]
         /\ serverList' \in [Servers -> AllLevels]
<1>1. offline' \in [Users -> Nat \cup {NotOffline}]
  BY DEF TypeOK, StoreLogin
<1>2. CASE r.tid = NoTable /\ SetValue(u, r) /\ UNCHANGED serverList
  BY <1>1, <1>2, SetValueType DEF TypeOK
<1>3. CASE /\ r.tid # NoTable
           /\ \E lv \in AllLevels :
                FindServer(r.tid, lv) /\ SetValue(u, [r EXCEPT !.level = lv])
  <2>1. r.tid \in Servers
    BY <1>3 DEF CGameUser
  <2>2. PICK lv \in AllLevels :
          FindServer(r.tid, lv) /\ SetValue(u, [r EXCEPT !.level = lv])
    BY <1>3
  <2>3. [r EXCEPT !.level = lv] \in CGameUser
    BY DEF CGameUser
  <2>4. shm' \in [Users -> CGameUser \cup {NotFound}]
    BY <2>2, <2>3, SetValueType DEF TypeOK
  <2>5. serverList' \in [Servers -> AllLevels]
    BY <2>1, <2>2, FindServerType DEF TypeOK
  <2>6. QED BY <1>1, <2>4, <2>5
<1>4. QED BY <1>2, <1>3 DEF StoreLogin

LEMMA DropUsersType ==
  ASSUME TypeOK, NEW gone \in SUBSET Users, DropUsers(gone)
  PROVE  /\ shm' \in [Users -> CGameUser \cup {NotFound}]
         /\ terminalStat' \in [Terminals -> DATAINFO]
         /\ levelMgr' \in [AllLevels -> LEVELINFO \cup {NoEntry}]
<1>1. shm' \in [Users -> CGameUser \cup {NotFound}]
  BY DEF TypeOK, DropUsers
<1>2. UserLogoutHall(terminalStat, PerTerminal(gone)) \in [Terminals -> DATAINFO]
  BY LogoutHallType, CountType DEF TypeOK
<1>3. terminalStat' \in [Terminals -> DATAINFO]
  <2>1. {u \in gone : Seated(u)} \in SUBSET Users
    OBVIOUS
  <2>2. QED BY <1>2, <2>1, LogoutTableType, CountType DEF DropUsers
<1>4. levelMgr' \in [AllLevels -> LEVELINFO \cup {NoEntry}]
  BY LevelLogoutType, CountType DEF TypeOK, DropUsers
<1>5. QED BY <1>1, <1>3, <1>4

LEMMA InitTypeOK == Init => TypeOK
BY UserServerAssumption
   DEF Init, TypeOK, NoTerminals, NoLevels, DATAINFO, AllLevels

LEMMA NextTypeOK == TypeOK /\ [Next]_vars => TypeOK'
<1> SUFFICES ASSUME TypeOK, [Next]_vars PROVE TypeOK'
  OBVIOUS
<1> USE DEF timers, stat
<1>1. ASSUME NEW u \in Users, NEW h \in Halls, NEW t \in Terminals, ReLogin(u, h, t)
      PROVE  TypeOK'
  <2> DEFINE r == User(h, shm[u].tid, t, shm[u].level, 0)
  <2>1. Found(u)
    BY <1>1 DEF ReLogin
  <2>2. r \in CGameUser
    BY <2>1, FieldType, UserType, ZeroAge
  <2>3. shm[u].term \in Terminals
    BY <2>1, FieldType
  <2>4. terminalStat' \in [Terminals -> DATAINFO]
    BY <1>1, <2>3, ReloadHallType DEF ReLogin, TypeOK
  <2>5. StoreLogin(u, r)
    BY <1>1 DEF ReLogin
  <2> HIDE DEF r
  <2>6. QED BY <1>1, <2>2, <2>4, <2>5, StoreLoginType DEF ReLogin, TypeOK
<1>2. ASSUME NEW u \in Users, NEW h \in Halls, NEW t \in Terminals,
             NEW tid \in Servers \cup {NoTable}, FirstLogin(u, h, t, tid)
      PROVE  TypeOK'
  <2> DEFINE r == User(h, tid, t, NoLevel, 0)
  <2>1. r \in CGameUser
    BY UserType, ZeroAge DEF AllLevels
  <2>2. terminalStat' \in [Terminals -> DATAINFO]
    BY <1>2, LoginHallType DEF FirstLogin, TypeOK
  <2>3. StoreLogin(u, r)
    BY <1>2 DEF FirstLogin
  <2> HIDE DEF r
  <2>4. QED BY <1>2, <2>1, <2>2, <2>3, StoreLoginType DEF FirstLogin, TypeOK
<1>3. ASSUME NEW u \in Users, CloseAtTable(u)
      PROVE  TypeOK'
  <2>1. User(NoHall, shm[u].tid, shm[u].term, shm[u].level, 0) \in CGameUser
    BY <1>3, FieldType, UserType, ZeroAge DEF CloseAtTable, Seated
  <2>2. shm' \in [Users -> CGameUser \cup {NotFound}]
    BY <1>3, <2>1, SetValueType DEF CloseAtTable, TypeOK
  <2>3. QED BY <1>3, <2>2 DEF CloseAtTable, TypeOK
<1>4. ASSUME NEW u \in Users, CloseInHall(u)
      PROVE  TypeOK'
  <2>1. terminalStat' \in [Terminals -> DATAINFO]
    BY <1>4, LogoutHallType, CountType DEF CloseInHall, TypeOK
  <2>2. QED BY <1>4, <2>1 DEF CloseInHall, TypeOK
<1>5. ASSUME NEW u \in Users, ProcessGetUserTable(u)
      PROVE  TypeOK'
  <2>1. shm[u] \in CGameUser /\ shm[u].tid \in Servers
    BY <1>5 DEF ProcessGetUserTable, Seated, Found, TypeOK, CGameUser
  <2>2. [shm[u] EXCEPT !.age = 0] \in CGameUser
    BY <2>1, UserServerAssumption DEF CGameUser
  <2>3. shm' \in [Users -> CGameUser \cup {NotFound}]
    BY <1>5, <2>2, SetValueType DEF ProcessGetUserTable, TypeOK
  <2>4. serverList' \in [Servers -> AllLevels]
    BY <1>5, <2>1, FindServerType DEF ProcessGetUserTable, TypeOK
  <2>5. QED BY <1>5, <2>3, <2>4 DEF ProcessGetUserTable, TypeOK
<1>6. ASSUME NEW h \in Halls, ProcessHallCore(h)
      PROVE  TypeOK'
  <2>1. \A u \in Table : [shm[u] EXCEPT !.hall = NoHall] \in CGameUser
    BY DEF Table, Found, TypeOK, CGameUser
  <2>2. shm' \in [Users -> CGameUser \cup {NotFound}]
    BY <1>6, <2>1 DEF ProcessHallCore, TypeOK
  <2>3. offline' \in [Users -> Nat \cup {NotOffline}]
    BY <1>6 DEF ProcessHallCore, TypeOK
  <2>4. QED BY <1>6, <2>2, <2>3 DEF ProcessHallCore, TypeOK
<1>7. ASSUME NEW u \in Users, NEW s \in Servers, ProcessReportUserEnterRoom(u, s)
      PROVE  TypeOK'
  <2>1. /\ shm[u].hall \in Halls \cup {NoHall}
        /\ shm[u].term \in Terminals /\ shm[u].level \in AllLevels
    BY <1>7, FieldType DEF ProcessReportUserEnterRoom
  <2>2. terminalStat' \in [Terminals -> DATAINFO]
    BY <1>7, <2>1, LoginTableType DEF ProcessReportUserEnterRoom, TypeOK
  <2>3. PICK lv \in AllLevels :
          LET old == shm[u].level
              moves == lv # NoLevel /\ lv # old
          IN  /\ FindServer(s, lv)
              /\ levelMgr' = IF moves
                             THEN LevelLogin(LevelLogout(levelMgr, PerLevel({u})), lv)
                             ELSE levelMgr
              /\ SetValue(u, User(shm[u].hall, s, shm[u].term,
                                  IF moves THEN lv ELSE old, 0))
    BY <1>7 DEF ProcessReportUserEnterRoom
  <2> DEFINE nl == IF lv # NoLevel /\ lv # shm[u].level THEN lv ELSE shm[u].level
  <2>4. User(shm[u].hall, s, shm[u].term, nl, 0) \in CGameUser
    <3>1. nl \in AllLevels
      BY <2>1
    <3> HIDE DEF nl
    <3>2. QED BY <3>1, <2>1, UserType, ZeroAge
  <2>5. shm' \in [Users -> CGameUser \cup {NotFound}]
    BY <2>3, <2>4, SetValueType DEF TypeOK
  <2>6. levelMgr' \in [AllLevels -> LEVELINFO \cup {NoEntry}]
    <3>1. LevelLogout(levelMgr, PerLevel({u}))
            \in [AllLevels -> LEVELINFO \cup {NoEntry}]
      BY LevelLogoutType, CountType DEF TypeOK
    <3>2. LevelLogin(LevelLogout(levelMgr, PerLevel({u})), lv)
            \in [AllLevels -> LEVELINFO \cup {NoEntry}]
      BY <3>1, LevelLoginType
    <3>3. QED BY <2>3, <3>2 DEF TypeOK
  <2>7. serverList' \in [Servers -> AllLevels]
    BY <2>3, FindServerType DEF TypeOK
  <2>8. QED BY <1>7, <2>2, <2>5, <2>6, <2>7 DEF ProcessReportUserEnterRoom, TypeOK
<1>8. ASSUME NEW u \in Users, NEW s \in Servers, ProcessReportUserStandRoom(u, s)
      PROVE  TypeOK'
  <2>1. shm[u].term \in Terminals /\ shm[u].level \in AllLevels
    BY <1>8 DEF ProcessReportUserStandRoom, Found, TypeOK, CGameUser
  <2>2. terminalStat' \in [Terminals -> DATAINFO]
    BY <1>8, <2>1, StandTableType DEF ProcessReportUserStandRoom, TypeOK
  <2>3. PICK lv \in AllLevels :
          /\ FindServer(s, lv)
          /\ levelMgr' = IF lv = NoLevel THEN levelMgr
                         ELSE LevelStandIn(levelMgr, shm[u].level)
    BY <1>8 DEF ProcessReportUserStandRoom
  <2>4. levelMgr' \in [AllLevels -> LEVELINFO \cup {NoEntry}]
    BY <2>1, <2>3, LevelStandInType DEF TypeOK
  <2>5. serverList' \in [Servers -> AllLevels]
    BY <2>3, FindServerType DEF TypeOK
  <2>6. QED BY <1>8, <2>2, <2>4, <2>5 DEF ProcessReportUserStandRoom, TypeOK
<1>9. ASSUME NEW u \in Users, ProcessReportUserLeaveRoom(u)
      PROVE  TypeOK'
  <2>1. shm[u].hall \in Halls \cup {NoHall} /\ shm[u].term \in Terminals
    BY <1>9, FieldType DEF ProcessReportUserLeaveRoom
  <2>2. User(shm[u].hall, NoTable, shm[u].term, NoLevel, 0) \in CGameUser
    BY <2>1, UserType, ZeroAge DEF AllLevels
  <2>3. shm' \in [Users -> CGameUser \cup {NotFound}]
    BY <1>9, <2>2, SetValueType DEF ProcessReportUserLeaveRoom, TypeOK
  <2>4. terminalStat' \in [Terminals -> DATAINFO]
    BY <1>9, LogoutTableType, CountType DEF ProcessReportUserLeaveRoom, TypeOK
  <2>5. levelMgr' \in [AllLevels -> LEVELINFO \cup {NoEntry}]
    BY <1>9, LevelLogoutType, CountType DEF ProcessReportUserLeaveRoom, TypeOK
  <2>6. QED BY <1>9, <2>3, <2>4, <2>5 DEF ProcessReportUserLeaveRoom, TypeOK
<1>10. ASSUME NEW u \in Users, ProcessReportStandLeaveRoom(u)
       PROVE  TypeOK'
  <2>1. shm[u].term \in Terminals /\ shm[u].level \in AllLevels
    BY <1>10 DEF ProcessReportStandLeaveRoom, Found, TypeOK, CGameUser
  <2>2. terminalStat' \in [Terminals -> DATAINFO]
    BY <1>10, <2>1, StandTableType DEF ProcessReportStandLeaveRoom, TypeOK
  <2>3. levelMgr' \in [AllLevels -> LEVELINFO \cup {NoEntry}]
    BY <1>10, <2>1, LevelStandOutType DEF ProcessReportStandLeaveRoom, TypeOK
  <2>4. QED BY <1>10, <2>2, <2>3 DEF ProcessReportStandLeaveRoom, TypeOK
<1>11. ASSUME NEW s \in Servers, ProcessLogicCore(s)
       PROVE  TypeOK'
  <2> DEFINE up == {u \in Table : shm[u].tid = s}
  <2>1. up \in SUBSET Users
    BY DEF Table
  <2>2. \A u \in up :
          User(shm[u].hall, NoTable, shm[u].term, NoLevel, shm[u].age) \in CGameUser
    BY FieldType, UserType DEF Table, AllLevels
  <2>3. shm' \in [Users -> CGameUser \cup {NotFound}]
    BY <1>11, <2>2 DEF ProcessLogicCore, TypeOK
  <2>4. terminalStat' \in [Terminals -> DATAINFO]
    BY <1>11, <2>1, LogoutTableType, CountType DEF ProcessLogicCore, TypeOK
  <2>5. levelMgr' \in [AllLevels -> LEVELINFO \cup {NoEntry}]
    BY <1>11, <2>1, LevelLogoutType, CountType DEF ProcessLogicCore, TypeOK
  <2>6. QED BY <1>11, <2>3, <2>4, <2>5 DEF ProcessLogicCore, TypeOK, AllLevels
<1>12. CASE ProcessClearServerInfo
  BY <1>12 DEF ProcessClearServerInfo, TypeOK, AllLevels
<1>13. CASE Tick
  <2>1. \A u \in Users : Found(u) /\ shm[u].age < PlayLimit
          => [shm[u] EXCEPT !.age = @ + 1] \in CGameUser
    BY UserServerAssumption DEF Found, TypeOK, CGameUser
  <2>2. shm' \in [Users -> CGameUser \cup {NotFound}]
    BY <1>13, <2>1 DEF Tick, TypeOK
  <2>3. offline' \in [Users -> Nat \cup {NotOffline}]
    BY <1>13 DEF Tick, TypeOK, NotOffline
  <2>4. QED BY <1>13, <2>2, <2>3, UserServerAssumption DEF Tick, TypeOK
<1>14. CASE ProcessOfflineCheck
  <2> DEFINE due == {u \in Users : offline[u] >= OfflineLimit}
  <2>1. due \cap Table \in SUBSET Users /\ DropUsers(due \cap Table)
    BY <1>14 DEF ProcessOfflineCheck
  <2>2. QED BY <1>14, <2>1, DropUsersType, UserServerAssumption
            DEF ProcessOfflineCheck, TypeOK
<1>15. CASE ProcessFlushCheck
  <2> DEFINE stale == {u \in Table :
                  shm[u].age >= IF Seated(u) THEN PlayLimit ELSE IdleLimit}
  <2>1. stale \in SUBSET Users /\ DropUsers(stale)
    BY <1>15 DEF ProcessFlushCheck, Table
  <2>2. QED BY <1>15, <2>1, DropUsersType, UserServerAssumption
            DEF ProcessFlushCheck, TypeOK
<1>16. ASSUME NEW down \in 0..PlayLimit, NEW wiped \in BOOLEAN, Restart(down, wiped)
       PROVE  TypeOK'
  <2>1. \A u \in Users : Found(u) =>
          [shm[u] EXCEPT !.age = IF @ + down > PlayLimit THEN PlayLimit
                                 ELSE @ + down] \in CGameUser
    BY UserServerAssumption DEF Found, TypeOK, CGameUser
  <2>2. shm' \in [Users -> CGameUser \cup {NotFound}]
    BY <1>16, <2>1 DEF Restart, TypeOK
  <2>3. \A T \in SUBSET Users : Cardinality(T) \in Nat
    BY CountType
  <2>4. terminalStat' \in [Terminals -> DATAINFO]
    BY <1>16, <2>3 DEF Restart, CountTerminals, DATAINFO
  <2>5. levelMgr' \in [AllLevels -> LEVELINFO \cup {NoEntry}]
    BY <1>16, <2>3 DEF Restart, CountLevels, LEVELINFO
  <2>6. QED BY <1>16, <2>2, <2>4, <2>5, UserServerAssumption
            DEF Restart, TypeOK, AllLevels
<1>17. CASE UNCHANGED vars
  BY <1>17 DEF vars, TypeOK
<1>18. QED
  BY <1>1, <1>2, <1>3, <1>4, <1>5, <1>6, <1>7, <1>8, <1>9, <1>10, <1>11,
     <1>12, <1>13, <1>14, <1>15, <1>16, <1>17
     DEF Next, HallPacket, ServerPacket, Timer, ProcessUserLogin, ProcessClientClose

\* Every reachable state of the user server is well typed.
THEOREM TypeCorrect == Spec => []TypeOK
BY InitTypeOK, NextTypeOK, PTL DEF Spec

-----------------------------------------------------------------------------
(* Users without a hall, and levels without a table                        *)

\* The three invariants do not need each other, but all need the types.
OfflineInv == TypeOK /\ OfflineDetached /\ OfflineBounded /\ LevelOnlyAtTable

LEMMA InitOfflineInv == Init => OfflineInv
BY InitTypeOK DEF Init, OfflineInv, OfflineDetached, OfflineBounded,
   LevelOnlyAtTable, Table, Found

\* What storing a record does to the user and to the others.
LEMMA SetFoundValue ==
  ASSUME TypeOK, NEW u \in Users, Found(u), NEW r, SetValue(u, r)
  PROVE  shm' = [shm EXCEPT ![u] = r]
BY DEF SetValue

\* What a login does to the table: the record stored is r but for its level,
\* which stays that of r when r is at no table; nobody else is touched.
LEMMA StoreLoginUser ==
  ASSUME TypeOK, NEW u \in Users, NEW r \in CGameUser, StoreLogin(u, r)
  PROVE  /\ offline' = [offline EXCEPT ![u] = NotOffline]
         /\ \A v \in Users \ {u} : shm'[v] = shm[v]
         /\ ~(Found(u) \/ Cardinality(Table) < Capacity) => shm' = shm
         /\ Found(u) \/ Cardinality(Table) < Capacity =>
              /\ shm'[u] \in CGameUser
              /\ shm'[u].tid = r.tid /\ shm'[u].term = r.term
              /\ shm'[u].hall = r.hall /\ shm'[u].age = r.age
              /\ r.tid = NoTable => shm'[u].level = r.level
<1>1. offline' = [offline EXCEPT ![u] = NotOffline]
  BY DEF StoreLogin
<1>2. PICK lv \in AllLevels :
        SetValue(u, IF r.tid = NoTable THEN r ELSE [r EXCEPT !.level = lv])
  BY DEF StoreLogin, AllLevels
<1> DEFINE q == IF r.tid = NoTable THEN r ELSE [r EXCEPT !.level = lv]
<1>3. /\ q \in CGameUser /\ q.tid = r.tid /\ q.term = r.term
      /\ q.hall = r.hall /\ q.age = r.age
      /\ r.tid = NoTable => q.level = r.level
  BY DEF CGameUser
<1> HIDE DEF q
<1>4. SetValue(u, q)
  BY <1>2 DEF q
<1>5. QED BY <1>1, <1>3, <1>4 DEF SetValue, TypeOK

LEMMA UserFields ==
  ASSUME NEW h, NEW s, NEW t, NEW l, NEW a
  PROVE  /\ User(h, s, t, l, a).hall = h /\ User(h, s, t, l, a).tid = s
         /\ User(h, s, t, l, a).term = t /\ User(h, s, t, l, a).level = l
         /\ User(h, s, t, l, a).age = a
BY DEF User

LEMMA NextOfflineInv == OfflineInv /\ [Next]_vars => OfflineInv'
<1> SUFFICES ASSUME OfflineInv, [Next]_vars PROVE OfflineInv'
  OBVIOUS
<1>a. TypeOK /\ TypeOK' /\ OfflineDetached /\ OfflineBounded /\ LevelOnlyAtTable
  BY NextTypeOK DEF OfflineInv
<1> SUFFICES OfflineDetached' /\ OfflineBounded' /\ LevelOnlyAtTable'
  BY <1>a DEF OfflineInv
<1> USE UserServerAssumption, NotFoundAssumption DEF timers, stat
<1>1. ASSUME NEW u \in Users, NEW h \in Halls, NEW t \in Terminals, ReLogin(u, h, t)
      PROVE  OfflineDetached' /\ OfflineBounded' /\ LevelOnlyAtTable'
  <2> DEFINE r == User(h, shm[u].tid, t, shm[u].level, 0)
  <2>1. Found(u) /\ StoreLogin(u, r) /\ offTimer' = offTimer
    BY <1>1 DEF ReLogin
  <2>2. r \in CGameUser /\ r.tid = shm[u].tid /\ r.level = shm[u].level
    BY <1>a, <2>1, FieldType, UserType, UserFields, ZeroAge
  <2> HIDE DEF r
  <2>3. /\ offline' = [offline EXCEPT ![u] = NotOffline]
        /\ \A v \in Users \ {u} : shm'[v] = shm[v]
        /\ shm'[u].tid = r.tid /\ (r.tid = NoTable => shm'[u].level = r.level)
    BY <1>a, <2>1, <2>2, StoreLoginUser
  <2>4. OfflineDetached' /\ OfflineBounded'
    BY <1>a, <2>1, <2>3
       DEF TypeOK, OfflineDetached, OfflineBounded, Detached, Found
  <2>5. LevelOnlyAtTable'
    BY <1>a, <2>1, <2>2, <2>3 DEF LevelOnlyAtTable, Table, Found
  <2>6. QED BY <2>4, <2>5
<1>2. ASSUME NEW u \in Users, NEW h \in Halls, NEW t \in Terminals,
             NEW tid \in Servers \cup {NoTable}, FirstLogin(u, h, t, tid)
      PROVE  OfflineDetached' /\ OfflineBounded' /\ LevelOnlyAtTable'
  <2> DEFINE r == User(h, tid, t, NoLevel, 0)
  <2>1. ~Found(u) /\ StoreLogin(u, r) /\ offTimer' = offTimer
    BY <1>2 DEF FirstLogin
  <2>a. r \in CGameUser
    BY UserType, ZeroAge DEF AllLevels
  <2>2. r \in CGameUser /\ r.tid = tid /\ r.level = NoLevel
    BY <2>a, UserFields
  <2> HIDE DEF r
  <2>3. /\ offline' = [offline EXCEPT ![u] = NotOffline]
        /\ \A v \in Users \ {u} : shm'[v] = shm[v]
        /\ \/ shm'[u] = NotFound
           \/ shm'[u].tid = r.tid /\ (r.tid = NoTable => shm'[u].level = r.level)
    BY <1>a, <2>1, <2>2, StoreLoginUser DEF Found
  <2>4. OfflineDetached' /\ OfflineBounded'
    BY <1>a, <2>1, <2>3
       DEF TypeOK, OfflineDetached, OfflineBounded, Detached, Found
  <2>5. LevelOnlyAtTable'
    BY <1>a, <2>1, <2>2, <2>3 DEF LevelOnlyAtTable, Table, Found
  <2>6. QED BY <2>4, <2>5
<1>3. ASSUME NEW u \in Users, CloseAtTable(u)
      PROVE  OfflineDetached' /\ OfflineBounded' /\ LevelOnlyAtTable'
  <2> DEFINE r == User(NoHall, shm[u].tid, shm[u].term, shm[u].level, 0)
  <2>1. /\ Found(u) /\ offline' = [offline EXCEPT ![u] = 0] /\ offTimer' = offTimer
        /\ shm' = [shm EXCEPT ![u] = r]
    BY <1>3, <1>a, SetFoundValue DEF CloseAtTable, Seated
  <2>2. r # NotFound /\ r.hall = NoHall /\ r.tid = shm[u].tid /\ r.level = shm[u].level
    BY <1>a, <2>1, FieldType, UserType, UserFields, ZeroAge
  <2> HIDE DEF r
  <2>3. OfflineDetached'
    BY <1>a, <2>1, <2>2 DEF TypeOK, OfflineDetached, Detached, Found
  <2>4. OfflineBounded'
    BY <1>a, <2>1 DEF TypeOK, OfflineBounded, OfflineBound
  <2>5. LevelOnlyAtTable'
    BY <1>a, <2>1, <2>2 DEF TypeOK, LevelOnlyAtTable, Table, Found
  <2>6. QED BY <2>3, <2>4, <2>5
<1>4. ASSUME NEW u \in Users, CloseInHall(u)
      PROVE  OfflineDetached' /\ OfflineBounded' /\ LevelOnlyAtTable'
  BY <1>4, <1>a DEF CloseInHall, TypeOK, OfflineDetached, OfflineBounded, Detached,
                    LevelOnlyAtTable, Table, Found
<1>5. ASSUME NEW u \in Users, ProcessGetUserTable(u)
      PROVE  OfflineDetached' /\ OfflineBounded' /\ LevelOnlyAtTable'
  <2> DEFINE r == [shm[u] EXCEPT !.age = 0]
  <2>1. /\ Found(u) /\ offline' = offline /\ offTimer' = offTimer
        /\ shm' = [shm EXCEPT ![u] = r]
    BY <1>5, <1>a, SetFoundValue DEF ProcessGetUserTable, Seated
  <2>2. /\ r # NotFound /\ r.hall = shm[u].hall /\ r.tid = shm[u].tid
        /\ r.level = shm[u].level
    BY <1>a, <2>1, FieldType DEF CGameUser
  <2> HIDE DEF r
  <2>3. QED BY <1>a, <2>1, <2>2
            DEF TypeOK, OfflineDetached, OfflineBounded, Detached,
                LevelOnlyAtTable, Table, Found
<1>6. ASSUME NEW h \in Halls, ProcessHallCore(h)
      PROVE  OfflineDetached' /\ OfflineBounded' /\ LevelOnlyAtTable'
  <2>1. \A v \in Users :
          LET r == [shm[v] EXCEPT !.hall = NoHall]
          IN  Found(v) => /\ r # NotFound /\ r.hall = NoHall /\ r.tid = shm[v].tid
                          /\ r.level = shm[v].level
    BY <1>a, FieldType DEF CGameUser
  <2>2. \A v \in Users :
          /\ shm[v] = NotFound => shm'[v] = NotFound
          /\ shm[v] # NotFound =>
               /\ shm'[v] # NotFound /\ shm'[v].tid = shm[v].tid
               /\ shm'[v].level = shm[v].level
               /\ shm[v].hall = NoHall => shm'[v].hall = NoHall
          /\ offline'[v] # offline[v] =>
               shm[v] # NotFound /\ shm'[v].hall = NoHall /\ offline'[v] = 0
    BY <1>6, <2>1 DEF ProcessHallCore, Table, Found
  <2>3. OfflineDetached' /\ LevelOnlyAtTable'
    BY <1>a, <2>2 DEF OfflineDetached, Detached, LevelOnlyAtTable, Table, Found
  <2>4. OfflineBounded'
    <3>1. offTimer' = offTimer /\ offTimer \in 0..OfflinePeriod
      BY <1>6, <1>a DEF TypeOK, ProcessHallCore
    <3>2. \A v \in Users : offline'[v] = offline[v] \/ offline'[v] = 0
      BY <2>2
    <3>3. QED BY <1>a, <3>1, <3>2 DEF OfflineBounded, OfflineBound
  <2>5. QED BY <2>3, <2>4
<1>7. ASSUME NEW u \in Users, NEW s \in Servers, ProcessReportUserEnterRoom(u, s)
      PROVE  OfflineDetached' /\ OfflineBounded' /\ LevelOnlyAtTable'
  <2>1. Found(u) /\ offline' = offline /\ offTimer' = offTimer
    BY <1>7 DEF ProcessReportUserEnterRoom
  <2>2. PICK l \in AllLevels : SetValue(u, User(shm[u].hall, s, shm[u].term, l, 0))
    BY <1>7, <1>a, <2>1, FieldType DEF ProcessReportUserEnterRoom
  <2> DEFINE r == User(shm[u].hall, s, shm[u].term, l, 0)
  <2>3. shm' = [shm EXCEPT ![u] = r]
    BY <1>a, <2>1, <2>2, SetFoundValue
  <2>4. r.hall = shm[u].hall /\ r.tid = s
    BY UserFields
  <2>5. r \in CGameUser
    BY <1>a, <2>1, FieldType, UserType, ZeroAge
  <2> HIDE DEF r
  <2>6. s # NoTable /\ r # NotFound
    BY <2>5
  <2>7. QED BY <1>a, <2>1, <2>3, <2>4, <2>5, <2>6
            DEF TypeOK, OfflineDetached, OfflineBounded, Detached,
                LevelOnlyAtTable, Table, Found
<1>8. ASSUME NEW u \in Users, NEW s \in Servers, ProcessReportUserStandRoom(u, s)
      PROVE  OfflineDetached' /\ OfflineBounded' /\ LevelOnlyAtTable'
  BY <1>8, <1>a DEF ProcessReportUserStandRoom, OfflineDetached, OfflineBounded,
                    Detached, LevelOnlyAtTable, Table, Found
<1>9. ASSUME NEW u \in Users, ProcessReportUserLeaveRoom(u)
      PROVE  OfflineDetached' /\ OfflineBounded' /\ LevelOnlyAtTable'
  <2> DEFINE r == User(shm[u].hall, NoTable, shm[u].term, NoLevel, 0)
  <2>1. /\ Found(u) /\ offline' = offline /\ offTimer' = offTimer
        /\ shm' = [shm EXCEPT ![u] = r]
    BY <1>9, <1>a, SetFoundValue DEF ProcessReportUserLeaveRoom
  <2>2. r.hall = shm[u].hall /\ r.level = NoLevel
    BY UserFields
  <2>a. shm[u].hall \in Halls \cup {NoHall} /\ shm[u].term \in Terminals
    BY <1>a, <2>1, FieldType
  <2>b. r \in CGameUser
    BY <2>a, UserType, ZeroAge DEF AllLevels
  <2> HIDE DEF r
  <2>3. QED BY <1>a, <2>1, <2>2, <2>b
            DEF TypeOK, OfflineDetached, OfflineBounded, Detached,
                LevelOnlyAtTable, Table, Found
<1>10. ASSUME NEW u \in Users, ProcessReportStandLeaveRoom(u)
       PROVE  OfflineDetached' /\ OfflineBounded' /\ LevelOnlyAtTable'
  BY <1>10, <1>a DEF ProcessReportStandLeaveRoom, OfflineDetached, OfflineBounded,
                     Detached, LevelOnlyAtTable, Table, Found
<1>11. ASSUME NEW s \in Servers, ProcessLogicCore(s)
       PROVE  OfflineDetached' /\ OfflineBounded' /\ LevelOnlyAtTable'
  <2>1. \A v \in Users :
          LET r == User(shm[v].hall, NoTable, shm[v].term, NoLevel, shm[v].age)
          IN  Found(v) => r # NotFound /\ r.hall = shm[v].hall /\ r.level = NoLevel
    <3> SUFFICES ASSUME NEW v \in Users, Found(v)
                 PROVE  LET r == User(shm[v].hall, NoTable, shm[v].term, NoLevel,
                                      shm[v].age)
                        IN  r # NotFound /\ r.hall = shm[v].hall /\ r.level = NoLevel
      OBVIOUS
    <3>1. /\ shm[v].hall \in Halls \cup {NoHall} /\ shm[v].term \in Terminals
          /\ shm[v].age \in 0..PlayLimit
      BY <1>a, FieldType
    <3>2. User(shm[v].hall, NoTable, shm[v].term, NoLevel, shm[v].age) \in CGameUser
      BY <3>1, UserType DEF AllLevels
    <3>3. QED BY <3>2, UserFields
  <2>2. \A v \in Users :
          \/ shm'[v] = shm[v]
          \/ /\ shm[v] # NotFound /\ shm'[v] # NotFound
             /\ shm'[v].hall = shm[v].hall /\ shm'[v].level = NoLevel
    BY <1>11, <2>1 DEF ProcessLogicCore, Table, Found
  <2>3. offline' = offline /\ offTimer' = offTimer
    BY <1>11 DEF ProcessLogicCore
  <2>4. QED BY <1>a, <2>2, <2>3 DEF OfflineDetached, OfflineBounded, Detached,
                                    LevelOnlyAtTable, Table, Found
<1>12. CASE ProcessClearServerInfo
  BY <1>12, <1>a DEF ProcessClearServerInfo, OfflineDetached, OfflineBounded,
                     Detached, LevelOnlyAtTable, Table, Found
<1>13. CASE Tick
  <2>1. \A v \in Users :
          LET r == [shm[v] EXCEPT !.age = @ + 1]
          IN  Found(v) => /\ r.hall = shm[v].hall
                          /\ r.tid = shm[v].tid /\ r.level = shm[v].level
    BY <1>a, FieldType DEF CGameUser
  <2>2. \A v \in Users :
          /\ Found(v)' <=> Found(v)
          /\ Found(v) => /\ shm'[v].hall = shm[v].hall
                         /\ shm'[v].tid = shm[v].tid /\ shm'[v].level = shm[v].level
    <3> SUFFICES ASSUME NEW v \in Users
                 PROVE  /\ Found(v)' <=> Found(v)
                        /\ Found(v) => /\ shm'[v].hall = shm[v].hall
                                       /\ shm'[v].tid = shm[v].tid
                                       /\ shm'[v].level = shm[v].level
      OBVIOUS
    <3>1. CASE ~Found(v) \/ shm'[v] = shm[v]
      BY <3>1, <1>13 DEF Tick, Found
    <3>2. CASE Found(v) /\ shm'[v] = [shm[v] EXCEPT !.age = @ + 1]
      <4>1. shm[v] \in CGameUser /\ shm[v].age \in 0..PlayLimit
        BY <1>a, <3>2, FieldType
      <4>4. CASE shm[v].age < PlayLimit
        <5>1. [shm[v] EXCEPT !.age = @ + 1] \in CGameUser
          BY <4>1, <4>4 DEF CGameUser
        <5>2. QED BY <3>2, <2>1, <5>1 DEF Found
      <4>5. CASE ~(shm[v].age < PlayLimit)
        BY <1>13, <3>2, <4>5 DEF Tick, Found
      <4>6. QED BY <4>4, <4>5
    <3>3. QED BY <3>1, <3>2, <1>13 DEF Tick
  <2>3. OfflineDetached' /\ LevelOnlyAtTable'
    BY <1>13, <1>a, <2>2 DEF Tick, TypeOK, OfflineDetached, Detached,
                             LevelOnlyAtTable, Table
  <2>4. OfflineBounded'
    BY <1>13, <1>a DEF Tick, TypeOK, OfflineBounded, OfflineBound, NotOffline
  <2>5. QED BY <2>3, <2>4
<1>14. CASE ProcessOfflineCheck
  <2>1. \A v \in Users :
          /\ offline'[v] # NotOffline => /\ offline'[v] = offline[v] /\ shm'[v] = shm[v]
                                         /\ ~(offline[v] >= OfflineLimit)
          /\ shm'[v] \in {shm[v], NotFound}
    BY <1>14 DEF ProcessOfflineCheck, DropUsers
  <2>2. OfflineDetached' /\ LevelOnlyAtTable'
    BY <1>a, <2>1 DEF OfflineDetached, Detached, LevelOnlyAtTable, Table, Found
  <2>3. OfflineBounded'
    BY <1>14, <1>a, <2>1 DEF ProcessOfflineCheck, TypeOK, OfflineBounded, OfflineBound
  <2>4. QED BY <2>2, <2>3
<1>15. CASE ProcessFlushCheck
  <2>1. \A v \in Users :
          /\ offline'[v] # NotOffline => offline'[v] = offline[v] /\ shm'[v] = shm[v]
          /\ shm'[v] \in {shm[v], NotFound}
    BY <1>15 DEF ProcessFlushCheck, DropUsers
  <2>2. offTimer' = offTimer
    BY <1>15 DEF ProcessFlushCheck
  <2>3. QED BY <1>a, <2>1, <2>2 DEF OfflineDetached, OfflineBounded, Detached,
                                    LevelOnlyAtTable, Table, Found
<1>16. ASSUME NEW down \in 0..PlayLimit, NEW wiped \in BOOLEAN, Restart(down, wiped)
       PROVE  OfflineDetached' /\ OfflineBounded' /\ LevelOnlyAtTable'
  <2>1. \A v \in Users :
          \/ shm'[v] = NotFound
          \/ Found(v) /\ shm'[v].tid = shm[v].tid /\ shm'[v].level = shm[v].level
    BY <1>16, <1>a, FieldType DEF Restart, CGameUser
  <2>2. LevelOnlyAtTable'
    BY <1>a, <2>1 DEF LevelOnlyAtTable, Table, Found
  <2>3. OfflineDetached' /\ OfflineBounded'
    BY <1>16 DEF Restart, OfflineDetached, OfflineBounded
  <2>4. QED BY <2>2, <2>3
<1>17. CASE UNCHANGED vars
  BY <1>17, <1>a DEF vars, OfflineDetached, OfflineBounded, Detached,
                     LevelOnlyAtTable, Table, Found
<1>18. QED
  BY <1>1, <1>2, <1>3, <1>4, <1>5, <1>6, <1>7, <1>8, <1>9, <1>10, <1>11,
     <1>12, <1>13, <1>14, <1>15, <1>16, <1>17
     DEF Next, HallPacket, ServerPacket, Timer, ProcessUserLogin, ProcessClientClose

LEMMA OfflineInvariant == Spec => []OfflineInv
BY InitOfflineInv, NextOfflineInv, PTL DEF Spec

\* The offline list only names users who are in the table without a hall, so
\* ProcessOfflineCheck never drops a user who has come back.
THEOREM OfflineAreDetached == Spec => []OfflineDetached
BY OfflineInvariant, PTL DEF OfflineInv

\* No entry of the offline list outlives its limit by a whole period of the
\* offline check.
THEOREM OfflineAgeBounded == Spec => []OfflineBounded
BY OfflineInvariant, PTL DEF OfflineInv

\* A user at no table has no level, so the level correction of
\* ProcessFlushCheck for such a user is never needed.
THEOREM LevelNeedsTable == Spec => []LevelOnlyAtTable
BY OfflineInvariant, PTL DEF OfflineInv

-----------------------------------------------------------------------------
(* Counting the users on a terminal                                        *)

LEMMA SetsFinite ==
  ASSUME NEW t
  PROVE  /\ OnTerminal(t) \in SUBSET Users /\ IsFiniteSet(OnTerminal(t))
         /\ SeatedOn(t) \in SUBSET Users /\ IsFiniteSet(SeatedOn(t))
         /\ OnLevel(t) \in SUBSET Users /\ IsFiniteSet(OnLevel(t))
         /\ Cardinality(OnTerminal(t)) \in Nat
         /\ Cardinality(SeatedOn(t)) \in Nat
         /\ Cardinality(OnLevel(t)) \in Nat
<1>1. /\ OnTerminal(t) \in SUBSET Users /\ SeatedOn(t) \in SUBSET Users
      /\ OnLevel(t) \in SUBSET Users
  BY DEF OnTerminal, SeatedOn, OnLevel, Table
<1>2. QED BY <1>1, CountType

LEMMA OneElement ==
  ASSUME NEW S, NEW T, NEW x, IsFiniteSet(S), T = S \cup {x} \/ T = S \ {x}
  PROVE  Cardinality(T) = Cardinality(S) + Change(x \in S, x \in T)
<1>1. Cardinality(S) \in Nat
  BY FS_CardinalityType
<1>2. CASE T = S \cup {x}
  BY <1>1, <1>2, FS_AddElement DEF Change
<1>3. CASE T = S \ {x}
  BY <1>1, <1>3, FS_RemoveElement DEF Change
<1>4. QED BY <1>2, <1>3

\* A handler stores the record r of one user: who is on which terminal, at a
\* table there, and on which level.
LEMMA OneUser ==
  ASSUME TypeOK, NEW u \in Users, NEW r \in CGameUser, shm' = [shm EXCEPT ![u] = r],
         NEW x
  PROVE  /\ Cardinality(OnTerminal(x))' = Cardinality(OnTerminal(x))
              + Change(Found(u) /\ shm[u].term = x, r.term = x)
         /\ Cardinality(SeatedOn(x))' = Cardinality(SeatedOn(x))
              + Change(Found(u) /\ shm[u].term = x /\ shm[u].tid # NoTable,
                       r.term = x /\ r.tid # NoTable)
         /\ Cardinality(OnLevel(x))' = Cardinality(OnLevel(x))
              + Change(Found(u) /\ shm[u].level = x, r.level = x)
<1> USE NotFoundAssumption
<1>a. /\ r # NotFound /\ shm'[u] = r
      /\ \A v \in Users : v # u => shm'[v] = shm[v]
  BY DEF TypeOK
<1>1. /\ OnTerminal(x)' = OnTerminal(x) \cup {u} \/ OnTerminal(x)' = OnTerminal(x) \ {u}
      /\ u \in OnTerminal(x) <=> Found(u) /\ shm[u].term = x
      /\ u \in OnTerminal(x)' <=> r.term = x
  BY <1>a DEF OnTerminal, Table, Found
<1>2. /\ SeatedOn(x)' = SeatedOn(x) \cup {u} \/ SeatedOn(x)' = SeatedOn(x) \ {u}
      /\ u \in SeatedOn(x) <=> Found(u) /\ shm[u].term = x /\ shm[u].tid # NoTable
      /\ u \in SeatedOn(x)' <=> r.term = x /\ r.tid # NoTable
  BY <1>a DEF SeatedOn, OnTerminal, Table, Found
<1>3. /\ OnLevel(x)' = OnLevel(x) \cup {u} \/ OnLevel(x)' = OnLevel(x) \ {u}
      /\ u \in OnLevel(x) <=> Found(u) /\ shm[u].level = x
      /\ u \in OnLevel(x)' <=> r.level = x
  BY <1>a DEF OnLevel, Table, Found
<1>4. Cardinality(OnTerminal(x)') = Cardinality(OnTerminal(x))
        + Change(u \in OnTerminal(x), u \in OnTerminal(x)')
  BY <1>1, OneElement, SetsFinite
<1>5. Cardinality(SeatedOn(x)') = Cardinality(SeatedOn(x))
        + Change(u \in SeatedOn(x), u \in SeatedOn(x)')
  BY <1>2, OneElement, SetsFinite
<1>6. Cardinality(OnLevel(x)') = Cardinality(OnLevel(x))
        + Change(u \in OnLevel(x), u \in OnLevel(x)')
  BY <1>3, OneElement, SetsFinite
<1>7. QED BY <1>1, <1>2, <1>3, <1>4, <1>5, <1>6 DEF Change

\* The users of gone leave the table of users.
LEMMA UsersGone ==
  ASSUME TypeOK, NEW gone \in SUBSET Table, NEW x,
         shm' = [u \in Users |-> IF u \in gone THEN NotFound ELSE shm[u]]
  PROVE  /\ OnTerminal(x)' = OnTerminal(x) \ gone
         /\ SeatedOn(x)' = SeatedOn(x) \ gone
         /\ OnLevel(x)' = OnLevel(x) \ gone
BY DEF OnTerminal, SeatedOn, OnLevel, Table, Found

LEMMA Removed ==
  ASSUME NEW S, IsFiniteSet(S), NEW G
  PROVE  /\ Cardinality(S \ G) = Cardinality(S) - Cardinality(S \cap G)
         /\ Cardinality(S \cap G) \in Nat /\ Cardinality(S) \in Nat
         /\ Cardinality(S \cap G) <= Cardinality(S)
BY FS_Difference, FS_Intersection, FS_CardinalityType

\* The same users, with records that agree on what is counted.
LEMMA SameUsers ==
  ASSUME \A v \in Users : /\ shm'[v] = NotFound <=> shm[v] = NotFound
                          /\ Found(v) => /\ shm'[v].term = shm[v].term
                                         /\ shm'[v].tid = shm[v].tid
                                         /\ shm'[v].level = shm[v].level,
         NEW x
  PROVE  /\ OnTerminal(x)' = OnTerminal(x) /\ SeatedOn(x)' = SeatedOn(x)
         /\ OnLevel(x)' = OnLevel(x)
BY DEF OnTerminal, SeatedOn, OnLevel, Table, Found

-----------------------------------------------------------------------------
(* Users online and at a table                                             *)

\* What OnlineCounted and PlayNeverOver say of one terminal.
Counted(t) ==
  /\ terminalStat[t].online >= Cardinality(OnTerminal(t))
  /\ Cardinality(Users) <= Capacity
       => terminalStat[t].online = Cardinality(OnTerminal(t))
  /\ terminalStat[t].play <= Cardinality(SeatedOn(t))

CounterInv == TypeOK /\ \A t \in Terminals : Counted(t)

\* The users at a table on terminal t whom its play counter misses.
Gap(t) == Cardinality(SeatedOn(t)) - terminalStat[t].play

\* A step after which the counters still hold and the gap is no larger.
Kept(t) == Counted(t)' /\ Gap(t)' <= Gap(t)

LEMMA StatType ==
  ASSUME TypeOK, NEW t \in Terminals
  PROVE  /\ terminalStat[t].online \in Nat /\ terminalStat[t].play \in Nat
         /\ terminalStat[t].look \in Nat
BY DEF TypeOK, DATAINFO

\* A new user is stored unless the table is full, so always when it can hold
\* every user.
LEMMA RoomForNew ==
  ASSUME NEW u \in Users, ~Found(u), Cardinality(Users) <= Capacity
  PROVE  Cardinality(Table) < Capacity
<1>1. Table \in SUBSET Users /\ Table # Users
  BY DEF Table
<1>2. /\ IsFiniteSet(Users) /\ Cardinality(Users) \in Nat
      /\ Cardinality(Table) \in Nat /\ Cardinality(Table) <= Cardinality(Users)
      /\ Cardinality(Table) # Cardinality(Users)
  BY <1>1, UserServerAssumption, FS_Subset, FS_CardinalityType
<1>3. QED BY <1>2, UserServerAssumption

\* A step that changes neither the counters nor what is counted.
LEMMA SameCounts ==
  ASSUME TypeOK, NEW t \in Terminals, Counted(t),
         /\ terminalStat'[t].online = terminalStat[t].online
         /\ terminalStat'[t].play = terminalStat[t].play,
         OnTerminal(t)' = OnTerminal(t), SeatedOn(t)' = SeatedOn(t)
  PROVE  Kept(t)
BY SetsFinite, StatType DEF Counted, Kept, Gap

\* The terminal that has one more user missing when user u logs in on terminal tm:
\* if no player is counted where he was, none is taken along.
Receiver(u, tm) ==
  IF shm[u].tid # NoTable /\ terminalStat[shm[u].term].play = 0
  THEN tm ELSE shm[u].term

\* A user in the table logs in on terminal tm.
LEMMA ReLoginCounted ==
  ASSUME CounterInv, TypeOK', NEW u \in Users, NEW h \in Halls, NEW tm \in Terminals,
         ReLogin(u, h, tm), NEW t \in Terminals
  PROVE  /\ Counted(t)'
         /\ Gap(t)' <= Gap(t) + Change(t = shm[u].term, t = Receiver(u, tm))
<1> DEFINE r == User(h, shm[u].tid, tm, shm[u].level, 0)
<1>1. /\ TypeOK /\ Found(u) /\ StoreLogin(u, r)
      /\ terminalStat' = UserReloadHall(terminalStat, shm[u].term,
                                        shm[u].tid # NoTable, tm)
  BY DEF ReLogin, CounterInv
<1>2. r \in CGameUser /\ r.tid = shm[u].tid /\ r.term = tm
  <2>1. r \in CGameUser
    BY <1>1, FieldType, UserType, ZeroAge
  <2>2. QED BY <2>1, UserFields
<1> HIDE DEF r
<1>3. /\ shm'[u] \in CGameUser /\ shm'[u].tid = shm[u].tid /\ shm'[u].term = tm
      /\ shm' = [shm EXCEPT ![u] = shm'[u]]
  BY <1>1, <1>2, StoreLoginUser DEF TypeOK
<1> DEFINE pre == shm[u].term
           n == Cardinality(OnTerminal(t))
           k == Cardinality(SeatedOn(t))
           m == IF shm[u].tid # NoTable /\ terminalStat[pre].play > 0 THEN 1 ELSE 0
<1>4. /\ Cardinality(OnTerminal(t))' = n + Change(pre = t, tm = t)
      /\ Cardinality(SeatedOn(t))' = k + Change(pre = t /\ shm[u].tid # NoTable,
                                                tm = t /\ shm[u].tid # NoTable)
  BY <1>1, <1>3, OneUser DEF Change
<1>5. /\ n \in Nat /\ k \in Nat /\ pre \in Terminals
      /\ pre = t => n > 0 /\ (shm[u].tid # NoTable => k > 0)
  <2>1. /\ pre = t => u \in OnTerminal(t)
        /\ pre = t /\ shm[u].tid # NoTable => u \in SeatedOn(t)
    BY <1>1 DEF OnTerminal, SeatedOn, Table
  <2>2. QED BY <1>1, <2>1, SetsFinite, FS_EmptySet, FieldType
<1>6. Counted(t) /\ terminalStat[t].online \in Nat /\ terminalStat[t].play \in Nat
      /\ terminalStat[pre].play \in Nat
  BY <1>1, <1>5, StatType DEF CounterInv
<1>7. CASE pre = tm
  <2>1. /\ Cardinality(OnTerminal(t))' = n /\ Cardinality(SeatedOn(t))' = k
        /\ terminalStat' = terminalStat
    BY <1>1, <1>4, <1>5, <1>7 DEF UserReloadHall, Change
  <2>2. Receiver(u, tm) = pre
    BY <1>7 DEF Receiver
  <2>3. Change(t = pre, t = Receiver(u, tm)) = 0
    BY <2>2 DEF Change
  <2>4. Counted(t)' /\ Gap(t)' = Gap(t)
    BY <1>6, <2>1 DEF Counted, Gap
  <2>5. QED BY <1>5, <1>6, <2>3, <2>4 DEF Gap
<1>8. CASE pre # tm
  <2>1. /\ terminalStat'[t].online =
              IF t = pre THEN Monus(terminalStat[t].online, 1)
              ELSE IF t = tm THEN terminalStat[t].online + 1 ELSE terminalStat[t].online
        /\ terminalStat'[t].play =
              IF t = pre THEN terminalStat[t].play - m
              ELSE IF t = tm THEN terminalStat[t].play + m ELSE terminalStat[t].play
    BY <1>1, <1>8 DEF UserReloadHall
  <2>2. Counted(t)'
    BY <1>4, <1>5, <1>6, <1>8, <2>1 DEF Counted, Change, Monus
  <2>3. CASE Receiver(u, tm) = tm
    <3>1. shm[u].tid # NoTable /\ m = 0
      BY <1>8, <2>3 DEF Receiver
    <3> DEFINE d == Change(t = pre, t = tm)
    <3>2. Cardinality(SeatedOn(t))' = k + d /\ d \in Int
      BY <1>4, <3>1 DEF Change
    <3>3. terminalStat'[t].play = terminalStat[t].play
      BY <1>6, <2>1, <3>1
    <3> HIDE DEF d, k
    <3>4. Gap(t)' = Gap(t) + d
      BY <1>5, <1>6, <3>2, <3>3 DEF Gap, k
    <3>5. d = Change(t = pre, t = Receiver(u, tm))
      BY <2>3 DEF d
    <3>6. Gap(t) \in Int
      BY <1>5, <1>6 DEF Gap, k
    <3>7. QED BY <2>2, <3>2, <3>4, <3>5, <3>6
  <2>4. CASE Receiver(u, tm) = pre
    <3>1. shm[u].tid # NoTable => m = 1
      BY <1>6, <1>8, <2>4 DEF Receiver
    <3>2. Gap(t)' = Gap(t)
      BY <1>4, <1>5, <1>6, <1>8, <2>1, <3>1 DEF Gap, Change
    <3>3. Change(t = pre, t = Receiver(u, tm)) = 0
      BY <2>4 DEF Change
    <3>4. QED BY <1>5, <1>6, <2>2, <3>2, <3>3 DEF Gap
  <2>5. QED BY <2>3, <2>4 DEF Receiver
<1>9. QED BY <1>7, <1>8

\* Shortly after a start a new user is put back at a table.
Recovery == uptime <= LoginWindow /\ \E u \in Users : ~Found(u) /\ Seated(u)'

\* A user who is not in the table logs in on terminal tm.
LEMMA FirstLoginCounted ==
  ASSUME CounterInv, TypeOK', NEW u \in Users, NEW h \in Halls, NEW tm \in Terminals,
         NEW tid \in Servers \cup {NoTable}, FirstLogin(u, h, tm, tid),
         NEW t \in Terminals
  PROVE  /\ Counted(t)'
         /\ Gap(t)' <= Gap(t) \/ Recovery
<1> DEFINE r == User(h, tid, tm, NoLevel, 0)
<1>1. /\ TypeOK /\ ~Found(u) /\ StoreLogin(u, r) /\ (tid # NoTable => uptime <= LoginWindow)
      /\ terminalStat' = UserLoginHall(terminalStat, tm)
  BY DEF FirstLogin, CounterInv
<1>2. r \in CGameUser /\ r.term = tm /\ r.tid = tid
  <2>1. r \in CGameUser
    BY UserType, ZeroAge DEF AllLevels
  <2>2. QED BY <2>1, UserFields
<1> HIDE DEF r
<1> DEFINE n == Cardinality(OnTerminal(t))
           k == Cardinality(SeatedOn(t))
<1>3. n \in Nat /\ k \in Nat /\ Counted(t)
      /\ terminalStat[t].online \in Nat /\ terminalStat[t].play \in Nat
  BY <1>1, SetsFinite, StatType DEF CounterInv
<1>4. /\ terminalStat'[t].online = terminalStat[t].online + Change(FALSE, t = tm)
      /\ terminalStat'[t].play = terminalStat[t].play
  BY <1>1, <1>3 DEF UserLoginHall, TypeOK, DATAINFO, Change
<1>5. CASE Cardinality(Table) < Capacity
  <2>1. /\ shm'[u] \in CGameUser /\ shm'[u].term = tm /\ shm'[u].tid = tid
        /\ shm' = [shm EXCEPT ![u] = shm'[u]]
    BY <1>1, <1>2, <1>5, StoreLoginUser DEF TypeOK
  <2>2. /\ Cardinality(OnTerminal(t))' = n + Change(FALSE, tm = t)
        /\ Cardinality(SeatedOn(t))' = k + Change(FALSE, tm = t /\ tid # NoTable)
    BY <1>1, <2>1, OneUser DEF Change
  <2>3. Counted(t)'
    BY <1>3, <1>4, <2>2 DEF Counted, Change
  <2>4. CASE tid = NoTable
    <3>1. Gap(t)' = Gap(t)
      BY <1>3, <1>4, <2>2, <2>4 DEF Gap, Change
    <3>2. QED BY <1>3, <2>3, <3>1 DEF Gap
  <2>5. CASE tid # NoTable
    <3>1. Seated(u)'
      BY <2>1, <2>5, NotFoundAssumption DEF Seated, Found
    <3>2. QED BY <1>1, <2>3, <2>5, <3>1 DEF Recovery
  <2>6. QED BY <2>4, <2>5
<1>6. CASE ~(Cardinality(Table) < Capacity)
  <2>1. shm' = shm /\ ~(Cardinality(Users) <= Capacity)
    BY <1>1, <1>2, <1>6, StoreLoginUser, RoomForNew
  <2>2. OnTerminal(t)' = OnTerminal(t) /\ SeatedOn(t)' = SeatedOn(t)
    BY <2>1 DEF OnTerminal, SeatedOn, Table, Found
  <2>3. QED BY <1>3, <1>4, <2>1, <2>2 DEF Counted, Change, Gap
<1>7. QED BY <1>5, <1>6

\* The users of gone leave hall, table and memory, as both checks make them.
LEMMA DropCounted ==
  ASSUME CounterInv, NEW gone \in SUBSET Table, DropUsers(gone), NEW t \in Terminals
  PROVE  Kept(t)
<1> DEFINE n == Cardinality(OnTerminal(t))
           k == Cardinality(SeatedOn(t))
           dn == Cardinality(OnTerminal(t) \cap gone)
           dk == Cardinality(SeatedOn(t) \cap gone)
<1>1. /\ {u \in gone : shm[u].term = t} = OnTerminal(t) \cap gone
      /\ {u \in {v \in gone : Seated(v)} : shm[u].term = t} = SeatedOn(t) \cap gone
  BY DEF OnTerminal, SeatedOn, Seated, Table
<1>2. PerTerminal(gone)[t] = dn /\ PerTerminal({u \in gone : Seated(u)})[t] = dk
  BY <1>1 DEF PerTerminal
<1>3. /\ terminalStat'[t].online = Monus(terminalStat[t].online, dn)
      /\ terminalStat'[t].play = Monus(terminalStat[t].play, dk)
  BY <1>2 DEF DropUsers, UserLogoutHall, UserLogoutTable, CounterInv, TypeOK, DATAINFO
<1>4. /\ OnTerminal(t)' = OnTerminal(t) \ gone /\ SeatedOn(t)' = SeatedOn(t) \ gone
  BY UsersGone DEF DropUsers, CounterInv
<1>5. /\ Cardinality(OnTerminal(t)') = n - dn /\ dn \in Nat /\ n \in Nat /\ dn <= n
      /\ Cardinality(SeatedOn(t)') = k - dk /\ dk \in Nat /\ k \in Nat /\ dk <= k
  BY <1>4, Removed, SetsFinite
<1>6. Counted(t) /\ terminalStat[t].online \in Nat /\ terminalStat[t].play \in Nat
  BY StatType DEF CounterInv
<1>7. QED BY <1>3, <1>5, <1>6 DEF Kept, Gap, Counted, Monus

LEMMA CloseInHallCounted ==
  ASSUME CounterInv, NEW u \in Users, CloseInHall(u), NEW t \in Terminals
  PROVE  Kept(t)
<1> DEFINE n == Cardinality(OnTerminal(t))
           dn == Cardinality(OnTerminal(t) \cap {u})
<1>1. /\ {v \in {u} : shm[v].term = t} = OnTerminal(t) \cap {u}
      /\ SeatedOn(t) \ {u} = SeatedOn(t)
  BY DEF CloseInHall, OnTerminal, SeatedOn, Seated, Table
<1>2. PerTerminal({u})[t] = dn
  BY <1>1 DEF PerTerminal
<1>3. /\ terminalStat'[t].online = Monus(terminalStat[t].online, dn)
      /\ terminalStat'[t].play = terminalStat[t].play
  BY <1>2 DEF CloseInHall, UserLogoutHall, CounterInv, TypeOK, DATAINFO
<1>4. OnTerminal(t)' = OnTerminal(t) \ {u} /\ SeatedOn(t)' = SeatedOn(t)
  <2>1. /\ {u} \in SUBSET Table
        /\ shm' = [v \in Users |-> IF v \in {u} THEN NotFound ELSE shm[v]]
    BY DEF CloseInHall, Table, CounterInv, TypeOK
  <2>2. QED BY <1>1, <2>1, UsersGone DEF CounterInv
<1>5. Cardinality(OnTerminal(t)') = n - dn /\ dn \in Nat /\ n \in Nat /\ dn <= n
  BY <1>4, Removed, SetsFinite
<1>6. /\ Counted(t) /\ terminalStat[t].online \in Nat
      /\ terminalStat[t].play \in Nat /\ Cardinality(SeatedOn(t)) \in Nat
  BY SetsFinite, StatType DEF CounterInv
<1>7. QED BY <1>3, <1>4, <1>5, <1>6 DEF Kept, Gap, Counted, Monus

LEMMA EnterRoomCounted ==
  ASSUME CounterInv, NEW u \in Users, NEW s \in Servers,
         ProcessReportUserEnterRoom(u, s), NEW t \in Terminals
  PROVE  Kept(t)
<1>1. TypeOK /\ Found(u) /\ s # NoTable
  BY UserServerAssumption DEF ProcessReportUserEnterRoom, CounterInv
<1>2. PICK l \in AllLevels : SetValue(u, User(shm[u].hall, s, shm[u].term, l, 0))
  BY <1>1, FieldType DEF ProcessReportUserEnterRoom
<1> DEFINE r == User(shm[u].hall, s, shm[u].term, l, 0)
           n == Cardinality(OnTerminal(t))
           k == Cardinality(SeatedOn(t))
<1>3. r \in CGameUser /\ r.term = shm[u].term /\ r.tid = s
  <2>1. r \in CGameUser
    BY <1>1, FieldType, UserType, ZeroAge
  <2>2. QED BY <2>1, UserFields
<1>4. shm' = [shm EXCEPT ![u] = r]
  BY <1>1, <1>2, SetFoundValue
<1> HIDE DEF r
<1>a. n \in Nat /\ k \in Nat
  BY SetsFinite
<1>b. shm'[u] = r /\ shm' = [shm EXCEPT ![u] = shm'[u]]
  BY <1>1, <1>3, <1>4 DEF TypeOK
<1>c. /\ Cardinality(OnTerminal(t))' = n + Change(shm[u].term = t, shm'[u].term = t)
      /\ Cardinality(SeatedOn(t))' = k
           + Change(shm[u].term = t /\ shm[u].tid # NoTable,
                    shm'[u].term = t /\ shm'[u].tid # NoTable)
  BY <1>1, <1>3, <1>b, OneUser DEF Change
<1>5. /\ Cardinality(OnTerminal(t))' = n
      /\ Cardinality(SeatedOn(t))' = IF shm[u].term = t /\ ~Seated(u) THEN k + 1 ELSE k
  BY <1>1, <1>3, <1>a, <1>b, <1>c DEF Change, Seated
<1>6. /\ terminalStat'[t].online = terminalStat[t].online
      /\ terminalStat'[t].play = terminalStat[t].play
           + Change(FALSE, ~Seated(u) /\ shm[u].term = t)
  BY <1>1, StatType DEF ProcessReportUserEnterRoom, UserLoginTable, TypeOK, DATAINFO, Change
<1>7. n \in Nat /\ k \in Nat /\ Counted(t) /\ terminalStat[t].play \in Nat
  BY <1>1, SetsFinite, StatType DEF CounterInv
<1>8. QED BY <1>5, <1>6, <1>7 DEF Kept, Gap, Counted, Change

LEMMA LeaveRoomCounted ==
  ASSUME CounterInv, NEW u \in Users, ProcessReportUserLeaveRoom(u),
         NEW t \in Terminals
  PROVE  Kept(t)
<1> DEFINE r == User(shm[u].hall, NoTable, shm[u].term, NoLevel, 0)
           n == Cardinality(OnTerminal(t))
           k == Cardinality(SeatedOn(t))
           at == shm[u].term = t
<1>1. TypeOK /\ Found(u) /\ SetValue(u, r)
  BY DEF ProcessReportUserLeaveRoom, CounterInv
<1>2. r \in CGameUser /\ r.term = shm[u].term /\ r.tid = NoTable
  <2>1. shm[u].hall \in Halls \cup {NoHall} /\ shm[u].term \in Terminals
    BY <1>1, FieldType
  <2>2. r \in CGameUser
    BY <2>1, UserType, ZeroAge DEF AllLevels
  <2>3. QED BY <2>2, UserFields
<1>3. shm' = [shm EXCEPT ![u] = r]
  BY <1>1, SetFoundValue
<1> HIDE DEF r
<1>a. n \in Nat /\ k \in Nat
  BY SetsFinite
<1>b. shm'[u] = r /\ shm' = [shm EXCEPT ![u] = shm'[u]]
  BY <1>1, <1>2, <1>3 DEF TypeOK
<1>c. /\ Cardinality(OnTerminal(t))' = n + Change(shm[u].term = t, shm'[u].term = t)
      /\ Cardinality(SeatedOn(t))' = k
           + Change(shm[u].term = t /\ shm[u].tid # NoTable,
                    shm'[u].term = t /\ shm'[u].tid # NoTable)
  BY <1>1, <1>2, <1>b, OneUser DEF Change
<1>4. /\ Cardinality(OnTerminal(t))' = n
      /\ Cardinality(SeatedOn(t))' = IF at /\ Seated(u) THEN k - 1 ELSE k
  BY <1>1, <1>2, <1>a, <1>b, <1>c DEF Change, Seated
<1>5. PerTerminal({u})[t] = IF at THEN 1 ELSE 0
  <2>1. {v \in {u} : shm[v].term = t} = IF at THEN {u} ELSE {}
    OBVIOUS
  <2>2. QED BY <2>1, FS_Singleton, FS_EmptySet DEF PerTerminal
<1>6. /\ terminalStat'[t].online = terminalStat[t].online
      /\ terminalStat'[t].play = IF Seated(u) /\ at THEN Monus(terminalStat[t].play, 1)
                                 ELSE terminalStat[t].play
  BY <1>1, <1>5, StatType
     DEF ProcessReportUserLeaveRoom, UserLogoutTable, TypeOK, DATAINFO, Monus
<1>7. n \in Nat /\ k \in Nat /\ Counted(t) /\ terminalStat[t].play \in Nat
  BY <1>1, SetsFinite, StatType DEF CounterInv
<1>8. at /\ Seated(u) => k > 0
  <2>1. at /\ Seated(u) => u \in SeatedOn(t)
    BY DEF SeatedOn, OnTerminal, Seated, Table
  <2>2. QED BY <1>a, <2>1, SetsFinite, FS_EmptySet
<1>9. QED BY <1>4, <1>6, <1>7, <1>8 DEF Kept, Gap, Counted, Monus

\* The users at the tables of server s stand up.
LEMMA LogicCoreUsers ==
  ASSUME TypeOK, NEW s \in Servers, ProcessLogicCore(s)
  PROVE  \A v \in Users :
           /\ shm'[v] = NotFound <=> shm[v] = NotFound
           /\ Found(v) /\ shm[v].tid # s => shm'[v] = shm[v]
           /\ Found(v) /\ shm[v].tid = s =>
                /\ shm'[v].tid = NoTable /\ shm'[v].level = NoLevel
                /\ shm'[v].term = shm[v].term
<1> SUFFICES ASSUME NEW v \in Users
             PROVE  /\ shm'[v] = NotFound <=> shm[v] = NotFound
                    /\ Found(v) /\ shm[v].tid # s => shm'[v] = shm[v]
                    /\ Found(v) /\ shm[v].tid = s =>
                         /\ shm'[v].tid = NoTable /\ shm'[v].level = NoLevel
                         /\ shm'[v].term = shm[v].term
  OBVIOUS
<1> DEFINE r == User(shm[v].hall, NoTable, shm[v].term, NoLevel, shm[v].age)
<1>1. shm'[v] = IF Found(v) /\ shm[v].tid = s THEN r ELSE shm[v]
  BY DEF ProcessLogicCore, Table
<1>2. Found(v) => r # NotFound
  <2> SUFFICES ASSUME Found(v) PROVE r \in CGameUser
    BY NotFoundAssumption
  <2>1. /\ shm[v].hall \in Halls \cup {NoHall} /\ shm[v].term \in Terminals
        /\ shm[v].age \in 0..PlayLimit
    BY FieldType
  <2>2. QED BY <2>1, UserType DEF AllLevels
<1>3. r.tid = NoTable /\ r.level = NoLevel /\ r.term = shm[v].term
  BY UserFields
<1> HIDE DEF r
<1>4. QED BY <1>1, <1>2, <1>3 DEF Found

LEMMA LogicCoreCounted ==
  ASSUME CounterInv, NEW s \in Servers, ProcessLogicCore(s), NEW t \in Terminals
  PROVE  Kept(t)
<1> DEFINE up == {u \in Table : shm[u].tid = s}
           k == Cardinality(SeatedOn(t))
           dk == Cardinality(SeatedOn(t) \cap up)
<1>1. {u \in up : shm[u].term = t} = SeatedOn(t) \cap up
  BY UserServerAssumption DEF SeatedOn, OnTerminal, Table
<1>2. /\ terminalStat'[t].online = terminalStat[t].online
      /\ terminalStat'[t].play = Monus(terminalStat[t].play, dk)
  BY <1>1 DEF ProcessLogicCore, PerTerminal, UserLogoutTable, CounterInv, TypeOK, DATAINFO
<1>3. OnTerminal(t)' = OnTerminal(t) /\ SeatedOn(t)' = SeatedOn(t) \ up
  BY LogicCoreUsers DEF CounterInv, OnTerminal, SeatedOn, Table, Found
<1> HIDE DEF up
<1>4. Cardinality(SeatedOn(t)') = k - dk /\ dk \in Nat /\ k \in Nat /\ dk <= k
  BY <1>3, Removed, SetsFinite
<1>5. Counted(t) /\ terminalStat[t].play \in Nat
  BY StatType DEF CounterInv
<1>6. QED BY <1>2, <1>3, <1>4, <1>5 DEF Kept, Gap, Counted, Monus

\* ReportStartTJData counts what the table holds.
LEMMA RestartCounted ==
  ASSUME CounterInv, TypeOK', NEW down \in 0..PlayLimit, NEW wiped \in BOOLEAN,
         Restart(down, wiped), NEW t \in Terminals
  PROVE  Kept(t)
<1>1. /\ {u \in Users : shm'[u] # NotFound /\ shm'[u].term = t} = OnTerminal(t)'
      /\ {u \in Users : /\ shm'[u] # NotFound /\ shm'[u].term = t
                         /\ shm'[u].tid # NoTable} = SeatedOn(t)'
  BY DEF OnTerminal, SeatedOn, Table, Found
<1>2. /\ terminalStat'[t].online = Cardinality(OnTerminal(t)')
      /\ terminalStat'[t].play = Cardinality(SeatedOn(t)')
  BY <1>1 DEF Restart, CountTerminals
<1>3. OnTerminal(t)' \in SUBSET Users /\ SeatedOn(t)' \in SUBSET Users
  BY DEF OnTerminal, SeatedOn, Table
<1>4. Cardinality(OnTerminal(t)') \in Nat /\ Cardinality(SeatedOn(t)') \in Nat
  BY <1>3, CountType
<1>5. Counted(t) /\ Cardinality(SeatedOn(t)) \in Nat /\ terminalStat[t].play \in Nat
  BY SetsFinite, StatType DEF CounterInv
<1>6. QED BY <1>2, <1>4, <1>5 DEF Counted, Kept, Gap

LEMMA InitCounted == Init => CounterInv
<1> SUFFICES ASSUME Init, NEW t \in Terminals PROVE Counted(t)
  BY InitTypeOK DEF CounterInv
<1>1. OnTerminal(t) = {} /\ SeatedOn(t) = {}
  BY DEF Init, OnTerminal, SeatedOn, Table, Found
<1>2. terminalStat[t].online = 0 /\ terminalStat[t].play = 0
  BY DEF Init, NoTerminals
<1>3. QED BY <1>1, <1>2, FS_EmptySet DEF Counted

SomeLogin == \E u \in Users, h \in Halls, t \in Terminals : ProcessUserLogin(u, h, t)

\* Only a login makes a gap larger.
LEMMA NextKept ==
  ASSUME CounterInv, [Next]_vars, ~SomeLogin, NEW t \in Terminals
  PROVE  Kept(t)
<1>a. TypeOK /\ TypeOK'
  BY NextTypeOK DEF CounterInv
<1>b. Counted(t)
  BY DEF CounterInv
<1> USE DEF timers, stat
<1>1. ASSUME NEW u \in Users, CloseAtTable(u)
      PROVE  Kept(t)
  <2> DEFINE r == User(NoHall, shm[u].tid, shm[u].term, shm[u].level, 0)
  <2>1. Found(u) /\ shm' = [shm EXCEPT ![u] = r] /\ terminalStat' = terminalStat
    BY <1>1, <1>a, SetFoundValue DEF CloseAtTable, Seated
  <2>a. r \in CGameUser
    BY <2>1, <1>a, FieldType, UserType, ZeroAge
  <2>2. r # NotFound
    BY <2>a, NotFoundAssumption
  <2>3. r.tid = shm[u].tid /\ r.term = shm[u].term /\ r.level = shm[u].level
    BY UserFields
  <2> HIDE DEF r
  <2>4. OnTerminal(t)' = OnTerminal(t) /\ SeatedOn(t)' = SeatedOn(t)
    BY <1>a, <2>1, <2>2, <2>3, SameUsers DEF TypeOK, Found
  <2>5. QED BY <1>a, <1>b, <2>1, <2>4, SameCounts
<1>2. ASSUME NEW u \in Users, CloseInHall(u)
      PROVE  Kept(t)
  BY <1>2, CloseInHallCounted
<1>3. ASSUME NEW u \in Users, ProcessGetUserTable(u)
      PROVE  Kept(t)
  <2>1. /\ Found(u) /\ shm' = [shm EXCEPT ![u] = [shm[u] EXCEPT !.age = 0]]
        /\ terminalStat' = terminalStat
    BY <1>3, <1>a, SetFoundValue DEF ProcessGetUserTable, Seated
  <2>2. [shm[u] EXCEPT !.age = 0] \in CGameUser
    BY <2>1, <1>a, FieldType, ZeroAge DEF CGameUser
  <2>3. OnTerminal(t)' = OnTerminal(t) /\ SeatedOn(t)' = SeatedOn(t)
    BY <1>a, <2>1, <2>2, SameUsers, FieldType, NotFoundAssumption DEF TypeOK, Found, CGameUser
  <2>4. QED BY <1>a, <1>b, <2>1, <2>3, SameCounts
<1>4. ASSUME NEW h \in Halls, ProcessHallCore(h)
      PROVE  Kept(t)
  <2>1. \A v \in Users : Found(v) => /\ [shm[v] EXCEPT !.hall = NoHall] \in CGameUser
                                      /\ shm[v] \in CGameUser
    BY <1>a DEF Found, TypeOK, CGameUser
  <2>2. OnTerminal(t)' = OnTerminal(t) /\ SeatedOn(t)' = SeatedOn(t)
    BY <1>4, <2>1, SameUsers, NotFoundAssumption DEF ProcessHallCore, Table, Found, CGameUser
  <2>3. terminalStat' = terminalStat
    BY <1>4 DEF ProcessHallCore
  <2>4. QED BY <1>a, <1>b, <2>2, <2>3, SameCounts
<1>5. ASSUME NEW u \in Users, NEW s \in Servers, ProcessReportUserEnterRoom(u, s)
      PROVE  Kept(t)
  BY <1>5, EnterRoomCounted
<1>6. ASSUME NEW u \in Users, NEW s \in Servers, ProcessReportUserStandRoom(u, s)
      PROVE  Kept(t)
  <2>1. shm' = shm /\ terminalStat' = UserStandTable(terminalStat, shm[u].term)
    BY <1>6 DEF ProcessReportUserStandRoom
  <2>2. /\ terminalStat'[t].online = terminalStat[t].online
        /\ terminalStat'[t].play = terminalStat[t].play
    BY <1>a, <2>1 DEF UserStandTable, TypeOK, DATAINFO
  <2>3. OnTerminal(t)' = OnTerminal(t) /\ SeatedOn(t)' = SeatedOn(t)
    BY <2>1 DEF OnTerminal, SeatedOn, Table, Found
  <2>4. QED BY <1>a, <1>b, <2>2, <2>3, SameCounts
<1>7. ASSUME NEW u \in Users, ProcessReportUserLeaveRoom(u)
      PROVE  Kept(t)
  BY <1>7, LeaveRoomCounted
<1>8. ASSUME NEW u \in Users, ProcessReportStandLeaveRoom(u)
       PROVE  Kept(t)
  <2>1. shm' = shm /\ terminalStat' = UserStandLeaveTable(terminalStat, shm[u].term)
    BY <1>8 DEF ProcessReportStandLeaveRoom
  <2>2. /\ terminalStat'[t].online = terminalStat[t].online
        /\ terminalStat'[t].play = terminalStat[t].play
    BY <1>a, <2>1 DEF UserStandLeaveTable, TypeOK, DATAINFO
  <2>3. OnTerminal(t)' = OnTerminal(t) /\ SeatedOn(t)' = SeatedOn(t)
    BY <2>1 DEF OnTerminal, SeatedOn, Table, Found
  <2>4. QED BY <1>a, <1>b, <2>2, <2>3, SameCounts
<1>9. ASSUME NEW s \in Servers, ProcessLogicCore(s)
       PROVE  Kept(t)
  BY <1>9, LogicCoreCounted
<1>10. CASE ProcessClearServerInfo
  <2>1. OnTerminal(t)' = OnTerminal(t) /\ SeatedOn(t)' = SeatedOn(t)
    BY <1>10 DEF ProcessClearServerInfo, OnTerminal, SeatedOn, Table, Found
  <2>2. terminalStat' = terminalStat
    BY <1>10 DEF ProcessClearServerInfo
  <2>3. QED BY <1>a, <1>b, <2>1, <2>2, SameCounts
<1>11. CASE Tick
  <2>1. \A v \in Users : Found(v) =>
          /\ shm[v] \in CGameUser
          /\ shm[v].age < PlayLimit => [shm[v] EXCEPT !.age = @ + 1] \in CGameUser
    BY <1>a, UserServerAssumption DEF Found, TypeOK, CGameUser
  <2>2. OnTerminal(t)' = OnTerminal(t) /\ SeatedOn(t)' = SeatedOn(t)
    BY <1>11, <2>1, SameUsers, NotFoundAssumption DEF Tick, Found, CGameUser
  <2>3. terminalStat' = terminalStat
    BY <1>11 DEF Tick
  <2>4. QED BY <1>a, <1>b, <2>2, <2>3, SameCounts
<1>12. CASE ProcessOfflineCheck
  <2>1. \E gone \in SUBSET Table : DropUsers(gone)
    BY <1>12 DEF ProcessOfflineCheck
  <2>2. QED BY <2>1, DropCounted
<1>13. CASE ProcessFlushCheck
  <2>1. \E gone \in SUBSET Table : DropUsers(gone)
    BY <1>13 DEF ProcessFlushCheck
  <2>2. QED BY <2>1, DropCounted
<1>14. ASSUME NEW down \in 0..PlayLimit, NEW wiped \in BOOLEAN, Restart(down, wiped)
       PROVE  Kept(t)
  BY <1>14, <1>a, RestartCounted
<1>15. CASE UNCHANGED vars
  <2>1. OnTerminal(t)' = OnTerminal(t) /\ SeatedOn(t)' = SeatedOn(t)
    BY <1>15 DEF vars, OnTerminal, SeatedOn, Table, Found
  <2>2. terminalStat' = terminalStat
    BY <1>15 DEF vars
  <2>3. QED BY <1>a, <1>b, <2>1, <2>2, SameCounts
<1>16. QED
  BY <1>1, <1>2, <1>3, <1>4, <1>5, <1>6, <1>7, <1>8, <1>9,
     <1>10, <1>11, <1>12, <1>13, <1>14, <1>15
     DEF Next, HallPacket, ServerPacket, Timer, SomeLogin, ProcessClientClose

\* In a step that is not a recovery a gap moves at most from one terminal to another.
Moved ==
  \E x, y : /\ x \in Terminals <=> y \in Terminals
            /\ \A t \in Terminals : Gap(t)' <= Gap(t) + Change(t = x, t = y)

LEMMA GapType ==
  ASSUME TypeOK, NEW t \in Terminals
  PROVE  Gap(t) \in Int
BY SetsFinite, StatType DEF Gap

LEMMA KeptMoved ==
  ASSUME TypeOK, \A t \in Terminals : Gap(t)' <= Gap(t)
  PROVE  Moved
<1>1. ASSUME NEW t \in Terminals PROVE Gap(t)' <= Gap(t) + Change(t = 0, t = 0)
  <2>1. Change(t = 0, t = 0) = 0
    BY DEF Change
  <2>2. QED BY <2>1, GapType
<1>2. QED BY <1>1 DEF Moved

LEMMA NextCounted ==
  ASSUME CounterInv, [Next]_vars
  PROVE  CounterInv' /\ (Moved \/ Recovery)
<1>a. TypeOK /\ TypeOK'
  BY NextTypeOK DEF CounterInv
<1>1. CASE ~SomeLogin
  <2>1. \A t \in Terminals : Kept(t)
    BY <1>1, NextKept
  <2>2. QED BY <1>a, <2>1, KeptMoved DEF Kept, CounterInv
<1>2. ASSUME NEW u \in Users, NEW h \in Halls, NEW tm \in Terminals, ReLogin(u, h, tm)
      PROVE  CounterInv' /\ Moved
  <2>1. \A t \in Terminals :
          /\ Counted(t)'
          /\ Gap(t)' <= Gap(t) + Change(t = shm[u].term, t = Receiver(u, tm))
    BY <1>a, <1>2, ReLoginCounted
  <2>2. shm[u].term \in Terminals /\ Receiver(u, tm) \in Terminals
    BY <1>a, <1>2, FieldType DEF ReLogin, Receiver
  <2>3. QED BY <1>a, <2>1, <2>2 DEF Moved, CounterInv
<1>3. ASSUME NEW u \in Users, NEW h \in Halls, NEW tm \in Terminals,
             NEW tid \in Servers \cup {NoTable}, FirstLogin(u, h, tm, tid)
      PROVE  CounterInv' /\ (Moved \/ Recovery)
  <2>1. \A t \in Terminals : Counted(t)' /\ (Gap(t)' <= Gap(t) \/ Recovery)
    BY <1>a, <1>3, FirstLoginCounted
  <2>2. QED BY <1>a, <2>1, KeptMoved DEF CounterInv
<1>4. QED BY <1>1, <1>2, <1>3 DEF SomeLogin, ProcessUserLogin

LEMMA CounterInvariant == Spec => []CounterInv
<1>1. CounterInv /\ [Next]_vars => CounterInv'
  BY NextCounted
<1>2. QED BY <1>1, InitCounted, PTL DEF Spec

\* No terminal reports fewer users online than the table holds, and as many if the
\* table can hold every user, whatever the handlers and checks did before.
THEOREM OnlineIsCounted == Spec => []OnlineCounted
<1>1. CounterInv => OnlineCounted
  BY DEF CounterInv, Counted, OnlineCounted
<1>2. QED BY <1>1, CounterInvariant, PTL

\* No terminal reports more users playing than sit at a table.
THEOREM PlayIsNeverOver == Spec => []PlayNeverOver
<1>1. CounterInv => PlayNeverOver
  BY DEF CounterInv, Counted, PlayNeverOver
<1>2. QED BY <1>1, CounterInvariant, PTL

-----------------------------------------------------------------------------
(* Players whom no counter knows                                           *)

LEMMA GapsMoved ==
  ASSUME TypeOK, TypeOK', Moved
  PROVE  PlayGap \in Int /\ PlayGap' \in Int /\ PlayGap' <= PlayGap
<1> DEFINE f == [t \in Terminals |-> Gap(t)]
           g == [t \in Terminals |-> Gap(t)']
<1>1. f \in [Terminals -> Int]
  BY GapType
<1>2. g \in [Terminals -> Int]
  <2>1. ASSUME NEW t \in Terminals PROVE Gap(t)' \in Int
    <3>1. SeatedOn(t)' \in SUBSET Users
      BY DEF SeatedOn, OnTerminal, Table
    <3>2. Cardinality(SeatedOn(t)') \in Nat
      BY <3>1, CountType
    <3>3. terminalStat'[t].play \in Nat
      BY DEF TypeOK, DATAINFO
    <3>4. QED BY <3>2, <3>3 DEF Gap
  <2>2. QED BY <2>1
<1>3. PICK x, y : /\ x \in Terminals <=> y \in Terminals
                  /\ \A t \in Terminals : Gap(t)' <= Gap(t) + Change(t = x, t = y)
  BY DEF Moved
<1>4. \A t \in Terminals : g[t] <= f[t] + Change(t = x, t = y)
  BY <1>3
<1>5. IsFiniteSet(Terminals)
  BY StatAssumption
<1>6. PlayGap = SumFunction(f) /\ PlayGap' = SumFunction(g)
  BY DEF PlayGap, Gap
<1> HIDE DEF f, g
<1>7. /\ SumFunction(f) \in Int /\ SumFunction(g) \in Int
      /\ SumFunction(g) <= SumFunction(f)
  BY <1>1, <1>2, <1>3, <1>4, <1>5, SumKept
<1>8. QED BY <1>6, <1>7

\* Users at a table go missing from the play counters, all terminals together, only
\* when a new user is put back at his table shortly after a start.
THEOREM PlayGapAlways == Spec => PlayGapOnlyAtRecovery
<1>1. TypeOK /\ TypeOK' /\ CounterInv /\ [Next]_vars =>
        [PlayGap' > PlayGap =>
           /\ uptime <= LoginWindow
           /\ \E u \in Users : ~Found(u) /\ Seated(u)']_vars
  <2> SUFFICES ASSUME TypeOK, TypeOK', CounterInv, [Next]_vars, PlayGap' > PlayGap
               PROVE  Recovery
    BY DEF Recovery
  <2>1. Moved \/ Recovery
    BY NextCounted
  <2>2. ASSUME Moved PROVE FALSE
    BY <2>2, GapsMoved
  <2>3. QED BY <2>1, <2>2
<1>2. QED BY <1>1, TypeCorrect, CounterInvariant, PTL DEF Spec, PlayGapOnlyAtRecovery

-----------------------------------------------------------------------------
(* Users who lose their hall                                               *)

LEMMA UnwatchedStep ==
  ASSUME TypeOK, TypeOK', [Next]_vars, restarts' = restarts, NEW u \in Users,
         Unwatched(u)'
  PROVE  Unwatched(u)
<1> USE DEF timers, stat
<1>a. /\ shm'[u] # NotFound /\ shm'[u].hall = NoHall /\ offline'[u] = NotOffline
  BY DEF Unwatched, Detached, Found
<1> SUFFICES shm[u] # NotFound /\ shm[u].hall = NoHall /\ offline[u] = NotOffline
  BY DEF Unwatched, Detached, Found
<1> DEFINE Goal == shm[u] # NotFound /\ shm[u].hall = NoHall /\ offline[u] = NotOffline
<1>b. NoHall \notin Halls
  BY UserServerAssumption
<1>1. ASSUME NEW v \in Users, NEW h \in Halls, NEW t \in Terminals, ReLogin(v, h, t)
      PROVE  Goal
  <2> DEFINE r == User(h, shm[v].tid, t, shm[v].level, 0)
  <2>1. Found(v) /\ StoreLogin(v, r)
    BY <1>1 DEF ReLogin
  <2>2. r \in CGameUser
    BY <2>1, FieldType, UserType, ZeroAge
  <2>3. r.hall = h
    BY UserFields
  <2> HIDE DEF r
  <2>4. shm'[v].hall = h
    BY <2>1, <2>2, <2>3, StoreLoginUser
  <2>5. u # v
    BY <1>a, <1>b, <2>4
  <2>6. QED BY <1>a, <2>1, <2>2, <2>5, StoreLoginUser DEF TypeOK
<1>2. ASSUME NEW v \in Users, NEW h \in Halls, NEW t \in Terminals,
             NEW tid \in Servers \cup {NoTable}, FirstLogin(v, h, t, tid)
      PROVE  Goal
  <2> DEFINE r == User(h, tid, t, NoLevel, 0)
  <2>1. ~Found(v) /\ StoreLogin(v, r)
    BY <1>2 DEF FirstLogin
  <2>2. r \in CGameUser
    BY UserType, ZeroAge DEF AllLevels
  <2>3. r.hall = h
    BY UserFields
  <2> HIDE DEF r
  <2>4. shm'[v] = NotFound \/ shm'[v].hall = h
    BY <2>1, <2>2, <2>3, StoreLoginUser DEF Found
  <2>5. u # v
    BY <1>a, <1>b, <2>4
  <2>6. QED BY <1>a, <2>1, <2>2, <2>5, StoreLoginUser DEF TypeOK
<1>3. ASSUME NEW v \in Users, CloseAtTable(v)
      PROVE  Goal
  <2>1. u # v
    BY <1>3, <1>a DEF CloseAtTable, TypeOK, NotOffline
  <2>2. QED BY <1>3, <1>a, <2>1 DEF CloseAtTable, SetValue, TypeOK
<1>4. ASSUME NEW v \in Users, CloseInHall(v)
      PROVE  Goal
  BY <1>4, <1>a DEF CloseInHall, TypeOK
<1>5. ASSUME NEW v \in Users, ProcessGetUserTable(v)
      PROVE  Goal
  <2>1. Found(v) /\ shm' = [shm EXCEPT ![v] = [shm[v] EXCEPT !.age = 0]]
    BY <1>5, SetFoundValue DEF ProcessGetUserTable, Seated
  <2>2. shm[v] \in CGameUser
    BY <2>1, FieldType
  <2>3. QED BY <1>5, <1>a, <2>1, <2>2 DEF ProcessGetUserTable, TypeOK, Found, CGameUser
<1>6. ASSUME NEW h \in Halls, ProcessHallCore(h)
      PROVE  Goal
  BY <1>6, <1>a DEF ProcessHallCore, Table, Found, NotOffline, TypeOK
<1>7. ASSUME NEW v \in Users, NEW s \in Servers, ProcessReportUserEnterRoom(v, s)
      PROVE  Goal
  <2>1. Found(v) /\ offline' = offline
    BY <1>7 DEF ProcessReportUserEnterRoom
  <2>2. PICK l \in AllLevels : SetValue(v, User(shm[v].hall, s, shm[v].term, l, 0))
    BY <1>7, <2>1, FieldType DEF ProcessReportUserEnterRoom
  <2> DEFINE r == User(shm[v].hall, s, shm[v].term, l, 0)
  <2>3. shm' = [shm EXCEPT ![v] = r] /\ r.hall = shm[v].hall
    BY <2>1, <2>2, SetFoundValue, UserFields
  <2> HIDE DEF r
  <2>4. QED BY <1>a, <2>1, <2>3 DEF TypeOK, Found
<1>8. ASSUME NEW v \in Users, NEW s \in Servers, ProcessReportUserStandRoom(v, s)
      PROVE  Goal
  BY <1>8, <1>a DEF ProcessReportUserStandRoom
<1>9. ASSUME NEW v \in Users, ProcessReportUserLeaveRoom(v)
      PROVE  Goal
  <2> DEFINE r == User(shm[v].hall, NoTable, shm[v].term, NoLevel, 0)
  <2>1. Found(v) /\ offline' = offline /\ SetValue(v, r)
    BY <1>9 DEF ProcessReportUserLeaveRoom
  <2>2. shm' = [shm EXCEPT ![v] = r] /\ r.hall = shm[v].hall
    BY <2>1, SetFoundValue, UserFields
  <2> HIDE DEF r
  <2>3. QED BY <1>a, <2>1, <2>2 DEF TypeOK, Found
<1>10. ASSUME NEW v \in Users, ProcessReportStandLeaveRoom(v)
       PROVE  Goal
  BY <1>10, <1>a DEF ProcessReportStandLeaveRoom
<1>11. ASSUME NEW s \in Servers, ProcessLogicCore(s)
       PROVE  Goal
  <2>1. /\ shm[u] # NotFound /\ offline' = offline
    BY <1>11, <1>a, LogicCoreUsers DEF ProcessLogicCore
  <2>2. shm'[u].hall = shm[u].hall
    BY <1>11, <2>1, UserFields DEF ProcessLogicCore, Table, Found
  <2>3. QED BY <1>a, <2>1, <2>2
<1>12. CASE ProcessClearServerInfo
  BY <1>12, <1>a DEF ProcessClearServerInfo
<1>13. CASE Tick
  <2>1. Found(u) => shm[u] \in CGameUser
    BY FieldType
  <2>2. QED BY <1>13, <1>a, <2>1 DEF Tick, TypeOK, NotOffline, Found, CGameUser
<1>14. CASE ProcessOfflineCheck
  BY <1>14, <1>a DEF ProcessOfflineCheck, DropUsers, Table, Found
<1>15. CASE ProcessFlushCheck
  BY <1>15, <1>a DEF ProcessFlushCheck, DropUsers
<1>16. ASSUME NEW down \in 0..PlayLimit, NEW wiped \in BOOLEAN, Restart(down, wiped)
       PROVE  Goal
  BY <1>16 DEF Restart, TypeOK
<1>17. CASE UNCHANGED vars
  BY <1>17, <1>a DEF vars
<1>18. QED
  BY <1>1, <1>2, <1>3, <1>4, <1>5, <1>6, <1>7, <1>8, <1>9, <1>10, <1>11,
     <1>12, <1>13, <1>14, <1>15, <1>16, <1>17
     DEF Next, HallPacket, ServerPacket, Timer, ProcessUserLogin, ProcessClientClose

\* A user who loses his hall is put on the offline list and stays on it until he
\* returns or is dropped: only a restart leaves a user unwatched.
THEOREM WatchedUntilRestart == Spec => OnlyRestartUnwatches
<1>1. TypeOK /\ TypeOK' /\ [Next]_vars
        => [restarts' = restarts => \A u \in Users : Unwatched(u)' => Unwatched(u)]_vars
  BY UnwatchedStep
<1>2. QED BY <1>1, TypeCorrect, PTL DEF Spec, OnlyRestartUnwatches

-----------------------------------------------------------------------------
(* The count of a level                                                    *)

LevelMap == [AllLevels -> LEVELINFO \cup {NoEntry}]

\* What the operations of CStat do to the play count of a level.
LEMMA PlayType ==
  ASSUME NEW lm \in LevelMap, NEW l \in AllLevels
  PROVE  LevelPlay(lm, l) \in Nat
BY DEF LevelMap, LEVELINFO, LevelPlay

LEMMA LogoutPlay ==
  ASSUME NEW lm \in LevelMap, NEW n \in [AllLevels -> Nat], NEW l \in AllLevels
  PROVE  LevelPlay(LevelLogout(lm, n), l) = Monus(LevelPlay(lm, l), n[l])
<1>1. CASE lm[l] = NoEntry
  BY <1>1 DEF LevelLogout, LevelPlay, Monus
<1>2. CASE lm[l] # NoEntry
  <2> DEFINE r == [lm[l] EXCEPT !.play = Monus(@, n[l])]
  <2>1. r \in LEVELINFO /\ r.play = Monus(lm[l].play, n[l])
    BY <1>2, MonusNat DEF LevelMap, LEVELINFO
  <2>2. LevelLogout(lm, n)[l] = r
    BY <1>2 DEF LevelLogout
  <2> HIDE DEF r
  <2>3. QED BY <1>2, <2>1, <2>2, StatAssumption DEF LevelPlay, LEVELINFO
<1>3. QED BY <1>1, <1>2

LEMMA LoginPlay ==
  ASSUME NEW lm \in LevelMap, NEW x \in AllLevels, NEW l \in AllLevels
  PROVE  LevelPlay(LevelLogin(lm, x), l) =
           IF l = x THEN LevelPlay(lm, l) + 1 ELSE LevelPlay(lm, l)
<1> DEFINE r == IF lm[x] = NoEntry THEN [play |-> 1, look |-> 0]
                ELSE [play |-> lm[x].play + 1, look |-> lm[x].look]
<1>1. r \in LEVELINFO /\ r.play = LevelPlay(lm, x) + 1
  BY DEF LevelMap, LEVELINFO, LevelPlay
<1>2. LevelLogin(lm, x) = [lm EXCEPT ![x] = r]
  BY DEF LevelLogin, LevelMap
<1> HIDE DEF r
<1>3. QED BY <1>1, <1>2, StatAssumption DEF LevelPlay, LEVELINFO, LevelMap

LEMMA StandPlay ==
  ASSUME NEW lm \in LevelMap, NEW x \in AllLevels, NEW l \in AllLevels
  PROVE  /\ LevelPlay(LevelStandIn(lm, x), l) = LevelPlay(lm, l)
         /\ LevelPlay(LevelStandOut(lm, x), l) = LevelPlay(lm, l)
<1>1. CASE lm[x] = NoEntry
  BY <1>1 DEF LevelStandIn, LevelStandOut, LevelMap
<1>2. CASE lm[x] # NoEntry
  <2>1. /\ [play |-> lm[x].play, look |-> lm[x].look + 1] \in LEVELINFO
        /\ [play |-> lm[x].play, look |-> Monus(lm[x].look, 1)] \in LEVELINFO
    <3>1. lm[x].play \in Nat /\ lm[x].look \in Nat
      BY <1>2 DEF LevelMap, LEVELINFO
    <3>2. Monus(lm[x].look, 1) \in Nat
      BY <3>1 DEF Monus
    <3>3. lm[x].look + 1 \in Nat
      BY <3>1
    <3>4. QED BY <3>1, <3>2, <3>3 DEF LEVELINFO
  <2>2. QED BY <1>2, <2>1, StatAssumption
            DEF LevelStandIn, LevelStandOut, LevelPlay, LevelMap, LEVELINFO
<1>3. QED BY <1>1, <1>2

\* LevelError(l) does not grow when neither side changes, and when users leave
\* the level and the count is reduced by as many, as far as it goes.
LEMMA SameError ==
  ASSUME TypeOK, NEW l \in Levels, OnLevel(l)' = OnLevel(l),
         LevelPlay(levelMgr, l)' = LevelPlay(levelMgr, l)
  PROVE  ~(LevelError(l)' > LevelError(l))
<1>1. LevelPlay(levelMgr, l) \in Nat /\ Cardinality(OnLevel(l)) \in Nat
  BY PlayType, SetsFinite DEF TypeOK, LevelMap, AllLevels
<1>2. QED BY <1>1 DEF LevelError

LEMMA LeavingError ==
  ASSUME NEW l, NEW c \in Nat, NEW n \in Nat, NEW k \in Nat, k <= n,
         LevelPlay(levelMgr, l) = c, Cardinality(OnLevel(l)) = n,
         LevelPlay(levelMgr, l)' = Monus(c, k), Cardinality(OnLevel(l))' = n - k
  PROVE  ~(LevelError(l)' > LevelError(l))
BY DEF LevelError, Monus

LEMMA DropError ==
  ASSUME TypeOK, NEW gone \in SUBSET Table, DropUsers(gone), NEW l \in Levels
  PROVE  ~(LevelError(l)' > LevelError(l))
<1> DEFINE n == Cardinality(OnLevel(l))
           k == Cardinality(OnLevel(l) \cap gone)
<1>1. {u \in gone : shm[u].level = l} = OnLevel(l) \cap gone
  BY DEF OnLevel, Table
<1>2. PerLevel(gone)[l] = k
  BY <1>1, StatAssumption DEF PerLevel, AllLevels
<1>3. gone \in SUBSET Users
  BY DEF Table
<1>4. LevelPlay(levelMgr, l)' = Monus(LevelPlay(levelMgr, l), k)
  <2>1. levelMgr' = LevelLogout(levelMgr, PerLevel(gone))
    BY DEF DropUsers
  <2>2. levelMgr \in LevelMap /\ PerLevel(gone) \in [AllLevels -> Nat] /\ l \in AllLevels
    BY <1>3, CountType DEF TypeOK, LevelMap, AllLevels
  <2>3. QED BY <1>2, <2>1, <2>2, LogoutPlay
<1>5. Cardinality(OnLevel(l)') = n - k /\ k \in Nat /\ n \in Nat /\ k <= n
  BY UsersGone, Removed, SetsFinite DEF DropUsers
<1>6. LevelPlay(levelMgr, l) \in Nat
  BY PlayType DEF TypeOK, LevelMap, AllLevels
<1>7. QED BY <1>4, <1>5, <1>6, LeavingError

\* A handler stores the record of u, who keeps his level.
LEMMA SameLevel ==
  ASSUME TypeOK, NEW u \in Users, shm'[u] \in CGameUser, Found(u),
         shm' = [shm EXCEPT ![u] = shm'[u]], shm'[u].level = shm[u].level, NEW l
  PROVE  OnLevel(l)' = OnLevel(l)
<1>1. /\ shm'[u] # NotFound /\ shm[u] # NotFound
      /\ \A v \in Users : v # u => shm'[v] = shm[v]
  BY NotFoundAssumption DEF TypeOK, Found
<1>2. QED BY <1>1 DEF OnLevel, Table, Found

LEMMA EnterRoomError ==
  ASSUME TypeOK, NEW u \in Users, NEW s \in Servers,
         ProcessReportUserEnterRoom(u, s), NEW l \in Levels
  PROVE  ~(LevelError(l)' > LevelError(l))
<1>1. Found(u) /\ l \in AllLevels /\ levelMgr \in LevelMap /\ l # NoLevel
  BY StatAssumption DEF ProcessReportUserEnterRoom, AllLevels, TypeOK, LevelMap
<1> DEFINE old == shm[u].level
<1>2. PICK lv \in AllLevels :
        LET moves == lv # NoLevel /\ lv # old
        IN  /\ levelMgr' = IF moves
                           THEN LevelLogin(LevelLogout(levelMgr, PerLevel({u})), lv)
                           ELSE levelMgr
            /\ SetValue(u, User(shm[u].hall, s, shm[u].term,
                                IF moves THEN lv ELSE old, 0))
  BY DEF ProcessReportUserEnterRoom
<1> DEFINE moves == lv # NoLevel /\ lv # old
           new == IF moves THEN lv ELSE old
           r == User(shm[u].hall, s, shm[u].term, new, 0)
           n == Cardinality(OnLevel(l))
           c == LevelPlay(levelMgr, l)
<1>3. r \in CGameUser /\ r.level = new
  <2>1. old \in AllLevels /\ new \in AllLevels
    BY <1>1, FieldType
  <2> HIDE DEF new
  <2>2. r \in CGameUser
    BY <1>1, <2>1, FieldType, UserType, ZeroAge
  <2>3. QED BY <2>2, UserFields
<1>4. shm' = [shm EXCEPT ![u] = r]
  BY <1>1, <1>2, SetFoundValue
<1> HIDE DEF r
<1>5. shm'[u] = r /\ shm' = [shm EXCEPT ![u] = shm'[u]]
  BY <1>4 DEF TypeOK
<1>6. c \in Nat /\ n \in Nat
  BY <1>1, PlayType, SetsFinite
<1>7. CASE ~moves
  <2>1. OnLevel(l)' = OnLevel(l)
    BY <1>1, <1>3, <1>5, <1>7, SameLevel
  <2>2. levelMgr' = levelMgr
    BY <1>2, <1>7
  <2>3. QED BY <2>1, <2>2, SameError
<1>8. CASE moves
  <2> DEFINE lo == LevelLogout(levelMgr, PerLevel({u}))
  <2>1. Cardinality(OnLevel(l))' = n + Change(old = l, lv = l)
    BY <1>1, <1>3, <1>5, <1>8, OneUser DEF Change
  <2>2. PerLevel({u}) \in [AllLevels -> Nat] /\ lo \in LevelMap
    BY <1>1, CountType, LevelLogoutType DEF LevelMap
  <2>3. PerLevel({u})[l] = IF old = l THEN 1 ELSE 0
    <3>1. {v \in {u} : shm[v].level = l} = IF old = l THEN {u} ELSE {}
      OBVIOUS
    <3>2. QED BY <1>1, <3>1, FS_Singleton, FS_EmptySet DEF PerLevel
  <2>4. LevelPlay(lo, l) = Monus(c, IF old = l THEN 1 ELSE 0)
    BY <1>1, <2>2, <2>3, LogoutPlay
  <2>5. levelMgr' = LevelLogin(lo, lv)
    BY <1>2, <1>8
  <2> HIDE DEF lo
  <2>6. LevelPlay(levelMgr, l)' = IF l = lv THEN LevelPlay(lo, l) + 1 ELSE LevelPlay(lo, l)
    BY <1>1, <2>2, <2>5, LoginPlay
  <2>7. old = l => n > 0
    <3>1. old = l => u \in OnLevel(l)
      BY <1>1 DEF OnLevel, Table
    <3>2. QED BY <1>6, <3>1, SetsFinite, FS_EmptySet
  <2>8. QED BY <1>6, <1>8, <2>1, <2>4, <2>6, <2>7 DEF LevelError, Change, Monus
<1>9. QED BY <1>7, <1>8

LEMMA LeaveRoomError ==
  ASSUME TypeOK, NEW u \in Users, ProcessReportUserLeaveRoom(u), NEW l \in Levels
  PROVE  ~(LevelError(l)' > LevelError(l))
<1>1. Found(u) /\ l \in AllLevels /\ levelMgr \in LevelMap /\ l # NoLevel
  BY StatAssumption DEF ProcessReportUserLeaveRoom, AllLevels, TypeOK, LevelMap
<1> DEFINE r == User(shm[u].hall, NoTable, shm[u].term, NoLevel, 0)
           n == Cardinality(OnLevel(l))
           k == IF shm[u].level = l THEN 1 ELSE 0
<1>2. SetValue(u, r) /\ levelMgr' = LevelLogout(levelMgr, PerLevel({u}))
  BY DEF ProcessReportUserLeaveRoom
<1>3. r \in CGameUser /\ r.level = NoLevel
  <2>1. shm[u].hall \in Halls \cup {NoHall} /\ shm[u].term \in Terminals
    BY <1>1, FieldType
  <2>2. r \in CGameUser
    BY <2>1, UserType, ZeroAge DEF AllLevels
  <2>3. QED BY <2>2, UserFields
<1>4. shm' = [shm EXCEPT ![u] = r]
  BY <1>1, <1>2, SetFoundValue
<1> HIDE DEF r
<1>5. shm'[u] = r /\ shm' = [shm EXCEPT ![u] = shm'[u]]
  BY <1>4 DEF TypeOK
<1>6. n \in Nat /\ (shm[u].level = l => n > 0)
  <2>1. shm[u].level = l => u \in OnLevel(l)
    BY <1>1 DEF OnLevel, Table
  <2>2. QED BY <2>1, SetsFinite, FS_EmptySet
<1>7. Cardinality(OnLevel(l))' = n - k
  BY <1>1, <1>3, <1>5, <1>6, OneUser DEF Change
<1>8. PerLevel({u}) \in [AllLevels -> Nat] /\ PerLevel({u})[l] = k
  <2>1. {v \in {u} : shm[v].level = l} = IF shm[u].level = l THEN {u} ELSE {}
    OBVIOUS
  <2>2. PerLevel({u})[l] = k
    BY <1>1, <2>1, FS_Singleton, FS_EmptySet DEF PerLevel
  <2>3. QED BY <2>2, CountType
<1>9. LevelPlay(levelMgr, l)' = Monus(LevelPlay(levelMgr, l), k)
  BY <1>1, <1>2, <1>8, LogoutPlay
<1>10. LevelPlay(levelMgr, l) \in Nat
  BY <1>1, PlayType
<1>11. QED BY <1>6, <1>7, <1>9, <1>10, LeavingError

LEMMA LogicCoreError ==
  ASSUME TypeOK, NEW s \in Servers, ProcessLogicCore(s), NEW l \in Levels
  PROVE  ~(LevelError(l)' > LevelError(l))
<1> DEFINE up == {u \in Table : shm[u].tid = s}
           n == Cardinality(OnLevel(l))
           k == Cardinality(OnLevel(l) \cap up)
<1>1. l \in AllLevels /\ levelMgr \in LevelMap /\ l # NoLevel
  BY StatAssumption DEF AllLevels, TypeOK, LevelMap
<1>2. {u \in up : shm[u].level = l} = OnLevel(l) \cap up
  BY DEF OnLevel
<1>3. PerLevel(up) \in [AllLevels -> Nat] /\ PerLevel(up)[l] = k
  <2>1. up \in SUBSET Users
    BY DEF Table
  <2>2. QED BY <1>1, <1>2, <2>1, CountType DEF PerLevel
<1>4. OnLevel(l)' = OnLevel(l) \ up
  BY <1>1, LogicCoreUsers DEF OnLevel, Table, Found
<1>5. levelMgr' = LevelLogout(levelMgr, PerLevel(up))
  BY DEF ProcessLogicCore
<1> HIDE DEF up
<1>6. Cardinality(OnLevel(l)') = n - k /\ k \in Nat /\ n \in Nat /\ k <= n
  BY <1>4, Removed, SetsFinite
<1>7. LevelPlay(levelMgr, l)' = Monus(LevelPlay(levelMgr, l), k)
  BY <1>1, <1>3, <1>5, LogoutPlay
<1>8. LevelPlay(levelMgr, l) \in Nat
  BY <1>1, PlayType
<1>9. QED BY <1>6, <1>7, <1>8, LeavingError

\* A restart counts the users at a table on their levels, and a user with a
\* level is at a table.
LEMMA RestartError ==
  ASSUME TypeOK, LevelOnlyAtTable', NEW down \in 0..PlayLimit, NEW wiped \in BOOLEAN,
         Restart(down, wiped), NEW l \in Levels
  PROVE  ~(LevelError(l)' > LevelError(l))
<1>1. l \in AllLevels /\ levelMgr \in LevelMap /\ l # NoLevel
  BY StatAssumption DEF AllLevels, TypeOK, LevelMap
<1> DEFINE n == Cardinality(OnLevel(l)')
<1>2. {u \in Users : /\ shm'[u] # NotFound /\ shm'[u].level = l
                     /\ shm'[u].tid # NoTable} = OnLevel(l)'
  BY <1>1 DEF OnLevel, Table, Found, LevelOnlyAtTable
<1>3. n \in Nat
  <2>1. OnLevel(l)' \in SUBSET Users
    BY DEF OnLevel, Table
  <2>2. QED BY <2>1, CountType
<1>4. levelMgr'[l] = IF n = 0 THEN NoEntry ELSE [play |-> n, look |-> 0]
  BY <1>1, <1>2 DEF Restart, CountLevels
<1>5. n # 0 => [play |-> n, look |-> 0] # NoEntry
  BY <1>3, StatAssumption
<1>6. LevelPlay(levelMgr, l)' = n
  BY <1>4, <1>5 DEF LevelPlay
<1>7. LevelPlay(levelMgr, l) \in Nat /\ Cardinality(OnLevel(l)) \in Nat
  BY <1>1, PlayType, SetsFinite
<1>8. QED BY <1>3, <1>6, <1>7 DEF LevelError

\* A login stores the user with his old level, or at a table with another one.
LEMMA LoginError ==
  ASSUME TypeOK, TypeOK', NEW u \in Users, NEW r \in CGameUser, StoreLogin(u, r),
         r.hall # NoHall, r.age = 0, levelMgr' = levelMgr, NEW l \in Levels,
         r.tid = NoTable => r.level = NoLevel /\ (Found(u) => shm[u].level = NoLevel),
         LevelError(l)' > LevelError(l)
  PROVE  /\ Seated(u)' /\ offline'[u] = NotOffline
         /\ shm'[u].age = 0 /\ shm'[u].hall # NoHall
<1>1. /\ offline'[u] = NotOffline
      /\ \A v \in Users \ {u} : shm'[v] = shm[v]
      /\ ~(Found(u) \/ Cardinality(Table) < Capacity) => shm' = shm
      /\ Found(u) \/ Cardinality(Table) < Capacity =>
           /\ shm'[u] \in CGameUser
           /\ shm'[u].tid = r.tid
           /\ shm'[u].hall = r.hall /\ shm'[u].age = r.age
           /\ r.tid = NoTable => shm'[u].level = r.level
  BY StoreLoginUser DEF TypeOK
<1>2. LevelPlay(levelMgr, l)' = LevelPlay(levelMgr, l)
  OBVIOUS
<1>3. OnLevel(l)' # OnLevel(l)
  BY <1>2, SameError
<1>4. Found(u) \/ Cardinality(Table) < Capacity
  BY <1>1, <1>3 DEF OnLevel, Table, Found
<1>5. r.tid # NoTable
  <2> SUFFICES ASSUME r.tid = NoTable PROVE OnLevel(l)' = OnLevel(l)
    BY <1>3
  <2>1. l # NoLevel /\ shm'[u].level = NoLevel /\ (Found(u) => shm[u].level = NoLevel)
    BY <1>1, <1>4, StatAssumption
  <2>2. QED BY <1>1, <2>1 DEF OnLevel, Table, Found
<1>6. QED BY <1>1, <1>4, <1>5, NotFoundAssumption DEF Seated, Found

LEMMA LevelStep ==
  ASSUME OfflineInv, OfflineInv', [Next]_vars, NEW l \in Levels,
         LevelError(l)' > LevelError(l)
  PROVE  \E u \in Users : /\ Seated(u)' /\ offline'[u] = NotOffline
                          /\ shm'[u].age = 0 /\ shm'[u].hall # NoHall
                          /\ UNCHANGED levelMgr
<1> USE DEF timers, stat
<1> DEFINE Login == \E u \in Users : /\ Seated(u)' /\ offline'[u] = NotOffline
                                     /\ shm'[u].age = 0 /\ shm'[u].hall # NoHall
                                     /\ UNCHANGED levelMgr
<1>a. TypeOK /\ TypeOK' /\ LevelOnlyAtTable /\ LevelOnlyAtTable'
  BY DEF OfflineInv
<1>b. ASSUME \A v \in Users :
               /\ shm'[v] = NotFound <=> shm[v] = NotFound
               /\ Found(v) => /\ shm'[v].term = shm[v].term
                              /\ shm'[v].tid = shm[v].tid
                              /\ shm'[v].level = shm[v].level,
             LevelPlay(levelMgr, l)' = LevelPlay(levelMgr, l)
      PROVE  FALSE
  BY <1>a, <1>b, SameUsers, SameError
<1>c. l \in AllLevels /\ levelMgr \in LevelMap
  BY <1>a DEF AllLevels, TypeOK, LevelMap
<1>1. ASSUME NEW u \in Users, NEW h \in Halls, NEW t \in Terminals, ReLogin(u, h, t)
      PROVE  Login
  <2> DEFINE r == User(h, shm[u].tid, t, shm[u].level, 0)
  <2>1. Found(u) /\ StoreLogin(u, r) /\ levelMgr' = levelMgr
    BY <1>1 DEF ReLogin
  <2>2. r \in CGameUser
    BY <1>a, <2>1, FieldType, UserType, ZeroAge
  <2>3. /\ r.hall = h /\ r.age = 0 /\ r.tid = shm[u].tid /\ r.level = shm[u].level
    BY UserFields
  <2> HIDE DEF r
  <2>4. r.tid = NoTable => r.level = NoLevel /\ shm[u].level = NoLevel
    BY <1>a, <2>1, <2>3 DEF LevelOnlyAtTable, Table
  <2>5. r.hall # NoHall
    BY <2>3, UserServerAssumption
  <2>6. QED BY <1>a, <2>1, <2>2, <2>3, <2>4, <2>5, LoginError
<1>2. ASSUME NEW u \in Users, NEW h \in Halls, NEW t \in Terminals,
             NEW tid \in Servers \cup {NoTable}, FirstLogin(u, h, t, tid)
      PROVE  Login
  <2> DEFINE r == User(h, tid, t, NoLevel, 0)
  <2>1. ~Found(u) /\ StoreLogin(u, r) /\ levelMgr' = levelMgr
    BY <1>2 DEF FirstLogin
  <2>2. r \in CGameUser
    BY UserType, ZeroAge DEF AllLevels
  <2>3. r.hall = h /\ r.age = 0 /\ r.level = NoLevel
    BY UserFields
  <2> HIDE DEF r
  <2>4. r.hall # NoHall
    BY <2>3, UserServerAssumption
  <2>5. QED BY <1>a, <2>1, <2>2, <2>3, <2>4, LoginError
<1>3. ASSUME NEW u \in Users, CloseAtTable(u)
      PROVE  Login
  <2> DEFINE r == User(NoHall, shm[u].tid, shm[u].term, shm[u].level, 0)
  <2>1. Found(u) /\ shm' = [shm EXCEPT ![u] = r] /\ levelMgr' = levelMgr
    BY <1>3, <1>a, SetFoundValue DEF CloseAtTable, Seated
  <2>2. r \in CGameUser
    BY <2>1, <1>a, FieldType, UserType, ZeroAge
  <2>3. r.level = shm[u].level
    BY UserFields
  <2> HIDE DEF r
  <2>4. shm'[u] = r /\ shm' = [shm EXCEPT ![u] = shm'[u]]
    BY <1>a, <2>1 DEF TypeOK
  <2>5. OnLevel(l)' = OnLevel(l)
    BY <1>a, <2>1, <2>2, <2>3, <2>4, SameLevel
  <2>6. QED BY <1>a, <2>1, <2>5, SameError
<1>4. ASSUME NEW u \in Users, CloseInHall(u)
      PROVE  Login
  <2>1. shm[u].level = NoLevel /\ l # NoLevel
    BY <1>4, <1>a, StatAssumption DEF CloseInHall, Seated, LevelOnlyAtTable, Table
  <2>2. OnLevel(l)' = OnLevel(l)
    BY <1>4, <1>a, <2>1 DEF CloseInHall, OnLevel, Table, Found, TypeOK
  <2>3. levelMgr' = levelMgr
    BY <1>4 DEF CloseInHall
  <2>4. QED BY <1>a, <2>2, <2>3, SameError
<1>5. ASSUME NEW u \in Users, ProcessGetUserTable(u)
      PROVE  Login
  <2>1. /\ Found(u) /\ shm' = [shm EXCEPT ![u] = [shm[u] EXCEPT !.age = 0]]
        /\ levelMgr' = levelMgr
    BY <1>5, <1>a, SetFoundValue DEF ProcessGetUserTable, Seated
  <2>2. [shm[u] EXCEPT !.age = 0] \in CGameUser
    BY <2>1, <1>a, FieldType, ZeroAge DEF CGameUser
  <2>3. OnLevel(l)' = OnLevel(l)
    BY <1>a, <2>1, <2>2, SameUsers, FieldType, NotFoundAssumption DEF TypeOK, Found, CGameUser
  <2>4. QED BY <1>a, <2>1, <2>3, SameError
<1>6. ASSUME NEW h \in Halls, ProcessHallCore(h)
      PROVE  Login
  <2>1. \A v \in Users : Found(v) => /\ [shm[v] EXCEPT !.hall = NoHall] \in CGameUser
                                      /\ shm[v] \in CGameUser
    BY <1>a DEF Found, TypeOK, CGameUser
  <2>2. OnLevel(l)' = OnLevel(l)
    BY <1>6, <2>1, SameUsers, NotFoundAssumption DEF ProcessHallCore, Table, Found, CGameUser
  <2>3. levelMgr' = levelMgr
    BY <1>6 DEF ProcessHallCore
  <2>4. QED BY <1>a, <2>2, <2>3, SameError
<1>7. ASSUME NEW u \in Users, NEW s \in Servers, ProcessReportUserEnterRoom(u, s)
      PROVE  Login
  BY <1>7, <1>a, EnterRoomError
<1>8. ASSUME NEW u \in Users, NEW s \in Servers, ProcessReportUserStandRoom(u, s)
      PROVE  Login
  <2>1. /\ Found(u) /\ shm' = shm
        /\ levelMgr' \in {levelMgr, LevelStandIn(levelMgr, shm[u].level)}
    BY <1>8 DEF ProcessReportUserStandRoom
  <2>2. LevelPlay(levelMgr, l)' = LevelPlay(levelMgr, l)
    BY <1>a, <1>c, <2>1, FieldType, StandPlay
  <2>3. OnLevel(l)' = OnLevel(l)
    BY <2>1 DEF OnLevel, Table, Found
  <2>4. QED BY <1>a, <2>2, <2>3, SameError
<1>9. ASSUME NEW u \in Users, ProcessReportUserLeaveRoom(u)
      PROVE  Login
  BY <1>9, <1>a, LeaveRoomError
<1>10. ASSUME NEW u \in Users, ProcessReportStandLeaveRoom(u)
       PROVE  Login
  <2>1. /\ Found(u) /\ shm' = shm
        /\ levelMgr' \in {levelMgr, LevelStandOut(levelMgr, shm[u].level)}
    BY <1>10 DEF ProcessReportStandLeaveRoom
  <2>2. LevelPlay(levelMgr, l)' = LevelPlay(levelMgr, l)
    BY <1>a, <1>c, <2>1, FieldType, StandPlay
  <2>3. OnLevel(l)' = OnLevel(l)
    BY <2>1 DEF OnLevel, Table, Found
  <2>4. QED BY <1>a, <2>2, <2>3, SameError
<1>11. ASSUME NEW s \in Servers, ProcessLogicCore(s)
       PROVE  Login
  BY <1>11, <1>a, LogicCoreError
<1>12. CASE ProcessClearServerInfo
  BY <1>12, <1>b DEF ProcessClearServerInfo
<1>13. CASE Tick
  <2>1. \A v \in Users : Found(v) =>
          /\ shm[v] \in CGameUser
          /\ shm[v].age < PlayLimit => [shm[v] EXCEPT !.age = @ + 1] \in CGameUser
    BY <1>a, UserServerAssumption DEF Found, TypeOK, CGameUser
  <2>2. OnLevel(l)' = OnLevel(l)
    BY <1>13, <2>1, SameUsers, NotFoundAssumption DEF Tick, Found, CGameUser
  <2>3. levelMgr' = levelMgr
    BY <1>13 DEF Tick
  <2>4. QED BY <1>a, <2>2, <2>3, SameError
<1>14. CASE ProcessOfflineCheck
  <2>1. \E gone \in SUBSET Table : DropUsers(gone)
    BY <1>14 DEF ProcessOfflineCheck
  <2>2. QED BY <1>a, <2>1, DropError
<1>15. CASE ProcessFlushCheck
  <2>1. \E gone \in SUBSET Table : DropUsers(gone)
    BY <1>15 DEF ProcessFlushCheck
  <2>2. QED BY <1>a, <2>1, DropError
<1>16. ASSUME NEW down \in 0..PlayLimit, NEW wiped \in BOOLEAN, Restart(down, wiped)
       PROVE  Login
  BY <1>16, <1>a, RestartError
<1>17. CASE UNCHANGED vars
  BY <1>17, <1>b DEF vars
<1>18. QED
  BY <1>1, <1>2, <1>3, <1>4, <1>5, <1>6, <1>7, <1>8, <1>9, <1>10, <1>11,
     <1>12, <1>13, <1>14, <1>15, <1>16, <1>17
     DEF Next, HallPacket, ServerPacket, Timer, ProcessUserLogin, ProcessClientClose

\* The count of a level departs further from the users recorded on it only when a
\* user who is at a table logs in, which overwrites his level behind CStat's back.
THEOREM LevelWrongOnlyByLogin == Spec => LevelErrorOnlyAtLogin
<1>1. OfflineInv /\ OfflineInv' /\ [Next]_vars =>
        [\A l \in Levels : LevelError(l)' > LevelError(l) =>
           \E u \in Users : /\ Seated(u)' /\ offline'[u] = NotOffline
                            /\ shm'[u].age = 0 /\ shm'[u].hall # NoHall
                            /\ UNCHANGED levelMgr]_vars
  BY LevelStep
<1>2. QED BY <1>1, OfflineInvariant, PTL DEF Spec, LevelErrorOnlyAtLogin
=============================================================================
