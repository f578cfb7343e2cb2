-------------------------------- MODULE Stat --------------------------------
(***************************************************************************)
(* The statistics singleton CStat (Server/Stat.cpp): per terminal type how *)
(* many users are online, playing and looking on; per room level how many  *)
(* are playing and looking on.  The operations are pure: each takes the    *)
(* map it updates and returns the new one.  Operations that the callers    *)
(* apply in a loop over users take the number of applications per key; the *)
(* code's "if (count > 0) count--" repeated n times is truncated           *)
(* subtraction.                                                            *)
(***************************************************************************)
EXTENDS Integers, FiniteSets

CONSTANTS
  Terminals,  \* terminal types, the keys of m_terminalStatMap
  Levels,     \* levels of the game servers, keys of m_LevelMgr
  NoLevel,    \* -1, the level of a user who is at no known server
  NoEntry     \* what m_LevelMgr.find returns for a missing key

ASSUME StatAssumption ==
  /\ IsFiniteSet(Terminals)
  /\ NoLevel \notin Levels
  /\ NoEntry \notin [play : Nat, look : Nat]

AllLevels == Levels \cup {NoLevel}

DATAINFO == [online : Nat, play : Nat, look : Nat]
LEVELINFO == [play : Nat, look : Nat]

\* Mutant: the test for a positive count is forgotten.
MonusUnchecked(a, b) == a - b

Monus(a, b) == IF a > b THEN a - b ELSE 0

\* operator[] of the terminal map creates a zero entry, so a terminal that
\* was never seen and one whose counters are all zero behave alike.
NoTerminals == [t \in Terminals |-> [online |-> 0, play |-> 0, look |-> 0]]
NoLevels == [l \in AllLevels |-> NoEntry]

-----------------------------------------------------------------------------
(* UpdateTerminalInfo                                                      *)

\* TERMINAL_LOGINHALL of a user who was not in the user table.
UserLoginHall(st, t) == [st EXCEPT ![t].online = @ + 1]

\* Mutant: the new terminal gains the user, the old one keeps him.
ReloadKeepsOld(st, pre, seated, t) ==
  IF pre = t THEN st ELSE [st EXCEPT ![t].online = @ + 1]

\* Mutant: a player who changes terminals is not counted on the new one.
ReloadLosesPlayer(st, pre, seated, t) ==
  LET m == IF seated /\ st[pre].play > 0 THEN 1 ELSE 0
  IN  IF pre = t THEN st
      ELSE [st EXCEPT ![pre].online = Monus(@, 1), ![pre].play = @ - m,
                      ![t].online = @ + 1]

\* TERMINAL_LOGINHALL of a user who already was, on terminal pre, at a table
\* or not.  Nothing changes unless the terminal does.
UserReloadHall(st, pre, seated, t) ==
  LET m == IF seated /\ st[pre].play > 0 THEN 1 ELSE 0
  IN  IF pre = t THEN st
      ELSE [x \in Terminals |->
              IF x = pre THEN [online |-> Monus(st[x].online, 1),
                               play |-> st[x].play - m, look |-> st[x].look]
              ELSE IF x = t THEN [online |-> st[x].online + 1,
                                  play |-> st[x].play + m, look |-> st[x].look]
              ELSE st[x]]

\* n[t] users of terminal t leave the hall.
UserLogoutHall(st, n) ==
  [t \in Terminals |-> [st[t] EXCEPT !.online = Monus(@, n[t])]]

UserLoginTable(st, t) == [st EXCEPT ![t].play = @ + 1]

\* n[t] users of terminal t leave their table.
UserLogoutTable(st, n) ==
  [t \in Terminals |-> [st[t] EXCEPT !.play = Monus(@, n[t])]]

UserStandTable(st, t) == [st EXCEPT ![t].look = @ + 1]
UserStandLeaveTable(st, t) == [st EXCEPT ![t].look = Monus(@, 1)]

-----------------------------------------------------------------------------
(* UpdateLevelInfo                                                         *)

\* LEVEL_LOGIN creates the entry; the other three ignore a missing one.
LevelLogin(lm, l) ==
  [lm EXCEPT ![l] = IF @ = NoEntry
                  THEN [play |-> 1, look |-> 0]
                  ELSE [play |-> @.play + 1, look |-> @.look]]

\* n[l] users of level l log out of it.
LevelLogout(lm, n) ==
  [l \in AllLevels |-> IF lm[l] = NoEntry THEN NoEntry
                       ELSE [lm[l] EXCEPT !.play = Monus(@, n[l])]]

LevelStandIn(lm, l) ==
  [lm EXCEPT ![l] = IF @ = NoEntry THEN NoEntry
                  ELSE [play |-> @.play, look |-> @.look + 1]]

LevelStandOut(lm, l) ==
  [lm EXCEPT ![l] = IF @ = NoEntry THEN NoEntry
                  ELSE [play |-> @.play, look |-> Monus(@.look, 1)]]

\* The play count that a reader of the map sees for level l.
LevelPlay(lm, l) == IF lm[l] = NoEntry THEN 0 ELSE lm[l].play
=============================================================================
