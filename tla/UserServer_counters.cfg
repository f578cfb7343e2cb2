\* Terminal counters: two users who fit in the table, two terminals, timers
\* and a restart.  Levels play no part in these counters.
SPECIFICATION Spec
CONSTANTS
  Users = {u1, u2}
  Halls = {h1}
  NoHall = NoHall
  Servers = {s1}
  NoTable = NoTable
  Terminals = {t1, t2}
  Levels = {}
  NoLevel = NoLevel
  NoEntry = NoEntry
  NotFound = NotFound
  Capacity = 2
  OfflineLimit = 1
  IdleLimit = 1
  PlayLimit = 2
  OfflinePeriod = 1
  FlushPeriod = 2
  LoginWindow = 0
  MaxCount = 2
  MaxLook = 0
  MaxRestarts = 1
SYMMETRY UserSymmetry
INVARIANTS
  TypeOK
  OnlineCounted
  PlayNeverOver
PROPERTIES
  PlayGapOnlyAtRecovery
