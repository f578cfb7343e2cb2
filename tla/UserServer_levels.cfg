\* Level counters: a server that may change its level, time only matters
\* for the drops.
SPECIFICATION Spec
CONSTANTS
  Users = {u1, u2}
  Halls = {h1}
  NoHall = NoHall
  Servers = {s1}
  NoTable = NoTable
  Terminals = {t1}
  Levels = {l1, l2}
  NoLevel = NoLevel
  NoEntry = NoEntry
  NotFound = NotFound
  Capacity = 2
  OfflineLimit = 1
  IdleLimit = 1
  PlayLimit = 1
  OfflinePeriod = 1
  FlushPeriod = 1
  LoginWindow = 0
  MaxCount = 2
  MaxLook = 0
  MaxRestarts = 1
SYMMETRY UserSymmetry
INVARIANTS
  LevelOnlyAtTable
PROPERTIES
  LevelErrorOnlyAtLogin
