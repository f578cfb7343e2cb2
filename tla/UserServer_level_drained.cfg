\* Does the count of a level return to zero when its users are gone?
SPECIFICATION Spec
CONSTANTS
  Users = {u1, u2}
  Halls = {h1}
  NoHall = NoHall
  Servers = {s1}
  NoTable = NoTable
  Terminals = {t1}
  Levels = {l1}
  NoLevel = NoLevel
  NoEntry = NoEntry
  NotFound = NotFound
  Capacity = 2
  OfflineLimit = 1
  IdleLimit = 1
  PlayLimit = 2
  OfflinePeriod = 1
  FlushPeriod = 2
  LoginWindow = 0
  MaxCount = 2
  MaxLook = 0
  MaxRestarts = 0
SYMMETRY UserSymmetry
INVARIANTS
  LevelDrained
