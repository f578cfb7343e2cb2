\* Users without a hall, in a table with room for one of two users: two halls,
\* checks whose periods and limits differ, spectators.  Liveness is checked, so
\* there is no symmetry.
SPECIFICATION FairSpec
CONSTANTS
  Users = {u1, u2}
  Halls = {h1, h2}
  NoHall = NoHall
  Servers = {s1}
  NoTable = NoTable
  Terminals = {t1}
  Levels = {}
  NoLevel = NoLevel
  NoEntry = NoEntry
  NotFound = NotFound
  Capacity = 1
  OfflineLimit = 2
  IdleLimit = 2
  PlayLimit = 2
  OfflinePeriod = 2
  FlushPeriod = 3
  LoginWindow = 0
  MaxCount = 3
  MaxLook = 1
  MaxRestarts = 1
INVARIANTS
  OfflineDetached
  OfflineBounded
  OnlineCounted
PROPERTIES
  OnlyRestartUnwatches
  DetachedResolved
