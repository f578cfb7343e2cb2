\* The loop with the report, the offline check and the timer of the link, while
\* the clock is set back and forward and the report interval is changed, also to 0.
SPECIFICATION FairSpec
CONSTANTS
  Checks = {"offline_check"}
  FlushInterval = 2
  OfflineInterval = 2
  LinkInterval = 1
  TJIntervals = {0, 1}
  Precision = 2
  MaxWait = 1
  MaxWork = 1
  Overrun = 1
  ClockBound = 1
INVARIANTS
  ListsSound
  NotLate
PROPERTIES
  NotEarly
  ChecksGoOn
