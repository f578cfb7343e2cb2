\* The link object under every failure of its connection: its fields agree, the
\* TJ server reads whole reports in order and catches up when the failures end.
SPECIFICATION FairSpec
CONSTANTS
  Pieces = 2
  StatBound = 2
  QueueBound = 4
INVARIANTS
  LinkConsistent
PROPERTIES
  ReportsInOrder
  GivenUpOnlyByReconnect
  CatchesUp
