\* Every file of three lines, read and followed by messages to both logs.
SPECIFICATION Spec
CONSTANTS
  PlainLines <- MCPlainLines
  OddLines <- MCOddLines
  MaxLines = 3
  LoggedLines = 2
  DefLogNum = 2
  DefLogSize = 1
  DEFAULT_FILE_NUM = 3
  DEFAULT_FILE_SIZE = 2
  DefRandCount = 1
  MaxFile = 2
  MaxSize = 1
  Lengths = {1, 2}
  MaxMessages = 5
\* the messages are bounded
CHECK_DEADLOCK FALSE
INVARIANTS
  ConfigRead
  LogKeepsRecent
  DebugInOrder
