SPECIFICATION Spec
CONSTANTS
  BufferSize = 57
  TempSize = 70
  Requests <- McRequests
  Totals <- McTotals
  Stats <- McStats
  Tables <- McTables
  Uids = {66000}
  Svids = {7}
  Draws <- McDraws
  AddCount = 3
  ServerId = 258
  Garbles = {1}
  Trailers <- McTrailers
INVARIANTS
  RequestsAnswered
  OversizedReadsOn
  ReportsReadBack
PROPERTIES
  TotalsFollow
