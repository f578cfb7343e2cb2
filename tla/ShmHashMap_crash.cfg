\* Records of one chunk each, as the server stores them, and room for three; two
\* contents, to tell an old record from the new one.
\* A start that formats an existing segment keeps no record, so what a crash
\* leaves is asked of starts that do not.
SPECIFICATION CrashSpec
CONSTANTS
  Keys = {1, 2, 3}
  Data = {d1, d2}
  d1 = d1
  d2 = d2
  big = big
  NotFound = NotFound
  Torn = Torn
  NodeTotal = 3
  BucketSize = 2
  ChunkTotal = 3
  ChunkSize = 2
  DataLen <- MCDataLen
  InitFlags = {FALSE}
SYMMETRY RecordSymmetry
\* a process whose Init fails gives up, and a damaged pool is not followed
CHECK_DEADLOCK FALSE
INVARIANTS
  CrashLeavesWalkable
PROPERTIES
  CrashKeepsOthers
