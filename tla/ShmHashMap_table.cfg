\* Records of one and two chunks, and a key more than there are nodes;
\* the flag that open gets for an existing segment may have any value.
SPECIFICATION Spec
CONSTANTS
  Keys = {1, 2, 3}
  Data = {d1, big}
  d1 = d1
  d2 = d2
  big = big
  NotFound = NotFound
  Torn = Torn
  NodeTotal = 2
  BucketSize = 2
  ChunkTotal = 3
  ChunkSize = 2
  DataLen <- MCDataLen
  InitFlags = {TRUE, FALSE}
INVARIANTS
  PoolSound
PROPERTIES
  ImplementsTable
