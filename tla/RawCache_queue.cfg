\* Two buffers on one pool; all ways to append, blocks in every range of sizes, purges.
SPECIFICATION Spec
CONSTANTS
  Caches = {r, w}
  StreamMod = 3
  RecvSizes = {1, 4}
  MaxData = 8
  BlockUnit = 2
  MaxOrder = 3
  ExtendSet = 2
  Slot1 = 4
  Slot2 = 8
  KeepFree = 4
  MaxWaterMark = 24
  MaxPoolSize = 32
INVARIANTS
  BlocksSound
  PoolBounded
PROPERTIES
  CachesAreQueues
SYMMETRY CacheSymmetry
CHECK_DEADLOCK FALSE
