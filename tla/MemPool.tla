------------------------------- MODULE MemPool -------------------------------
(***************************************************************************)
(* CMemPool (src/core/mempool.cpp): lists of free blocks by size, and the  *)
(* set of all blocks of each size.  Methods are operators on the pool, a   *)
(* record of free, stub, allocated (_allocated_size) and mark              *)
(* (_water_mark).  Sizes are scaled down: the constants stand for the      *)
(* limits of mempool.cpp and mempool.h.  Blocks of one size are alike, so  *)
(* the order of a free list is left out: free and stub are sets, of the    *)
(* numbers that blocks have among those of their size.                     *)
(***************************************************************************)
EXTENDS Integers, FiniteSets, FiniteSetsExt

CONSTANTS
  BlockUnit,     \* the smallest block (1024)
  MaxOrder,      \* block sizes are BlockUnit * 2^k, k <= MaxOrder
  ExtendSet,     \* C_EXTEND_SET
  Slot1, Slot2,  \* C_SLOT_1, C_SLOT_2
  KeepFree,      \* free memory of one size that is never released (1 << 20)
  MaxWaterMark,  \* C_MAX_WATER_MARK
  MaxPoolSize    \* C_MAX_POOL_SIZE

ASSUME MemPoolAssumption ==
  /\ {BlockUnit, ExtendSet, Slot1, Slot2, KeepFree, MaxPoolSize} \subseteq Nat \ {0}
  /\ MaxWaterMark \in Nat /\ MaxOrder \in Nat

NULL == 0
AllocCapacity == 2 * Slot2

\* The block sizes: each is twice the one before.
Size[k \in 0..MaxOrder] == IF k = 0 THEN BlockUnit ELSE 2 * Size[k - 1]
BlockSizes == {Size[k] : k \in 0..MaxOrder}

EmptyPool == [free |-> [z \in BlockSizes |-> {}], stub |-> [z \in BlockSizes |-> {}],
              allocated |-> 0, mark |-> MaxWaterMark]

\* The smallest size above the request.
fit_block_size(size) == Min({z \in BlockSizes : z > size})

\* How many free blocks of a size release gives back (release_size).
ReleaseCount(pool, size) ==
  LET free == Cardinality(pool.free[size])
  IN  CASE free * size < KeepFree -> 0
        [] free * size >= KeepFree /\ size > Slot2 -> IF free > 1 THEN free \div 2 ELSE free
        [] free * size >= KeepFree /\ size <= Slot2 ->
             IF \/ free >= Cardinality(pool.stub[size]) \div 2
                \/ free * size >= pool.mark
             THEN free \div 2 ELSE 0

\* The n blocks of a set that come last.
LastOf(n, blocks) ==
  CHOOSE s \in SUBSET blocks : Cardinality(s) = n /\ \A b \in s, d \in blocks \ s : b > d

\* Mutant: released blocks stay in the set of all blocks.
release_keeps_stub(pool, size) ==
  LET todo == ReleaseCount(pool, size)
  IN  [pool EXCEPT !.free[size] = @ \ LastOf(todo, @), !.allocated = @ - size * todo]

release(pool, size) ==
  LET todo == ReleaseCount(pool, size)
      gone == LastOf(todo, pool.free[size])
  IN  [pool EXCEPT !.free[size] = @ \ gone, !.stub[size] = @ \ gone,
                   !.allocated = @ - size * todo]

\* The loop of release_size(mem_size): the pool after j turns, from the largest
\* size down to half of C_SLOT_1, until mem_size bytes are gone.
PurgeLoop(pool, mem_size) ==
  LET after[j \in 0..MaxOrder + 1] ==
        IF j = 0 THEN [pool EXCEPT !.mark = AllocCapacity]
        ELSE LET p == after[j - 1]
                 size == Size[MaxOrder + 1 - j]
             IN  IF pool.allocated - p.allocated >= mem_size \/ 2 * size < Slot1
                 THEN p ELSE release(p, size)
  IN  after

\* release_size(mem_size): the water mark is lowered during the loop.
Purge(pool, mem_size) ==
  [PurgeLoop(pool, mem_size)[MaxOrder + 1] EXCEPT !.mark = MaxWaterMark]

fit_extend_set(size) ==
  CASE size < Slot1 -> ExtendSet
    [] size >= Slot1 /\ size < Slot2 -> AllocCapacity \div size
    [] size >= Slot2 -> 1

\* new char[size]: blocks that did not exist.
NewBlocks(pool, size, n) ==
  LET used == pool.stub[size] IN LastOf(n, (1..Cardinality(used) + n) \ used)

\* Mutant: the limit is not compared.
extend_unlimited(pool, size) ==
  LET n == fit_extend_set(size)
      new == NewBlocks(pool, size, n)
  IN  [pool EXCEPT !.free[size] = @ \cup new, !.stub[size] = @ \cup new,
                   !.allocated = @ + size * n]

\* extend: fetches a set of blocks, after a purge if the limit is reached; the
\* pool as it is after the purge if that did not free enough.
extend(pool, size) ==
  LET n == fit_extend_set(size)
      over == pool.allocated + size * n - MaxPoolSize
      purged == IF over >= 0 THEN Purge(pool, over) ELSE pool
      new == NewBlocks(purged, size, n)
  IN  IF over >= 0 /\ pool.allocated - purged.allocated < over THEN purged
      ELSE [purged EXCEPT !.free[size] = @ \cup new, !.stub[size] = @ \cup new,
                          !.allocated = @ + size * n]

\* allocate, with extend_new_size: the block and the pool without it.
allocate(pool, size) ==
  LET z == fit_block_size(size)
      p == IF pool.free[z] = {} THEN extend(pool, z) ELSE pool
  IN  IF p.free[z] = {} THEN [mem |-> NULL, size |-> z, pool |-> p]
      ELSE [mem |-> Min(p.free[z]), size |-> z,
            pool |-> [p EXCEPT !.free[z] = @ \ {Min(@)}]]

recycle(pool, block, size) ==
  IF block \notin pool.stub[size] THEN pool
  ELSE release([pool EXCEPT !.free[size] = @ \cup {block}], size)
-----------------------------------------------------------------------------
\* The bytes of a family of sets of blocks, one set for each size.
Bytes(blocks) == UNION {{z} \X (blocks[z] \X (1..z)) : z \in BlockSizes}
=============================================================================
