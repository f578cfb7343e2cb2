------------------------------- MODULE RawCache -------------------------------
(***************************************************************************)
(* CRawCache (src/core/cache.cpp), the input and output buffers of the     *)
(* connections, all of them fed by one CMemPool.  A buffer is a block of   *)
(* the pool with an offset and a length.                                   *)
(***************************************************************************)
EXTENDS MemPool, Sequences

CONSTANTS
  Caches,     \* the buffers
  StreamMod,  \* bytes are numbered modulo this
  RecvSizes,  \* bound: how many bytes one append may bring
  MaxData     \* bound: bytes in a buffer

ASSUME RawCacheAssumption ==
  /\ StreamMod \in Nat \ {0} /\ RecvSizes \subseteq Nat \ {0}
  /\ MaxData \in Nat /\ MaxData < Size[MaxOrder]

VARIABLES
  pool,    \* the memory pool
  cache,   \* per buffer _mem, _block_size, _data_head, _data_len
  heap,    \* the contents of the blocks in use; what is no buffer's data is Junk
  next,    \* bytes ever appended to each buffer, modulo StreamMod
  thrown   \* allocate returned NULL and append threw

vars == <<pool, cache, heap, next, thrown>>

Junk == -1
NoBlock == [mem |-> NULL, size |-> 0, head |-> 0, len |-> 0]

\* The bytes of a buffer, as data() and data_len() give them.
Block(b) == <<b.size, b.mem>>
Data(c) == LET b == cache[c]
           IN  [i \in 1..b.len |-> heap[Block(b)][b.head + i]]

Stream(from, n) == [i \in 1..n |-> (from + i - 1) % StreamMod]

\* memcpy of bytes to an offset of a block.
Copy(contents, at, bytes) ==
  [i \in DOMAIN contents |->
     IF i \in at + 1..at + Len(bytes) THEN bytes[i - at] ELSE contents[i]]

Fresh(size) == [i \in 1..size |-> Junk]

\* A heap without the block.
Without(h, block) == [b \in DOMAIN h \ {block} |-> h[b]]

\* The block is written at its front and becomes the block of the buffer.
Install(c, new, bytes) ==
  /\ cache' = [cache EXCEPT ![c] = [mem |-> new.mem, size |-> new.size, head |-> 0,
                                    len |-> Len(bytes)]]
  /\ heap' = [b \in (DOMAIN heap \ {Block(cache[c])}) \cup {Block(new)} |->
                IF b = Block(new) THEN Copy(Fresh(new.size), 0, bytes) ELSE heap[b]]

\* There is no memory: append throws, which nobody catches.
Throw(p) == /\ thrown' = TRUE /\ pool' = p /\ UNCHANGED <<cache, heap, next>>

\* append to a buffer without a block.
AppendFirst(c, bytes) ==
  LET new == allocate(pool, Len(bytes))
  IN  IF new.mem = NULL THEN Throw(new.pool)
      ELSE /\ Install(c, new, bytes)
           /\ pool' = new.pool
           /\ next' = [next EXCEPT ![c] = (@ + Len(bytes)) % StreamMod]
           /\ UNCHANGED thrown

\* append where the block has room behind the data.
AppendBehind(c, bytes) ==
  /\ heap' = [heap EXCEPT ![Block(cache[c])] =
                Copy(@, cache[c].head + cache[c].len, bytes)]
  /\ cache' = [cache EXCEPT ![c].len = @ + Len(bytes)]
  /\ next' = [next EXCEPT ![c] = (@ + Len(bytes)) % StreamMod]
  /\ UNCHANGED <<pool, thrown>>

\* append that needs a larger block: the old one is recycled.
AppendMove(c, bytes) ==
  LET b == cache[c]
      new == allocate(pool, Len(bytes) + b.len)
  IN  IF new.mem = NULL THEN Throw(new.pool)
      ELSE /\ Install(c, new, Data(c) \o bytes)
           /\ pool' = recycle(new.pool, b.mem, b.size)
           /\ next' = [next EXCEPT ![c] = (@ + Len(bytes)) % StreamMod]
           /\ UNCHANGED thrown

\* Mutant: the data is not moved to the front first.
AppendShiftStays(c, bytes) ==
  /\ heap' = [heap EXCEPT ![Block(cache[c])] = Copy(@, cache[c].len, bytes)]
  /\ cache' = [cache EXCEPT ![c].head = 0, ![c].len = @ + Len(bytes)]
  /\ next' = [next EXCEPT ![c] = (@ + Len(bytes)) % StreamMod]
  /\ UNCHANGED <<pool, thrown>>

\* append where the room is in front: the data is moved there.
AppendShift(c, bytes) ==
  /\ heap' = [heap EXCEPT ![Block(cache[c])] =
                Copy(Copy(Fresh(Len(@)), 0, Data(c)), cache[c].len, bytes)]
  /\ cache' = [cache EXCEPT ![c].head = 0, ![c].len = @ + Len(bytes)]
  /\ next' = [next EXCEPT ![c] = (@ + Len(bytes)) % StreamMod]
  /\ UNCHANGED <<pool, thrown>>

append(c, n) ==
  LET b == cache[c]
      bytes == Stream(next[c], n)
  IN  /\ ~thrown /\ b.len + n <= MaxData
      /\ \/ b.mem = NULL /\ AppendFirst(c, bytes)
         \/ b.mem # NULL /\ n + b.head + b.len <= b.size /\ AppendBehind(c, bytes)
         \/ b.mem # NULL /\ n + b.len > b.size /\ AppendMove(c, bytes)
         \/ b.mem # NULL /\ n + b.head + b.len > b.size /\ n + b.len <= b.size
            /\ AppendShift(c, bytes)

\* skip: the last bytes take the block with them.
skip(c, n) ==
  LET b == cache[c]
  IN  /\ ~thrown /\ b.mem # NULL
      /\ IF n >= b.len
         THEN /\ pool' = recycle(pool, b.mem, b.size)
              /\ cache' = [cache EXCEPT ![c] = NoBlock]
              /\ heap' = Without(heap, Block(b))
         ELSE /\ cache' = [cache EXCEPT ![c].head = @ + n, ![c].len = @ - n]
              /\ heap' = [heap EXCEPT ![Block(b)] = Copy(@, b.head, [i \in 1..n |-> Junk])]
              /\ UNCHANGED pool
      /\ UNCHANGED <<next, thrown>>

Init ==
  /\ pool = EmptyPool /\ heap = <<>> /\ thrown = FALSE
  /\ cache = [c \in Caches |-> NoBlock] /\ next = [c \in Caches |-> 0]

Next == \E c \in Caches : \/ \E n \in RecvSizes : append(c, n)
                          \/ \E n \in 1..cache[c].len : skip(c, n)

Spec == Init /\ [][Next]_vars

Queue == INSTANCE ByteQueue WITH queue <- [c \in Caches |-> Data(c)]
-----------------------------------------------------------------------------
\* The buffers of different connections are queues of bytes: what is appended
\* comes out once, in order, through every move and reallocation of a block, and
\* no other buffer's bytes are mixed in.
CachesAreQueues == Queue!Spec

Held(size) == {cache[c].mem : c \in {d \in Caches : cache[d].mem # NULL /\ cache[d].size = size}}

\* A block is free or belongs to one buffer, never both; the pool knows
\* every block under its size, and accounts for all of them.
BlocksSound ==
  /\ \A size \in BlockSizes :
       /\ pool.free[size] \cap Held(size) = {}
       /\ pool.stub[size] = pool.free[size] \cup Held(size)
  /\ \A c, d \in Caches : c # d /\ cache[c].mem # NULL => Block(cache[c]) # Block(cache[d])
  /\ pool.allocated = Cardinality(Bytes(pool.stub))

\* The pool never holds more than its limit, also when blocks are fetched right
\* after a purge.
PoolBounded == pool.allocated <= MaxPoolSize
=============================================================================
