----------------------------- MODULE ChunkAlloc -----------------------------
(***************************************************************************)
(* CChunkAllocator (Server/ChunkAlloc.cpp): a record is stored in a chain  *)
(* of chunks taken from a list of free ones.                               *)
(*                                                                         *)
(*   pool.chunk : chunk_total_, free_total_ and free_list_ of TChunk;      *)
(*                chunk_size_ is written and checked with chunk_total_     *)
(*   pool.next, pool.data : the chunks                                     *)
(*                                                                         *)
(* Lengths are counted in units of which ChunkSize fit in a chunk, and the *)
(* piece of record d in its i-th chunk is written <<d, i>>.                *)
(***************************************************************************)
EXTENDS Pool

CONSTANTS
  ChunkTotal,   \* n_chunks
  ChunkSize,    \* chunk_size_
  DataLen(_)    \* length of a record

ASSUME ChunkAssumption == ChunkTotal \in Nat /\ ChunkSize \in Nat \ {0}

ChunkNodes == 1..ChunkTotal

get_chunk_num(len) ==
  len \div ChunkSize + (IF len % ChunkSize # 0 THEN 1 ELSE 0)

Pieces(d) == [i \in 1..get_chunk_num(DataLen(d)) |-> <<d, i>>]

chunk_free_list_insert(run, c) ==
  run ++ <<"next", c, Last(run).chunk.free_list>>
      ++ <<"chunk", "free_list", c>>

chunk_free_list_remove(run) ==
  LET c == Last(run).chunk.free_list
  IN  run ++ <<"chunk", "free_list", Last(run).next[c]>>
          ++ <<"next", c, INVALID>>

chunk_init_pool_data(run) ==
  LET after[c \in 0..ChunkTotal] ==
        IF c = 0 THEN run ++ <<"chunk", "free_list", INVALID>>
        ELSE chunk_free_list_insert(after[c - 1] ++ <<"next", c, INVALID>>, c)
  IN  after[ChunkTotal] ++ <<"chunk", "chunk_total", ChunkTotal>>
                        ++ <<"chunk", "free_total", ChunkTotal>>

chunk_verify_pool_data(m) ==
  /\ m.chunk.chunk_total = ChunkTotal
  /\ Len(Chain(m.next, m.chunk.free_list)) = m.chunk.free_total

\* The chunks that malloc takes, in the order it takes them; it puts them at
\* the head of the chain one by one, so the last one taken is its head.
Taken(m, num) == SubSeq(Chain(m.next, m.chunk.free_list), 1, num)

malloc(run, num) ==
  LET cs == Taken(Last(run), num)
      after[i \in 0..num] ==
        IF i = 0 THEN run
        ELSE chunk_free_list_remove(after[i - 1])
               ++ <<"next", cs[i], IF i = 1 THEN INVALID ELSE cs[i - 1]>>
  IN  after[num] ++ <<"chunk", "free_total", Last(run).chunk.free_total - num>>

free_chunk(run, c) ==
  chunk_free_list_insert(run, c)
    ++ <<"chunk", "free_total", Last(run).chunk.free_total + 1>>

free(run, head) ==
  LET cs == Chain(Last(run).next, head)
      after[i \in 0..Len(cs)] == IF i = 0 THEN run ELSE free_chunk(after[i - 1], cs[i])
  IN  after[Len(cs)]

\* What a chunk holds that was never written, or not to the end: after a while
\* of copying any mixture of the old bytes and the new ones.
Scrap == <<>>

memcpy(run, c, piece) == run ++ <<"data", c, Scrap>> ++ <<"data", c, piece>>

\* The data of a record is written to, and read from, the chunks of a chain.
split(run, head, d) ==
  LET cs == Chain(Last(run).next, head)
      n == IF Len(cs) < Len(Pieces(d)) THEN Len(cs) ELSE Len(Pieces(d))
      after[i \in 0..n] ==
        IF i = 0 THEN run ELSE memcpy(after[i - 1], cs[i], Pieces(d)[i])
  IN  after[n]

merge(m, head, len) ==
  LET cs == Chain(m.next, head)
      n == IF Len(cs) < get_chunk_num(len) THEN Len(cs) ELSE get_chunk_num(len)
  IN  [i \in 1..n |-> m.data[cs[i]]]
=============================================================================
