------------------------------- MODULE HashMap -------------------------------
(***************************************************************************)
(* CHashMap (Server/HashMapImp.hpp): hash buckets of doubly linked nodes,  *)
(* a list of free nodes, and the "add list" of the nodes in use, most      *)
(* recently used first, which the visitor walks.                           *)
(*                                                                         *)
(*   pool.map : the fields of THashMap, pool.bucket : its buckets          *)
(*   pool.key ... pool.add_next : the fields of the nodes                  *)
(*                                                                         *)
(* Left out are flag_ and the access statistics add_info_1_ and            *)
(* add_info_2_, which nothing reads; bucket_size_ is written and checked   *)
(* with node_total_.                                                       *)
(***************************************************************************)
EXTENDS ChunkAlloc

CONSTANTS
  NodeTotal,    \* node_total_
  BucketSize    \* bucket_size_

ASSUME HashAssumption == NodeTotal \in Nat /\ BucketSize \in Nat \ {0}

Nodes == 1..NodeTotal
Buckets == 0..(BucketSize - 1)

\* A segment fresh from the kernel is all zeroes.
ZeroPool ==
  [map |-> [node_total |-> 0, used_node_num |-> 0, used_bucket_num |-> 0,
            add_head |-> 0, add_tail |-> 0, free_list |-> 0],
   bucket |-> [b \in Buckets |-> 0],
   key |-> [n \in Nodes |-> 0], chunk_len |-> [n \in Nodes |-> 0],
   chunk_head |-> [n \in Nodes |-> 0],
   node_prev |-> [n \in Nodes |-> 0], node_next |-> [n \in Nodes |-> 0],
   add_prev |-> [n \in Nodes |-> 0], add_next |-> [n \in Nodes |-> 0],
   chunk |-> [chunk_total |-> 0, free_total |-> 0, free_list |-> 0],
   next |-> [c \in ChunkNodes |-> 0],
   data |-> [c \in ChunkNodes |-> Scrap]]

\* __gnu_cxx::hash<int> is the identity.
get_bucket_id(k) == k % BucketSize

bucket_list(m, b) == Chain(m.node_next, m.bucket[b])
get_bucket_list_len(m, b) == Len(bucket_list(m, b))

-----------------------------------------------------------------------------
(* Lists                                                                   *)

free_list_insert(run, n) ==
  run ++ <<"node_next", n, Last(run).map.free_list>>
      ++ <<"map", "free_list", n>>

free_list_remove(run) ==
  LET n == Last(run).map.free_list
  IN  run ++ <<"map", "free_list", Last(run).node_next[n]>>
          ++ <<"node_next", n, INVALID>>

init_node(run, n) ==
  run ++ <<"chunk_len", n, 0>> ++ <<"chunk_head", n, INVALID>>
      ++ <<"node_next", n, INVALID>> ++ <<"node_prev", n, INVALID>>
      ++ <<"add_next", n, INVALID>> ++ <<"add_prev", n, INVALID>>

\* Mutant: the bucket points to the node before the node points on.
insert_node_list_early(run, n) ==
  LET m == Last(run)
      b == get_bucket_id(m.key[n])
      nx == m.bucket[b]
  IN  run ++ <<"bucket", b, n>> ++ <<"node_next", n, nx>> ++ <<"node_prev", n, INVALID>>
          ++ When(nx # INVALID, <<"node_prev", nx, n>>)
          ++ <<"map", "used_node_num", m.map.used_node_num + 1>>

insert_node_list(run, n) ==
  LET m == Last(run)
      b == get_bucket_id(m.key[n])
      nx == m.bucket[b]
  IN  run ++ <<"node_next", n, nx>> ++ <<"node_prev", n, INVALID>> ++ <<"bucket", b, n>>
          ++ When(nx # INVALID, <<"node_prev", nx, n>>)
          ++ <<"map", "used_node_num", m.map.used_node_num + 1>>

delete_from_node_list(run, n) ==
  LET m == Last(run)
      b == get_bucket_id(m.key[n])
      nx == m.node_next[n]
      pv == m.node_prev[n]
  IN  run ++ When(pv # INVALID, <<"node_next", pv, nx>>)
          ++ When(nx # INVALID, <<"node_prev", nx, pv>>)
          ++ When(m.bucket[b] = n, <<"bucket", b, nx>>)
          ++ <<"node_next", n, INVALID>> ++ <<"node_prev", n, INVALID>>
          ++ <<"map", "used_node_num", m.map.used_node_num - 1>>

delete_from_add_list(run, n) ==
  LET m == Last(run)
      nx == m.add_next[n]
      pv == m.add_prev[n]
      head == m.map.add_head = n
      tail == m.map.add_tail = n
  IN  IF nx = INVALID /\ pv = INVALID /\ ~head /\ ~tail THEN run
      ELSE run ++ When(pv # INVALID, <<"add_next", pv, nx>>)
               ++ When(nx # INVALID, <<"add_prev", nx, pv>>)
               ++ When(head, <<"map", "add_head", nx>>)
               ++ When(tail, <<"map", "add_tail", pv>>)
               ++ <<"add_prev", n, INVALID>> ++ <<"add_next", n, INVALID>>

insert_add_list_head(run, n) ==
  LET r == delete_from_add_list(run, n)
      m == Last(r)
      nx == m.map.add_head
  IN  r ++ <<"add_next", n, nx>> ++ <<"map", "add_head", n>>
        ++ When(m.map.add_tail = INVALID, <<"map", "add_tail", n>>)
        ++ <<"add_prev", n, INVALID>>
        ++ When(nx # INVALID, <<"add_prev", nx, n>>)

-----------------------------------------------------------------------------
(* Nodes                                                                   *)

use_node(run, n, k, len, head) ==
  LET r == run ++ <<"key", n, k>> ++ <<"chunk_len", n, len>> ++ <<"chunk_head", n, head>>
      m == Last(r)
  IN  insert_node_list(
        r ++ When(get_bucket_list_len(m, get_bucket_id(k)) = 0,
                  <<"map", "used_bucket_num", m.map.used_bucket_num + 1>>), n)

free_node(run, n) ==
  LET r == free(delete_from_node_list(run, n), Last(run).chunk_head[n])
      m == Last(r)
  IN  init_node(
        r ++ When(get_bucket_list_len(m, get_bucket_id(m.key[n])) = 0,
                  <<"map", "used_bucket_num", m.map.used_bucket_num - 1>>), n)

\* The node that find_node returns for k, or INVALID: the first one with that key
\* on the list of the bucket (cut like any list).
node_of(m, k) ==
  LET search[i \in 0..NodeTotal + 1] ==
        [n \in Nodes \cup {INVALID} |->
           IF i = 0 \/ n = INVALID THEN INVALID
           ELSE IF m.key[n] = k THEN n ELSE search[i - 1][m.node_next[n]]]
  IN  search[NodeTotal + 1][m.bucket[get_bucket_id(k)]]

\* Looking a node up moves it to the head of the add list.
find_node(run, k) ==
  LET n == node_of(Last(run), k)
  IN  IF n = INVALID THEN run ELSE insert_add_list_head(run, n)

\* Mutant: the node is linked before its record is written.
insert_node_unwritten(run, k, d) ==
  LET m == Last(run)
      n == m.map.free_list
      num == get_chunk_num(DataLen(d))
      head == Last(Taken(m, num))
      r == free_list_remove(run)
  IN  IF n = INVALID THEN run
      ELSE IF m.chunk.free_total < num THEN free_list_insert(r, n)
      ELSE insert_add_list_head(
             split(use_node(malloc(r, num), n, k, DataLen(d), head), head, d), n)

\* Inserting fails, with what it took given back, when there is no free node or
\* there are too few free chunks.
insert_node(run, k, d) ==
  LET m == Last(run)
      n == m.map.free_list
      num == get_chunk_num(DataLen(d))
      head == Last(Taken(m, num))
      r == free_list_remove(run)
  IN  IF n = INVALID THEN run
      ELSE IF m.chunk.free_total < num THEN free_list_insert(r, n)
      ELSE insert_add_list_head(
             use_node(split(malloc(r, num), head, d), n, k, DataLen(d), head), n)

insert_fails(m, d) ==
  \/ m.map.free_list = INVALID
  \/ m.chunk.free_total < get_chunk_num(DataLen(d))

\* Mutant: the record is always written to the chunks it has.
update_node_in_place(run, n, d) ==
  split(run, Last(run).chunk_head[n], d) ++ <<"chunk_len", n, DataLen(d)>>

\* Updating in place, unless the record needs another number of chunks.
update_node(run, n, d) ==
  LET m == Last(run)
      old == get_chunk_num(m.chunk_len[n])
      num == get_chunk_num(DataLen(d))
      freed == free(run, m.chunk_head[n])
      head == Last(Taken(Last(freed), num))
  IN  IF old = num
      THEN split(run, m.chunk_head[n], d) ++ <<"chunk_len", n, DataLen(d)>>
      ELSE IF m.chunk.free_total < num - old THEN run
      ELSE split(malloc(freed, num), head, d)
             ++ <<"chunk_len", n, DataLen(d)>> ++ <<"chunk_head", n, head>>

update_fails(m, n, d) ==
  m.chunk.free_total < get_chunk_num(DataLen(d)) - get_chunk_num(m.chunk_len[n])

replace_node(run, k, d) ==
  LET n == node_of(Last(run), k)
  IN  IF n = INVALID THEN insert_node(run, k, d)
      ELSE update_node(find_node(run, k), n, d)

\* Mutant: the node stays on the add list.
delete_node_visible(run, n) == free_list_insert(free_node(run, n), n)

\* Mutant: the record is freed before the node is taken off the add list.
delete_node_early(run, n) ==
  free_list_insert(delete_from_add_list(free_node(run, n), n), n)

delete_node(run, n) ==
  free_list_insert(free_node(delete_from_add_list(run, n), n), n)

-----------------------------------------------------------------------------
(* Opening a pool                                                          *)

init_header(run) ==
  run ++ <<"map", "node_total", NodeTotal>>
      ++ <<"map", "used_node_num", 0>> ++ <<"map", "used_bucket_num", 0>>
      ++ <<"map", "add_head", INVALID>> ++ <<"map", "add_tail", INVALID>>
      ++ <<"map", "free_list", INVALID>>

init_buckets(run) ==
  LET after[b \in 0..BucketSize] ==
        IF b = 0 THEN run ELSE after[b - 1] ++ <<"bucket", b - 1, INVALID>>
  IN  after[BucketSize]

init_nodes(run) ==
  LET after[n \in 0..NodeTotal] ==
        IF n = 0 THEN run ELSE free_list_insert(init_node(after[n - 1], n), n)
  IN  after[NodeTotal]

init_pool_data(run) == init_nodes(init_buckets(init_header(run)))

\* Totals, buckets in use, and nodes in use and free have to add up; the lists
\* themselves are not looked at, nor is the add list.
verify_pool_data(m) ==
  /\ m.map.node_total = NodeTotal
  /\ Cardinality({b \in Buckets : m.bucket[b] # INVALID}) = m.map.used_bucket_num
  /\ m.map.used_node_num + Len(Chain(m.node_next, m.map.free_list)) = NodeTotal

\* open with init, and what open without init demands.
open_init(run) == chunk_init_pool_data(init_pool_data(run))
open_verify(m) == verify_pool_data(m) /\ chunk_verify_pool_data(m)
=============================================================================
