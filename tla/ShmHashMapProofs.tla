-------------------------- MODULE ShmHashMapProofs --------------------------
(***************************************************************************)
(* Proofs about the shared memory table, for any numbers of nodes, buckets *)
(* and chunks, any keys and records of any lengths.                        *)
(***************************************************************************)
EXTENDS ShmHashMap, ProofBasics, FunctionTheorems

-----------------------------------------------------------------------------
(***************************************************************************)
(* Memories and runs                                                       *)
(***************************************************************************)

\* The pieces of records, and what a chunk holds before one is written to it.
PieceSet == {<<>>} \cup (Data \X Nat)

Maps == [node_total : Int, used_node_num : Int, used_bucket_num : Int,
         add_head : Int, add_tail : Int, free_list : Int]
ChunkHeads == [chunk_total : Int, free_total : Int, free_list : Int]

Mems ==
  [map : Maps, bucket : [Buckets -> Int],
   key : [Nodes -> Int], chunk_len : [Nodes -> Int], chunk_head : [Nodes -> Int],
   node_prev : [Nodes -> Int], node_next : [Nodes -> Int],
   add_prev : [Nodes -> Int], add_next : [Nodes -> Int],
   chunk : ChunkHeads, next : [ChunkNodes -> Int], data : [ChunkNodes -> PieceSet]]

\* The code that run stands for leaves memory m.
Ends(run, m) == run \in Seq(Mems) /\ run # <<>> /\ run[Len(run)] = m

LEMMA EndsIs ==
  ASSUME NEW run, NEW m, Ends(run, m)
  PROVE  m \in Mems /\ Last(run) = m /\ Len(run) \in Nat \ {0}
<1>1. run \in Seq(Mems) /\ run # <<>> /\ run[Len(run)] = m
  BY DEF Ends
<1>2. Len(run) \in Nat \ {0} /\ Len(run) \in 1..Len(run)
  BY <1>1, EmptySeq
<1>3. run[Len(run)] \in Mems
  BY <1>1, <1>2
<1>4. QED
  BY <1>1, <1>2, <1>3 DEF Last

LEMMA OneEnds ==
  ASSUME NEW m \in Mems
  PROVE  Ends(<<m>>, m)
BY DEF Ends

NodeFields == {"key", "chunk_len", "chunk_head", "node_prev", "node_next", "add_prev", "add_next"}
MapFields == {"node_total", "used_node_num", "used_bucket_num", "add_head", "add_tail", "free_list"}
ChunkFields == {"chunk_total", "free_total", "free_list"}

\* Field f of the memory has an element i that can hold v.
Fits(f, i, v) ==
  \/ f \in NodeFields /\ i \in Nodes /\ v \in Int
  \/ f = "bucket" /\ i \in Buckets /\ v \in Int
  \/ f = "map" /\ i \in MapFields /\ v \in Int
  \/ f = "chunk" /\ i \in ChunkFields /\ v \in Int
  \/ f = "next" /\ i \in ChunkNodes /\ v \in Int
  \/ f = "data" /\ i \in ChunkNodes /\ v \in PieceSet

\* What an assignment does to the memory, and one that depends on a comparison.
Put(m, f, i, v) == [m EXCEPT ![f] = [m[f] EXCEPT ![i] = v]]
PutEq(m, x, y, f, i, v) == [m EXCEPT ![f] = IF x = y THEN [m[f] EXCEPT ![i] = v] ELSE m[f]]
PutNeq(m, x, y, f, i, v) == [m EXCEPT ![f] = IF x # y THEN [m[f] EXCEPT ![i] = v] ELSE m[f]]

LEMMA PutType ==
  ASSUME NEW m \in Mems, NEW f, NEW i, NEW v, Fits(f, i, v)
  PROVE  Put(m, f, i, v) \in Mems
<1>1. CASE f = "key" /\ i \in Nodes /\ v \in Int
  BY <1>1 DEF Mems, Put
<1>2. CASE f = "chunk_len" /\ i \in Nodes /\ v \in Int
  BY <1>2 DEF Mems, Put
<1>3. CASE f = "chunk_head" /\ i \in Nodes /\ v \in Int
  BY <1>3 DEF Mems, Put
<1>4. CASE f = "node_prev" /\ i \in Nodes /\ v \in Int
  BY <1>4 DEF Mems, Put
<1>5. CASE f = "node_next" /\ i \in Nodes /\ v \in Int
  BY <1>5 DEF Mems, Put
<1>6. CASE f = "add_prev" /\ i \in Nodes /\ v \in Int
  BY <1>6 DEF Mems, Put
<1>7. CASE f = "add_next" /\ i \in Nodes /\ v \in Int
  BY <1>7 DEF Mems, Put
<1>8. CASE f = "bucket" /\ i \in Buckets /\ v \in Int
  BY <1>8 DEF Mems, Put
<1>9. CASE f = "map" /\ i \in MapFields /\ v \in Int
  <2>1. m.map \in Maps
    BY DEF Mems
  <2>2. [m.map EXCEPT ![i] = v] \in Maps
    BY <1>9, <2>1 DEF MapFields, Maps
  <2>3. QED
    BY <1>9, <2>2 DEF Mems, Put
<1>10. CASE f = "chunk" /\ i \in ChunkFields /\ v \in Int
  <2>1. m.chunk \in ChunkHeads
    BY DEF Mems
  <2>2. [m.chunk EXCEPT ![i] = v] \in ChunkHeads
    BY <1>10, <2>1 DEF ChunkFields, ChunkHeads
  <2>3. QED
    BY <1>10, <2>2 DEF Mems, Put
<1>11. CASE f = "next" /\ i \in ChunkNodes /\ v \in Int
  BY <1>11 DEF Mems, Put
<1>12. CASE f = "data" /\ i \in ChunkNodes /\ v \in PieceSet
  BY <1>12 DEF Mems, Put
<1>13. QED
  BY <1>1, <1>2, <1>3, <1>4, <1>5, <1>6, <1>7, <1>8, <1>9, <1>10, <1>11, <1>12
  DEF Fits, NodeFields

LEMMA Stored ==
  ASSUME NEW run, NEW m, Ends(run, m), NEW f, NEW i, NEW v, Fits(f, i, v)
  PROVE  Ends(run ++ <<f, i, v>>, Put(m, f, i, v))
<1> DEFINE w == Put(m, f, i, v)
<1>1. run \in Seq(Mems) /\ Last(run) = m /\ m \in Mems
  BY EndsIs DEF Ends
<1>2. w \in Mems
  BY <1>1, PutType
<1>3. w = [m EXCEPT ![f][i] = v]
  BY DEF Put
<1>4. run ++ <<f, i, v>> = Append(run, w)
  BY <1>1, <1>3 DEF ++, Store
<1> HIDE DEF w
<1>5. Append(run, w) \in Seq(Mems) /\ Append(run, w) # <<>>
      /\ Append(run, w)[Len(Append(run, w))] = w
  BY <1>1, <1>2
<1>6. QED
  BY <1>4, <1>5 DEF Ends, w

LEMMA KeepField ==
  ASSUME NEW m \in Mems, NEW f
  PROVE  [m EXCEPT ![f] = m[f]] = m
BY DEF Mems

LEMMA StoredEq ==
  ASSUME NEW run, NEW m, Ends(run, m), NEW x, NEW y, NEW f, NEW i, NEW v, x = y => Fits(f, i, v)
  PROVE  Ends(run ++ When(x = y, <<f, i, v>>), PutEq(m, x, y, f, i, v))
<1>1. CASE x = y
  <2>1. When(x = y, <<f, i, v>>) = <<f, i, v>>
    BY <1>1 DEF When
  <2>2. PutEq(m, x, y, f, i, v) = Put(m, f, i, v)
    BY <1>1 DEF PutEq, Put
  <2>3. QED
    BY <1>1, <2>1, <2>2, Stored
<1>2. CASE x # y
  <2>1. When(x = y, <<f, i, v>>) = <<>>
    BY <1>2 DEF When
  <2>2. run ++ <<>> = run
    BY DEF ++, Store
  <2>3. m \in Mems
    BY EndsIs
  <2>4. PutEq(m, x, y, f, i, v) = m
    BY <1>2, <2>3, KeepField DEF PutEq
  <2>5. QED
    BY <2>1, <2>2, <2>4
<1>3. QED
  BY <1>1, <1>2

LEMMA StoredNeq ==
  ASSUME NEW run, NEW m, Ends(run, m), NEW x, NEW y, NEW f, NEW i, NEW v, x # y => Fits(f, i, v)
  PROVE  Ends(run ++ When(x # y, <<f, i, v>>), PutNeq(m, x, y, f, i, v))
<1>1. CASE x # y
  <2>1. When(x # y, <<f, i, v>>) = <<f, i, v>>
    BY <1>1 DEF When
  <2>2. PutNeq(m, x, y, f, i, v) = Put(m, f, i, v)
    BY <1>1 DEF PutNeq, Put
  <2>3. QED
    BY <1>1, <2>1, <2>2, Stored
<1>2. CASE x = y
  <2>1. When(x # y, <<f, i, v>>) = <<>>
    BY <1>2 DEF When
  <2>2. run ++ <<>> = run
    BY DEF ++, Store
  <2>3. m \in Mems
    BY EndsIs
  <2>4. PutNeq(m, x, y, f, i, v) = m
    BY <1>2, <2>3, KeepField DEF PutNeq
  <2>5. QED
    BY <2>1, <2>2, <2>4
<1>3. QED
  BY <1>1, <1>2

-----------------------------------------------------------------------------
(***************************************************************************)
(* Linked lists over an array whose indices are D                          *)
(***************************************************************************)

\* The i-th element of a list, INVALID beyond its ends.
At(s, i) == IF i \in 1..Len(s) THEN s[i] ELSE INVALID

\* s is the list that starts at h.
Leads(next, h, s, D) ==
  /\ s \in Seq(D)
  /\ h = At(s, 1)
  /\ \A i \in 1..Len(s) : next[s[i]] = At(s, i + 1)
  /\ \A i, j \in 1..Len(s) : s[i] = s[j] => i = j

\* The list that starts at h has the elements S.
ListOf(next, h, S, D) == \E s : Leads(next, h, s, D) /\ ToSet(s) = S

\* The same for a list that is linked in both directions and ends at t.
DoublyLinked(prev, t, s) ==
  /\ t = At(s, Len(s))
  /\ \A i \in 1..Len(s) : prev[s[i]] = At(s, i - 1)

DListOf(next, prev, h, t, S, D) ==
  \E s : Leads(next, h, s, D) /\ DoublyLinked(prev, t, s) /\ ToSet(s) = S

LEMMA ByIndex ==
  ASSUME NEW D, NEW n \in Nat, NEW f \in [1..n -> D]
  PROVE  f \in Seq(D) /\ Len(f) = n
<1>1. f \in Seq(D)
  BY SeqDef
<1>2. DOMAIN f = 1..n /\ DOMAIN f = 1..Len(f) /\ Len(f) \in Nat
  BY <1>1, LenProperties
<1>3. Len(f) = n
  BY <1>2
<1>4. QED
  BY <1>1, <1>3

LEMMA Elements ==
  ASSUME NEW D, NEW s \in Seq(D)
  PROVE  /\ ToSet(s) = {s[i] : i \in 1..Len(s)} /\ ToSet(s) \subseteq D
         /\ \A i \in 1..Len(s) : s[i] \in ToSet(s) /\ s[i] \in D
         /\ \A x \in ToSet(s) : \E i \in 1..Len(s) : x = s[i]
         /\ Len(s) \in Nat
<1>1. DOMAIN s = 1..Len(s) /\ Len(s) \in Nat /\ \A i \in 1..Len(s) : s[i] \in D
  BY LenProperties, ElementOfSeq
<1>2. QED
  BY <1>1 DEF ToSet

LEMMA LeadsIs ==
  ASSUME NEW D, NEW next, NEW h, NEW s, Leads(next, h, s, D), INVALID \notin D
  PROVE  /\ s \in Seq(D) /\ Len(s) \in Nat
         /\ \A i \in 1..Len(s) : s[i] \in D /\ next[s[i]] = At(s, i + 1)
         /\ \A i, j \in 1..Len(s) : s[i] = s[j] => i = j
         /\ ToSet(s) = {s[i] : i \in 1..Len(s)}
         /\ h = At(s, 1)
<1>1. s \in Seq(D)
  BY DEF Leads
<1>2. QED
  BY <1>1, Elements DEF Leads

\* An injective list has as many elements as it is long.
LEMMA LengthIs ==
  ASSUME NEW D, IsFiniteSet(D), INVALID \notin D, NEW next, NEW h, NEW s, Leads(next, h, s, D)
  PROVE  /\ Len(s) = Cardinality(ToSet(s)) /\ Len(s) <= Cardinality(D)
         /\ IsInjective(s)
<1>1. /\ s \in Seq(D) /\ Len(s) \in Nat /\ ToSet(s) = {s[i] : i \in 1..Len(s)}
      /\ \A i, j \in 1..Len(s) : s[i] = s[j] => i = j
      /\ \A i \in 1..Len(s) : s[i] \in D
  BY LeadsIs
<1>2. DOMAIN s = 1..Len(s) /\ s \in [1..Len(s) -> D]
  BY <1>1, LenProperties
<1>3. IsInjective(s)
  BY <1>1, <1>2 DEF IsInjective
<1>4. ToSet(s) \subseteq D
  BY <1>1
<1>5. s \in [1..Len(s) -> ToSet(s)]
  BY <1>1, <1>2
<1>6. s \in Bijection(1..Len(s), ToSet(s))
  BY <1>1, <1>3, <1>5, Fun_IsBij
<1>7. ExistsBijection(1..Len(s), ToSet(s))
  BY <1>6, Fun_ExistsBij
<1>8. IsFiniteSet(1..Len(s)) /\ Cardinality(1..Len(s)) = Len(s)
  <2> DEFINE n == Len(s)
  <2>1. n \in Nat
    BY <1>1
  <2> HIDE DEF n
  <2>2. IsFiniteSet(1..n) /\ Cardinality(1..n) = IF 1 > n THEN 0 ELSE n - 1 + 1
    BY <2>1, FS_Interval
  <2>3. IsFiniteSet(1..n) /\ Cardinality(1..n) = n
    BY <2>1, <2>2
  <2>4. QED
    BY <2>3 DEF n
<1>9. Len(s) = Cardinality(ToSet(s))
  BY <1>7, <1>8, FS_Bijection
<1>10. Cardinality(ToSet(s)) <= Cardinality(D)
  BY <1>4, FS_Subset
<1>11. QED
  BY <1>3, <1>9, <1>10

\* Only the links of its elements make a list.
LEMMA LeadsFrame ==
  ASSUME NEW D, INVALID \notin D, NEW next, NEW h, NEW s, Leads(next, h, s, D),
         NEW nx, \A x \in ToSet(s) : nx[x] = next[x]
  PROVE  Leads(nx, h, s, D)
<1>1. /\ s \in Seq(D) /\ h = At(s, 1) /\ ToSet(s) = {s[i] : i \in 1..Len(s)}
      /\ \A i \in 1..Len(s) : next[s[i]] = At(s, i + 1)
      /\ \A i, j \in 1..Len(s) : s[i] = s[j] => i = j
  BY LeadsIs
<1>2. \A i \in 1..Len(s) : nx[s[i]] = At(s, i + 1)
  BY <1>1
<1>3. QED
  BY <1>1, <1>2 DEF Leads

LEMMA ListFrame ==
  ASSUME NEW D, INVALID \notin D, NEW next, NEW h, NEW S, ListOf(next, h, S, D),
         NEW nx, \A x \in S : nx[x] = next[x]
  PROVE  ListOf(nx, h, S, D)
BY LeadsFrame DEF ListOf

LEMMA EmptyLeads ==
  ASSUME NEW D, NEW next
  PROVE  Leads(next, INVALID, <<>>, D) /\ ToSet(<<>>) = {}
<1>1. <<>> \in Seq(D) /\ Len(<<>>) = 0
  BY EmptySeq
<1>2. 1..0 = {}
  OBVIOUS
<1>3. Leads(next, INVALID, <<>>, D)
  BY <1>1, <1>2 DEF Leads, At
<1>4. ToSet(<<>>) = {}
  BY <1>1, <1>2, Elements
<1>5. QED
  BY <1>3, <1>4

LEMMA EmptyList ==
  ASSUME NEW D, NEW next
  PROVE  ListOf(next, INVALID, {}, D)
BY EmptyLeads DEF ListOf

\* A list with n put before it.
Before(n, s) == [i \in 1..(Len(s) + 1) |-> IF i = 1 THEN n ELSE s[i - 1]]

LEMMA BeforeIs ==
  ASSUME NEW D, INVALID \notin D, NEW s \in Seq(D), NEW n \in D
  PROVE  /\ Before(n, s) \in Seq(D) /\ Len(Before(n, s)) = Len(s) + 1
         /\ Before(n, s)[1] = n
         /\ \A i \in 1..Len(s) : Before(n, s)[i + 1] = s[i]
         /\ \A i \in Nat : At(Before(n, s), i + 2) = At(s, i + 1)
         /\ At(Before(n, s), 1) = n /\ At(Before(n, s), 0) = INVALID
         /\ ToSet(Before(n, s)) = ToSet(s) \cup {n}
<1> DEFINE b == Before(n, s)
<1>1. Len(s) \in Nat /\ \A i \in 1..Len(s) : s[i] \in D
  BY LenProperties, ElementOfSeq
<1>2. b \in [1..(Len(s) + 1) -> D]
  BY <1>1 DEF Before
<1>3. b \in Seq(D) /\ Len(b) = Len(s) + 1
  BY <1>1, <1>2, ByIndex
<1>4. b[1] = n /\ \A i \in 1..Len(s) : b[i + 1] = s[i]
  BY <1>1 DEF Before
<1> HIDE DEF b
<1>5. \A i \in Nat : At(b, i + 2) = At(s, i + 1)
  <2> SUFFICES ASSUME NEW i \in Nat PROVE At(b, i + 2) = At(s, i + 1)
    OBVIOUS
  <2>1. CASE i + 1 <= Len(s)
    <3>1. i + 1 \in 1..Len(s) /\ i + 2 \in 1..Len(b) /\ (i + 1) + 1 = i + 2
      BY <1>1, <1>3, <2>1
    <3>2. QED
      BY <1>4, <3>1 DEF At
  <2>2. CASE ~(i + 1 <= Len(s))
    <3>1. i + 1 \notin 1..Len(s) /\ i + 2 \notin 1..Len(b)
      BY <1>1, <1>3, <2>2
    <3>2. QED
      BY <3>1 DEF At
  <2>3. QED
    BY <2>1, <2>2
<1>6. At(b, 1) = n /\ At(b, 0) = INVALID
  BY <1>1, <1>3, <1>4 DEF At
<1>7. ToSet(b) = ToSet(s) \cup {n}
  <2>1. ToSet(b) = {b[i] : i \in 1..Len(b)} /\ ToSet(s) = {s[i] : i \in 1..Len(s)}
    BY <1>3, Elements
  <2>2. ASSUME NEW i \in 1..Len(b) PROVE b[i] \in ToSet(s) \cup {n}
    <3>1. CASE i = 1
      BY <1>4, <3>1
    <3>2. CASE i # 1
      <4>1. i - 1 \in 1..Len(s) /\ (i - 1) + 1 = i
        BY <1>1, <1>3, <3>2
      <4>2. QED
        BY <1>4, <2>1, <4>1
    <3>3. QED
      BY <3>1, <3>2
  <2>3. ASSUME NEW i \in 1..Len(s) PROVE s[i] \in ToSet(b)
    <3>1. i + 1 \in 1..Len(b)
      BY <1>1, <1>3
    <3>2. QED
      BY <1>4, <2>1, <3>1
  <2>4. n \in ToSet(b)
    BY <1>1, <1>3, <1>4, <2>1
  <2>5. QED
    BY <2>1, <2>2, <2>3, <2>4
<1>8. QED
  BY <1>3, <1>4, <1>5, <1>6, <1>7 DEF b

\* A new first element whose link is the old head.
LEMMA LeadsPushed ==
  ASSUME NEW D, INVALID \notin D, NEW next, NEW h, NEW s, Leads(next, h, s, D),
         NEW n \in D, n \notin ToSet(s), NEW nx, nx[n] = h, \A x \in ToSet(s) : nx[x] = next[x]
  PROVE  Leads(nx, n, Before(n, s), D) /\ ToSet(Before(n, s)) = ToSet(s) \cup {n}
<1> DEFINE b == Before(n, s)
<1>1. /\ s \in Seq(D) /\ Len(s) \in Nat /\ h = At(s, 1) /\ ToSet(s) = {s[i] : i \in 1..Len(s)}
      /\ \A i \in 1..Len(s) : next[s[i]] = At(s, i + 1)
      /\ \A i, j \in 1..Len(s) : s[i] = s[j] => i = j
  BY LeadsIs
<1>2. /\ b \in Seq(D) /\ Len(b) = Len(s) + 1 /\ b[1] = n
      /\ \A i \in 1..Len(s) : b[i + 1] = s[i]
      /\ \A i \in Nat : At(b, i + 2) = At(s, i + 1)
      /\ At(b, 1) = n /\ ToSet(b) = ToSet(s) \cup {n}
  <2>1. s \in Seq(D)
    BY <1>1
  <2>2. b \in Seq(D) /\ Len(b) = Len(s) + 1 /\ b[1] = n
    BY <2>1, BeforeIs
  <2>3. \A i \in 1..Len(s) : b[i + 1] = s[i]
    BY <2>1, BeforeIs
  <2>4. \A i \in Nat : At(b, i + 2) = At(s, i + 1)
    BY <2>1, BeforeIs
  <2>5. At(b, 1) = n /\ ToSet(b) = ToSet(s) \cup {n}
    BY <2>1, BeforeIs
  <2>6. QED
    BY <2>2, <2>3, <2>4, <2>5
<1> HIDE DEF b
<1>3. ASSUME NEW i \in 1..Len(b) PROVE nx[b[i]] = At(b, i + 1)
  <2>1. CASE i = 1
    <3>1. At(b, 0 + 2) = At(s, 0 + 1)
      BY <1>2
    <3>2. i + 1 = 0 + 2 /\ 0 + 1 = 1
      BY <2>1
    <3>3. QED
      BY <1>1, <1>2, <2>1, <3>1, <3>2
  <2>2. CASE i # 1
    <3> DEFINE j == i - 1
    <3>1. j \in 1..Len(s) /\ i = j + 1 /\ i + 1 = j + 2 /\ j \in Nat
      BY <1>1, <1>2, <2>2
    <3> HIDE DEF j
    <3>2. b[i] = s[j] /\ s[j] \in ToSet(s) /\ nx[s[j]] = At(s, j + 1) /\ At(b, j + 2) = At(s, j + 1)
      BY <1>1, <1>2, <3>1
    <3>3. QED
      BY <3>1, <3>2
  <2>3. QED
    BY <2>1, <2>2
<1>4. ASSUME NEW i \in 1..Len(b), NEW j \in 1..Len(b), b[i] = b[j] PROVE i = j
  <2>1. ASSUME NEW k \in 1..Len(b), k # 1
        PROVE  k - 1 \in 1..Len(s) /\ b[k] = s[k - 1] /\ b[k] \in ToSet(s)
    <3> DEFINE l == k - 1
    <3>1. l \in 1..Len(s) /\ k = l + 1
      BY <1>1, <1>2, <2>1
    <3> HIDE DEF l
    <3>2. l \in 1..Len(s) /\ b[k] = s[l] /\ s[l] \in ToSet(s)
      BY <1>1, <1>2, <3>1
    <3>3. QED
      BY <3>2 DEF l
  <2>2. CASE i = 1 \/ j = 1
    BY <1>2, <1>4, <2>1, <2>2
  <2>3. CASE i # 1 /\ j # 1
    <3> DEFINE k == i - 1
               l == j - 1
    <3>1. k \in 1..Len(s) /\ b[i] = s[k] /\ l \in 1..Len(s) /\ b[j] = s[l]
      BY <2>1, <2>3
    <3>2. i = k + 1 /\ j = l + 1
      BY <1>2
    <3> HIDE DEF k, l
    <3>3. k = l
      BY <1>1, <1>4, <3>1
    <3>4. QED
      BY <3>2, <3>3
  <2>4. QED
    BY <2>2, <2>3
<1>5. Leads(nx, n, b, D)
  BY <1>2, <1>3, <1>4 DEF Leads
<1>6. QED
  BY <1>2, <1>5 DEF b

LEMMA ListPushed ==
  ASSUME NEW D, INVALID \notin D, NEW next, NEW h, NEW S, ListOf(next, h, S, D),
         NEW n \in D, n \notin S, NEW nx, nx[n] = h, \A x \in S : nx[x] = next[x]
  PROVE  ListOf(nx, n, S \cup {n}, D)
<1>1. PICK s : Leads(next, h, s, D) /\ ToSet(s) = S
  BY DEF ListOf
<1>2. Leads(nx, n, Before(n, s), D) /\ ToSet(Before(n, s)) = ToSet(s) \cup {n}
  BY <1>1, LeadsPushed
<1>3. QED
  BY <1>1, <1>2 DEF ListOf

\* A list without its p-th element.
Without(s, p) == [i \in 1..(Len(s) - 1) |-> IF i < p THEN s[i] ELSE s[i + 1]]

\* b is the sequence s without its p-th element.
IsWithout(b, s, p, D) ==
  /\ b \in Seq(D) /\ Len(b) = Len(s) - 1 /\ Len(s) - 1 \in Nat
  /\ \A i \in 1..(Len(s) - 1) : b[i] = IF i < p THEN s[i] ELSE s[i + 1]
  /\ \A i \in Int : At(b, i) = IF i < p THEN At(s, i) ELSE At(s, i + 1)
  /\ ToSet(b) = ToSet(s) \ {s[p]}

LEMMA WithoutIs ==
  ASSUME NEW D, INVALID \notin D, NEW s \in Seq(D), NEW p \in 1..Len(s),
         \A i, j \in 1..Len(s) : s[i] = s[j] => i = j
  PROVE  IsWithout(Without(s, p), s, p, D)
<1> DEFINE b == Without(s, p)
<1>1. /\ Len(s) \in Nat /\ Len(s) - 1 \in Nat /\ p \in Nat \ {0} /\ p <= Len(s)
      /\ \A i \in 1..Len(s) : s[i] \in D
  BY LenProperties, ElementOfSeq
<1>2. b \in [1..(Len(s) - 1) -> D]
  BY <1>1 DEF Without
<1>3. b \in Seq(D) /\ Len(b) = Len(s) - 1
  BY <1>1, <1>2, ByIndex
<1>4. \A i \in 1..(Len(s) - 1) : b[i] = IF i < p THEN s[i] ELSE s[i + 1]
  BY <1>1 DEF Without
<1> HIDE DEF b
<1>5. ASSUME NEW i \in Int PROVE At(b, i) = IF i < p THEN At(s, i) ELSE At(s, i + 1)
  <2>1. CASE i \in 1..(Len(s) - 1)
    <3>1. i \in 1..Len(s) /\ i + 1 \in 1..Len(s) /\ i \in 1..Len(b)
      BY <1>1, <1>3, <2>1
    <3>2. QED
      BY <1>4, <2>1, <3>1 DEF At
  <2>2. CASE i \notin 1..(Len(s) - 1) /\ i < p
    <3>1. i \notin 1..Len(s) /\ i \notin 1..Len(b)
      BY <1>1, <1>3, <2>2
    <3>2. QED
      BY <2>2, <3>1 DEF At
  <2>3. CASE i \notin 1..(Len(s) - 1) /\ ~(i < p)
    <3>1. i + 1 \notin 1..Len(s) /\ i \notin 1..Len(b)
      BY <1>1, <1>3, <2>3
    <3>2. QED
      BY <2>3, <3>1 DEF At
  <2>4. QED
    BY <2>1, <2>2, <2>3
<1>6. ToSet(b) = ToSet(s) \ {s[p]}
  <2>1. ToSet(b) = {b[i] : i \in 1..Len(b)} /\ ToSet(s) = {s[i] : i \in 1..Len(s)}
    BY <1>3, Elements
  <2>2. ASSUME NEW i \in 1..Len(b) PROVE b[i] \in ToSet(s) \ {s[p]}
    <3>1. i \in 1..Len(s) /\ i + 1 \in 1..Len(s) /\ i \in 1..(Len(s) - 1)
      BY <1>1, <1>3
    <3>2. CASE i < p
      <4>1. b[i] = s[i] /\ i # p
        BY <1>1, <1>4, <3>1, <3>2
      <4>2. QED
        BY <2>1, <3>1, <4>1
    <3>3. CASE ~(i < p)
      <4>1. b[i] = s[i + 1] /\ i + 1 # p
        BY <1>1, <1>4, <3>1, <3>3
      <4>2. QED
        BY <2>1, <3>1, <4>1
    <3>4. QED
      BY <3>2, <3>3
  <2>3. ASSUME NEW i \in 1..Len(s), i # p PROVE s[i] \in ToSet(b)
    <3>1. CASE i < p
      <4>1. i \in 1..Len(b) /\ b[i] = s[i]
        BY <1>1, <1>3, <1>4, <3>1
      <4>2. QED
        BY <2>1, <4>1
    <3>2. CASE ~(i < p)
      <4> DEFINE j == i - 1
      <4>1. j \in 1..Len(b) /\ j \in 1..(Len(s) - 1) /\ ~(j < p) /\ i = j + 1
        BY <1>1, <1>3, <2>3, <3>2
      <4> HIDE DEF j
      <4>2. b[j] = s[i]
        BY <1>4, <4>1
      <4>3. QED
        BY <2>1, <4>1, <4>2
    <3>3. QED
      BY <3>1, <3>2
  <2>4. ASSUME NEW x \in ToSet(s) \ {s[p]} PROVE x \in ToSet(b)
    <3>1. PICK i \in 1..Len(s) : x = s[i]
      BY <2>1
    <3>2. QED
      BY <2>3, <3>1
  <2>5. ASSUME NEW x \in ToSet(b) PROVE x \in ToSet(s) \ {s[p]}
    <3>1. PICK i \in 1..Len(b) : x = b[i]
      BY <2>1
    <3>2. QED
      BY <2>2, <3>1
  <2>6. QED
    BY <2>4, <2>5
<1>7. QED
  BY <1>1, <1>3, <1>4, <1>5, <1>6 DEF b, IsWithout

\* Taking an element out: the one before it, or the head, comes to point past it.
LEMMA LeadsUnlinked ==
  ASSUME NEW D, INVALID \notin D, NEW next, NEW h, NEW s, Leads(next, h, s, D),
         NEW p \in 1..Len(s), NEW nx,
         \A x \in ToSet(s) \ {s[p]} : nx[x] = IF x = At(s, p - 1) THEN next[s[p]] ELSE next[x]
  PROVE  /\ Leads(nx, IF h = s[p] THEN next[s[p]] ELSE h, Without(s, p), D)
         /\ ToSet(Without(s, p)) = ToSet(s) \ {s[p]}
<1> DEFINE b == Without(s, p)
           q == IF h = s[p] THEN next[s[p]] ELSE h
<1>1. /\ s \in Seq(D) /\ Len(s) \in Nat /\ h = At(s, 1) /\ ToSet(s) = {s[i] : i \in 1..Len(s)}
      /\ \A i \in 1..Len(s) : next[s[i]] = At(s, i + 1) /\ s[i] \in D
      /\ \A i, j \in 1..Len(s) : s[i] = s[j] => i = j
  BY LeadsIs
<1>2. s \in Seq(D) /\ \A i, j \in 1..Len(s) : s[i] = s[j] => i = j
  BY <1>1
<1>b. IsWithout(b, s, p, D)
  BY <1>2, WithoutIs
<1>3. b \in Seq(D) /\ Len(b) = Len(s) - 1 /\ Len(s) - 1 \in Nat
  BY <1>b DEF IsWithout
<1>4. \A i \in 1..(Len(s) - 1) : b[i] = IF i < p THEN s[i] ELSE s[i + 1]
  BY <1>b DEF IsWithout
<1>5. \A i \in Int : At(b, i) = IF i < p THEN At(s, i) ELSE At(s, i + 1)
  BY <1>b DEF IsWithout
<1>6. ToSet(b) = ToSet(s) \ {s[p]}
  BY <1>b DEF IsWithout
<1>a. p \in Int /\ 1 <= p /\ p <= Len(s)
  BY <1>1
<1> HIDE DEF b
<1>7. q = At(b, 1)
  <2>1. At(b, 1) = IF 1 < p THEN At(s, 1) ELSE At(s, 1 + 1)
    BY <1>5
  <2>2. 1 \in 1..Len(s) /\ h = s[1]
    BY <1>1, <1>a DEF At
  <2>3. CASE p = 1
    <3>1. next[s[p]] = At(s, 1 + 1)
      BY <1>1, <2>2, <2>3
    <3>2. ~(1 < p) /\ h = s[p]
      BY <2>2, <2>3
    <3>3. QED
      BY <2>1, <3>1, <3>2
  <2>4. CASE p # 1
    <3>1. 1 < p /\ h # s[p]
      BY <1>1, <1>a, <2>2, <2>4
    <3>2. QED
      BY <1>1, <2>1, <3>1
  <2>5. QED
    BY <2>3, <2>4
<1> HIDE DEF q
<1>8. ASSUME NEW i \in 1..Len(b) PROVE nx[b[i]] = At(b, i + 1)
  <2>1. i \in Int /\ i + 1 \in Int /\ i \in 1..(Len(s) - 1) /\ i \in 1..Len(s) /\ i + 1 \in 1..Len(s)
    BY <1>1, <1>3
  <2>2. At(b, i + 1) = IF i + 1 < p THEN At(s, i + 1) ELSE At(s, i + 1 + 1)
    BY <1>5, <2>1
  <2>3. CASE i + 1 < p
    <3>1. b[i] = s[i] /\ i # p /\ i # p - 1 /\ At(b, i + 1) = At(s, i + 1)
      BY <1>4, <1>a, <2>1, <2>2, <2>3
    <3>2. s[i] \in ToSet(s) \ {s[p]}
      BY <1>1, <2>1, <3>1
    <3>3. s[i] # At(s, p - 1)
      <4>1. p - 1 \in 1..Len(s)
        BY <1>a, <1>1, <2>1, <2>3
      <4>2. QED
        BY <1>1, <2>1, <3>1, <4>1 DEF At
    <3>4. QED
      BY <1>1, <2>1, <3>1, <3>2, <3>3
  <2>4. CASE i + 1 = p
    <3>1. b[i] = s[i] /\ i # p /\ i = p - 1 /\ At(b, i + 1) = At(s, p + 1)
      BY <1>4, <1>a, <2>1, <2>2, <2>4
    <3>2. s[i] \in ToSet(s) \ {s[p]}
      BY <1>1, <2>1, <3>1
    <3>3. s[i] = At(s, p - 1)
      BY <2>1, <3>1 DEF At
    <3>4. QED
      BY <1>1, <2>1, <3>1, <3>2, <3>3
  <2>5. CASE i + 1 > p
    <3>1. b[i] = s[i + 1] /\ i + 1 # p /\ i + 1 # p - 1 /\ At(b, i + 1) = At(s, i + 1 + 1)
      BY <1>4, <1>a, <2>1, <2>2, <2>5
    <3>2. s[i + 1] \in ToSet(s) \ {s[p]}
      BY <1>1, <2>1, <3>1
    <3>3. s[i + 1] # At(s, p - 1)
      <4>1. s[i + 1] \in D
        BY <1>1, <2>1
      <4>2. QED
        BY <1>1, <2>1, <3>1, <4>1 DEF At
    <3>4. QED
      BY <1>1, <2>1, <3>1, <3>2, <3>3
  <2>6. QED
    BY <1>a, <2>1, <2>3, <2>4, <2>5
<1>9. ASSUME NEW i \in 1..Len(b), NEW j \in 1..Len(b), b[i] = b[j] PROVE i = j
  <2>1. ASSUME NEW k \in 1..Len(b)
        PROVE  k \in 1..(Len(s) - 1) /\ k \in 1..Len(s) /\ k + 1 \in 1..Len(s) /\ k \in Int
    BY <1>1, <1>3
  <2>2. b[i] = (IF i < p THEN s[i] ELSE s[i + 1]) /\ b[j] = (IF j < p THEN s[j] ELSE s[j + 1])
    BY <1>4, <2>1
  <2>3. CASE i < p /\ j < p
    BY <1>1, <1>9, <2>1, <2>2, <2>3
  <2>4. CASE i < p /\ ~(j < p)
    <3>1. i = j + 1
      BY <1>1, <1>9, <2>1, <2>2, <2>4
    <3>2. QED
      BY <1>a, <2>1, <2>4, <3>1
  <2>5. CASE ~(i < p) /\ j < p
    <3>1. j = i + 1
      BY <1>1, <1>9, <2>1, <2>2, <2>5
    <3>2. QED
      BY <1>a, <2>1, <2>5, <3>1
  <2>6. CASE ~(i < p) /\ ~(j < p)
    <3>1. i + 1 = j + 1
      BY <1>1, <1>9, <2>1, <2>2, <2>6
    <3>2. QED
      BY <2>1, <3>1
  <2>7. QED
    BY <2>3, <2>4, <2>5, <2>6
<1>10. Leads(nx, q, b, D)
  BY <1>3, <1>7, <1>8, <1>9 DEF Leads
<1>11. QED
  BY <1>6, <1>10 DEF b, q

\* What the head and the links of a list are.
LEMMA ListIs ==
  ASSUME NEW D, INVALID \notin D, NEW next, NEW h, NEW S, ListOf(next, h, S, D)
  PROVE  /\ S \subseteq D /\ h \in S \cup {INVALID} /\ (h = INVALID <=> S = {})
         /\ \A x \in S : next[x] \in S \cup {INVALID}
<1>1. PICK s : Leads(next, h, s, D) /\ ToSet(s) = S
  BY DEF ListOf
<1>2. /\ s \in Seq(D) /\ Len(s) \in Nat /\ h = At(s, 1) /\ ToSet(s) = {s[i] : i \in 1..Len(s)}
      /\ \A i \in 1..Len(s) : next[s[i]] = At(s, i + 1) /\ s[i] \in D
  BY <1>1, LeadsIs
<1>3. S \subseteq D /\ \A i : At(s, i) \in S \cup {INVALID}
  BY <1>1, <1>2 DEF At
<1>4. S = {} => h = INVALID
  BY <1>2, <1>3
<1>5. ASSUME S # {} PROVE h # INVALID
  <2>1. 1 \in 1..Len(s)
    BY <1>1, <1>2, <1>5
  <2>2. h = s[1] /\ s[1] \in D
    BY <1>2, <2>1 DEF At
  <2>3. QED
    BY <2>2
<1>6. ASSUME NEW x \in S PROVE next[x] \in S \cup {INVALID}
  <2>1. PICK i \in 1..Len(s) : x = s[i]
    BY <1>1, <1>2
  <2>2. QED
    BY <1>2, <1>3, <2>1
<1>7. h \in S \cup {INVALID}
  BY <1>2, <1>3
<1>8. QED
  BY <1>3, <1>4, <1>5, <1>6, <1>7

LEMMA ListPopped ==
  ASSUME NEW D, INVALID \notin D, NEW next, NEW h, NEW S, ListOf(next, h, S, D), h # INVALID
  PROVE  h \in S /\ h \in D /\ ListOf(next, next[h], S \ {h}, D)
<1>1. PICK s : Leads(next, h, s, D) /\ ToSet(s) = S
  BY DEF ListOf
<1>2. h \in S /\ h \in D
  BY ListIs
<1>3. Len(s) \in Nat /\ h = At(s, 1) /\ \A i \in 1..Len(s) : s[i] \in D
  BY <1>1, LeadsIs
<1>4. 1 \in 1..Len(s) /\ h = s[1]
  BY <1>3 DEF At
<1>5. At(s, 1 - 1) = INVALID
  BY <1>3 DEF At
<1>6. \A x \in ToSet(s) \ {s[1]} : next[x] = IF x = At(s, 1 - 1) THEN next[s[1]] ELSE next[x]
  <2>1. ToSet(s) \subseteq D
    BY <1>1, ListIs
  <2>2. QED
    BY <1>5, <2>1
<1>7. /\ Leads(next, IF h = s[1] THEN next[s[1]] ELSE h, Without(s, 1), D)
      /\ ToSet(Without(s, 1)) = ToSet(s) \ {s[1]}
  BY <1>1, <1>4, <1>6, LeadsUnlinked
<1>8. Leads(next, next[h], Without(s, 1), D) /\ ToSet(Without(s, 1)) = S \ {h}
  BY <1>1, <1>4, <1>7
<1>9. QED
  BY <1>2, <1>8 DEF ListOf

\* The same about lists that are linked in both directions.
LEMMA DListIs ==
  ASSUME NEW D, INVALID \notin D, NEW next, NEW prev, NEW h, NEW t, NEW S,
         DListOf(next, prev, h, t, S, D)
  PROVE  /\ S \subseteq D /\ h \in S \cup {INVALID} /\ t \in S \cup {INVALID}
         /\ h = INVALID <=> S = {}
         /\ t = INVALID <=> S = {}
         /\ \A x \in S : /\ next[x] \in S \cup {INVALID} /\ prev[x] \in S \cup {INVALID}
                         /\ prev[x] = INVALID <=> x = h
                         /\ next[x] = INVALID <=> x = t
         /\ ListOf(next, h, S, D)
<1>1. PICK s : Leads(next, h, s, D) /\ DoublyLinked(prev, t, s) /\ ToSet(s) = S
  BY DEF DListOf
<1>2. ListOf(next, h, S, D)
  BY <1>1 DEF ListOf
<1>3. /\ s \in Seq(D) /\ Len(s) \in Nat /\ h = At(s, 1) /\ ToSet(s) = {s[i] : i \in 1..Len(s)}
      /\ \A i \in 1..Len(s) : next[s[i]] = At(s, i + 1) /\ s[i] \in D
      /\ \A i, j \in 1..Len(s) : s[i] = s[j] => i = j
  BY <1>1, LeadsIs
<1>4. t = At(s, Len(s)) /\ \A i \in 1..Len(s) : prev[s[i]] = At(s, i - 1)
  BY <1>1 DEF DoublyLinked
<1>5. /\ S \subseteq D /\ h \in S \cup {INVALID} /\ (h = INVALID <=> S = {})
      /\ \A x \in S : next[x] \in S \cup {INVALID}
  BY <1>2, ListIs
<1>6. \A i : At(s, i) \in S \cup {INVALID}
  BY <1>1, <1>3 DEF At
<1>7. t = INVALID <=> S = {}
  <2>1. CASE Len(s) = 0
    BY <1>1, <1>3, <1>4, <2>1 DEF At
  <2>2. CASE Len(s) # 0
    <3>1. Len(s) \in 1..Len(s) /\ t = s[Len(s)] /\ s[Len(s)] \in D /\ s[Len(s)] \in S
      BY <1>1, <1>3, <1>4, <2>2 DEF At
    <3>2. QED
      BY <3>1
  <2>3. QED
    BY <2>1, <2>2
<1>8. ASSUME NEW x \in S
      PROVE  prev[x] \in S \cup {INVALID} /\ (prev[x] = INVALID <=> x = h)
             /\ (next[x] = INVALID <=> x = t)
  <2>1. PICK i \in 1..Len(s) : x = s[i]
    BY <1>1, <1>3
  <2>2. prev[x] = At(s, i - 1) /\ next[x] = At(s, i + 1)
    BY <1>3, <1>4, <2>1
  <2>3. prev[x] = INVALID <=> x = h
    <3>1. CASE i = 1
      BY <1>3, <2>1, <2>2, <3>1 DEF At
    <3>2. CASE i # 1
      <4>1. i - 1 \in 1..Len(s) /\ 1 \in 1..Len(s)
        BY <1>3, <3>2
      <4>2. prev[x] = s[i - 1] /\ s[i - 1] \in D /\ h = s[1]
        BY <1>3, <2>2, <4>1 DEF At
      <4>3. QED
        BY <1>3, <2>1, <3>2, <4>1, <4>2
    <3>3. QED
      BY <3>1, <3>2
  <2>4. next[x] = INVALID <=> x = t
    <3>1. CASE i = Len(s)
      <4>1. i + 1 \notin 1..Len(s) /\ i \in 1..Len(s)
        BY <1>3, <3>1
      <4>2. QED
        BY <1>4, <2>1, <2>2, <3>1, <4>1 DEF At
    <3>2. CASE i # Len(s)
      <4>1. i + 1 \in 1..Len(s) /\ Len(s) \in 1..Len(s)
        BY <1>3, <3>2
      <4>2. next[x] = s[i + 1] /\ s[i + 1] \in D /\ t = s[Len(s)]
        BY <1>3, <1>4, <2>2, <4>1 DEF At
      <4>3. QED
        BY <1>3, <2>1, <3>2, <4>1, <4>2
    <3>3. QED
      BY <3>1, <3>2
  <2>5. QED
    BY <1>6, <2>2, <2>3, <2>4
<1>9. t \in S \cup {INVALID}
  BY <1>4, <1>6
<1>10. QED
  BY <1>2, <1>5, <1>7, <1>8, <1>9

LEMMA EmptyDList ==
  ASSUME NEW D, NEW next, NEW prev
  PROVE  DListOf(next, prev, INVALID, INVALID, {}, D)
<1>1. Leads(next, INVALID, <<>>, D) /\ ToSet(<<>>) = {}
  BY EmptyLeads
<1>2. DoublyLinked(prev, INVALID, <<>>)
  BY DEF DoublyLinked, At
<1>3. QED
  BY <1>1, <1>2 DEF DListOf

LEMMA DListFrame ==
  ASSUME NEW D, INVALID \notin D, NEW next, NEW prev, NEW h, NEW t, NEW S,
         DListOf(next, prev, h, t, S, D),
         NEW nx, \A x \in S : nx[x] = next[x], NEW pv, \A x \in S : pv[x] = prev[x]
  PROVE  DListOf(nx, pv, h, t, S, D)
<1>1. PICK s : Leads(next, h, s, D) /\ DoublyLinked(prev, t, s) /\ ToSet(s) = S
  BY DEF DListOf
<1>2. \A i \in 1..Len(s) : s[i] \in S
  BY <1>1, LeadsIs
<1>3. DoublyLinked(pv, t, s)
  BY <1>1, <1>2 DEF DoublyLinked
<1>4. Leads(nx, h, s, D)
  BY <1>1, LeadsFrame
<1>5. QED
  BY <1>1, <1>3, <1>4 DEF DListOf

LEMMA DListPushed ==
  ASSUME NEW D, INVALID \notin D, NEW next, NEW prev, NEW h, NEW t, NEW S,
         DListOf(next, prev, h, t, S, D), NEW n \in D, n \notin S,
         NEW nx, nx[n] = h, \A x \in S : nx[x] = next[x],
         NEW pv, pv[n] = INVALID, h # INVALID => pv[h] = n, \A x \in S \ {h} : pv[x] = prev[x],
         NEW u, t = INVALID => u = n, t # INVALID => u = t
  PROVE  DListOf(nx, pv, n, u, S \cup {n}, D)
<1>1. PICK s : Leads(next, h, s, D) /\ DoublyLinked(prev, t, s) /\ ToSet(s) = S
  BY DEF DListOf
<1> DEFINE b == Before(n, s)
<1>2. Leads(nx, n, b, D) /\ ToSet(b) = S \cup {n}
  BY <1>1, LeadsPushed
<1>3. /\ s \in Seq(D) /\ Len(s) \in Nat /\ h = At(s, 1)
      /\ \A i \in 1..Len(s) : s[i] \in D /\ s[i] \in S
      /\ \A i, j \in 1..Len(s) : s[i] = s[j] => i = j
  BY <1>1, LeadsIs
<1>4. t = At(s, Len(s)) /\ \A i \in 1..Len(s) : prev[s[i]] = At(s, i - 1)
  BY <1>1 DEF DoublyLinked
<1>a. s \in Seq(D)
  BY <1>3
<1>5. Len(b) = Len(s) + 1 /\ b[1] = n
  BY <1>a, BeforeIs
<1>6. \A i \in 1..Len(s) : b[i + 1] = s[i]
  BY <1>a, BeforeIs
<1>7. \A i \in Nat : At(b, i + 2) = At(s, i + 1)
  BY <1>a, BeforeIs
<1>8. At(b, 1) = n /\ At(b, 0) = INVALID
  BY <1>a, BeforeIs
<1> HIDE DEF b
<1>9. u = At(b, Len(b))
  <2>1. CASE Len(s) = 0
    BY <1>4, <1>5, <1>8, <2>1 DEF At
  <2>2. CASE Len(s) # 0
    <3> DEFINE j == Len(s) - 1
    <3>1. j \in Nat /\ j + 1 = Len(s) /\ j + 2 = Len(b) /\ Len(s) \in 1..Len(s)
      BY <1>3, <1>5, <2>2
    <3> HIDE DEF j
    <3>2. At(b, Len(b)) = At(s, Len(s))
      BY <1>7, <3>1
    <3>3. t = s[Len(s)] /\ t \in D
      BY <1>3, <1>4, <3>1 DEF At
    <3>4. QED
      BY <1>4, <3>2, <3>3
  <2>3. QED
    BY <2>1, <2>2
<1>10. ASSUME NEW i \in 1..Len(b) PROVE pv[b[i]] = At(b, i - 1)
  <2>1. CASE i = 1
    BY <1>5, <1>8, <2>1
  <2>2. CASE i = 2
    <3>1. 1 \in 1..Len(s) /\ 1 + 1 = 2
      BY <1>3, <1>5, <2>2
    <3>2. b[2] = s[1] /\ h = s[1] /\ s[1] \in S
      BY <1>3, <1>6, <3>1 DEF At
    <3>3. pv[b[2]] = n
      <4>1. h # INVALID
        BY <1>3, <3>1, <3>2
      <4>2. QED
        BY <3>2, <4>1
    <3>4. QED
      BY <1>8, <2>2, <3>3
  <2>3. CASE i # 1 /\ i # 2
    <3> DEFINE j == i - 3
    <3>1. j \in Nat /\ j + 2 = i - 1 /\ j + 2 \in 1..Len(s) /\ j + 2 + 1 = i /\ (j + 2) - 1 = j + 1
          /\ 1 \in 1..Len(s) /\ j + 2 # 1
      BY <1>3, <1>5, <2>3
    <3> HIDE DEF j
    <3>2. b[i] = s[j + 2] /\ s[j + 2] \in S
      BY <1>3, <1>6, <3>1
    <3>3. s[j + 2] # h
      BY <1>3, <3>1 DEF At
    <3>4. pv[b[i]] = At(s, j + 1)
      BY <1>4, <3>1, <3>2, <3>3
    <3>5. QED
      BY <1>7, <3>1, <3>4
  <2>4. QED
    BY <2>1, <2>2, <2>3
<1>11. DoublyLinked(pv, u, b)
  BY <1>9, <1>10 DEF DoublyLinked
<1>12. QED
  BY <1>2, <1>11 DEF DListOf

\* The next and the previous element of a doubly linked list are others.
LEMMA NotItself ==
  ASSUME NEW D, INVALID \notin D, NEW next, NEW prev, NEW h, NEW t, NEW S,
         DListOf(next, prev, h, t, S, D), NEW n \in S
  PROVE  next[n] # n /\ prev[n] # n
<1>1. PICK q : Leads(next, h, q, D) /\ DoublyLinked(prev, t, q) /\ ToSet(q) = S
  BY DEF DListOf
<1>2. /\ Len(q) \in Nat /\ \A i \in 1..Len(q) : next[q[i]] = At(q, i + 1) /\ q[i] \in D
      /\ \A i, j \in 1..Len(q) : q[i] = q[j] => i = j
      /\ ToSet(q) = {q[i] : i \in 1..Len(q)}
  BY <1>1, LeadsIs
<1>3. PICK i \in 1..Len(q) : n = q[i]
  BY <1>1, <1>2
<1>4. prev[q[i]] = At(q, i - 1) /\ next[q[i]] = At(q, i + 1)
  BY <1>1, <1>2 DEF DoublyLinked
<1>5. At(q, i - 1) # q[i]
  <2>1. CASE i - 1 \in 1..Len(q)
    BY <1>2, <2>1 DEF At
  <2>2. CASE i - 1 \notin 1..Len(q)
    BY <1>2, <2>2 DEF At
  <2>3. QED
    BY <2>1, <2>2
<1>6. At(q, i + 1) # q[i]
  <2>1. CASE i + 1 \in 1..Len(q)
    BY <1>2, <2>1 DEF At
  <2>2. CASE i + 1 \notin 1..Len(q)
    BY <1>2, <2>2 DEF At
  <2>3. QED
    BY <2>1, <2>2
<1>7. QED
  BY <1>3, <1>4, <1>5, <1>6

\* What taking n off the list changes; the new list starts at g and ends at u.
Unlinks(next, prev, h, t, S, n, nx, pv, g, u) ==
  /\ prev[n] # INVALID => nx[prev[n]] = next[n]
  /\ \A x \in S \ {n, prev[n]} : nx[x] = next[x]
  /\ next[n] # INVALID => pv[next[n]] = prev[n]
  /\ \A x \in S \ {n, next[n]} : pv[x] = prev[x]
  /\ h = n => g = next[n]
  /\ h # n => g = h
  /\ t = n => u = prev[n]
  /\ t # n => u = t

LEMMA DListUnlinked ==
  ASSUME NEW D, INVALID \notin D, NEW next, NEW prev, NEW h, NEW t, NEW S,
         DListOf(next, prev, h, t, S, D), NEW n \in S, NEW nx, NEW pv, NEW g, NEW u,
         Unlinks(next, prev, h, t, S, n, nx, pv, g, u)
  PROVE  DListOf(nx, pv, g, u, S \ {n}, D)
<1> USE DEF Unlinks
<1>1. PICK s : Leads(next, h, s, D) /\ DoublyLinked(prev, t, s) /\ ToSet(s) = S
  BY DEF DListOf
<1>2. /\ s \in Seq(D) /\ Len(s) \in Nat /\ h = At(s, 1) /\ ToSet(s) = {s[i] : i \in 1..Len(s)}
      /\ \A i \in 1..Len(s) : s[i] \in D /\ s[i] \in S
      /\ \A i, j \in 1..Len(s) : s[i] = s[j] => i = j
  BY <1>1, LeadsIs
<1>a. \A i \in 1..Len(s) : next[s[i]] = At(s, i + 1)
  BY <1>1, LeadsIs
<1>3. t = At(s, Len(s)) /\ \A i \in 1..Len(s) : prev[s[i]] = At(s, i - 1)
  BY <1>1 DEF DoublyLinked
<1>4. PICK p \in 1..Len(s) : n = s[p]
  BY <1>1, <1>2
<1>5. p \in Int /\ 1 <= p /\ p <= Len(s) /\ prev[n] = At(s, p - 1) /\ next[n] = At(s, p + 1)
  BY <1>2, <1>a, <1>3, <1>4
<1> DEFINE b == Without(s, p)
<1>6. Leads(nx, g, b, D) /\ ToSet(b) = S \ {n}
  <2>1. \A x \in ToSet(s) \ {s[p]} : nx[x] = IF x = At(s, p - 1) THEN next[s[p]] ELSE next[x]
    <3> SUFFICES ASSUME NEW x \in S \ {n}
                 PROVE  nx[x] = IF x = prev[n] THEN next[n] ELSE next[x]
      BY <1>1, <1>4, <1>5
    <3>1. x # INVALID
      BY <1>2, <1>1
    <3>2. CASE x = prev[n]
      BY <3>1, <3>2
    <3>3. CASE x # prev[n]
      BY <3>3
    <3>4. QED
      BY <3>2, <3>3
  <2>2. /\ Leads(nx, IF h = s[p] THEN next[s[p]] ELSE h, b, D)
        /\ ToSet(b) = ToSet(s) \ {s[p]}
    BY <1>1, <2>1, LeadsUnlinked
  <2>3. g = IF h = s[p] THEN next[s[p]] ELSE h
    BY <1>4
  <2>4. QED
    BY <1>1, <1>4, <2>2, <2>3
<1>7. IsWithout(b, s, p, D)
  BY <1>2, WithoutIs
<1>8. Len(b) = Len(s) - 1 /\ Len(s) - 1 \in Nat
  BY <1>7 DEF IsWithout
<1>9. \A i \in 1..(Len(s) - 1) : b[i] = IF i < p THEN s[i] ELSE s[i + 1]
  BY <1>7 DEF IsWithout
<1>10. \A i \in Int : At(b, i) = IF i < p THEN At(s, i) ELSE At(s, i + 1)
  BY <1>7 DEF IsWithout
<1> HIDE DEF b
<1>11. u = At(b, Len(b))
  <2>1. At(b, Len(b)) = IF Len(b) < p THEN At(s, Len(b)) ELSE At(s, Len(b) + 1)
    <3>1. Len(b) \in Int
      BY <1>8
    <3>2. QED
      BY <1>10, <3>1
  <2>2. Len(b) + 1 = Len(s) /\ Len(b) = Len(s) - 1 /\ Len(s) \in 1..Len(s) /\ t = s[Len(s)]
    BY <1>2, <1>3, <1>8 DEF At
  <2>3. CASE p = Len(s)
    <3>1. t = n /\ Len(b) < p /\ Len(b) = p - 1
      BY <1>4, <1>5, <1>8, <2>2, <2>3
    <3>2. QED
      BY <1>5, <2>1, <3>1
  <2>4. CASE p # Len(s)
    <3>1. t # n /\ ~(Len(b) < p)
      BY <1>2, <1>4, <1>5, <1>8, <2>2, <2>4
    <3>2. QED
      BY <1>3, <2>1, <2>2, <3>1
  <2>5. QED
    BY <2>3, <2>4
<1>12. ASSUME NEW i \in 1..Len(b) PROVE pv[b[i]] = At(b, i - 1)
  <2>1. i \in Int /\ i - 1 \in Int /\ i \in 1..(Len(s) - 1) /\ i \in 1..Len(s) /\ i + 1 \in 1..Len(s)
        /\ (i - 1) + 1 = i /\ (i + 1) - 1 = i
    BY <1>2, <1>8
  <2>2. At(b, i - 1) = IF i - 1 < p THEN At(s, i - 1) ELSE At(s, i)
    BY <1>10, <2>1
  <2>3. CASE i < p
    <3>1. b[i] = s[i] /\ i # p /\ i # p + 1 /\ i - 1 < p
      BY <1>5, <1>9, <2>1, <2>3
    <3>2. s[i] \in S \ {n}
      BY <1>2, <1>4, <2>1, <3>1
    <3>3. s[i] # next[n]
      <4>1. CASE p + 1 \in 1..Len(s)
        BY <1>2, <1>5, <2>1, <3>1, <4>1 DEF At
      <4>2. CASE p + 1 \notin 1..Len(s)
        <5>1. next[n] = INVALID
          BY <1>5, <4>2 DEF At
        <5>2. QED
          BY <1>2, <2>1, <5>1
      <4>3. QED
        BY <4>1, <4>2
    <3>4. QED
      BY <1>3, <2>1, <2>2, <3>1, <3>2, <3>3
  <2>4. CASE i = p
    <3>1. b[i] = s[i + 1] /\ i + 1 # p /\ i - 1 < p
      BY <1>5, <1>9, <2>1, <2>4
    <3>2. s[i + 1] \in S \ {n}
      BY <1>2, <1>4, <2>1, <3>1
    <3>3. s[i + 1] = next[n]
      BY <1>5, <2>1, <2>4 DEF At
    <3>a. next[n] # INVALID
      BY <1>2, <2>1, <3>3
    <3>4. QED
      BY <1>5, <2>2, <2>4, <3>1, <3>3, <3>a
  <2>5. CASE i > p
    <3>1. b[i] = s[i + 1] /\ i + 1 # p /\ ~(i - 1 < p) /\ i + 1 # p + 1
      BY <1>5, <1>9, <2>1, <2>5
    <3>2. s[i + 1] \in S \ {n}
      BY <1>2, <1>4, <2>1, <3>1
    <3>3. s[i + 1] # next[n]
      <4>1. p + 1 \in 1..Len(s)
        BY <1>5, <2>1, <2>5
      <4>2. QED
        BY <1>2, <1>5, <2>1, <3>1, <4>1 DEF At
    <3>4. QED
      BY <1>3, <2>1, <2>2, <3>1, <3>2, <3>3
  <2>6. QED
    BY <1>5, <2>1, <2>3, <2>4, <2>5
<1>13. DoublyLinked(pv, u, b)
  BY <1>11, <1>12 DEF DoublyLinked
<1>14. DListOf(nx, pv, g, u, S \ {n}, D)
  BY <1>6, <1>13 DEF DListOf
<1>15. QED
  BY <1>14

-----------------------------------------------------------------------------
(***************************************************************************)
(* What Chain computes                                                     *)
(***************************************************************************)

\* The function that Chain is defined by, for lists cut after n elements.
IsFirst(f, next, n) ==
  f = [k \in 0..n |->
         [p \in DOMAIN next \cup {INVALID} |->
            IF k = 0 \/ p = INVALID THEN <<>> ELSE <<p>> \o f[k - 1][next[p]]]]

Arrays(D) == [D -> D \cup {INVALID}]

LEMMA FirstExists ==
  ASSUME NEW D, INVALID \notin D, NEW next \in Arrays(D), NEW n \in Nat
  PROVE  \E f : IsFirst(f, next, n)
<1> DEFINE E == D \cup {INVALID}
           X == [E -> Seq(D)]
           a == [p \in E |-> <<>>]
           G(x) == [p \in E |-> IF p = INVALID THEN <<>> ELSE <<p>> \o x[next[p]]]
           F == [k \in 1..n |-> [x \in X |-> G(x)]]
<1>1. DOMAIN next = D /\ \A p \in D : next[p] \in E
  BY DEF Arrays
<1>2. ASSUME NEW x \in X PROVE G(x) \in X
  <2>1. ASSUME NEW p \in E
        PROVE  (IF p = INVALID THEN <<>> ELSE <<p>> \o x[next[p]]) \in Seq(D)
    <3>1. CASE p = INVALID
      BY <3>1
    <3>2. CASE p # INVALID
      <4>1. p \in D /\ x[next[p]] \in Seq(D) /\ <<p>> \in Seq(D)
        BY <1>1, <3>2
      <4>2. <<p>> \o x[next[p]] \in Seq(D)
        BY <4>1, ConcatProperties
      <4>3. QED
        BY <3>2, <4>2
    <3>3. QED
      BY <3>1, <3>2
  <2>2. QED
    BY <2>1
<1>3. a \in X
  BY EmptySeq
<1> HIDE DEF G, X, a, E
<1>4. F \in [1..n -> [X -> X]]
  BY <1>2
<1> HIDE DEF F
<1>5. PICK f \in [0..n -> X] : f[0] = a /\ \A k \in 1..n : f[k] = F[k][f[k - 1]]
  <2>1. IsLoop(n, X, a, F)
    BY <1>3, <1>4 DEF IsLoop
  <2>2. QED
    BY <2>1, LoopExists
<1>6. \A k \in 1..n : k - 1 \in 0..n /\ f[k] = G(f[k - 1])
  <2> SUFFICES ASSUME NEW k \in 1..n PROVE k - 1 \in 0..n /\ f[k] = G(f[k - 1])
    OBVIOUS
  <2>1. k - 1 \in 0..n
    OBVIOUS
  <2>2. f[k - 1] \in X
    BY <2>1
  <2>3. F[k][f[k - 1]] = G(f[k - 1])
    BY <2>2 DEF F
  <2>4. QED
    BY <1>5, <2>1, <2>3
<1> USE DEF E
<1>7. ASSUME NEW k \in 0..n
      PROVE  f[k] = [p \in E |-> IF k = 0 \/ p = INVALID THEN <<>>
                                ELSE <<p>> \o f[k - 1][next[p]]]
  <2>1. CASE k = 0
    BY <1>5, <2>1 DEF a
  <2>2. CASE k # 0
    <3>1. k \in 1..n
      BY <2>2
    <3>2. f[k] = G(f[k - 1])
      BY <1>6, <3>1
    <3>3. QED
      BY <2>2, <3>2 DEF G
  <2>3. QED
    BY <2>1, <2>2
<1>8. f = [k \in 0..n |->
             [p \in E |-> IF k = 0 \/ p = INVALID THEN <<>>
                         ELSE <<p>> \o f[k - 1][next[p]]]]
  BY <1>7
<1>9. IsFirst(f, next, n)
  BY <1>1, <1>8 DEF IsFirst
<1>10. QED
  BY <1>9

LEMMA ChainUnfolds ==
  ASSUME NEW D, INVALID \notin D, NEW next \in Arrays(D), NEW h,
         Cardinality(D) \in Nat
  PROVE  \E f : /\ IsFirst(f, next, Cardinality(D) + 1)
                /\ Chain(next, h) = f[Cardinality(D) + 1][h]
<1>1. DOMAIN next = D
  BY DEF Arrays
<1>2. \E f : IsFirst(f, next, Cardinality(D) + 1)
  BY FirstExists
<1>3. QED
  BY <1>1, <1>2 DEF Chain, IsFirst

\* The chain from a list's head is the list.
LEMMA ChainIs ==
  ASSUME NEW D, IsFiniteSet(D), INVALID \notin D, NEW next \in Arrays(D), NEW h, NEW s,
         Leads(next, h, s, D)
  PROVE  Chain(next, h) = s
<1> DEFINE n == Cardinality(D) + 1
           E == D \cup {INVALID}
<1>1. Cardinality(D) \in Nat
  BY FS_CardinalityType
<1>2. PICK f : IsFirst(f, next, n) /\ Chain(next, h) = f[n][h]
  BY <1>1, ChainUnfolds
<1>3. /\ s \in Seq(D) /\ Len(s) \in Nat /\ h = At(s, 1)
      /\ \A i \in 1..Len(s) : next[s[i]] = At(s, i + 1) /\ s[i] \in D
  BY LeadsIs
<1>4. \A i : At(s, i) \in E
  BY <1>3 DEF At
<1>5. Len(s) < n /\ n \in Nat
  BY <1>1, LengthIs
<1> HIDE DEF n
<1>6. \A k \in 0..n, p \in E :
        f[k][p] = IF k = 0 \/ p = INVALID THEN <<>> ELSE <<p>> \o f[k - 1][next[p]]
  <2>1. DOMAIN next = D
    BY DEF Arrays
  <2>2. f = [k \in 0..n |->
               [p \in E |-> IF k = 0 \/ p = INVALID THEN <<>>
                           ELSE <<p>> \o f[k - 1][next[p]]]]
    BY <1>2, <2>1 DEF IsFirst
  <2> HIDE DEF E
  <2>3. \A k \in 0..n :
           f[k] = [p \in E |-> IF k = 0 \/ p = INVALID THEN <<>>
                              ELSE <<p>> \o f[k - 1][next[p]]]
    BY <2>2
  <2>4. QED
    BY <2>3
<1> DEFINE R(i) == SubSeq(s, i, Len(s))
           T == {k \in Nat : k <= n =>
                   \A i \in 1..(Len(s) + 1) : k >= Len(s) + 1 - i => f[k][At(s, i)] = R(i)}
<1> HIDE DEF E
<1>7. R(Len(s) + 1) = <<>>
  BY <1>3, SubSeqEmpty
<1>8. \A i \in 1..Len(s) : R(i) = <<s[i]>> \o R(i + 1)
  <2> SUFFICES ASSUME NEW i \in 1..Len(s) PROVE R(i) = <<s[i]>> \o R(i + 1)
    OBVIOUS
  <2>1. s \in Seq(D) /\ Len(s) \in i..Len(s)
    BY <1>3
  <2>2. QED
    BY <2>1, SubSeqRecursiveFirst
<1>9. ASSUME NEW k \in 0..n PROVE f[k][At(s, Len(s) + 1)] = R(Len(s) + 1)
  <2>1. At(s, Len(s) + 1) = INVALID
    BY <1>3 DEF At
  <2>2. QED
    BY <1>4, <1>6, <1>7, <2>1
<1> HIDE DEF R
<1>10. 0 \in T
  <2>1. \A i \in 1..(Len(s) + 1) : 0 >= Len(s) + 1 - i => i = Len(s) + 1
    BY <1>3
  <2>2. 0 \in 0..n
    BY <1>5
  <2>3. QED
    BY <1>9, <2>1, <2>2
<1>11. ASSUME NEW k \in T PROVE k + 1 \in T
  <2>1. k \in Nat /\ k + 1 \in Nat /\ (k + 1) - 1 = k
    OBVIOUS
  <2>2. ASSUME k + 1 <= n, NEW i \in 1..(Len(s) + 1), k + 1 >= Len(s) + 1 - i
        PROVE  f[k + 1][At(s, i)] = R(i)
    <3>1. k + 1 \in 0..n /\ k <= n
      BY <1>5, <2>1, <2>2
    <3>2. CASE i = Len(s) + 1
      BY <1>9, <3>1, <3>2
    <3>3. CASE i # Len(s) + 1
      <4>1. i \in 1..Len(s) /\ i + 1 \in 1..(Len(s) + 1) /\ k >= Len(s) + 1 - (i + 1)
        BY <1>3, <2>1, <2>2, <3>3
      <4>2. At(s, i) = s[i] /\ s[i] \in D /\ s[i] # INVALID /\ s[i] \in E
        BY <1>3, <4>1 DEF At, E
      <4>3. f[k][At(s, i + 1)] = R(i + 1)
        BY <3>1, <4>1
      <4>4. f[k + 1][s[i]] = <<s[i]>> \o f[k][next[s[i]]]
        <5> DEFINE j == k + 1
        <5>1. j \in 0..n /\ j # 0 /\ j - 1 = k
          BY <2>1, <3>1
        <5> HIDE DEF j
        <5>2. f[j][s[i]] = <<s[i]>> \o f[j - 1][next[s[i]]]
          BY <1>6, <4>2, <5>1
        <5>3. QED
          BY <5>1, <5>2 DEF j
      <4>5. QED
        BY <1>3, <1>8, <4>1, <4>2, <4>3, <4>4
    <3>4. QED
      BY <3>2, <3>3
  <2>3. QED
    BY <2>1, <2>2
<1>12. T = Nat
  <2>1. T \in SUBSET Nat
    OBVIOUS
  <2> HIDE DEF T
  <2>2. QED
    BY <1>10, <1>11, <2>1, SetInduction
<1>13. f[n][At(s, 1)] = R(1)
  <2>1. n \in T /\ 1 \in 1..(Len(s) + 1) /\ n >= Len(s) + 1 - 1
    BY <1>3, <1>5, <1>12
  <2>2. QED
    BY <1>5, <2>1
<1>14. R(1) = s
  BY <1>3, SubSeqFull DEF R
<1>15. QED
  BY <1>2, <1>3, <1>13, <1>14

\* What Chain says about a list.
LEMMA ChainOfList ==
  ASSUME NEW D, IsFiniteSet(D), INVALID \notin D, NEW next \in Arrays(D), NEW h, NEW S,
         ListOf(next, h, S, D)
  PROVE  /\ Leads(next, h, Chain(next, h), D)
         /\ ToSet(Chain(next, h)) = S /\ IsInjective(Chain(next, h))
         /\ Len(Chain(next, h)) = Cardinality(S)
         /\ IsFiniteSet(S) /\ Cardinality(S) \in Nat
<1>1. PICK s : Leads(next, h, s, D) /\ ToSet(s) = S
  BY DEF ListOf
<1>2. Chain(next, h) = s
  BY <1>1, ChainIs
<1>3. IsFiniteSet(S) /\ Cardinality(S) \in Nat
  BY ListIs, FS_Subset, FS_CardinalityType
<1>4. QED
  BY <1>1, <1>2, <1>3, LengthIs

LEMMA NodesFinite == IsFiniteSet(Nodes) /\ INVALID \notin Nodes /\ Nodes \subseteq Nat \ {0}
                     /\ Cardinality(Nodes) = NodeTotal /\ NodeTotal \in Nat
<1>1. NodeTotal \in Nat
  BY HashAssumption
<1>2. IsFiniteSet(1..NodeTotal) /\ Cardinality(1..NodeTotal) = IF 1 > NodeTotal THEN 0 ELSE NodeTotal - 1 + 1
  BY <1>1, FS_Interval
<1>3. QED
  BY <1>1, <1>2 DEF Nodes, INVALID

LEMMA ChunksFinite == IsFiniteSet(ChunkNodes) /\ INVALID \notin ChunkNodes /\ ChunkNodes \subseteq Nat \ {0}
                      /\ Cardinality(ChunkNodes) = ChunkTotal /\ ChunkTotal \in Nat
<1>1. ChunkTotal \in Nat
  BY ChunkAssumption
<1>2. IsFiniteSet(1..ChunkTotal) /\ Cardinality(1..ChunkTotal) = IF 1 > ChunkTotal THEN 0 ELSE ChunkTotal - 1 + 1
  BY <1>1, FS_Interval
<1>3. QED
  BY <1>1, <1>2 DEF ChunkNodes, INVALID

\* The function that node_of is defined by, for lists cut after n elements.
IsSearch(f, next, key, kk, D, n) ==
  f = [i \in 0..n |->
         [p \in D \cup {INVALID} |->
            IF i = 0 \/ p = INVALID THEN INVALID
            ELSE IF key[p] = kk THEN p ELSE f[i - 1][next[p]]]]

LEMMA SearchExists ==
  ASSUME NEW D, INVALID \notin D, NEW next \in Arrays(D), NEW key, NEW kk, NEW n \in Nat
  PROVE  \E f : IsSearch(f, next, key, kk, D, n)
<1> DEFINE E == D \cup {INVALID}
           X == [E -> E]
           a == [p \in E |-> INVALID]
           G(x) == [p \in E |-> IF p = INVALID THEN INVALID
                               ELSE IF key[p] = kk THEN p ELSE x[next[p]]]
           F == [k \in 1..n |-> [x \in X |-> G(x)]]
<1>1. \A p \in D : next[p] \in E
  BY DEF Arrays
<1>2. ASSUME NEW x \in X PROVE G(x) \in X
  BY <1>1
<1>3. a \in X
  OBVIOUS
<1> HIDE DEF G, X, a, E
<1>4. F \in [1..n -> [X -> X]]
  BY <1>2
<1> HIDE DEF F
<1>5. PICK f \in [0..n -> X] : f[0] = a /\ \A k \in 1..n : f[k] = F[k][f[k - 1]]
  <2>1. IsLoop(n, X, a, F)
    BY <1>3, <1>4 DEF IsLoop
  <2>2. QED
    BY <2>1, LoopExists
<1>6. \A k \in 1..n : f[k] = G(f[k - 1])
  <2> SUFFICES ASSUME NEW k \in 1..n PROVE f[k] = G(f[k - 1])
    OBVIOUS
  <2>1. k - 1 \in 0..n
    OBVIOUS
  <2>2. f[k - 1] \in X
    BY <2>1
  <2>3. F[k][f[k - 1]] = G(f[k - 1])
    BY <2>2 DEF F
  <2>4. QED
    BY <1>5, <2>3
<1>7. ASSUME NEW i \in 0..n
      PROVE  f[i] = [p \in E |-> IF i = 0 \/ p = INVALID THEN INVALID
                                ELSE IF key[p] = kk THEN p ELSE f[i - 1][next[p]]]
  <2>1. CASE i = 0
    BY <1>5, <2>1 DEF a
  <2>2. CASE i # 0
    <3>1. i \in 1..n
      BY <2>2
    <3>2. f[i] = G(f[i - 1])
      BY <1>6, <3>1
    <3>3. QED
      BY <2>2, <3>2 DEF G
  <2>3. QED
    BY <2>1, <2>2
<1>8. f = [i \in 0..n |->
             [p \in E |-> IF i = 0 \/ p = INVALID THEN INVALID
                         ELSE IF key[p] = kk THEN p ELSE f[i - 1][next[p]]]]
  <2>1. DOMAIN f = 0..n
    BY <1>5
  <2>2. QED
    BY <1>5, <1>7
<1>9. IsSearch(f, next, key, kk, D, n)
  BY <1>8 DEF IsSearch, E
<1>10. QED
  BY <1>9

\* r is an element of S with key kk, or there is none.
Finds(r, S, key, kk) ==
  \/ r \in S /\ key[r] = kk
  \/ r = INVALID /\ \A x \in S : key[x] # kk

\* The list is searched to its end.
LEMMA SearchIs ==
  ASSUME NEW D, IsFiniteSet(D), INVALID \notin D, NEW next \in Arrays(D), NEW h, NEW S,
         ListOf(next, h, S, D), NEW key, NEW kk, NEW n \in Nat, Cardinality(D) < n,
         NEW f, IsSearch(f, next, key, kk, D, n)
  PROVE  Finds(f[n][h], S, key, kk)
<1> DEFINE E == D \cup {INVALID}
<1>1. PICK s : Leads(next, h, s, D) /\ ToSet(s) = S
  BY DEF ListOf
<1>2. /\ s \in Seq(D) /\ Len(s) \in Nat /\ h = At(s, 1) /\ S = {s[i] : i \in 1..Len(s)}
      /\ \A i \in 1..Len(s) : next[s[i]] = At(s, i + 1) /\ s[i] \in D
  BY <1>1, LeadsIs
<1>3. \A i : At(s, i) \in E
  BY <1>2 DEF At
<1>4. Len(s) < n
  <2>1. Len(s) <= Cardinality(D) /\ Cardinality(D) \in Nat
    BY <1>1, LengthIs, FS_CardinalityType
  <2>2. QED
    BY <1>2, <2>1
<1>5. \A i \in 0..n, p \in E :
        f[i][p] = IF i = 0 \/ p = INVALID THEN INVALID
                  ELSE IF key[p] = kk THEN p ELSE f[i - 1][next[p]]
  <2>1. f = [i \in 0..n |->
               [p \in E |-> IF i = 0 \/ p = INVALID THEN INVALID
                           ELSE IF key[p] = kk THEN p ELSE f[i - 1][next[p]]]]
    BY DEF IsSearch
  <2> HIDE DEF E
  <2>2. \A i \in 0..n :
           f[i] = [p \in E |-> IF i = 0 \/ p = INVALID THEN INVALID
                              ELSE IF key[p] = kk THEN p ELSE f[i - 1][next[p]]]
    BY <2>1
  <2>3. ASSUME NEW i \in 0..n, NEW p \in E
        PROVE  f[i][p] = IF i = 0 \/ p = INVALID THEN INVALID
                         ELSE IF key[p] = kk THEN p ELSE f[i - 1][next[p]]
    <3> DEFINE w == [q \in E |-> IF i = 0 \/ q = INVALID THEN INVALID
                                ELSE IF key[q] = kk THEN q ELSE f[i - 1][next[q]]]
    <3>1. f[i] = w
      BY <2>2
    <3>2. w[p] = IF i = 0 \/ p = INVALID THEN INVALID
                 ELSE IF key[p] = kk THEN p ELSE f[i - 1][next[p]]
      OBVIOUS
    <3> HIDE DEF w
    <3>3. QED
      BY <3>1, <3>2
  <2>4. QED
    BY <2>3
<1> DEFINE Q(r, i) == \/ \E j \in i..Len(s) : r = s[j] /\ key[r] = kk
                      \/ r = INVALID /\ \A j \in i..Len(s) : key[s[j]] # kk
           T == {k \in Nat : k <= n =>
                   \A i \in 1..(Len(s) + 1) : k >= Len(s) + 1 - i => Q(f[k][At(s, i)], i)}
<1> HIDE DEF E
<1>6. ASSUME NEW k \in 0..n PROVE Q(f[k][At(s, Len(s) + 1)], Len(s) + 1)
  <2>1. At(s, Len(s) + 1) = INVALID
    BY <1>2 DEF At
  <2>2. f[k][At(s, Len(s) + 1)] = INVALID
    BY <1>3, <1>5, <2>1
  <2>3. (Len(s) + 1)..Len(s) = {}
    BY <1>2
  <2>4. QED
    BY <2>2, <2>3
<1> HIDE DEF Q
<1>7. 0 \in T
  <2>1. \A i \in 1..(Len(s) + 1) : 0 >= Len(s) + 1 - i => i = Len(s) + 1
    BY <1>2
  <2>2. 0 \in 0..n
    OBVIOUS
  <2>3. QED
    BY <1>6, <2>1, <2>2
<1>8. ASSUME NEW k \in T PROVE k + 1 \in T
  <2>1. k \in Nat /\ k + 1 \in Nat /\ (k + 1) - 1 = k
    OBVIOUS
  <2>2. ASSUME k + 1 <= n, NEW i \in 1..(Len(s) + 1), k + 1 >= Len(s) + 1 - i
        PROVE  Q(f[k + 1][At(s, i)], i)
    <3>1. k + 1 \in 0..n /\ k <= n
      BY <2>1, <2>2
    <3>2. CASE i = Len(s) + 1
      BY <1>6, <3>1, <3>2
    <3>3. CASE i # Len(s) + 1
      <4>1. i \in 1..Len(s) /\ i + 1 \in 1..(Len(s) + 1) /\ k >= Len(s) + 1 - (i + 1) /\ i \in Nat
        BY <1>2, <2>1, <2>2, <3>3
      <4>2. At(s, i) = s[i] /\ s[i] \in D /\ s[i] # INVALID /\ s[i] \in E
        BY <1>2, <4>1 DEF At, E
      <4>3. Q(f[k][At(s, i + 1)], i + 1)
        BY <3>1, <4>1
      <4>4. f[k + 1][s[i]] = IF key[s[i]] = kk THEN s[i] ELSE f[k][next[s[i]]]
        <5> DEFINE j == k + 1
        <5>1. j \in 0..n /\ j # 0 /\ j - 1 = k
          BY <2>1, <3>1
        <5> HIDE DEF j
        <5>2. f[j][s[i]] = IF key[s[i]] = kk THEN s[i] ELSE f[j - 1][next[s[i]]]
          BY <1>5, <4>2, <5>1
        <5>3. QED
          BY <5>1, <5>2 DEF j
      <4>5. i \in i..Len(s) /\ i..Len(s) = {i} \cup ((i + 1)..Len(s))
        BY <1>2, <4>1
      <4>6. CASE key[s[i]] = kk
        BY <4>2, <4>4, <4>5, <4>6 DEF Q
      <4>7. CASE key[s[i]] # kk
        <5>1. f[k + 1][At(s, i)] = f[k][At(s, i + 1)]
          BY <1>2, <4>1, <4>2, <4>4, <4>7
        <5>2. QED
          BY <4>3, <4>5, <4>7, <5>1 DEF Q
      <4>8. QED
        BY <4>6, <4>7
    <3>4. QED
      BY <3>2, <3>3
  <2>3. QED
    BY <2>1, <2>2
<1>9. T = Nat
  <2>1. T \in SUBSET Nat
    OBVIOUS
  <2> HIDE DEF T
  <2>2. QED
    BY <1>7, <1>8, <2>1, SetInduction
<1>10. Q(f[n][At(s, 1)], 1)
  <2>1. n \in T /\ 1 \in 1..(Len(s) + 1) /\ n >= Len(s) + 1 - 1
    BY <1>2, <1>4, <1>9
  <2>2. QED
    BY <2>1
<1>11. Q(f[n][h], 1)
  BY <1>2, <1>10
<1>12. QED
  BY <1>2, <1>11 DEF Q, Finds

\* node_of finds the node of a key on the list of its bucket, if there is one.
LEMMA NodeFound ==
  ASSUME NEW m, NEW k, NEW S, m.node_next \in Arrays(Nodes),
         ListOf(m.node_next, m.bucket[get_bucket_id(k)], S, Nodes)
  PROVE  Finds(node_of(m, k), S, m.key, k)
<1>1. IsFiniteSet(Nodes) /\ INVALID \notin Nodes /\ Cardinality(Nodes) = NodeTotal
      /\ NodeTotal \in Nat
  BY NodesFinite
<1> DEFINE n == NodeTotal + 1
           next == m.node_next
           key == m.key
           h == m.bucket[get_bucket_id(k)]
<1>2. n \in Nat /\ Cardinality(Nodes) < n
  BY <1>1
<1> HIDE DEF n
<1>3. \E f : IsSearch(f, next, key, k, Nodes, n)
  <2>1. next \in Arrays(Nodes)
    OBVIOUS
  <2> HIDE DEF next, key
  <2>2. QED
    BY <1>1, <1>2, <2>1, SearchExists
<1>4. PICK f : IsSearch(f, next, key, k, Nodes, n) /\ node_of(m, k) = f[n][h]
  BY <1>3 DEF node_of, IsSearch, n
<1>5. next \in Arrays(Nodes) /\ ListOf(next, h, S, Nodes)
  OBVIOUS
<1> HIDE DEF next, key, h
<1>6. Finds(f[n][h], S, key, k)
  BY <1>1, <1>2, <1>4, <1>5, SearchIs
<1>7. QED
  BY <1>4, <1>6 DEF key

-----------------------------------------------------------------------------
(***************************************************************************)
(* What holds of a memory.  place[n] is the bucket on whose list node n    *)
(* is, FREE, or HELD while a call has it in hand; own[c] is the node whose *)
(* record chunk c holds a piece of, or FREE.                               *)
(***************************************************************************)
FREE == -1
HELD == -2

\* The indices at which f has the value v.
Of(f, v) == {x \in DOMAIN f : f[x] = v}

Used(place) == {n \in Nodes : place[n] \in Buckets}
Busy(place) == {b \in Buckets : Of(place, b) # {}}

\* The lists of the buckets and of the free nodes.
NodesOK(m, place) ==
  /\ place \in [Nodes -> Buckets \cup {FREE, HELD}]
  /\ m.node_next \in Arrays(Nodes)
  /\ \A b \in Buckets :
       \E t : DListOf(m.node_next, m.node_prev, m.bucket[b], t, Of(place, b), Nodes)
  /\ \A n \in Used(place) : get_bucket_id(m.key[n]) = place[n]
  /\ ListOf(m.node_next, m.map.free_list, Of(place, FREE), Nodes)
  /\ m.map.used_node_num = Cardinality(Used(place))

BusyOK(m, place) == m.map.used_bucket_num = Cardinality(Busy(place))

\* The add list has the nodes A; other nodes have no links on it.
AddOK(m, A) ==
  /\ DListOf(m.add_next, m.add_prev, m.map.add_head, m.map.add_tail, A, Nodes)
  /\ \A n \in Nodes \ A : m.add_next[n] = INVALID /\ m.add_prev[n] = INVALID

\* The free chunks.
ChunksOK(m, own) ==
  /\ own \in [ChunkNodes -> Nodes \cup {FREE}]
  /\ m.next \in Arrays(ChunkNodes)
  /\ ListOf(m.next, m.chunk.free_list, Of(own, FREE), ChunkNodes)
  /\ m.chunk.free_total = Cardinality(Of(own, FREE))

\* Node n has the chunks of its record.
OwnerOK(m, own, n) ==
  /\ ListOf(m.next, m.chunk_head[n], Of(own, n), ChunkNodes)
  /\ m.chunk_len[n] \in Nat
  /\ Cardinality(Of(own, n)) = get_chunk_num(m.chunk_len[n])

OwnersOK(m, own, U) ==
  /\ \A n \in U : OwnerOK(m, own, n)
  /\ \A n \in Nodes \ U : Of(own, n) = {}

TotalsOK(m) == m.map.node_total = NodeTotal /\ m.chunk.chunk_total = ChunkTotal

\* Nothing but the node lists, the add list or the chunks changes.
NodeStep(m, w) ==
  /\ w.key = m.key /\ w.chunk_len = m.chunk_len /\ w.chunk_head = m.chunk_head
  /\ w.add_prev = m.add_prev /\ w.add_next = m.add_next
  /\ w.chunk = m.chunk /\ w.next = m.next /\ w.data = m.data
  /\ w.map.node_total = m.map.node_total /\ w.map.used_bucket_num = m.map.used_bucket_num
  /\ w.map.add_head = m.map.add_head /\ w.map.add_tail = m.map.add_tail

AddStep(m, w) ==
  /\ w.key = m.key /\ w.chunk_len = m.chunk_len /\ w.chunk_head = m.chunk_head
  /\ w.node_prev = m.node_prev /\ w.node_next = m.node_next /\ w.bucket = m.bucket
  /\ w.chunk = m.chunk /\ w.next = m.next /\ w.data = m.data
  /\ w.map.node_total = m.map.node_total /\ w.map.used_bucket_num = m.map.used_bucket_num
  /\ w.map.used_node_num = m.map.used_node_num /\ w.map.free_list = m.map.free_list

ChunkStep(m, w) ==
  /\ w.key = m.key /\ w.chunk_len = m.chunk_len /\ w.chunk_head = m.chunk_head
  /\ w.node_prev = m.node_prev /\ w.node_next = m.node_next /\ w.bucket = m.bucket
  /\ w.add_prev = m.add_prev /\ w.add_next = m.add_next /\ w.map = m.map
  /\ w.chunk.chunk_total = m.chunk.chunk_total /\ w.data = m.data

\* Nothing but the chunks and what they hold changes.
ContentStep(m, w) ==
  /\ w.key = m.key /\ w.chunk_len = m.chunk_len /\ w.chunk_head = m.chunk_head
  /\ w.node_prev = m.node_prev /\ w.node_next = m.node_next /\ w.bucket = m.bucket
  /\ w.add_prev = m.add_prev /\ w.add_next = m.add_next /\ w.map = m.map
  /\ w.chunk.chunk_total = m.chunk.chunk_total

LEMMA OfMoved ==
  ASSUME NEW S, NEW T, NEW f \in [S -> T], NEW x \in S, NEW v, v # f[x]
  PROVE  /\ Of([f EXCEPT ![x] = v], v) = Of(f, v) \cup {x}
         /\ Of([f EXCEPT ![x] = v], f[x]) = Of(f, f[x]) \ {x}
         /\ \A u : u # v /\ u # f[x] => Of([f EXCEPT ![x] = v], u) = Of(f, u)
         /\ x \in Of(f, f[x]) /\ x \notin Of(f, v)
BY DEF Of

LEMMA Places ==
  /\ FREE \notin Buckets /\ HELD \notin Buckets /\ FREE # HELD /\ FREE = INVALID
  /\ Buckets \subseteq Nat /\ IsFiniteSet(Buckets) /\ FREE \notin Nodes
<1>1. BucketSize \in Nat \ {0}
  BY HashAssumption
<1>2. IsFiniteSet(0..(BucketSize - 1))
  BY <1>1, FS_Interval
<1>3. QED
  BY <1>1, <1>2, NodesFinite DEF Buckets, FREE, HELD, INVALID

LEMMA BucketIs ==
  ASSUME NEW k \in Int
  PROVE  get_bucket_id(k) \in Buckets
BY HashAssumption DEF get_bucket_id, Buckets

LEMMA NodesFrame ==
  ASSUME NEW m, NEW place, NodesOK(m, place), NEW w,
         w.node_next = m.node_next, w.node_prev = m.node_prev, w.bucket = m.bucket,
         w.map.free_list = m.map.free_list, w.map.used_node_num = m.map.used_node_num,
         \A n \in Used(place) : w.key[n] = m.key[n]
  PROVE  NodesOK(w, place)
BY DEF NodesOK

LEMMA AddFrame ==
  ASSUME NEW m, NEW A, AddOK(m, A), NEW w,
         w.add_next = m.add_next, w.add_prev = m.add_prev,
         w.map.add_head = m.map.add_head, w.map.add_tail = m.map.add_tail
  PROVE  AddOK(w, A)
BY DEF AddOK

LEMMA ChunksFrame ==
  ASSUME NEW m, NEW own, ChunksOK(m, own), NEW w, w.next = m.next,
         w.chunk.free_list = m.chunk.free_list, w.chunk.free_total = m.chunk.free_total
  PROVE  ChunksOK(w, own)
BY DEF ChunksOK

LEMMA FreeTotalIs ==
  ASSUME NEW m, NEW own, ChunksOK(m, own)
  PROVE  m.chunk.free_total \in Nat
<1>1. Of(own, FREE) \in SUBSET ChunkNodes
  BY DEF ChunksOK, Of
<1>2. IsFiniteSet(Of(own, FREE))
  BY <1>1, ChunksFinite, FS_Subset
<1>3. QED
  BY <1>2, FS_CardinalityType DEF ChunksOK

LEMMA OwnerFrame ==
  ASSUME NEW m, NEW own, NEW n, OwnerOK(m, own, n), NEW w, NEW own2, Of(own2, n) = Of(own, n),
         \A c \in Of(own, n) : w.next[c] = m.next[c],
         w.chunk_head[n] = m.chunk_head[n], w.chunk_len[n] = m.chunk_len[n]
  PROVE  OwnerOK(w, own2, n)
<1>1. ListOf(w.next, m.chunk_head[n], Of(own, n), ChunkNodes)
  BY ChunksFinite, ListFrame DEF OwnerOK
<1>2. QED
  BY <1>1 DEF OwnerOK

-----------------------------------------------------------------------------
(***************************************************************************)
(* The node lists                                                          *)
(***************************************************************************)

LEMMA UsedMoved ==
  ASSUME NEW place \in [Nodes -> Buckets \cup {FREE, HELD}], NEW n \in Nodes, NEW v
  PROVE  LET U == Used(place)
             V == Used([place EXCEPT ![n] = v])
         IN  /\ v \in Buckets => V = U \cup {n}
             /\ v \notin Buckets => V = U \ {n}
             /\ IsFiniteSet(U) /\ Cardinality(U) \in Nat
             /\ v \in Buckets /\ n \notin U => Cardinality(V) = Cardinality(U) + 1
             /\ v \notin Buckets /\ n \in U => Cardinality(V) = Cardinality(U) - 1
             /\ v \notin Buckets /\ n \notin U => V = U
<1> DEFINE U == Used(place)
           V == Used([place EXCEPT ![n] = v])
<1>1. v \in Buckets => V = U \cup {n}
  BY DEF Used
<1>2. v \notin Buckets => V = U \ {n}
  BY DEF Used
<1>3. U \subseteq Nodes
  BY DEF Used
<1>4. IsFiniteSet(U) /\ Cardinality(U) \in Nat
  BY <1>3, NodesFinite, FS_Subset, FS_CardinalityType
<1> HIDE DEF U, V
<1>5. v \in Buckets /\ n \notin U => Cardinality(V) = Cardinality(U) + 1
  BY <1>1, <1>4, FS_AddElement
<1>6. v \notin Buckets /\ n \in U => Cardinality(V) = Cardinality(U) - 1
  BY <1>2, <1>4, FS_RemoveElement
<1>7. v \notin Buckets /\ n \notin U => V = U
  BY <1>2
<1>8. QED
  BY <1>1, <1>2, <1>4, <1>5, <1>6, <1>7 DEF U, V

LEMMA UsedTaken ==
  ASSUME NEW place \in [Nodes -> Buckets \cup {FREE, HELD}], NEW n \in Nodes, NEW v,
         v \notin Buckets, n \in Used(place)
  PROVE  /\ Used([place EXCEPT ![n] = v]) = Used(place) \ {n}
         /\ Cardinality(Used([place EXCEPT ![n] = v])) = Cardinality(Used(place)) - 1
<1> DEFINE U == Used(place)
           V == Used([place EXCEPT ![n] = v])
<1>1. V = U \ {n}
  BY DEF Used
<1>2. IsFiniteSet(U) /\ n \in U
  BY NodesFinite, FS_Subset DEF Used
<1> HIDE DEF U, V
<1>3. Cardinality(V) = Cardinality(U) - 1
  BY <1>1, <1>2, FS_RemoveElement
<1>4. QED
  BY <1>1, <1>3 DEF U, V

\* A node in hand is put on the free list.
LEMMA FreeNodeInserted ==
  ASSUME NEW run, NEW m, Ends(run, m), NEW place, NodesOK(m, place),
         NEW n \in Nodes, place[n] = HELD
  PROVE  \E w : /\ Ends(free_list_insert(run, n), w) /\ NodeStep(m, w)
                /\ NodesOK(w, [place EXCEPT ![n] = FREE])
<1> DEFINE h == m.map.free_list
           w1 == Put(m, "node_next", n, h)
           w2 == Put(w1, "map", "free_list", n)
           p == [place EXCEPT ![n] = FREE]
<1>1. m \in Mems /\ Last(run) = m
  BY EndsIs
<1>2. h \in Int /\ n \in Int
  BY <1>1, NodesFinite DEF Mems, Maps
<1> HIDE DEF h
<1>3. Ends(run ++ <<"node_next", n, h>>, w1)
  <2>1. Fits("node_next", n, h)
    BY <1>2 DEF Fits, NodeFields
  <2>2. QED
    BY <2>1, Stored
<1>4. Ends(run ++ <<"node_next", n, h>> ++ <<"map", "free_list", n>>, w2)
  <2>1. Fits("map", "free_list", n)
    BY <1>2 DEF Fits, MapFields
  <2> HIDE DEF w1
  <2>2. QED
    BY <1>3, <2>1, Stored
<1>5. Ends(free_list_insert(run, n), w2)
  BY <1>1, <1>4 DEF free_list_insert, h
<1>6. /\ w2.node_next = [m.node_next EXCEPT ![n] = h] /\ w2.node_prev = m.node_prev
      /\ w2.bucket = m.bucket /\ w2.map.free_list = n
      /\ w2.map.used_node_num = m.map.used_node_num /\ w2.key = m.key
  BY <1>1 DEF Put, Mems, Maps
<1>7. NodeStep(m, w2)
  BY <1>1 DEF Put, Mems, Maps, NodeStep
<1> HIDE DEF w2
<1>8. /\ place \in [Nodes -> Buckets \cup {FREE, HELD}] /\ m.node_next \in Arrays(Nodes)
      /\ ListOf(m.node_next, h, Of(place, FREE), Nodes)
  BY DEF NodesOK, h
<1>9. /\ Of(p, FREE) = Of(place, FREE) \cup {n} /\ n \notin Of(place, FREE)
      /\ \A b \in Buckets : Of(p, b) = Of(place, b) /\ n \notin Of(place, b)
  BY <1>8, Places DEF Of
<1>10. p \in [Nodes -> Buckets \cup {FREE, HELD}]
  BY <1>8
<1>11. Used(p) = Used(place)
  BY <1>8, Places, UsedMoved DEF Used
<1> HIDE DEF p
<1>12. w2.node_next \in Arrays(Nodes)
  <2>1. h \in Nodes \cup {INVALID}
    BY <1>8, NodesFinite, ListIs
  <2>2. QED
    BY <1>6, <1>8, <2>1 DEF Arrays
<1>a. n \in Nodes /\ DOMAIN m.node_next = Nodes
  BY <1>8 DEF Arrays
<1>13. ListOf(w2.node_next, n, Of(p, FREE), Nodes)
  <2> DEFINE nx == w2.node_next
             S == Of(place, FREE)
  <2>1. nx[n] = h /\ \A x \in S : nx[x] = m.node_next[x]
    BY <1>6, <1>9, <1>a
  <2> HIDE DEF nx, S
  <2>2. INVALID \notin Nodes /\ n \notin S /\ ListOf(m.node_next, h, S, Nodes)
    BY <1>8, <1>9, NodesFinite DEF S
  <2>3. ListOf(nx, n, S \cup {n}, Nodes)
    BY <2>1, <2>2, ListPushed
  <2>4. QED
    BY <1>9, <2>3 DEF nx, S
<1>14. ASSUME NEW b \in Buckets
       PROVE  \E t : DListOf(w2.node_next, w2.node_prev, w2.bucket[b], t, Of(p, b), Nodes)
  <2>1. PICK t : DListOf(m.node_next, m.node_prev, m.bucket[b], t, Of(place, b), Nodes)
    BY DEF NodesOK
  <2>2. \A x \in Of(place, b) : w2.node_next[x] = m.node_next[x]
    BY <1>6, <1>9
  <2>3. DListOf(w2.node_next, m.node_prev, m.bucket[b], t, Of(place, b), Nodes)
    BY <2>1, <2>2, NodesFinite, DListFrame
  <2>4. QED
    BY <1>6, <1>9, <2>3
<1>15. /\ \A k \in Used(p) : get_bucket_id(w2.key[k]) = p[k]
       /\ w2.map.used_node_num = Cardinality(Used(p))
  <2>1. \A k \in Used(place) : p[k] = place[k]
    BY <1>8, Places DEF Used, p
  <2>2. QED
    BY <1>6, <1>11, <2>1 DEF NodesOK
<1>16. NodesOK(w2, p)
  BY <1>6, <1>10, <1>12, <1>13, <1>14, <1>15 DEF NodesOK
<1>17. QED
  BY <1>5, <1>7, <1>16 DEF p

\* The first free node is taken in hand.
LEMMA FreeNodeRemoved ==
  ASSUME NEW run, NEW m, Ends(run, m), NEW place, NodesOK(m, place), m.map.free_list # INVALID
  PROVE  /\ m.map.free_list \in Nodes /\ place[m.map.free_list] = FREE
         /\ \E w : /\ Ends(free_list_remove(run), w) /\ NodeStep(m, w)
                   /\ NodesOK(w, [place EXCEPT ![m.map.free_list] = HELD])
<1> DEFINE n == m.map.free_list
           v == m.node_next[n]
           w1 == Put(m, "map", "free_list", v)
           w2 == Put(w1, "node_next", n, INVALID)
           p == [place EXCEPT ![n] = HELD]
<1>1. m \in Mems /\ Last(run) = m
  BY EndsIs
<1>2. /\ place \in [Nodes -> Buckets \cup {FREE, HELD}] /\ m.node_next \in Arrays(Nodes)
      /\ ListOf(m.node_next, n, Of(place, FREE), Nodes)
  BY DEF NodesOK
<1>3. n \in Of(place, FREE) /\ n \in Nodes /\ ListOf(m.node_next, v, Of(place, FREE) \ {n}, Nodes)
  <2> DEFINE S == Of(place, FREE)
             next == m.node_next
  <2>1. n # INVALID /\ ListOf(next, n, S, Nodes) /\ INVALID \notin Nodes
    BY <1>2, NodesFinite
  <2> HIDE DEF n, next, S
  <2>2. n \in S /\ n \in Nodes /\ ListOf(next, next[n], S \ {n}, Nodes)
    BY <2>1, ListPopped
  <2>3. QED
    BY <2>2 DEF n, next, S
<1>4. place[n] = FREE
  BY <1>3 DEF Of
<1>b. v \in Nodes \cup {INVALID}
  BY <1>2, <1>3 DEF Arrays
<1> HIDE DEF n, v
<1>5. v \in Nodes \cup {INVALID} /\ v \in Int /\ INVALID \in Int
  BY <1>b, NodesFinite DEF INVALID
<1>6. Ends(run ++ <<"map", "free_list", v>>, w1)
  <2>1. Fits("map", "free_list", v)
    BY <1>5 DEF Fits, MapFields
  <2>2. QED
    BY <2>1, Stored
<1>7. Ends(run ++ <<"map", "free_list", v>> ++ <<"node_next", n, INVALID>>, w2)
  <2>1. Fits("node_next", n, INVALID)
    BY <1>3, <1>5 DEF Fits, NodeFields
  <2> HIDE DEF w1
  <2>2. QED
    BY <1>6, <2>1, Stored
<1>8. Ends(free_list_remove(run), w2)
  BY <1>1, <1>7 DEF free_list_remove, n, v
<1>9. /\ w2.node_next = [m.node_next EXCEPT ![n] = INVALID] /\ w2.node_prev = m.node_prev
      /\ w2.bucket = m.bucket /\ w2.map.free_list = v
      /\ w2.map.used_node_num = m.map.used_node_num /\ w2.key = m.key
  BY <1>1 DEF Put, Mems, Maps
<1>10. NodeStep(m, w2)
  BY <1>1 DEF Put, Mems, Maps, NodeStep
<1> HIDE DEF w2
<1>11. /\ Of(p, FREE) = Of(place, FREE) \ {n}
       /\ \A b \in Buckets : Of(p, b) = Of(place, b) /\ n \notin Of(place, b)
  BY <1>2, <1>3, <1>4, Places DEF Of
<1>12. p \in [Nodes -> Buckets \cup {FREE, HELD}]
  BY <1>2
<1>13. Used(p) = Used(place)
  BY <1>2, <1>3, <1>4, Places, UsedMoved DEF Used
<1>14. \A k \in Used(place) : p[k] = place[k]
  BY <1>2, <1>4, Places DEF Used
<1> HIDE DEF p
<1>15. w2.node_next \in Arrays(Nodes)
  BY <1>2, <1>9 DEF Arrays
<1>a. \A x : x # n => w2.node_next[x] = m.node_next[x]
  BY <1>2, <1>9 DEF Arrays
<1>16. ListOf(w2.node_next, v, Of(p, FREE), Nodes)
  <2>1. \A x \in Of(p, FREE) : w2.node_next[x] = m.node_next[x]
    BY <1>11, <1>a
  <2>2. QED
    BY <1>3, <1>11, <2>1, NodesFinite, ListFrame
<1>17. ASSUME NEW b \in Buckets
       PROVE  \E t : DListOf(w2.node_next, w2.node_prev, w2.bucket[b], t, Of(p, b), Nodes)
  <2>1. PICK t : DListOf(m.node_next, m.node_prev, m.bucket[b], t, Of(place, b), Nodes)
    BY DEF NodesOK
  <2>2. \A x \in Of(place, b) : w2.node_next[x] = m.node_next[x]
    BY <1>11, <1>a
  <2>3. DListOf(w2.node_next, m.node_prev, m.bucket[b], t, Of(place, b), Nodes)
    BY <2>1, <2>2, NodesFinite, DListFrame
  <2>4. QED
    BY <1>9, <1>11, <2>3
<1>18. /\ \A k \in Used(p) : get_bucket_id(w2.key[k]) = p[k]
       /\ w2.map.used_node_num = Cardinality(Used(p))
  BY <1>9, <1>13, <1>14 DEF NodesOK
<1>19. NodesOK(w2, p)
  BY <1>9, <1>12, <1>15, <1>16, <1>17, <1>18 DEF NodesOK
<1>20. QED
  BY <1>3, <1>4, <1>8, <1>10, <1>19 DEF p, n

\* A node in hand is put on the list of its bucket.
LEMMA NodeInserted ==
  ASSUME NEW run, NEW m, Ends(run, m), NEW place, NodesOK(m, place),
         NEW n \in Nodes, place[n] = HELD, NEW b \in Buckets, b = get_bucket_id(m.key[n])
  PROVE  \E w : /\ Ends(insert_node_list(run, n), w) /\ NodeStep(m, w)
                /\ NodesOK(w, [place EXCEPT ![n] = b])
<1> DEFINE h == m.bucket[b]
           u == m.map.used_node_num + 1
           w1 == Put(m, "node_next", n, h)
           w2 == Put(w1, "node_prev", n, INVALID)
           w3 == Put(w2, "bucket", b, n)
           w4 == PutNeq(w3, h, INVALID, "node_prev", h, n)
           w5 == Put(w4, "map", "used_node_num", u)
           p == [place EXCEPT ![n] = b]
           S == Of(place, b)
<1>1. m \in Mems /\ Last(run) = m
  BY EndsIs
<1>2. /\ place \in [Nodes -> Buckets \cup {FREE, HELD}] /\ m.node_next \in Arrays(Nodes)
      /\ ListOf(m.node_next, m.map.free_list, Of(place, FREE), Nodes)
      /\ m.map.used_node_num = Cardinality(Used(place))
  BY DEF NodesOK
<1>3. PICK t : DListOf(m.node_next, m.node_prev, h, t, S, Nodes)
  BY DEF NodesOK
<1>4. h \in S \cup {INVALID} /\ S \subseteq Nodes /\ h \in Nodes \cup {INVALID}
  <2> DEFINE next == m.node_next
             prev == m.node_prev
  <2>1. DListOf(next, prev, h, t, S, Nodes) /\ INVALID \notin Nodes
    BY <1>3, NodesFinite
  <2> HIDE DEF next, prev, h, S
  <2>2. h \in S \cup {INVALID} /\ S \subseteq Nodes
    BY <2>1, DListIs
  <2>3. QED
    BY <2>2
<1>5. h \in Int /\ n \in Int /\ INVALID \in Int /\ u \in Int
  BY <1>1, <1>4, NodesFinite DEF INVALID, Mems, Maps
<1>a. n \notin S /\ \A c \in Buckets : n \notin Of(place, c)
  BY Places DEF Of
<1> HIDE DEF h, u
<1>6. Ends(run ++ <<"node_next", n, h>>, w1)
  <2>1. Fits("node_next", n, h)
    BY <1>5 DEF Fits, NodeFields
  <2>2. QED
    BY <2>1, Stored
<1> DEFINE r1 == run ++ <<"node_next", n, h>>
           r2 == r1 ++ <<"node_prev", n, INVALID>>
           r3 == r2 ++ <<"bucket", b, n>>
           r4 == r3 ++ When(h # INVALID, <<"node_prev", h, n>>)
           r5 == r4 ++ <<"map", "used_node_num", u>>
<1>7. insert_node_list(run, n) = r5
  BY <1>1 DEF insert_node_list, h, u
<1>8. /\ w5.node_next = [m.node_next EXCEPT ![n] = h]
      /\ w5.node_prev = IF h # INVALID THEN [[m.node_prev EXCEPT ![n] = INVALID] EXCEPT ![h] = n]
                        ELSE [m.node_prev EXCEPT ![n] = INVALID]
      /\ w5.bucket = [m.bucket EXCEPT ![b] = n] /\ w5.map.free_list = m.map.free_list
      /\ w5.map.used_node_num = u /\ w5.key = m.key
  BY <1>1 DEF Put, PutNeq, Mems, Maps
<1>9. NodeStep(m, w5)
  BY <1>1 DEF Put, PutNeq, Mems, Maps, NodeStep
<1> HIDE DEF w1, w2, w3, w4, w5, r1, r2, r3, r4, r5
<1>10. Ends(r5, w5)
  <2>1. Ends(r1, w1)
    BY <1>6 DEF r1
  <2>2. Ends(r2, w2)
    <3>1. Fits("node_prev", n, INVALID)
      BY <1>5 DEF Fits, NodeFields
    <3>2. QED
      BY <2>1, <3>1, Stored DEF r2, w2
  <2>3. Ends(r3, w3)
    <3>1. Fits("bucket", b, n)
      BY <1>5 DEF Fits, NodeFields
    <3>2. QED
      BY <2>2, <3>1, Stored DEF r3, w3
  <2>4. Ends(r4, w4)
    <3>1. h # INVALID => Fits("node_prev", h, n)
      BY <1>4, <1>5 DEF Fits, NodeFields
    <3>2. QED
      BY <2>3, <3>1, StoredNeq DEF r4, w4
  <2>5. QED
    <3>1. Fits("map", "used_node_num", u)
      BY <1>5 DEF Fits, MapFields
    <3>2. QED
      BY <2>4, <3>1, Stored DEF r5, w5
<1>11. /\ Of(p, b) = S \cup {n}
       /\ Of(p, FREE) = Of(place, FREE) /\ n \notin Of(place, FREE)
       /\ \A c \in Buckets \ {b} : Of(p, c) = Of(place, c) /\ Of(place, c) \cap (S \cup {n}) = {}
  BY <1>2, Places DEF Of
<1>12. p \in [Nodes -> Buckets \cup {FREE, HELD}]
  BY <1>2
<1>13. Used(p) = Used(place) \cup {n} /\ Cardinality(Used(p)) = Cardinality(Used(place)) + 1
       /\ n \notin Used(place) /\ \A k \in Used(place) : p[k] = place[k]
  <2>1. n \notin Used(place)
    BY Places DEF Used
  <2>2. Used(p) = Used(place) \cup {n} /\ Cardinality(Used(p)) = Cardinality(Used(place)) + 1
    BY <1>2, <2>1, UsedMoved
  <2>3. \A k \in Used(place) : p[k] = place[k]
    BY <1>2, <2>1 DEF Used
  <2>4. QED
    BY <2>1, <2>2, <2>3
<1>14. p[n] = b
  BY <1>2
<1> HIDE DEF p
<1>15. w5.node_next \in Arrays(Nodes)
  BY <1>2, <1>4, <1>8 DEF Arrays
<1>16. /\ \A x : x # n => w5.node_next[x] = m.node_next[x]
       /\ w5.node_next[n] = h
  BY <1>2, <1>8 DEF Arrays
<1>17. /\ \A x \in Nodes : x # n /\ x # h => w5.node_prev[x] = m.node_prev[x]
       /\ w5.node_prev[n] = INVALID /\ (h # INVALID => w5.node_prev[h] = n)
  <2>1. m.node_prev \in [Nodes -> Int]
    BY <1>1 DEF Mems
  <2>2. h # n
    BY <1>4, <1>5, <1>a, NodesFinite
  <2>3. QED
    BY <1>4, <1>8, <2>1, <2>2
<1>18. ListOf(w5.node_next, m.map.free_list, Of(p, FREE), Nodes)
  <2>1. \A x \in Of(p, FREE) : w5.node_next[x] = m.node_next[x]
    BY <1>11, <1>16
  <2>2. QED
    BY <1>2, <1>11, <2>1, NodesFinite, ListFrame
<1>19. ASSUME NEW c \in Buckets, c # b
       PROVE  \E s : DListOf(w5.node_next, w5.node_prev, w5.bucket[c], s, Of(p, c), Nodes)
  <2>1. PICK s : DListOf(m.node_next, m.node_prev, m.bucket[c], s, Of(place, c), Nodes)
    BY DEF NodesOK
  <2>2. \A x \in Of(place, c) : x # n /\ x # h /\ x \in Nodes
    BY <1>2, <1>4, <1>11, <1>19, NodesFinite DEF Of
  <2>3. DListOf(w5.node_next, w5.node_prev, m.bucket[c], s, Of(place, c), Nodes)
    <3> DEFINE nx == w5.node_next
               pv == w5.node_prev
               next == m.node_next
               prev == m.node_prev
               g == m.bucket[c]
               C == Of(place, c)
    <3>1. \A x \in C : nx[x] = next[x] /\ pv[x] = prev[x]
      BY <1>16, <1>17, <2>2
    <3>2. DListOf(next, prev, g, s, C, Nodes) /\ INVALID \notin Nodes
      BY <2>1, NodesFinite
    <3> HIDE DEF nx, pv, next, prev, g, C
    <3>3. DListOf(nx, pv, g, s, C, Nodes)
      BY <3>1, <3>2, DListFrame
    <3>4. QED
      BY <3>3 DEF nx, pv, g, C
  <2>4. w5.bucket[c] = m.bucket[c]
    BY <1>1, <1>8, <1>19 DEF Mems
  <2>5. QED
    BY <1>11, <1>19, <2>3, <2>4
<1>20. \E s : DListOf(w5.node_next, w5.node_prev, w5.bucket[b], s, Of(p, b), Nodes)
  <2> DEFINE nx == w5.node_next
             pv == w5.node_prev
             next == m.node_next
             prev == m.node_prev
  <2>1. nx[n] = h /\ \A x \in S : nx[x] = next[x]
    BY <1>16, <1>a
  <2>2. pv[n] = INVALID /\ (h # INVALID => pv[h] = n) /\ \A x \in S \ {h} : pv[x] = prev[x]
    BY <1>4, <1>17, <1>a, NodesFinite
  <2>3. DListOf(next, prev, h, t, S, Nodes) /\ INVALID \notin Nodes /\ n \notin S
    BY <1>3, <1>a, NodesFinite DEF h
  <2> HIDE DEF nx, pv, next, prev, S
  <2> DEFINE s == IF t = INVALID THEN n ELSE t
  <2>a. (t = INVALID => s = n) /\ (t # INVALID => s = t)
    OBVIOUS
  <2> HIDE DEF s
  <2>4. DListOf(nx, pv, n, s, S \cup {n}, Nodes)
    BY <2>1, <2>2, <2>3, <2>a, DListPushed
  <2>5. w5.bucket[b] = n
    BY <1>1, <1>8 DEF Mems
  <2>6. QED
    BY <1>11, <2>4, <2>5 DEF nx, pv
<1>21. /\ \A k \in Used(p) : get_bucket_id(w5.key[k]) = p[k]
       /\ w5.map.used_node_num = Cardinality(Used(p))
  BY <1>2, <1>8, <1>13, <1>14 DEF NodesOK, u
<1>22. NodesOK(w5, p)
  BY <1>8, <1>12, <1>15, <1>18, <1>19, <1>20, <1>21 DEF NodesOK
<1>23. QED
  BY <1>7, <1>9, <1>10, <1>22 DEF p

\* A node is taken off the list of its bucket.
LEMMA NodeDeleted ==
  ASSUME NEW run, NEW m, Ends(run, m), NEW place, NodesOK(m, place),
         NEW n \in Nodes, place[n] \in Buckets
  PROVE  \E w : /\ Ends(delete_from_node_list(run, n), w) /\ NodeStep(m, w)
                /\ NodesOK(w, [place EXCEPT ![n] = HELD])
<1> DEFINE b == place[n]
           h == m.bucket[b]
           nx == m.node_next[n]
           pv == m.node_prev[n]
           u == m.map.used_node_num - 1
           w1 == PutNeq(m, pv, INVALID, "node_next", pv, nx)
           w2 == PutNeq(w1, nx, INVALID, "node_prev", nx, pv)
           w3 == PutEq(w2, h, n, "bucket", b, nx)
           w4 == Put(w3, "node_next", n, INVALID)
           w5 == Put(w4, "node_prev", n, INVALID)
           w6 == Put(w5, "map", "used_node_num", u)
           p == [place EXCEPT ![n] = HELD]
           S == Of(place, b)
           r1 == run ++ When(pv # INVALID, <<"node_next", pv, nx>>)
           r2 == r1 ++ When(nx # INVALID, <<"node_prev", nx, pv>>)
           r3 == r2 ++ When(h = n, <<"bucket", b, nx>>)
           r4 == r3 ++ <<"node_next", n, INVALID>>
           r5 == r4 ++ <<"node_prev", n, INVALID>>
           r6 == r5 ++ <<"map", "used_node_num", u>>
<1>1. m \in Mems /\ Last(run) = m
  BY EndsIs
<1>2. /\ place \in [Nodes -> Buckets \cup {FREE, HELD}] /\ m.node_next \in Arrays(Nodes)
      /\ ListOf(m.node_next, m.map.free_list, Of(place, FREE), Nodes)
      /\ m.map.used_node_num = Cardinality(Used(place))
  BY DEF NodesOK
<1>3. n \in Used(place) /\ get_bucket_id(m.key[n]) = b /\ n \in S
  BY <1>2 DEF Used, NodesOK, Of
<1>4. PICK t : DListOf(m.node_next, m.node_prev, h, t, S, Nodes)
  BY DEF NodesOK
<1>5. /\ S \subseteq Nodes /\ nx \in S \cup {INVALID} /\ pv \in S \cup {INVALID}
      /\ h \in S \cup {INVALID}
  <2> DEFINE next == m.node_next
             prev == m.node_prev
  <2>1. DListOf(next, prev, h, t, S, Nodes) /\ INVALID \notin Nodes /\ n \in S
    BY <1>3, <1>4, NodesFinite
  <2> HIDE DEF next, prev, h, S
  <2>2. /\ S \subseteq Nodes /\ next[n] \in S \cup {INVALID} /\ prev[n] \in S \cup {INVALID}
        /\ h \in S \cup {INVALID}
    BY <2>1, DListIs
  <2>3. QED
    BY <2>2 DEF next, prev
<1>6. delete_from_node_list(run, n) = r6
  BY <1>1, <1>3 DEF delete_from_node_list
<1>9. u \in Int
  BY <1>1 DEF Mems, Maps
<1>a. b \in Buckets
  OBVIOUS
<1> HIDE DEF b, h, nx, pv, u, r1, r2, r3, r4, r5, r6
<1>7. /\ w6.node_next = [(IF pv # INVALID THEN [m.node_next EXCEPT ![pv] = nx]
                          ELSE m.node_next) EXCEPT ![n] = INVALID]
      /\ w6.node_prev = [(IF nx # INVALID THEN [m.node_prev EXCEPT ![nx] = pv]
                          ELSE m.node_prev) EXCEPT ![n] = INVALID]
      /\ w6.bucket = (IF h = n THEN [m.bucket EXCEPT ![b] = nx] ELSE m.bucket)
      /\ w6.map.free_list = m.map.free_list
      /\ w6.map.used_node_num = u /\ w6.key = m.key
  BY <1>1 DEF Put, PutNeq, PutEq, Mems, Maps
<1>8. NodeStep(m, w6)
  BY <1>1 DEF Put, PutNeq, PutEq, Mems, Maps, NodeStep
<1> HIDE DEF w1, w2, w3, w4, w5, w6
<1>10. nx \in Int /\ pv \in Int /\ n \in Int /\ INVALID \in Int
  <2>1. INVALID \in Int
    BY DEF INVALID
  <2>2. S \subseteq Int /\ n \in Int
    <3>1. Nodes \subseteq Int
      BY NodesFinite
    <3>2. QED
      BY <1>5, <3>1
  <2>3. QED
    BY <1>5, <2>1, <2>2
<1>11. Ends(r6, w6)
  <2>1. Ends(r1, w1)
    <3>1. pv # INVALID => Fits("node_next", pv, nx)
      BY <1>5, <1>10 DEF Fits, NodeFields
    <3>2. QED
      BY <3>1, StoredNeq DEF r1, w1
  <2>2. Ends(r2, w2)
    <3>1. nx # INVALID => Fits("node_prev", nx, pv)
      BY <1>5, <1>10 DEF Fits, NodeFields
    <3>2. QED
      BY <2>1, <3>1, StoredNeq DEF r2, w2
  <2>3. Ends(r3, w3)
    <3>1. h = n => Fits("bucket", b, nx)
      BY <1>10, <1>a DEF Fits, NodeFields
    <3>2. QED
      BY <2>2, <3>1, StoredEq DEF r3, w3
  <2>4. Ends(r4, w4)
    <3>1. Fits("node_next", n, INVALID)
      BY <1>10 DEF Fits, NodeFields
    <3>2. QED
      BY <2>3, <3>1, Stored DEF r4, w4
  <2>5. Ends(r5, w5)
    <3>1. Fits("node_prev", n, INVALID)
      BY <1>10 DEF Fits, NodeFields
    <3>2. QED
      BY <2>4, <3>1, Stored DEF r5, w5
  <2>6. QED
    <3>1. Fits("map", "used_node_num", u)
      BY <1>9 DEF Fits, MapFields
    <3>2. QED
      BY <2>5, <3>1, Stored DEF r6, w6
<1>12. /\ Of(p, b) = S \ {n}
       /\ Of(p, FREE) = Of(place, FREE) /\ Of(place, FREE) \cap S = {}
       /\ \A c \in Buckets \ {b} : Of(p, c) = Of(place, c) /\ Of(place, c) \cap S = {}
  BY <1>2, <1>a, Places DEF Of, b
<1>13. p \in [Nodes -> Buckets \cup {FREE, HELD}]
  BY <1>2
<1>14. Used(p) = Used(place) \ {n} /\ Cardinality(Used(p)) = Cardinality(Used(place)) - 1
       /\ \A k \in Used(place) \ {n} : p[k] = place[k]
  <2>0. HELD \notin Buckets
    BY Places
  <2>1. Used(p) = Used(place) \ {n} /\ Cardinality(Used(p)) = Cardinality(Used(place)) - 1
    <3> DEFINE hd == HELD
    <3> HIDE DEF hd
    <3>1. Used([place EXCEPT ![n] = hd]) = Used(place) \ {n}
          /\ Cardinality(Used([place EXCEPT ![n] = hd])) = Cardinality(Used(place)) - 1
      <4>1. hd \notin Buckets
        BY <2>0 DEF hd
      <4>2. QED
        BY <1>2, <1>3, <4>1, UsedTaken
    <3>2. QED
      BY <3>1 DEF hd
  <2>2. \A k \in Used(place) \ {n} : p[k] = place[k]
    BY <1>2 DEF Used
  <2>3. QED
    BY <2>1, <2>2
<1> HIDE DEF p
<1>15. /\ m.node_next \in [Nodes -> Nodes \cup {INVALID}] /\ m.node_prev \in [Nodes -> Int]
       /\ m.bucket \in [Buckets -> Int]
  BY <1>1, <1>2 DEF Mems, Arrays
<1>16. /\ w6.node_next \in [Nodes -> Nodes \cup {INVALID}]
       /\ \A x \in Nodes \ {n, pv} : w6.node_next[x] = m.node_next[x]
       /\ pv # INVALID /\ pv # n => w6.node_next[pv] = nx
  BY <1>5, <1>7, <1>15
<1>17. /\ \A x \in Nodes \ {n, nx} : w6.node_prev[x] = m.node_prev[x]
       /\ nx # INVALID /\ nx # n => w6.node_prev[nx] = pv
  BY <1>5, <1>7, <1>15
<1>18. ListOf(w6.node_next, m.map.free_list, Of(p, FREE), Nodes)
  <2>1. \A x \in Of(p, FREE) : w6.node_next[x] = m.node_next[x]
    <3>1. Of(place, FREE) \subseteq Nodes /\ INVALID \notin Of(place, FREE)
      BY <1>2, NodesFinite DEF Of
    <3>2. n \notin Of(place, FREE) /\ pv \notin Of(place, FREE)
      BY <1>3, <1>5, <1>12, <3>1
    <3>3. QED
      BY <1>12, <1>16, <3>1, <3>2
  <2>2. QED
    BY <1>2, <1>12, <2>1, NodesFinite, ListFrame
<1>19. ASSUME NEW c \in Buckets, c # b
       PROVE  \E s : DListOf(w6.node_next, w6.node_prev, w6.bucket[c], s, Of(p, c), Nodes)
  <2>1. PICK s : DListOf(m.node_next, m.node_prev, m.bucket[c], s, Of(place, c), Nodes)
    BY DEF NodesOK
  <2> DEFINE ne == w6.node_next
             pr == w6.node_prev
             next == m.node_next
             prev == m.node_prev
             g == m.bucket[c]
             C == Of(place, c)
  <2>2. C \subseteq Nodes /\ INVALID \notin C /\ C \cap S = {}
    BY <1>2, <1>12, <1>19, NodesFinite DEF Of
  <2>3. \A x \in C : ne[x] = next[x] /\ pr[x] = prev[x]
    <3> HIDE DEF C
    <3>1. QED
      BY <1>3, <1>5, <1>16, <1>17, <2>2
  <2>4. DListOf(next, prev, g, s, C, Nodes) /\ INVALID \notin Nodes
    BY <2>1, NodesFinite
  <2> HIDE DEF ne, pr, next, prev, g, C
  <2>5. DListOf(ne, pr, g, s, C, Nodes)
    BY <2>3, <2>4, DListFrame
  <2>6. w6.bucket[c] = g
    BY <1>7, <1>15, <1>19 DEF g
  <2>7. QED
    BY <1>12, <1>19, <2>5, <2>6 DEF ne, pr, C
<1>20. \E s : DListOf(w6.node_next, w6.node_prev, w6.bucket[b], s, Of(p, b), Nodes)
  <2> DEFINE ne == w6.node_next
             pr == w6.node_prev
             next == m.node_next
             prev == m.node_prev
             g == IF h = n THEN nx ELSE h
             s == IF t = n THEN pv ELSE t
  <2>1. /\ next[n] = nx /\ prev[n] = pv
        /\ DListOf(next, prev, h, t, S, Nodes) /\ INVALID \notin Nodes /\ n \in S
    BY <1>3, <1>4, NodesFinite DEF nx, pv
  <2>2. /\ (h = n => g = nx) /\ (h # n => g = h)
        /\ (t = n => s = pv) /\ (t # n => s = t)
    OBVIOUS
  <2>3. w6.bucket[b] = g
    BY <1>7, <1>15, <1>a DEF h
  <2>4. pv # n /\ nx # n
    <3> HIDE DEF ne, pr, next, prev, g, s, S
    <3>1. QED
      BY <2>1, NotItself
  <2>5. /\ pv # INVALID => ne[pv] = nx
        /\ nx # INVALID => pr[nx] = pv
    BY <1>16, <1>17, <2>4
  <2>6. /\ \A x \in S \ {n, pv} : ne[x] = next[x]
        /\ \A x \in S \ {n, nx} : pr[x] = prev[x]
    <3> HIDE DEF S
    <3>1. QED
      BY <1>5, <1>16, <1>17
  <2> HIDE DEF ne, pr, next, prev, g, s, S
  <2>7. DListOf(ne, pr, g, s, S \ {n}, Nodes)
    <3>1. /\ prev[n] # INVALID => ne[prev[n]] = next[n]
          /\ next[n] # INVALID => pr[next[n]] = prev[n]
          /\ (h = n => g = next[n]) /\ (t = n => s = prev[n])
      BY <2>1, <2>2, <2>5
    <3>2. /\ \A x \in S \ {n, prev[n]} : ne[x] = next[x]
          /\ \A x \in S \ {n, next[n]} : pr[x] = prev[x]
      BY <2>1, <2>6
    <3>3. (h # n => g = h) /\ (t # n => s = t)
      BY <2>2
    <3>4. DListOf(next, prev, h, t, S, Nodes) /\ INVALID \notin Nodes /\ n \in S
      BY <2>1
    <3>5. Unlinks(next, prev, h, t, S, n, ne, pr, g, s)
      BY <3>1, <3>2, <3>3 DEF Unlinks
    <3>6. QED
      BY <3>4, <3>5, DListUnlinked
  <2>8. QED
    BY <1>12, <2>3, <2>7 DEF ne, pr
<1>21. /\ \A k \in Used(p) : get_bucket_id(w6.key[k]) = p[k]
       /\ w6.map.used_node_num = Cardinality(Used(p))
  BY <1>2, <1>7, <1>14 DEF NodesOK, u
<1>22. w6.node_next \in Arrays(Nodes)
  BY <1>16 DEF Arrays
<1>23. NodesOK(w6, p)
  BY <1>7, <1>13, <1>18, <1>19, <1>20, <1>21, <1>22 DEF NodesOK
<1>24. QED
  BY <1>6, <1>8, <1>11, <1>23 DEF p

\* What init_node does to a node.
Clears(m, w, n) ==
  /\ w.chunk_len = [m.chunk_len EXCEPT ![n] = 0]
  /\ w.chunk_head = [m.chunk_head EXCEPT ![n] = INVALID]
  /\ w.node_next = [m.node_next EXCEPT ![n] = INVALID]
  /\ w.node_prev = [m.node_prev EXCEPT ![n] = INVALID]
  /\ w.add_next = [m.add_next EXCEPT ![n] = INVALID]
  /\ w.add_prev = [m.add_prev EXCEPT ![n] = INVALID]
  /\ w.key = m.key /\ w.map = m.map /\ w.bucket = m.bucket
  /\ w.chunk = m.chunk /\ w.next = m.next /\ w.data = m.data

\* Node n is initialised.
LEMMA NodeCleared ==
  ASSUME NEW run, NEW m, Ends(run, m), NEW n \in Nodes
  PROVE  \E w : Ends(init_node(run, n), w) /\ Clears(m, w, n)
<1> DEFINE w1 == Put(m, "chunk_len", n, 0)
           w2 == Put(w1, "chunk_head", n, INVALID)
           w3 == Put(w2, "node_next", n, INVALID)
           w4 == Put(w3, "node_prev", n, INVALID)
           w5 == Put(w4, "add_next", n, INVALID)
           w6 == Put(w5, "add_prev", n, INVALID)
           r1 == run ++ <<"chunk_len", n, 0>>
           r2 == r1 ++ <<"chunk_head", n, INVALID>>
           r3 == r2 ++ <<"node_next", n, INVALID>>
           r4 == r3 ++ <<"node_prev", n, INVALID>>
           r5 == r4 ++ <<"add_next", n, INVALID>>
           r6 == r5 ++ <<"add_prev", n, INVALID>>
<1>1. m \in Mems
  BY EndsIs
<1>2. init_node(run, n) = r6
  BY DEF init_node
<1>3. Clears(m, w6, n)
  BY <1>1 DEF Put, Mems, Clears
<1>4. INVALID \in Int /\ 0 \in Int
  BY DEF INVALID
<1> HIDE DEF w1, w2, w3, w4, w5, w6, r1, r2, r3, r4, r5, r6
<1>5. /\ Fits("chunk_len", n, 0) /\ Fits("chunk_head", n, INVALID)
      /\ Fits("node_next", n, INVALID) /\ Fits("node_prev", n, INVALID)
      /\ Fits("add_next", n, INVALID) /\ Fits("add_prev", n, INVALID)
  BY <1>4 DEF Fits, NodeFields
<1>6. Ends(r6, w6)
  <2>1. Ends(r1, w1)
    BY <1>5, Stored DEF r1, w1
  <2>2. Ends(r2, w2)
    BY <1>5, <2>1, Stored DEF r2, w2
  <2>3. Ends(r3, w3)
    BY <1>5, <2>2, Stored DEF r3, w3
  <2>4. Ends(r4, w4)
    BY <1>5, <2>3, Stored DEF r4, w4
  <2>5. Ends(r5, w5)
    BY <1>5, <2>4, Stored DEF r5, w5
  <2>6. QED
    BY <1>5, <2>5, Stored DEF r6, w6
<1>7. QED
  BY <1>2, <1>3, <1>6

\* A node in hand can be initialised.
LEMMA HeldCleared ==
  ASSUME NEW m, NEW w, NEW n \in Nodes, m \in Mems, Clears(m, w, n),
         NEW place, NodesOK(m, place), place[n] = HELD, NEW A, AddOK(m, A), n \notin A
  PROVE  NodesOK(w, place) /\ AddOK(w, A)
<1>1. /\ \A x : x # n => w.node_next[x] = m.node_next[x]
      /\ \A x \in Nodes : x # n => w.node_prev[x] = m.node_prev[x]
      /\ \A x \in Nodes : x # n => w.add_next[x] = m.add_next[x]
      /\ \A x \in Nodes : x # n => w.add_prev[x] = m.add_prev[x]
      /\ w.add_next[n] = INVALID /\ w.add_prev[n] = INVALID
  BY DEF Clears, Mems, NodesOK, Arrays
<1>2. w.node_next \in Arrays(Nodes)
  BY DEF Clears, NodesOK, Arrays
<1>3. \A v \in Buckets \cup {FREE} : n \notin Of(place, v) /\ Of(place, v) \subseteq Nodes
  BY Places DEF Of, NodesOK
<1>4. ASSUME NEW b \in Buckets
      PROVE  \E t : DListOf(w.node_next, w.node_prev, w.bucket[b], t, Of(place, b), Nodes)
  <2> DEFINE next == m.node_next
             prev == m.node_prev
             ne == w.node_next
             pr == w.node_prev
             g == m.bucket[b]
             C == Of(place, b)
  <2>1. PICK t : DListOf(next, prev, g, t, C, Nodes)
    BY DEF NodesOK
  <2>2. \A x \in C : ne[x] = next[x] /\ pr[x] = prev[x]
    BY <1>1, <1>3
  <2>3. w.bucket[b] = g /\ INVALID \notin Nodes
    BY NodesFinite DEF Clears
  <2> HIDE DEF next, prev, ne, pr, g, C
  <2>4. DListOf(ne, pr, g, t, C, Nodes)
    BY <2>1, <2>2, <2>3, DListFrame
  <2>5. QED
    BY <2>3, <2>4 DEF ne, pr, C
<1>5. ListOf(w.node_next, w.map.free_list, Of(place, FREE), Nodes)
  <2>1. \A x \in Of(place, FREE) : w.node_next[x] = m.node_next[x]
    BY <1>1, <1>3
  <2>2. ListOf(m.node_next, m.map.free_list, Of(place, FREE), Nodes)
    BY DEF NodesOK
  <2>3. ListOf(w.node_next, m.map.free_list, Of(place, FREE), Nodes)
    BY <2>1, <2>2, ListFrame, NodesFinite
  <2>4. QED
    BY <2>3 DEF Clears
<1>6. NodesOK(w, place)
  BY <1>2, <1>4, <1>5 DEF NodesOK, Clears
<1>7. AddOK(w, A)
  <2> DEFINE next == m.add_next
             prev == m.add_prev
             ne == w.add_next
             pr == w.add_prev
             g == m.map.add_head
             t == m.map.add_tail
  <2>1. DListOf(next, prev, g, t, A, Nodes) /\ INVALID \notin Nodes
    BY NodesFinite DEF AddOK
  <2>2. A \subseteq Nodes
    <3> HIDE DEF next, prev, g, t
    <3>1. QED
      BY <2>1, DListIs
  <2>3. \A x \in A : ne[x] = next[x] /\ pr[x] = prev[x]
    BY <1>1, <2>2
  <2>4. \A x \in Nodes \ A : ne[x] = INVALID /\ pr[x] = INVALID
    BY <1>1 DEF AddOK
  <2>5. w.map.add_head = g /\ w.map.add_tail = t
    BY DEF Clears
  <2> HIDE DEF next, prev, ne, pr, g, t
  <2>6. DListOf(ne, pr, g, t, A, Nodes)
    BY <2>1, <2>3, DListFrame
  <2>7. QED
    BY <2>4, <2>5, <2>6 DEF AddOK, ne, pr
<1>8. QED
  BY <1>6, <1>7

-----------------------------------------------------------------------------
(***************************************************************************)
(* The add list                                                            *)
(***************************************************************************)

LEMMA AddUntouched ==
  ASSUME NEW run, NEW m, Ends(run, m), NEW A, AddOK(m, A), NEW n \in Nodes \ A
  PROVE  delete_from_add_list(run, n) = run
<1> DEFINE next == m.add_next
           prev == m.add_prev
           h == m.map.add_head
           t == m.map.add_tail
<1>1. DListOf(next, prev, h, t, A, Nodes) /\ next[n] = INVALID /\ prev[n] = INVALID
  BY DEF AddOK
<1>2. INVALID \notin Nodes /\ Last(run) = m
  BY NodesFinite, EndsIs
<1> HIDE DEF next, prev, h, t
<1>3. h # n /\ t # n
  BY <1>1, <1>2, DListIs
<1>4. QED
  BY <1>1, <1>2, <1>3 DEF delete_from_add_list, next, prev, h, t

\* A node is taken off the add list.
LEMMA AddTaken ==
  ASSUME NEW run, NEW m, Ends(run, m), NEW A, AddOK(m, A), NEW n \in A
  PROVE  \E w : /\ Ends(delete_from_add_list(run, n), w) /\ AddStep(m, w)
                /\ AddOK(w, A \ {n})
<1> DEFINE h == m.map.add_head
           t == m.map.add_tail
           nx == m.add_next[n]
           pv == m.add_prev[n]
           w1 == PutNeq(m, pv, INVALID, "add_next", pv, nx)
           w2 == PutNeq(w1, nx, INVALID, "add_prev", nx, pv)
           w3 == PutEq(w2, h, n, "map", "add_head", nx)
           w4 == PutEq(w3, t, n, "map", "add_tail", pv)
           w5 == Put(w4, "add_prev", n, INVALID)
           w6 == Put(w5, "add_next", n, INVALID)
           r1 == run ++ When(pv # INVALID, <<"add_next", pv, nx>>)
           r2 == r1 ++ When(nx # INVALID, <<"add_prev", nx, pv>>)
           r3 == r2 ++ When(h = n, <<"map", "add_head", nx>>)
           r4 == r3 ++ When(t = n, <<"map", "add_tail", pv>>)
           r5 == r4 ++ <<"add_prev", n, INVALID>>
           r6 == r5 ++ <<"add_next", n, INVALID>>
<1>1. m \in Mems /\ Last(run) = m
  BY EndsIs
<1>2. DListOf(m.add_next, m.add_prev, h, t, A, Nodes)
  BY DEF AddOK
<1>3. /\ A \subseteq Nodes /\ nx \in A \cup {INVALID} /\ pv \in A \cup {INVALID}
      /\ (pv = INVALID => n = h) /\ nx # n /\ pv # n
  <2> DEFINE next == m.add_next
             prev == m.add_prev
  <2>1. DListOf(next, prev, h, t, A, Nodes) /\ INVALID \notin Nodes
    BY <1>2, NodesFinite
  <2> HIDE DEF next, prev, h, t
  <2>2. /\ A \subseteq Nodes /\ next[n] \in A \cup {INVALID} /\ prev[n] \in A \cup {INVALID}
        /\ (prev[n] = INVALID => n = h)
    BY <2>1, DListIs
  <2>3. next[n] # n /\ prev[n] # n
    BY <2>1, NotItself
  <2>4. QED
    BY <2>2, <2>3 DEF next, prev
<1>4. delete_from_add_list(run, n) = r6
  <2> HIDE DEF r1
  <2>1. ~(nx = INVALID /\ pv = INVALID /\ ~(h = n) /\ ~(t = n))
    BY <1>3
  <2>2. QED
    BY <1>1, <2>1 DEF delete_from_add_list, r1
<1> HIDE DEF h, t, nx, pv, r1, r2, r3, r4, r5, r6
<1>5. /\ w6.add_next = [(IF pv # INVALID THEN [m.add_next EXCEPT ![pv] = nx]
                         ELSE m.add_next) EXCEPT ![n] = INVALID]
      /\ w6.add_prev = [(IF nx # INVALID THEN [m.add_prev EXCEPT ![nx] = pv]
                         ELSE m.add_prev) EXCEPT ![n] = INVALID]
      /\ w6.map.add_head = IF h = n THEN nx ELSE m.map.add_head
      /\ w6.map.add_tail = IF t = n THEN pv ELSE m.map.add_tail
  BY <1>1 DEF Put, PutNeq, PutEq, Mems, Maps
<1>6. AddStep(m, w6)
  BY <1>1 DEF Put, PutNeq, PutEq, Mems, Maps, AddStep
<1> HIDE DEF w1, w2, w3, w4, w5, w6
<1>7. nx \in Int /\ pv \in Int /\ n \in Nodes /\ INVALID \in Int
  <2>1. INVALID \in Int
    BY DEF INVALID
  <2>2. Nodes \subseteq Int
    BY NodesFinite
  <2>3. QED
    BY <1>3, <2>1, <2>2
<1>8. Ends(r6, w6)
  <2>1. /\ pv # INVALID => Fits("add_next", pv, nx)
        /\ nx # INVALID => Fits("add_prev", nx, pv)
        /\ Fits("map", "add_head", nx) /\ Fits("map", "add_tail", pv)
        /\ Fits("add_prev", n, INVALID) /\ Fits("add_next", n, INVALID)
    BY <1>3, <1>7 DEF Fits, NodeFields, MapFields
  <2>2. Ends(r1, w1)
    BY <2>1, StoredNeq DEF r1, w1
  <2>3. Ends(r2, w2)
    BY <2>1, <2>2, StoredNeq DEF r2, w2
  <2>4. Ends(r3, w3)
    BY <2>1, <2>3, StoredEq DEF r3, w3
  <2>5. Ends(r4, w4)
    BY <2>1, <2>4, StoredEq DEF r4, w4
  <2>6. Ends(r5, w5)
    BY <2>1, <2>5, Stored DEF r5, w5
  <2>7. QED
    BY <2>1, <2>6, Stored DEF r6, w6
<1>9. m.add_next \in [Nodes -> Int] /\ m.add_prev \in [Nodes -> Int]
  BY <1>1 DEF Mems
<1>10. /\ \A x \in Nodes \ {n, pv} : w6.add_next[x] = m.add_next[x]
       /\ pv # INVALID => w6.add_next[pv] = nx
       /\ w6.add_next[n] = INVALID
  BY <1>3, <1>5, <1>7, <1>9
<1>11. /\ \A x \in Nodes \ {n, nx} : w6.add_prev[x] = m.add_prev[x]
       /\ nx # INVALID => w6.add_prev[nx] = pv
       /\ w6.add_prev[n] = INVALID
  BY <1>3, <1>5, <1>7, <1>9
<1>12. DListOf(w6.add_next, w6.add_prev, w6.map.add_head, w6.map.add_tail, A \ {n}, Nodes)
  <2> DEFINE ne == w6.add_next
             pr == w6.add_prev
             next == m.add_next
             prev == m.add_prev
             g == w6.map.add_head
             u == w6.map.add_tail
  <2>1. /\ next[n] = nx /\ prev[n] = pv /\ (h = n => g = nx) /\ (h # n => g = h)
        /\ (t = n => u = pv) /\ (t # n => u = t)
        /\ DListOf(next, prev, h, t, A, Nodes) /\ INVALID \notin Nodes
    BY <1>2, <1>5, NodesFinite DEF nx, pv, h, t
  <2>2. /\ pv # INVALID => ne[pv] = nx
        /\ nx # INVALID => pr[nx] = pv
        /\ \A x \in A \ {n, pv} : ne[x] = next[x]
        /\ \A x \in A \ {n, nx} : pr[x] = prev[x]
    BY <1>3, <1>10, <1>11
  <2> HIDE DEF ne, pr, next, prev, g, u
  <2>3. Unlinks(next, prev, h, t, A, n, ne, pr, g, u)
    BY <2>1, <2>2 DEF Unlinks
  <2>4. DListOf(ne, pr, g, u, A \ {n}, Nodes)
    BY <2>1, <2>3, DListUnlinked
  <2>5. QED
    BY <2>4 DEF ne, pr, g, u
<1>13. \A x \in Nodes \ (A \ {n}) : w6.add_next[x] = INVALID /\ w6.add_prev[x] = INVALID
  <2> SUFFICES ASSUME NEW x \in Nodes, x \notin A \ {n}
               PROVE  w6.add_next[x] = INVALID /\ w6.add_prev[x] = INVALID
    OBVIOUS
  <2>1. CASE x = n
    BY <1>10, <1>11, <2>1
  <2>2. CASE x # n
    <3>1. x \notin A /\ m.add_next[x] = INVALID /\ m.add_prev[x] = INVALID
      BY <2>2 DEF AddOK
    <3>2. x # pv /\ x # nx
      BY <1>3, <3>1, NodesFinite
    <3>3. QED
      BY <1>10, <1>11, <2>2, <3>1, <3>2
  <2>3. QED
    BY <2>1, <2>2
<1>14. AddOK(w6, A \ {n})
  BY <1>12, <1>13 DEF AddOK
<1>15. QED
  BY <1>4, <1>6, <1>8, <1>14

LEMMA AddDeleted ==
  ASSUME NEW run, NEW m, Ends(run, m), NEW A, AddOK(m, A), NEW n \in Nodes
  PROVE  \E w : /\ Ends(delete_from_add_list(run, n), w) /\ AddStep(m, w)
                /\ AddOK(w, A \ {n})
<1>1. CASE n \in A
  BY <1>1, AddTaken
<1>2. CASE n \notin A
  <2>1. delete_from_add_list(run, n) = run /\ A \ {n} = A
    BY <1>2, AddUntouched
  <2>2. AddStep(m, m)
    BY DEF AddStep
  <2>3. QED
    BY <2>1, <2>2
<1>3. QED
  BY <1>1, <1>2

\* A node that is not on the add list becomes its head.
LEMMA AddPushed ==
  ASSUME NEW run, NEW v, Ends(run, v), NEW A, AddOK(v, A), NEW n \in Nodes, n \notin A
  PROVE  LET h == v.map.add_head
             w == run ++ <<"add_next", n, h>> ++ <<"map", "add_head", n>>
                      ++ When(v.map.add_tail = INVALID, <<"map", "add_tail", n>>)
                      ++ <<"add_prev", n, INVALID>>
                      ++ When(h # INVALID, <<"add_prev", h, n>>)
         IN  \E x : Ends(w, x) /\ AddStep(v, x) /\ AddOK(x, A \cup {n})
<1> DEFINE h == v.map.add_head
           t == v.map.add_tail
           w1 == Put(v, "add_next", n, h)
           w2 == Put(w1, "map", "add_head", n)
           w3 == PutEq(w2, t, INVALID, "map", "add_tail", n)
           w4 == Put(w3, "add_prev", n, INVALID)
           w5 == PutNeq(w4, h, INVALID, "add_prev", h, n)
           r1 == run ++ <<"add_next", n, h>>
           r2 == r1 ++ <<"map", "add_head", n>>
           r3 == r2 ++ When(t = INVALID, <<"map", "add_tail", n>>)
           r4 == r3 ++ <<"add_prev", n, INVALID>>
           r5 == r4 ++ When(h # INVALID, <<"add_prev", h, n>>)
<1>1. v \in Mems
  BY EndsIs
<1>2. DListOf(v.add_next, v.add_prev, h, t, A, Nodes)
  BY DEF AddOK
<1>3. A \subseteq Nodes /\ h \in A \cup {INVALID} /\ h # n /\ t \in A \cup {INVALID}
  <2> DEFINE next == v.add_next
             prev == v.add_prev
  <2>1. DListOf(next, prev, h, t, A, Nodes) /\ INVALID \notin Nodes
    BY <1>2, NodesFinite
  <2> HIDE DEF next, prev, h, t
  <2>2. A \subseteq Nodes /\ h \in A \cup {INVALID} /\ t \in A \cup {INVALID}
    BY <2>1, DListIs
  <2>3. QED
    BY <2>1, <2>2
<1>4. r5 = run ++ <<"add_next", n, h>> ++ <<"map", "add_head", n>>
               ++ When(v.map.add_tail = INVALID, <<"map", "add_tail", n>>)
               ++ <<"add_prev", n, INVALID>> ++ When(h # INVALID, <<"add_prev", h, n>>)
  OBVIOUS
<1> HIDE DEF h, t, r1, r2, r3, r4, r5
<1>5. /\ w5.add_next = [v.add_next EXCEPT ![n] = h]
      /\ w5.add_prev = IF h # INVALID THEN [[v.add_prev EXCEPT ![n] = INVALID] EXCEPT ![h] = n]
                       ELSE [v.add_prev EXCEPT ![n] = INVALID]
      /\ w5.map.add_head = n
      /\ w5.map.add_tail = IF t = INVALID THEN n ELSE v.map.add_tail
  BY <1>1 DEF Put, PutNeq, PutEq, Mems, Maps
<1>6. AddStep(v, w5)
  BY <1>1 DEF Put, PutNeq, PutEq, Mems, Maps, AddStep
<1> HIDE DEF w1, w2, w3, w4, w5
<1>7. h \in Int /\ n \in Int /\ INVALID \in Int
  <2>1. INVALID \in Int
    BY DEF INVALID
  <2>2. Nodes \subseteq Int
    BY NodesFinite
  <2>3. QED
    BY <1>3, <2>1, <2>2
<1>8. Ends(r5, w5)
  <2>1. /\ Fits("add_next", n, h) /\ Fits("map", "add_head", n) /\ Fits("map", "add_tail", n)
        /\ Fits("add_prev", n, INVALID) /\ (h # INVALID => Fits("add_prev", h, n))
    BY <1>3, <1>7 DEF Fits, NodeFields, MapFields
  <2>2. Ends(r1, w1)
    BY <2>1, Stored DEF r1, w1
  <2>3. Ends(r2, w2)
    BY <2>1, <2>2, Stored DEF r2, w2
  <2>4. Ends(r3, w3)
    BY <2>1, <2>3, StoredEq DEF r3, w3
  <2>5. Ends(r4, w4)
    BY <2>1, <2>4, Stored DEF r4, w4
  <2>6. QED
    BY <2>1, <2>5, StoredNeq DEF r5, w5
<1>9. v.add_next \in [Nodes -> Int] /\ v.add_prev \in [Nodes -> Int]
  BY <1>1 DEF Mems
<1>10. w5.add_next[n] = h /\ \A x \in Nodes \ {n} : w5.add_next[x] = v.add_next[x]
  BY <1>5, <1>9
<1>11. /\ \A x \in Nodes \ {n, h} : w5.add_prev[x] = v.add_prev[x]
       /\ h # INVALID => w5.add_prev[h] = n
       /\ w5.add_prev[n] = INVALID
  BY <1>3, <1>5, <1>9
<1>12. DListOf(w5.add_next, w5.add_prev, w5.map.add_head, w5.map.add_tail, A \cup {n}, Nodes)
  <2> DEFINE ne == w5.add_next
             pr == w5.add_prev
             next == v.add_next
             prev == v.add_prev
             u == w5.map.add_tail
  <2>1. /\ (t = INVALID => u = n) /\ (t # INVALID => u = t)
        /\ DListOf(next, prev, h, t, A, Nodes) /\ INVALID \notin Nodes
    BY <1>2, <1>5, NodesFinite DEF t
  <2>2. ne[n] = h /\ \A x \in A : ne[x] = next[x]
    BY <1>3, <1>10
  <2>3. pr[n] = INVALID /\ (h # INVALID => pr[h] = n) /\ \A x \in A \ {h} : pr[x] = prev[x]
    BY <1>3, <1>11
  <2> HIDE DEF ne, pr, next, prev, u
  <2>4. DListOf(ne, pr, n, u, A \cup {n}, Nodes)
    BY <2>1, <2>2, <2>3, DListPushed
  <2>5. QED
    BY <1>5, <2>4 DEF ne, pr, u
<1>13. \A x \in Nodes \ (A \cup {n}) : w5.add_next[x] = INVALID /\ w5.add_prev[x] = INVALID
  <2> SUFFICES ASSUME NEW x \in Nodes, x \notin A, x # n
               PROVE  w5.add_next[x] = INVALID /\ w5.add_prev[x] = INVALID
    OBVIOUS
  <2>1. x # h
    BY <1>3, NodesFinite
  <2>2. v.add_next[x] = INVALID /\ v.add_prev[x] = INVALID
    BY DEF AddOK
  <2>3. QED
    BY <1>10, <1>11, <2>1, <2>2
<1>14. AddOK(w5, A \cup {n})
  BY <1>12, <1>13 DEF AddOK
<1>15. QED
  BY <1>4, <1>6, <1>8, <1>14 DEF h

\* A node is moved to, or put at, the head of the add list.
LEMMA AddInserted ==
  ASSUME NEW run, NEW m, Ends(run, m), NEW A, AddOK(m, A), NEW n \in Nodes
  PROVE  \E w : /\ Ends(insert_add_list_head(run, n), w) /\ AddStep(m, w)
                /\ AddOK(w, A \cup {n})
<1> DEFINE r == delete_from_add_list(run, n)
<1>1. PICK v : Ends(r, v) /\ AddStep(m, v) /\ AddOK(v, A \ {n})
  BY AddDeleted
<1>2. Last(r) = v
  BY <1>1, EndsIs
<1> DEFINE h == v.map.add_head
           a == r ++ <<"add_next", n, h>> ++ <<"map", "add_head", n>>
                  ++ When(v.map.add_tail = INVALID, <<"map", "add_tail", n>>)
                  ++ <<"add_prev", n, INVALID>> ++ When(h # INVALID, <<"add_prev", h, n>>)
<1>3. insert_add_list_head(run, n) = a
  BY <1>2 DEF insert_add_list_head
<1>4. n \notin A \ {n} /\ (A \ {n}) \cup {n} = A \cup {n}
  OBVIOUS
<1>5. \E w : Ends(a, w) /\ AddStep(v, w) /\ AddOK(w, (A \ {n}) \cup {n})
  <2> HIDE DEF r
  <2>1. QED
    BY <1>1, <1>4, AddPushed
<1>6. PICK w : Ends(a, w) /\ AddStep(v, w) /\ AddOK(w, (A \ {n}) \cup {n})
  BY <1>5
<1>7. AddStep(m, w)
  BY <1>1, <1>6 DEF AddStep
<1> HIDE DEF a, r
<1>8. QED
  BY <1>3, <1>4, <1>6, <1>7

-----------------------------------------------------------------------------
(***************************************************************************)
(* Chunks                                                                  *)
(***************************************************************************)

\* A chunk is taken off the free list and points to v.
LEMMA ChunkPopped ==
  ASSUME NEW run, NEW m, Ends(run, m), NEW c \in ChunkNodes, c = m.chunk.free_list, NEW v \in Int
  PROVE  \E w : /\ Ends(chunk_free_list_remove(run) ++ <<"next", c, v>>, w) /\ ChunkStep(m, w)
                /\ w.next = [m.next EXCEPT ![c] = v] /\ w.chunk.free_list = m.next[c]
                /\ w.chunk.free_total = m.chunk.free_total
<1> DEFINE nx == m.next[c]
           w1 == Put(m, "chunk", "free_list", nx)
           w2 == Put(w1, "next", c, INVALID)
           w3 == Put(w2, "next", c, v)
           r1 == run ++ <<"chunk", "free_list", nx>>
           r2 == r1 ++ <<"next", c, INVALID>>
           r3 == r2 ++ <<"next", c, v>>
<1>1. m \in Mems /\ Last(run) = m
  BY EndsIs
<1>2. chunk_free_list_remove(run) ++ <<"next", c, v>> = r3
  BY <1>1 DEF chunk_free_list_remove
<1>3. nx \in Int /\ INVALID \in Int
  BY <1>1 DEF Mems, INVALID
<1> HIDE DEF nx, r1, r2, r3
<1>4. /\ w3.next = [m.next EXCEPT ![c] = v] /\ w3.chunk.free_list = nx
      /\ w3.chunk.free_total = m.chunk.free_total
  BY <1>1 DEF Put, Mems, ChunkHeads
<1>5. ChunkStep(m, w3)
  BY <1>1 DEF Put, Mems, ChunkHeads, ChunkStep
<1> HIDE DEF w1, w2, w3
<1>6. Ends(r3, w3)
  <2>1. /\ Fits("chunk", "free_list", nx) /\ Fits("next", c, INVALID) /\ Fits("next", c, v)
    BY <1>3 DEF Fits, ChunkFields
  <2>2. Ends(r1, w1)
    BY <2>1, Stored DEF r1, w1
  <2>3. Ends(r2, w2)
    BY <2>1, <2>2, Stored DEF r2, w2
  <2>4. QED
    BY <2>1, <2>3, Stored DEF r3, w3
<1>7. QED
  BY <1>2, <1>4, <1>5, <1>6 DEF nx

\* A chunk is put on the free list.
LEMMA ChunkPushed ==
  ASSUME NEW run, NEW m, Ends(run, m), NEW c \in ChunkNodes
  PROVE  \E w : /\ Ends(chunk_free_list_insert(run, c), w) /\ ChunkStep(m, w)
                /\ w.next = [m.next EXCEPT ![c] = m.chunk.free_list] /\ w.chunk.free_list = c
                /\ w.chunk.free_total = m.chunk.free_total
<1> DEFINE h == m.chunk.free_list
           w1 == Put(m, "next", c, h)
           w2 == Put(w1, "chunk", "free_list", c)
           r1 == run ++ <<"next", c, h>>
           r2 == r1 ++ <<"chunk", "free_list", c>>
<1>1. m \in Mems /\ Last(run) = m
  BY EndsIs
<1>2. chunk_free_list_insert(run, c) = r2
  BY <1>1 DEF chunk_free_list_insert
<1>3. h \in Int /\ c \in Int
  BY <1>1, ChunksFinite DEF Mems, ChunkHeads
<1> HIDE DEF h, r1, r2
<1>4. /\ w2.next = [m.next EXCEPT ![c] = h] /\ w2.chunk.free_list = c
      /\ w2.chunk.free_total = m.chunk.free_total
  BY <1>1 DEF Put, Mems, ChunkHeads
<1>5. ChunkStep(m, w2)
  BY <1>1 DEF Put, Mems, ChunkHeads, ChunkStep
<1> HIDE DEF w1, w2
<1>6. Ends(r2, w2)
  <2>1. Fits("chunk", "free_list", c) /\ Fits("next", c, h)
    BY <1>3 DEF Fits, ChunkFields
  <2>2. Ends(r1, w1)
    BY <2>1, Stored DEF r1, w1
  <2>3. QED
    BY <2>1, <2>2, Stored DEF r2, w2
<1>7. QED
  BY <1>2, <1>4, <1>5, <1>6 DEF h

\* free_total_ is written.
LEMMA FreeTotalStored ==
  ASSUME NEW run, NEW m, Ends(run, m), NEW u \in Int
  PROVE  \E w : /\ Ends(run ++ <<"chunk", "free_total", u>>, w) /\ ChunkStep(m, w)
                /\ w.next = m.next /\ w.chunk.free_list = m.chunk.free_list
                /\ w.chunk.free_total = u
<1> DEFINE w == Put(m, "chunk", "free_total", u)
<1>1. m \in Mems
  BY EndsIs
<1>2. /\ w.next = m.next /\ w.chunk.free_list = m.chunk.free_list /\ w.chunk.free_total = u
      /\ ChunkStep(m, w)
  BY <1>1 DEF Put, Mems, ChunkHeads, ChunkStep
<1>3. Fits("chunk", "free_total", u)
  BY DEF Fits, ChunkFields
<1>4. Ends(run ++ <<"chunk", "free_total", u>>, w)
  <2> HIDE DEF w
  <2>1. QED
    BY <1>3, Stored DEF w
<1>5. QED
  BY <1>2, <1>4

Firsts(s, i) == {s[j] : j \in 1..i}

LEMMA FirstsIs ==
  ASSUME NEW D, NEW s \in Seq(D), \A i, j \in 1..Len(s) : s[i] = s[j] => i = j, NEW k \in 1..Len(s)
  PROVE  /\ Firsts(s, k) = Firsts(s, k - 1) \cup {s[k]} /\ s[k] \notin Firsts(s, k - 1)
         /\ Firsts(s, k) \subseteq ToSet(s) /\ s[k] \in D
<1>1. k \in Nat /\ k - 1 \in Nat /\ Len(s) \in Nat /\ ToSet(s) = {s[i] : i \in 1..Len(s)}
      /\ \A i \in 1..Len(s) : s[i] \in D
  BY Elements
<1>2. 1..k = 1..(k - 1) \cup {k} /\ k \notin 1..(k - 1) /\ 1..k \subseteq 1..Len(s)
  BY <1>1
<1>3. Firsts(s, k) = Firsts(s, k - 1) \cup {s[k]}
  BY <1>2 DEF Firsts
<1>4. s[k] \notin Firsts(s, k - 1)
  BY <1>1, <1>2 DEF Firsts
<1>5. QED
  BY <1>1, <1>2, <1>3, <1>4 DEF Firsts

LEMMA FirstsEnds ==
  ASSUME NEW D, NEW s \in Seq(D)
  PROVE  Firsts(s, 0) = {} /\ Firsts(s, Len(s)) = ToSet(s)
<1>1. ToSet(s) = {s[i] : i \in 1..Len(s)}
  BY Elements
<1>2. 1..0 = {}
  OBVIOUS
<1>3. QED
  BY <1>1, <1>2 DEF Firsts

\* The first i of the free chunks fs, which are F, have been taken.
Malloced(m, fs, F, i, w) ==
  /\ ChunkStep(m, w) /\ w.chunk.free_total = m.chunk.free_total
  /\ w.next \in Arrays(ChunkNodes)
  /\ w.chunk.free_list = At(fs, i + 1)
  /\ \A c \in ChunkNodes \ Firsts(fs, i) : w.next[c] = m.next[c]
  /\ ListOf(w.next, At(fs, i), Firsts(fs, i), ChunkNodes)
  /\ ListOf(w.next, At(fs, i + 1), F \ Firsts(fs, i), ChunkNodes)
  /\ IsFiniteSet(Firsts(fs, i)) /\ Cardinality(Firsts(fs, i)) = i

LEMMA MallocStep ==
  ASSUME NEW m, NEW fs, NEW F, Leads(m.next, m.chunk.free_list, fs, ChunkNodes), ToSet(fs) = F,
         NEW k \in 1..Len(fs), NEW run, NEW w, Ends(run, w), Malloced(m, fs, F, k - 1, w)
  PROVE  \E x : /\ Ends(chunk_free_list_remove(run) ++ <<"next", fs[k], At(fs, k - 1)>>, x)
                /\ Malloced(m, fs, F, k, x)
<1> DEFINE c == fs[k]
           j == k - 1
           T == Firsts(fs, j)
           U == Firsts(fs, k)
           v == At(fs, j)
<1>1. /\ fs \in Seq(ChunkNodes) /\ Len(fs) \in Nat /\ c \in ChunkNodes
      /\ \A i, l \in 1..Len(fs) : fs[i] = fs[l] => i = l
      /\ m.next[c] = At(fs, k + 1)
  <2> DEFINE next == m.next
             h == m.chunk.free_list
  <2>1. Leads(next, h, fs, ChunkNodes)
    OBVIOUS
  <2> HIDE DEF next, h, c, j, T, U, v
  <2>2. /\ fs \in Seq(ChunkNodes) /\ Len(fs) \in Nat
        /\ \A i, l \in 1..Len(fs) : fs[i] = fs[l] => i = l
        /\ \A i \in 1..Len(fs) : fs[i] \in ChunkNodes /\ next[fs[i]] = At(fs, i + 1)
    BY <2>1, LeadsIs, ChunksFinite
  <2>3. QED
    BY <2>2 DEF c, next
<1>2. U = T \cup {c} /\ c \notin T /\ U \subseteq F
  BY <1>1, FirstsIs
<1>3. j + 1 = k /\ At(fs, k) = c /\ k \in Nat /\ j \in Nat
  BY <1>1 DEF At
<1>4. /\ ChunkStep(m, w) /\ w.chunk.free_total = m.chunk.free_total
      /\ w.next \in Arrays(ChunkNodes) /\ w.chunk.free_list = c
      /\ \A d \in ChunkNodes \ T : w.next[d] = m.next[d]
      /\ ListOf(w.next, v, T, ChunkNodes)
      /\ ListOf(w.next, c, F \ T, ChunkNodes)
      /\ IsFiniteSet(T) /\ Cardinality(T) = j
  BY <1>3 DEF Malloced
<1>5. v \in ChunkNodes \cup {INVALID} /\ v \in Int
  <2>1. v \in ChunkNodes \cup {INVALID}
    BY <1>1 DEF At
  <2>2. ChunkNodes \subseteq Int /\ INVALID \in Int
    BY ChunksFinite DEF INVALID
  <2>3. QED
    BY <2>1, <2>2
<1> HIDE DEF c, j, T, U, v
<1>6. PICK x : /\ Ends(chunk_free_list_remove(run) ++ <<"next", c, v>>, x) /\ ChunkStep(w, x)
               /\ x.next = [w.next EXCEPT ![c] = v] /\ x.chunk.free_list = w.next[c]
               /\ x.chunk.free_total = w.chunk.free_total
  <2>1. c \in ChunkNodes /\ c = w.chunk.free_list /\ v \in Int
    BY <1>1, <1>4, <1>5
  <2>2. QED
    BY <2>1, ChunkPopped
<1>7. ChunkStep(m, x)
  BY <1>4, <1>6 DEF ChunkStep
<1>8. x.next \in Arrays(ChunkNodes)
  BY <1>1, <1>4, <1>5, <1>6 DEF Arrays
<1>9. x.next[c] = v /\ \A d \in ChunkNodes \ {c} : x.next[d] = w.next[d]
  BY <1>1, <1>4, <1>6 DEF Arrays
<1>10. x.chunk.free_list = At(fs, k + 1) /\ w.next[c] = At(fs, k + 1)
  BY <1>1, <1>2, <1>4, <1>6
<1>11. \A d \in ChunkNodes \ U : x.next[d] = m.next[d]
  BY <1>2, <1>4, <1>9
<1>12. T \subseteq ChunkNodes /\ INVALID \notin ChunkNodes
  BY <1>4, ListIs, ChunksFinite
<1>13. ListOf(x.next, c, U, ChunkNodes)
  <2> DEFINE next == w.next
             nx == x.next
  <2>1. nx[c] = v /\ \A d \in T : nx[d] = next[d]
    BY <1>2, <1>9, <1>12
  <2>2. ListOf(next, v, T, ChunkNodes)
    BY <1>4
  <2> HIDE DEF next, nx
  <2>3. ListOf(nx, c, T \cup {c}, ChunkNodes)
    BY <1>1, <1>2, <1>12, <2>1, <2>2, ListPushed
  <2>4. QED
    BY <1>2, <2>3 DEF nx
<1>14. ListOf(x.next, At(fs, k + 1), F \ U, ChunkNodes)
  <2> DEFINE next == w.next
             nx == x.next
             G == F \ T
             H == G \ {c}
  <2>1. ListOf(next, c, G, ChunkNodes) /\ c # INVALID /\ F \ U = H
    BY <1>1, <1>2, <1>4, <1>12
  <2>2. \A d \in ChunkNodes \ {c} : nx[d] = next[d]
    BY <1>9
  <2>3. next[c] = At(fs, k + 1)
    BY <1>10
  <2> HIDE DEF next, nx, G
  <2>4. ListOf(next, next[c], H, ChunkNodes)
    BY <1>12, <2>1, ListPopped
  <2>5. G \subseteq ChunkNodes
    BY <1>12, <2>1, ListIs
  <2>6. \A d \in H : nx[d] = next[d]
    BY <2>2, <2>5
  <2> HIDE DEF H
  <2>7. ListOf(nx, next[c], H, ChunkNodes)
    BY <1>12, <2>4, <2>6, ListFrame
  <2>8. QED
    BY <2>1, <2>3, <2>7 DEF nx
<1>15. IsFiniteSet(U) /\ Cardinality(U) = k
  BY <1>2, <1>3, <1>4, FS_AddElement
<1>16. Malloced(m, fs, F, k, x)
  BY <1>3, <1>4, <1>6, <1>7, <1>8, <1>10, <1>11, <1>13, <1>14, <1>15 DEF Malloced, U
<1>17. QED
  BY <1>6, <1>16 DEF c, v, j

\* The function that malloc is defined by.
IsMalloc(f, run, num) ==
  f = [i \in 0..num |->
         IF i = 0 THEN run
         ELSE chunk_free_list_remove(f[i - 1])
                ++ <<"next", Taken(Last(run), num)[i],
                     IF i = 1 THEN INVALID ELSE Taken(Last(run), num)[i - 1]>>]

LEMMA MallocLoop ==
  ASSUME NEW run, NEW m, Ends(run, m), m.next \in Arrays(ChunkNodes),
         NEW fs, NEW F, Leads(m.next, m.chunk.free_list, fs, ChunkNodes), ToSet(fs) = F,
         NEW num \in 0..Len(fs)
  PROVE  \E r, w : /\ malloc(run, num) = r ++ <<"chunk", "free_total", m.chunk.free_total - num>>
                   /\ Ends(r, w) /\ Malloced(m, fs, F, num, w)
<1> DEFINE cs == SubSeq(fs, 1, num)
           Kept(k, r) == \E w : Ends(r, w) /\ Malloced(m, fs, F, k, w)
           Step(r, k) == chunk_free_list_remove(r)
                           ++ <<"next", cs[k], IF k = 1 THEN INVALID ELSE cs[k - 1]>>
           R(k) == {r \in Seq(Mems) : Kept(k, r)}
           S == [k \in 0..num |-> R(k)]
           G == [k \in 1..num |-> [r \in R(k - 1) |-> Step(r, k)]]
<1>1. /\ fs \in Seq(ChunkNodes) /\ Len(fs) \in Nat /\ num \in Nat
      /\ m.chunk.free_list = At(fs, 1) /\ Last(run) = m
  BY LeadsIs, ChunksFinite, EndsIs
<1>2. cs \in Seq(ChunkNodes) /\ Len(cs) = num /\ \A i \in 1..num : cs[i] = fs[i]
  BY <1>1, Prefix
<1>3. cs = Taken(m, num)
  <2>1. Chain(m.next, m.chunk.free_list) = fs
    <3> DEFINE next == m.next
               h == m.chunk.free_list
    <3>1. next \in Arrays(ChunkNodes) /\ Leads(next, h, fs, ChunkNodes)
      OBVIOUS
    <3> HIDE DEF next, h
    <3>2. Chain(next, h) = fs
      BY <3>1, ChunksFinite, ChainIs
    <3>3. QED
      BY <3>2 DEF next, h
  <2>2. QED
    BY <2>1 DEF Taken
<1> HIDE DEF cs
<1>4. Kept(0, run)
  <2>1. Firsts(fs, 0) = {} /\ At(fs, 0) = INVALID
    BY <1>1, FirstsEnds DEF At
  <2>2. ListOf(m.next, INVALID, {}, ChunkNodes) /\ IsFiniteSet({}) /\ Cardinality({}) = 0
    BY EmptyList, FS_EmptySet
  <2>3. ListOf(m.next, At(fs, 1), F, ChunkNodes)
    BY <1>1 DEF ListOf
  <2>4. ChunkStep(m, m)
    BY DEF ChunkStep
  <2>5. 0 + 1 = 1 /\ F \ {} = F
    OBVIOUS
  <2>6. Malloced(m, fs, F, 0, m)
    BY <1>1, <2>1, <2>2, <2>3, <2>4, <2>5 DEF Malloced
  <2>7. QED
    BY <2>6
<1>5. ASSUME NEW k \in 1..num, NEW r, Kept(k - 1, r)
      PROVE  Kept(k, Step(r, k))
  <2>1. PICK w : Ends(r, w) /\ Malloced(m, fs, F, k - 1, w)
    BY <1>5
  <2>2. k \in 1..Len(fs) /\ cs[k] = fs[k]
    BY <1>1, <1>2
  <2>3. (IF k = 1 THEN INVALID ELSE cs[k - 1]) = At(fs, k - 1)
    BY <1>1, <1>2, <2>2 DEF At
  <2>4. \E x : /\ Ends(chunk_free_list_remove(r) ++ <<"next", fs[k], At(fs, k - 1)>>, x)
               /\ Malloced(m, fs, F, k, x)
    BY <2>1, <2>2, MallocStep
  <2>5. QED
    BY <2>2, <2>3, <2>4
<1>6. ASSUME NEW k, NEW r, Kept(k, r) PROVE r \in Seq(Mems)
  BY <1>6 DEF Ends
<1> HIDE DEF Kept, Step
<1>7. IsSteps(num, S, run, G)
  <2>1. run \in S[0]
    BY <1>1, <1>4, <1>6
  <2>2. ASSUME NEW k \in 1..num, NEW r \in S[k - 1] PROVE G[k][r] \in S[k]
    <3>1. k - 1 \in 0..num /\ k \in 0..num
      BY <1>1
    <3>2. r \in R(k - 1)
      BY <3>1
    <3>3. G[k][r] = Step(r, k)
      BY <3>2
    <3>4. Kept(k, Step(r, k))
      BY <1>5, <3>2
    <3>5. QED
      BY <1>6, <3>1, <3>3, <3>4
  <2> HIDE DEF S, G
  <2>3. QED
    BY <1>1, <2>1, <2>2 DEF IsSteps
<1>8. PICK g : /\ g = [k \in 0..num |-> IF k = 0 THEN run ELSE G[k][g[k - 1]]]
               /\ \A k \in 0..num : g[k] \in S[k]
  <2> HIDE DEF S, G
  <2>1. QED
    BY <1>7, StepsExist
<1>9. ASSUME NEW k \in 0..num
      PROVE  g[k] = IF k = 0 THEN run ELSE Step(g[k - 1], k)
  <2>1. CASE k = 0
    BY <1>8, <2>1
  <2>2. CASE k # 0
    <3>1. k \in 1..num /\ k - 1 \in 0..num
      BY <1>1, <2>2
    <3>2. g[k - 1] \in R(k - 1)
      BY <1>8, <3>1
    <3>3. G[k][g[k - 1]] = Step(g[k - 1], k)
      BY <3>1, <3>2
    <3>4. g[k] = G[k][g[k - 1]]
      BY <1>8, <2>2
    <3>5. QED
      BY <2>2, <3>3, <3>4
  <2>3. QED
    BY <2>1, <2>2
<1>10. \E f : IsMalloc(f, run, num)
  <2>1. g = [k \in 0..num |-> g[k]]
    BY <1>8
  <2>2. \A k \in 0..num :
          g[k] = IF k = 0 THEN run
                 ELSE chunk_free_list_remove(g[k - 1])
                        ++ <<"next", Taken(Last(run), num)[k],
                             IF k = 1 THEN INVALID ELSE Taken(Last(run), num)[k - 1]>>
    BY <1>1, <1>3, <1>9 DEF Step
  <2>3. IsMalloc(g, run, num)
    BY <2>1, <2>2 DEF IsMalloc
  <2>4. QED
    BY <2>3
<1>11. PICK f : /\ IsMalloc(f, run, num)
                /\ malloc(run, num) = f[num] ++ <<"chunk", "free_total", m.chunk.free_total - num>>
  BY <1>1, <1>10 DEF malloc, IsMalloc
<1>12. f[0] = run /\ \A k \in 1..num : f[k] = Step(f[k - 1], k)
  <2>1. Taken(Last(run), num) = cs
    BY <1>1, <1>3
  <2>2. f = [i \in 0..num |->
               IF i = 0 THEN run
               ELSE chunk_free_list_remove(f[i - 1])
                      ++ <<"next", cs[i], IF i = 1 THEN INVALID ELSE cs[i - 1]>>]
    BY <1>11, <2>1 DEF IsMalloc
  <2>3. 0 \in 0..num /\ \A k \in 1..num : k \in 0..num /\ k # 0
    BY <1>1
  <2>4. f[0] = run
    BY <2>2, <2>3
  <2>5. ASSUME NEW k \in 1..num PROVE f[k] = Step(f[k - 1], k)
    BY <2>2, <2>3 DEF Step
  <2>6. QED
    BY <2>4, <2>5
<1>13. \A k \in 0..num : f[k] \in S[k]
  <2>1. f[0] \in S[0]
    BY <1>1, <1>4, <1>6, <1>12
  <2>2. ASSUME NEW k \in 1..num, f[k - 1] \in S[k - 1] PROVE f[k] \in S[k]
    <3>1. k - 1 \in 0..num /\ k \in 0..num
      BY <1>1
    <3>2. Kept(k - 1, f[k - 1])
      BY <2>2, <3>1
    <3>3. Kept(k, f[k])
      BY <1>5, <1>12, <3>2
    <3>4. QED
      BY <1>6, <3>1, <3>3
  <2> HIDE DEF S
  <2>3. QED
    BY <1>1, <2>1, <2>2, StepInvariant
<1>14. Kept(num, f[num])
  BY <1>1, <1>13
<1>15. QED
  BY <1>11, <1>14 DEF Kept

\* The chunks T, num of them and linked from h, have been taken from the free ones.
Handed(m, w, own, T, h, num) ==
  /\ ChunkStep(m, w)
  /\ T \subseteq Of(own, FREE) /\ IsFiniteSet(T) /\ Cardinality(T) = num
  /\ h \in T
  /\ ListOf(w.next, h, T, ChunkNodes)
  /\ ListOf(w.next, w.chunk.free_list, Of(own, FREE) \ T, ChunkNodes)
  /\ w.next \in Arrays(ChunkNodes)
  /\ \A c \in ChunkNodes \ T : w.next[c] = m.next[c]
  /\ w.chunk.free_total = m.chunk.free_total - num

LEMMA ChunksTaken ==
  ASSUME NEW run, NEW m, Ends(run, m), NEW own, ChunksOK(m, own),
         NEW num \in Nat \ {0}, num <= m.chunk.free_total
  PROVE  \E w, T : Ends(malloc(run, num), w) /\ Handed(m, w, own, T, Last(Taken(m, num)), num)
<1> DEFINE fs == Chain(m.next, m.chunk.free_list)
           F == Of(own, FREE)
           T == Firsts(fs, num)
           h == Last(Taken(m, num))
<1>1. /\ m.next \in Arrays(ChunkNodes) /\ Leads(m.next, m.chunk.free_list, fs, ChunkNodes)
      /\ ToSet(fs) = F /\ Len(fs) = m.chunk.free_total /\ IsFiniteSet(F)
  <2> DEFINE next == m.next
             g == m.chunk.free_list
  <2>1. next \in Arrays(ChunkNodes) /\ ListOf(next, g, F, ChunkNodes)
        /\ m.chunk.free_total = Cardinality(F)
    BY DEF ChunksOK
  <2> HIDE DEF next, g, F
  <2>2. /\ Leads(next, g, Chain(next, g), ChunkNodes) /\ ToSet(Chain(next, g)) = F
        /\ Len(Chain(next, g)) = Cardinality(F) /\ IsFiniteSet(F)
    BY <2>1, ChunksFinite, ChainOfList
  <2>3. QED
    BY <2>1, <2>2 DEF next, g
<1>2. /\ fs \in Seq(ChunkNodes) /\ Len(fs) \in Nat
      /\ \A i, l \in 1..Len(fs) : fs[i] = fs[l] => i = l
  <2> DEFINE next == m.next
             g == m.chunk.free_list
  <2>1. Leads(next, g, fs, ChunkNodes)
    BY <1>1
  <2> HIDE DEF next, g, fs
  <2>2. QED
    BY <2>1, LeadsIs, ChunksFinite
<1>3. num \in 1..Len(fs) /\ num \in 0..Len(fs)
  BY <1>1, <1>2
<1>4. h = fs[num]
  <2>1. /\ Taken(m, num) \in Seq(ChunkNodes) /\ Len(Taken(m, num)) = num
        /\ Taken(m, num)[num] = fs[num]
    <3> HIDE DEF fs
    <3>1. SubSeq(fs, 1, num) \in Seq(ChunkNodes) /\ Len(SubSeq(fs, 1, num)) = num
          /\ SubSeq(fs, 1, num)[num] = fs[num]
      BY <1>2, <1>3, Prefix
    <3>2. QED
      BY <3>1 DEF Taken, fs
  <2>2. QED
    BY <2>1 DEF Last
<1> HIDE DEF fs, F
<1>5. PICK r, w : /\ malloc(run, num) = r ++ <<"chunk", "free_total", m.chunk.free_total - num>>
                  /\ Ends(r, w) /\ Malloced(m, fs, F, num, w)
  BY <1>1, <1>3, MallocLoop
<1>6. m.chunk.free_total - num \in Int
  BY <1>1, <1>2
<1>7. PICK x : /\ Ends(malloc(run, num), x) /\ ChunkStep(w, x)
               /\ x.next = w.next /\ x.chunk.free_list = w.chunk.free_list
               /\ x.chunk.free_total = m.chunk.free_total - num
  <2> DEFINE u == m.chunk.free_total - num
  <2>1. u \in Int /\ malloc(run, num) = r ++ <<"chunk", "free_total", u>>
    BY <1>5, <1>6
  <2> HIDE DEF u
  <2>2. PICK x : /\ Ends(r ++ <<"chunk", "free_total", u>>, x) /\ ChunkStep(w, x)
                 /\ x.next = w.next /\ x.chunk.free_list = w.chunk.free_list
                 /\ x.chunk.free_total = u
    BY <1>5, <2>1, FreeTotalStored
  <2>3. QED
    BY <2>1, <2>2 DEF u
<1>8. T \subseteq F /\ h \in T /\ At(fs, num) = h
  <2>1. T \subseteq F
    BY <1>1, <1>2, <1>3, FirstsIs
  <2>2. h \in T
    BY <1>3, <1>4 DEF Firsts
  <2>3. At(fs, num) = h
    BY <1>3, <1>4 DEF At
  <2>4. QED
    BY <2>1, <2>2, <2>3
<1>9. ChunkStep(m, x)
  BY <1>5, <1>7 DEF ChunkStep, Malloced
<1>10. /\ IsFiniteSet(T) /\ Cardinality(T) = num /\ ListOf(w.next, h, T, ChunkNodes)
       /\ ListOf(w.next, w.chunk.free_list, F \ T, ChunkNodes) /\ w.next \in Arrays(ChunkNodes)
       /\ \A c \in ChunkNodes \ T : w.next[c] = m.next[c]
  BY <1>5, <1>8 DEF Malloced
<1> HIDE DEF T, h
<1>11. Handed(m, x, own, T, h, num)
  BY <1>7, <1>8, <1>9, <1>10 DEF Handed, F
<1>12. QED
  BY <1>7, <1>11 DEF h

\* Node n gets the chunks.
LEMMA ChunksOwned ==
  ASSUME NEW m, NEW own, ChunksOK(m, own), NEW w, NEW T, NEW h, NEW num, Handed(m, w, own, T, h, num),
         NEW n \in Nodes, Of(own, n) = {}
  PROVE  \E o : /\ ChunksOK(w, o) /\ Of(o, n) = T
                /\ \A x \in Nodes \ {n} : Of(o, x) = Of(own, x) /\ Of(own, x) \cap T = {}
<1> DEFINE o == [c \in ChunkNodes |-> IF c \in T THEN n ELSE own[c]]
           F == Of(own, FREE)
<1>1. /\ own \in [ChunkNodes -> Nodes \cup {FREE}] /\ m.chunk.free_total = Cardinality(F)
      /\ ListOf(m.next, m.chunk.free_list, F, ChunkNodes)
  BY DEF ChunksOK
<1>2. /\ T \subseteq F /\ IsFiniteSet(T) /\ Cardinality(T) = num
      /\ ListOf(w.next, w.chunk.free_list, F \ T, ChunkNodes)
      /\ w.next \in Arrays(ChunkNodes) /\ w.chunk.free_total = m.chunk.free_total - num
  BY DEF Handed
<1>3. FREE \notin Nodes
  BY Places
<1>4. F \subseteq ChunkNodes /\ T \subseteq ChunkNodes /\ \A c \in T : own[c] = FREE
  BY <1>1, <1>2 DEF Of
<1>5. o \in [ChunkNodes -> Nodes \cup {FREE}] /\ Of(o, FREE) = F \ T
  BY <1>1, <1>3, <1>4 DEF Of
<1>6. Of(o, n) = T
  BY <1>1, <1>4 DEF Of
<1>7. \A x \in Nodes \ {n} : Of(o, x) = Of(own, x) /\ Of(own, x) \cap T = {}
  BY <1>1, <1>3, <1>4 DEF Of
<1>8. Cardinality(F \ T) = Cardinality(F) - num
  <2>1. IsFiniteSet(F)
    BY <1>4, ChunksFinite, FS_Subset
  <2>2. F \cap T = T
    BY <1>2
  <2> HIDE DEF F
  <2>3. QED
    BY <1>2, <2>1, <2>2, FS_Difference
<1> HIDE DEF o, F
<1>9. ChunksOK(w, o)
  BY <1>1, <1>2, <1>5, <1>8 DEF ChunksOK
<1>10. QED
  BY <1>6, <1>7, <1>9

\* The first i chunks of the chain cs have been put on the free list, which held F.
Freed(m, cs, F, i, w) ==
  /\ ChunkStep(m, w) /\ w.chunk.free_total = m.chunk.free_total + i
  /\ w.next \in Arrays(ChunkNodes)
  /\ \A c \in ChunkNodes \ Firsts(cs, i) : w.next[c] = m.next[c]
  /\ ListOf(w.next, w.chunk.free_list, F \cup Firsts(cs, i), ChunkNodes)

LEMMA FreeStep ==
  ASSUME NEW m, m.chunk.free_total \in Int, NEW cs, NEW F, cs \in Seq(ChunkNodes),
         \A i, j \in 1..Len(cs) : cs[i] = cs[j] => i = j,
         F \cap ToSet(cs) = {},
         NEW k \in 1..Len(cs), NEW run, NEW w, Ends(run, w), Freed(m, cs, F, k - 1, w)
  PROVE  \E x : Ends(free_chunk(run, cs[k]), x) /\ Freed(m, cs, F, k, x)
<1> DEFINE c == cs[k]
           j == k - 1
           T == Firsts(cs, j)
           U == Firsts(cs, k)
           u == w.chunk.free_total + 1
<1>1. U = T \cup {c} /\ c \notin T /\ U \subseteq ToSet(cs) /\ c \in ChunkNodes
  BY FirstsIs
<1>2. k \in Nat /\ j \in Nat /\ j + 1 = k
  OBVIOUS
<1>3. /\ ChunkStep(m, w) /\ w.chunk.free_total = m.chunk.free_total + j
      /\ w.next \in Arrays(ChunkNodes)
      /\ \A d \in ChunkNodes \ T : w.next[d] = m.next[d]
      /\ ListOf(w.next, w.chunk.free_list, F \cup T, ChunkNodes)
  BY DEF Freed
<1>4. u \in Int /\ u = m.chunk.free_total + k /\ Last(run) = w
  BY <1>2, <1>3, EndsIs
<1>5. c \notin F \cup T /\ F \cup U = (F \cup T) \cup {c}
  BY <1>1
<1> HIDE DEF c, j, T, U, u
<1>6. PICK v : /\ Ends(chunk_free_list_insert(run, c), v) /\ ChunkStep(w, v)
               /\ v.next = [w.next EXCEPT ![c] = w.chunk.free_list] /\ v.chunk.free_list = c
               /\ v.chunk.free_total = w.chunk.free_total
  BY <1>1, ChunkPushed
<1>7. PICK x : /\ Ends(chunk_free_list_insert(run, c) ++ <<"chunk", "free_total", u>>, x)
               /\ ChunkStep(v, x) /\ x.next = v.next
               /\ x.chunk.free_list = v.chunk.free_list /\ x.chunk.free_total = u
  <2> DEFINE r == chunk_free_list_insert(run, c)
  <2>1. u \in Int /\ Ends(r, v)
    BY <1>4, <1>6
  <2> HIDE DEF r
  <2>2. \E x : /\ Ends(r ++ <<"chunk", "free_total", u>>, x) /\ ChunkStep(v, x)
               /\ x.next = v.next /\ x.chunk.free_list = v.chunk.free_list
               /\ x.chunk.free_total = u
    BY <2>1, FreeTotalStored
  <2>3. QED
    BY <2>2 DEF r
<1>8. free_chunk(run, c) = chunk_free_list_insert(run, c) ++ <<"chunk", "free_total", u>>
  BY <1>4 DEF free_chunk, u
<1>9. ChunkStep(m, x)
  BY <1>3, <1>6, <1>7 DEF ChunkStep
<1> DEFINE g == w.chunk.free_list
           next == w.next
           nx == x.next
           G == F \cup T
<1>10. ListOf(next, g, G, ChunkNodes) /\ INVALID \notin ChunkNodes /\ next \in Arrays(ChunkNodes)
       /\ nx = [next EXCEPT ![c] = g] /\ c \notin G
  BY <1>3, <1>5, <1>6, <1>7, ChunksFinite
<1> HIDE DEF g, next, nx, G
<1>11. G \subseteq ChunkNodes /\ g \in ChunkNodes \cup {INVALID}
  BY <1>10, ListIs
<1>12. nx \in Arrays(ChunkNodes) /\ nx[c] = g /\ \A d \in ChunkNodes \ {c} : nx[d] = next[d]
  BY <1>1, <1>10, <1>11 DEF Arrays
<1>13. \A d \in G : nx[d] = next[d]
  BY <1>10, <1>11, <1>12
<1>14. ListOf(nx, c, G \cup {c}, ChunkNodes)
  BY <1>1, <1>10, <1>12, <1>13, ListPushed
<1>15. \A d \in ChunkNodes \ U : x.next[d] = m.next[d]
  BY <1>1, <1>3, <1>12 DEF nx, next
<1>16. ListOf(x.next, x.chunk.free_list, F \cup U, ChunkNodes)
  BY <1>5, <1>6, <1>7, <1>14 DEF nx, G
<1>17. Freed(m, cs, F, k, x)
  BY <1>4, <1>7, <1>9, <1>12, <1>15, <1>16 DEF Freed, U, nx
<1>18. QED
  BY <1>7, <1>8, <1>17 DEF c

\* The function that free is defined by.
IsFree(f, run, head) ==
  f = [i \in 0..Len(Chain(Last(run).next, head)) |->
         IF i = 0 THEN run ELSE free_chunk(f[i - 1], Chain(Last(run).next, head)[i])]

LEMMA FreeLoop ==
  ASSUME NEW run, NEW m, Ends(run, m), m.next \in Arrays(ChunkNodes),
         NEW F, ListOf(m.next, m.chunk.free_list, F, ChunkNodes),
         NEW head, NEW T, ListOf(m.next, head, T, ChunkNodes), F \cap T = {}
  PROVE  \E w : /\ Ends(free(run, head), w) /\ ChunkStep(m, w) /\ w.next \in Arrays(ChunkNodes)
                /\ w.chunk.free_total = m.chunk.free_total + Cardinality(T)
                /\ \A c \in ChunkNodes \ T : w.next[c] = m.next[c]
                /\ ListOf(w.next, w.chunk.free_list, F \cup T, ChunkNodes)
<1> DEFINE cs == Chain(m.next, head)
           num == Len(cs)
           Kept(k, r) == \E w : Ends(r, w) /\ Freed(m, cs, F, k, w)
           Step(r, k) == free_chunk(r, cs[k])
           R(k) == {r \in Seq(Mems) : Kept(k, r)}
           S == [k \in 0..num |-> R(k)]
           G == [k \in 1..num |-> [r \in R(k - 1) |-> Step(r, k)]]
<1>1. /\ cs \in Seq(ChunkNodes) /\ num = Cardinality(T) /\ ToSet(cs) = T
      /\ \A i, l \in 1..Len(cs) : cs[i] = cs[l] => i = l
  <2> DEFINE next == m.next
  <2>1. next \in Arrays(ChunkNodes) /\ ListOf(next, head, T, ChunkNodes)
    OBVIOUS
  <2> HIDE DEF next
  <2>2. /\ Leads(next, head, Chain(next, head), ChunkNodes) /\ ToSet(Chain(next, head)) = T
        /\ Len(Chain(next, head)) = Cardinality(T)
    BY <2>1, ChunksFinite, ChainOfList
  <2>3. /\ Chain(next, head) \in Seq(ChunkNodes)
        /\ \A i, l \in 1..Len(Chain(next, head)) :
             Chain(next, head)[i] = Chain(next, head)[l] => i = l
    BY <2>2, LeadsIs, ChunksFinite
  <2>4. QED
    BY <2>2, <2>3 DEF next
<1>2. num \in Nat /\ Last(run) = m /\ m \in Mems
  BY <1>1, EndsIs
<1>a. m.chunk.free_total \in Int
  BY <1>2 DEF Mems, ChunkHeads
<1> HIDE DEF cs
<1> HIDE DEF num
<1>4. Kept(0, run)
  <2>1. Firsts(cs, 0) = {}
    BY <1>1, FirstsEnds
  <2>2. ChunkStep(m, m)
    BY DEF ChunkStep
  <2>3. m.chunk.free_total + 0 = m.chunk.free_total /\ F \cup {} = F
    BY <1>a
  <2>4. Freed(m, cs, F, 0, m)
    BY <2>1, <2>2, <2>3 DEF Freed
  <2>5. QED
    BY <2>4
<1>5. ASSUME NEW k \in 1..num, NEW r, Kept(k - 1, r)
      PROVE  Kept(k, Step(r, k))
  <2>1. PICK w : Ends(r, w) /\ Freed(m, cs, F, k - 1, w)
    BY <1>5
  <2>2. k \in 1..Len(cs) /\ F \cap ToSet(cs) = {}
    BY <1>1, <1>5 DEF num
  <2>3. QED
    BY <1>1, <1>a, <2>1, <2>2, FreeStep
<1>6. ASSUME NEW k, NEW r, Kept(k, r) PROVE r \in Seq(Mems)
  BY <1>6 DEF Ends
<1> HIDE DEF Kept, Step
<1>7. IsSteps(num, S, run, G)
  <2>1. run \in S[0]
    BY <1>2, <1>4, <1>6
  <2>2. ASSUME NEW k \in 1..num, NEW r \in S[k - 1] PROVE G[k][r] \in S[k]
    <3>1. k - 1 \in 0..num /\ k \in 0..num
      BY <1>2
    <3>2. r \in R(k - 1)
      BY <3>1
    <3>3. G[k][r] = Step(r, k)
      BY <3>2
    <3>4. Kept(k, Step(r, k))
      BY <1>5, <3>2
    <3>5. QED
      BY <1>6, <3>1, <3>3, <3>4
  <2> HIDE DEF S, G
  <2>3. QED
    BY <1>2, <2>1, <2>2 DEF IsSteps
<1>8. PICK g : /\ g = [k \in 0..num |-> IF k = 0 THEN run ELSE G[k][g[k - 1]]]
               /\ \A k \in 0..num : g[k] \in S[k]
  <2> HIDE DEF S, G
  <2>1. QED
    BY <1>7, StepsExist
<1>9. ASSUME NEW k \in 0..num
      PROVE  g[k] = IF k = 0 THEN run ELSE Step(g[k - 1], k)
  <2>1. CASE k = 0
    BY <1>8, <2>1
  <2>2. CASE k # 0
    <3>1. k \in 1..num /\ k - 1 \in 0..num
      BY <1>2, <2>2
    <3>2. g[k - 1] \in R(k - 1)
      BY <1>8, <3>1
    <3>3. G[k][g[k - 1]] = Step(g[k - 1], k)
      BY <3>1, <3>2
    <3>4. g[k] = G[k][g[k - 1]]
      BY <1>8, <2>2
    <3>5. QED
      BY <2>2, <3>3, <3>4
  <2>3. QED
    BY <2>1, <2>2
<1>3. Chain(Last(run).next, head) = cs
  BY <1>2 DEF cs
<1>10. \E f : IsFree(f, run, head)
  <2>1. g = [k \in 0..num |-> g[k]]
    BY <1>8
  <2>2. g = [k \in 0..Len(cs) |-> IF k = 0 THEN run ELSE free_chunk(g[k - 1], cs[k])]
    BY <1>9, <2>1 DEF Step, num
  <2>3. IsFree(g, run, head)
    BY <1>3, <2>2 DEF IsFree
  <2>4. QED
    BY <2>3
<1>11. PICK f : IsFree(f, run, head) /\ free(run, head) = f[Len(Chain(Last(run).next, head))]
  BY <1>10 DEF free, IsFree
<1>12. f[0] = run /\ \A k \in 1..num : f[k] = Step(f[k - 1], k)
  <2>1. f = [i \in 0..num |-> IF i = 0 THEN run ELSE free_chunk(f[i - 1], cs[i])]
    BY <1>11, <1>3 DEF IsFree, num
  <2>2. 0 \in 0..num /\ \A k \in 1..num : k \in 0..num /\ k # 0
    BY <1>2
  <2>3. f[0] = run
    BY <2>1, <2>2
  <2>4. ASSUME NEW k \in 1..num PROVE f[k] = Step(f[k - 1], k)
    BY <2>1, <2>2 DEF Step
  <2>5. QED
    BY <2>3, <2>4
<1>13. \A k \in 0..num : f[k] \in S[k]
  <2>1. f[0] \in S[0]
    BY <1>2, <1>4, <1>6, <1>12
  <2>2. ASSUME NEW k \in 1..num, f[k - 1] \in S[k - 1] PROVE f[k] \in S[k]
    <3>1. k - 1 \in 0..num /\ k \in 0..num
      BY <1>2
    <3>2. Kept(k - 1, f[k - 1])
      BY <2>2, <3>1
    <3>3. Kept(k, f[k])
      BY <1>5, <1>12, <3>2
    <3>4. QED
      BY <1>6, <3>1, <3>3
  <2> HIDE DEF S
  <2>3. QED
    BY <1>2, <2>1, <2>2, StepInvariant
<1>14. Kept(num, f[num])
  BY <1>2, <1>13
<1>15. Firsts(cs, num) = T
  BY <1>1, FirstsEnds DEF num
<1>16. free(run, head) = f[num]
  BY <1>11, <1>3 DEF num
<1>17. PICK w : Ends(f[num], w) /\ Freed(m, cs, F, num, w)
  BY <1>14 DEF Kept
<1>18. QED
  BY <1>1, <1>15, <1>16, <1>17 DEF Freed

\* The chunks of node n are given back.
LEMMA ChunksFreed ==
  ASSUME NEW run, NEW m, Ends(run, m), NEW own, ChunksOK(m, own),
         NEW n \in Nodes, NEW head, ListOf(m.next, head, Of(own, n), ChunkNodes)
  PROVE  \E w, o : /\ Ends(free(run, head), w) /\ ChunkStep(m, w) /\ ChunksOK(w, o)
                   /\ w.chunk.free_total = m.chunk.free_total + Cardinality(Of(own, n))
                   /\ Of(o, n) = {}
                   /\ \A x \in Nodes \ {n} : /\ Of(o, x) = Of(own, x)
                                             /\ \A c \in Of(own, x) : w.next[c] = m.next[c]
<1> DEFINE o == [c \in ChunkNodes |-> IF own[c] = n THEN FREE ELSE own[c]]
           F == Of(own, FREE)
           T == Of(own, n)
<1>1. /\ own \in [ChunkNodes -> Nodes \cup {FREE}] /\ m.chunk.free_total = Cardinality(F)
      /\ ListOf(m.next, m.chunk.free_list, F, ChunkNodes) /\ m.next \in Arrays(ChunkNodes)
  BY DEF ChunksOK
<1>2. FREE \notin Nodes
  BY Places
<1>3. F \subseteq ChunkNodes /\ T \subseteq ChunkNodes /\ F \cap T = {}
  BY <1>1, <1>2 DEF Of
<1>4. o \in [ChunkNodes -> Nodes \cup {FREE}] /\ Of(o, FREE) = F \cup T /\ Of(o, n) = {}
  BY <1>1, <1>2 DEF Of
<1>5. \A x \in Nodes \ {n} : Of(o, x) = Of(own, x) /\ Of(own, x) \subseteq ChunkNodes \ T
  BY <1>1, <1>2 DEF Of
<1>6. Cardinality(F \cup T) = Cardinality(F) + Cardinality(T)
  <2>1. IsFiniteSet(F) /\ IsFiniteSet(T) /\ Cardinality(F \cap T) = 0
    BY <1>3, ChunksFinite, FS_Subset, FS_EmptySet
  <2>2. Cardinality(F) \in Nat /\ Cardinality(T) \in Nat
    BY <2>1, FS_CardinalityType
  <2> HIDE DEF F, T
  <2>3. Cardinality(F \cup T) = Cardinality(F) + Cardinality(T) - Cardinality(F \cap T)
    BY <2>1, FS_Union
  <2>4. QED
    BY <2>1, <2>2, <2>3
<1> HIDE DEF F, o
<1>7. PICK w : /\ Ends(free(run, head), w) /\ ChunkStep(m, w) /\ w.next \in Arrays(ChunkNodes)
               /\ w.chunk.free_total = m.chunk.free_total + Cardinality(T)
               /\ \A c \in ChunkNodes \ T : w.next[c] = m.next[c]
               /\ ListOf(w.next, w.chunk.free_list, F \cup T, ChunkNodes)
  <2>1. ListOf(m.next, head, T, ChunkNodes)
    OBVIOUS
  <2> HIDE DEF T
  <2>2. QED
    BY <1>1, <1>3, <2>1, FreeLoop
<1> HIDE DEF T
<1>8. ChunksOK(w, o)
  BY <1>1, <1>4, <1>6, <1>7 DEF ChunksOK
<1>9. \A x \in Nodes \ {n} : \A c \in Of(own, x) : w.next[c] = m.next[c]
  BY <1>5, <1>7
<1>10. QED
  BY <1>4, <1>5, <1>7, <1>8, <1>9 DEF T

\* Nothing but the contents of chunks changes.
DataStep(m, w) ==
  /\ w.key = m.key /\ w.chunk_len = m.chunk_len /\ w.chunk_head = m.chunk_head
  /\ w.node_prev = m.node_prev /\ w.node_next = m.node_next /\ w.bucket = m.bucket
  /\ w.add_prev = m.add_prev /\ w.add_next = m.add_next /\ w.map = m.map
  /\ w.chunk = m.chunk /\ w.next = m.next

\* Chunk c comes to hold v.
Filled(m, c, v, w) == DataStep(m, w) /\ w.data = [m.data EXCEPT ![c] = v]

LEMMA ChunkFilled ==
  ASSUME NEW run, NEW m, Ends(run, m), NEW c \in ChunkNodes, NEW v \in PieceSet
  PROVE  \E w : Ends(run ++ <<"data", c, v>>, w) /\ Filled(m, c, v, w)
<1> DEFINE w == Put(m, "data", c, v)
<1>1. m \in Mems
  BY EndsIs
<1>2. Filled(m, c, v, w)
  BY <1>1 DEF Put, Mems, DataStep, Filled
<1>3. Fits("data", c, v)
  BY DEF Fits
<1>4. Ends(run ++ <<"data", c, v>>, w)
  <2> HIDE DEF w
  <2>1. QED
    BY <1>3, Stored DEF w
<1>5. QED
  BY <1>2, <1>4

\* Copying leaves the piece in the chunk, whatever it held half way.
LEMMA DataStored ==
  ASSUME NEW run, NEW m, Ends(run, m), NEW c \in ChunkNodes, NEW d \in Data, NEW i \in Nat
  PROVE  \E w : Ends(memcpy(run, c, <<d, i>>), w) /\ Filled(m, c, <<d, i>>, w)
<1> DEFINE v == <<d, i>>
           r == run ++ <<"data", c, Scrap>>
<1>1. Scrap \in PieceSet /\ v \in PieceSet
  BY DEF PieceSet, Scrap
<1>2. memcpy(run, c, v) = r ++ <<"data", c, v>>
  BY DEF memcpy
<1> HIDE DEF v
<1>3. PICK x : Ends(r, x) /\ Filled(m, c, Scrap, x)
  BY <1>1, ChunkFilled
<1> HIDE DEF r
<1>4. PICK w : Ends(r ++ <<"data", c, v>>, w) /\ Filled(x, c, v, w)
  BY <1>1, <1>3, ChunkFilled
<1>5. [[m.data EXCEPT ![c] = Scrap] EXCEPT ![c] = v] = [m.data EXCEPT ![c] = v]
  BY EndsIs DEF Mems
<1>6. Filled(m, c, v, w)
  BY <1>3, <1>4, <1>5 DEF Filled, DataStep
<1>7. QED
  BY <1>2, <1>4, <1>6 DEF v

\* The chain from head has the chunks S, and they hold the pieces of d in order.
ChainHolds(m, head, S, d) ==
  \E s : /\ Leads(m.next, head, s, ChunkNodes) /\ ToSet(s) = S
         /\ \A i \in 1..Len(s) : m.data[s[i]] = <<d, i>>

\* Node n holds record d.
Holds(m, own, n, d) ==
  m.chunk_len[n] = DataLen(d) /\ ChainHolds(m, m.chunk_head[n], Of(own, n), d)

LEMMA ChainHoldsFrame ==
  ASSUME NEW m, NEW head, NEW S, NEW d, ChainHolds(m, head, S, d),
         NEW w, \A c \in S : w.next[c] = m.next[c] /\ w.data[c] = m.data[c]
  PROVE  ChainHolds(w, head, S, d)
<1> DEFINE next == m.next
           nx == w.next
<1>1. PICK s : /\ Leads(next, head, s, ChunkNodes) /\ ToSet(s) = S
               /\ \A i \in 1..Len(s) : m.data[s[i]] = <<d, i>>
  BY DEF ChainHolds
<1>2. \A x \in ToSet(s) : nx[x] = next[x]
  BY <1>1
<1> HIDE DEF next, nx
<1>3. Leads(nx, head, s, ChunkNodes) /\ \A i \in 1..Len(s) : s[i] \in ToSet(s)
  BY <1>1, <1>2, LeadsFrame, LeadsIs, ChunksFinite
<1>4. \A i \in 1..Len(s) : w.data[s[i]] = <<d, i>>
  BY <1>1, <1>3
<1>5. QED
  BY <1>1, <1>3, <1>4 DEF ChainHolds, nx

\* The nodes U keep their keys and records.
Keeps(m, own, w, o, U) ==
  \A x \in U : /\ w.key[x] = m.key[x]
               /\ \A d : Holds(m, own, x, d) => Holds(w, o, x, d)

LEMMA KeepsFrame ==
  ASSUME NEW m, NEW w, NEW own, NEW o, NEW U,
         \A x \in U : /\ w.key[x] = m.key[x] /\ w.chunk_len[x] = m.chunk_len[x]
                      /\ w.chunk_head[x] = m.chunk_head[x] /\ Of(o, x) = Of(own, x)
                      /\ \A c \in Of(own, x) : w.next[c] = m.next[c] /\ w.data[c] = m.data[c]
  PROVE  Keeps(m, own, w, o, U)
<1> SUFFICES ASSUME NEW x \in U, NEW d, Holds(m, own, x, d)
             PROVE  Holds(w, o, x, d)
  BY DEF Keeps
<1>1. /\ w.chunk_len[x] = m.chunk_len[x] /\ w.chunk_head[x] = m.chunk_head[x]
      /\ Of(o, x) = Of(own, x)
  OBVIOUS
<1> DEFINE head == m.chunk_head[x]
           S == Of(own, x)
<1>2. ChainHolds(m, head, S, d) /\ \A c \in S : w.next[c] = m.next[c] /\ w.data[c] = m.data[c]
  BY DEF Holds
<1> HIDE DEF head, S
<1>3. ChainHolds(w, head, S, d)
  BY <1>2, ChainHoldsFrame
<1>4. QED
  BY <1>1, <1>3 DEF Holds, head, S

\* Keeping is transitive.
LEMMA KeepsOn ==
  ASSUME NEW m, NEW own, NEW v, NEW p, NEW w, NEW o, NEW U,
         Keeps(m, own, v, p, U), Keeps(v, p, w, o, U)
  PROVE  Keeps(m, own, w, o, U)
BY DEF Keeps

LEMMA ChunkNumber ==
  ASSUME NEW len \in Nat
  PROVE  /\ get_chunk_num(len) \in Nat
         /\ len # 0 => get_chunk_num(len) # 0
         /\ get_chunk_num(0) = 0
<1>1. ChunkSize \in Nat \ {0}
  BY ChunkAssumption
<1>2. len = ChunkSize * (len \div ChunkSize) + (len % ChunkSize)
      /\ len % ChunkSize \in 0..(ChunkSize - 1) /\ len \div ChunkSize \in Nat
  BY <1>1, DivMod
<1>3. get_chunk_num(len) \in Nat
  BY <1>2 DEF get_chunk_num
<1>4. ASSUME len # 0, get_chunk_num(len) = 0 PROVE FALSE
  <2>1. len \div ChunkSize = 0 /\ len % ChunkSize = 0
    BY <1>2, <1>4 DEF get_chunk_num
  <2>2. QED
    BY <1>1, <1>2, <1>4, <2>1
<1>5. get_chunk_num(0) = 0
  <2>1. 0 % ChunkSize = 0 /\ 0 \div ChunkSize = 0
    BY <1>1
  <2>2. QED
    BY <2>1 DEF get_chunk_num
<1>6. QED
  BY <1>3, <1>4, <1>5

\* The number of chunks that split writes, and the function it is defined by.
SplitNum(run, head, d) ==
  LET cs == Chain(Last(run).next, head)
  IN  IF Len(cs) < Len(Pieces(d)) THEN Len(cs) ELSE Len(Pieces(d))

IsSplit(f, run, head, d) ==
  f = [i \in 0..SplitNum(run, head, d) |->
         IF i = 0 THEN run
         ELSE memcpy(f[i - 1], Chain(Last(run).next, head)[i], Pieces(d)[i])]

\* The first k chunks of the chain cs have been written.
Written(m, cs, d, k, w) ==
  /\ DataStep(m, w)
  /\ \A c \in ChunkNodes \ Firsts(cs, k) : w.data[c] = m.data[c]
  /\ \A i \in 1..k : w.data[cs[i]] = <<d, i>>

LEMMA WriteStep ==
  ASSUME NEW m, NEW cs \in Seq(ChunkNodes), \A i, j \in 1..Len(cs) : cs[i] = cs[j] => i = j,
         NEW d \in Data, NEW k \in 1..Len(cs), NEW r, NEW w, Ends(r, w), Written(m, cs, d, k - 1, w)
  PROVE  \E x : Ends(memcpy(r, cs[k], <<d, k>>), x) /\ Written(m, cs, d, k, x)
<1>1. /\ Firsts(cs, k) = Firsts(cs, k - 1) \cup {cs[k]} /\ cs[k] \in ChunkNodes
      /\ k \in Nat /\ w \in Mems /\ Len(cs) \in Nat
  BY FirstsIs, EndsIs
<1> DEFINE c == cs[k]
           v == <<d, k>>
<1>2. PICK x : Ends(memcpy(r, c, v), x) /\ Filled(w, c, v, x)
  <2>1. c \in ChunkNodes /\ k \in Nat
    BY <1>1
  <2> HIDE DEF c
  <2>2. QED
    BY <2>1, DataStored
<1>3. x.data[c] = v /\ \A e \in ChunkNodes : e # c => x.data[e] = w.data[e]
  <2> HIDE DEF c, v
  <2>1. c \in ChunkNodes
    BY <1>1 DEF c
  <2>2. QED
    BY <1>1, <1>2, <2>1 DEF Mems, Filled
<1>4. \A i \in 1..(k - 1) : i \in 1..Len(cs) /\ cs[i] \in ChunkNodes /\ cs[i] # c
  <2>1. ASSUME NEW i \in 1..(k - 1) PROVE i \in 1..Len(cs) /\ i # k
    BY <1>1
  <2>2. ASSUME NEW i \in 1..(k - 1) PROVE cs[i] \in ChunkNodes /\ cs[i] # c
    <3>1. i \in 1..Len(cs) /\ i # k
      BY <2>1
    <3>2. QED
      BY <3>1
  <2>3. QED
    BY <2>1, <2>2
<1>5. \A i \in 1..k : x.data[cs[i]] = <<d, i>>
  <2>1. ASSUME NEW i \in 1..(k - 1) PROVE x.data[cs[i]] = <<d, i>>
    BY <1>3, <1>4 DEF Written
  <2>2. \A i \in 1..k : i \in 1..(k - 1) \/ i = k
    BY <1>1
  <2>3. QED
    BY <1>3, <2>1, <2>2
<1>6. \A e \in ChunkNodes \ Firsts(cs, k) : x.data[e] = m.data[e]
  <2>1. ASSUME NEW e \in ChunkNodes \ Firsts(cs, k) PROVE e # c /\ e \notin Firsts(cs, k - 1)
    BY <1>1
  <2>2. QED
    BY <1>3, <2>1 DEF Written
<1>7. DataStep(m, x)
  BY <1>2 DEF DataStep, Written, Filled
<1>8. QED
  BY <1>2, <1>5, <1>6, <1>7 DEF Written

\* The record is written to the chunks T, as far as they reach.
LEMMA SplitKeeps ==
  ASSUME NEW run, NEW m, Ends(run, m), m.next \in Arrays(ChunkNodes),
         NEW head, NEW T, ListOf(m.next, head, T, ChunkNodes), NEW d \in Data
  PROVE  \E w : /\ Ends(split(run, head, d), w) /\ DataStep(m, w)
                /\ \A c \in ChunkNodes \ T : w.data[c] = m.data[c]
                /\ Cardinality(T) = get_chunk_num(DataLen(d)) => ChainHolds(w, head, T, d)
<1> DEFINE cs == Chain(m.next, head)
           ps == Pieces(d)
           num == SplitNum(run, head, d)
           Kept(r, k) == \E w : Ends(r, w) /\ Written(m, cs, d, k, w)
           Step(r, k) == memcpy(r, cs[k], ps[k])
           S == [k \in 0..num |-> {r \in Seq(Mems) : Kept(r, k)}]
           G == [k \in 1..num |-> [r \in S[k - 1] |-> Step(r, k)]]
<1>1. /\ cs \in Seq(ChunkNodes) /\ \A i, j \in 1..Len(cs) : cs[i] = cs[j] => i = j
      /\ Leads(m.next, head, cs, ChunkNodes) /\ ToSet(cs) = T /\ Len(cs) = Cardinality(T)
  <2> DEFINE next == m.next
  <2>1. next \in Arrays(ChunkNodes) /\ ListOf(next, head, T, ChunkNodes)
    OBVIOUS
  <2> HIDE DEF next
  <2>2. /\ Leads(next, head, Chain(next, head), ChunkNodes) /\ ToSet(Chain(next, head)) = T
        /\ Len(Chain(next, head)) = Cardinality(T)
    BY <2>1, ChunksFinite, ChainOfList
  <2> DEFINE s == Chain(next, head)
  <2> HIDE DEF s
  <2>3. s \in Seq(ChunkNodes) /\ \A i, j \in 1..Len(s) : s[i] = s[j] => i = j
    BY <2>2, LeadsIs, ChunksFinite DEF s
  <2>4. QED
    BY <2>2, <2>3 DEF next, s
<1>2. Last(run) = m
  BY EndsIs
<1>3. Len(ps) = get_chunk_num(DataLen(d)) /\ Len(ps) \in Nat /\ \A i \in 1..Len(ps) : ps[i] = <<d, i>>
  <2> DEFINE num0 == get_chunk_num(DataLen(d))
  <2>1. num0 \in Nat
    BY ShmAssumption, ChunkNumber
  <2> HIDE DEF num0
  <2>2. [i \in 1..num0 |-> <<d, i>>] \in [1..num0 -> Data \X Nat]
    BY <2>1
  <2>3. Len([i \in 1..num0 |-> <<d, i>>]) = num0
    BY <2>1, <2>2, ByIndex
  <2>4. ps = [i \in 1..num0 |-> <<d, i>>]
    BY DEF Pieces, num0
  <2>5. QED
    BY <2>1, <2>3, <2>4 DEF num0
<1>4. num = (IF Len(cs) < Len(ps) THEN Len(cs) ELSE Len(ps))
  BY <1>2 DEF SplitNum
<1> HIDE DEF cs, ps, num
<1>5. num \in Nat /\ num <= Len(cs) /\ num <= Len(ps)
  BY <1>1, <1>3, <1>4
<1>6. Kept(run, 0)
  <2>1. DataStep(m, m) /\ \A i \in 1..0 : m.data[cs[i]] = <<d, i>>
    BY DEF DataStep
  <2>2. Written(m, cs, d, 0, m)
    BY <2>1 DEF Written
  <2>3. QED
    BY <2>2
<1>7. ASSUME NEW k \in 1..num, NEW r, Kept(r, k - 1) PROVE Kept(Step(r, k), k)
  <2>1. PICK w : Ends(r, w) /\ Written(m, cs, d, k - 1, w)
    BY <1>7
  <2>2. ps[k] = <<d, k>> /\ k \in 1..Len(cs)
    <3>1. k \in 1..Len(cs) /\ k \in 1..Len(ps)
      BY <1>1, <1>3, <1>5
    <3>2. QED
      BY <1>3, <3>1
  <2>3. \E x : Ends(memcpy(r, cs[k], <<d, k>>), x) /\ Written(m, cs, d, k, x)
    BY <1>1, <2>1, <2>2, WriteStep
  <2>4. QED
    BY <2>2, <2>3
<1>8. ASSUME NEW r, NEW k, Kept(r, k) PROVE r \in Seq(Mems)
  BY <1>8 DEF Ends
<1> HIDE DEF Kept, Step
<1>9. IsSteps(num, S, run, G)
  <2>1. run \in S[0]
    BY <1>5, <1>6, <1>8
  <2>2. ASSUME NEW k \in 1..num, NEW r \in S[k - 1] PROVE G[k][r] \in S[k]
    <3>1. k - 1 \in 0..num /\ k \in 0..num
      BY <1>5
    <3>2. Kept(r, k - 1)
      BY <3>1
    <3>3. G[k][r] = Step(r, k)
      OBVIOUS
    <3>4. Kept(Step(r, k), k)
      BY <1>7, <3>2
    <3>5. QED
      BY <1>8, <3>1, <3>3, <3>4
  <2> HIDE DEF S, G
  <2>3. QED
    BY <1>5, <2>1, <2>2 DEF IsSteps
<1>10. PICK g : /\ g = [k \in 0..num |-> IF k = 0 THEN run ELSE G[k][g[k - 1]]]
                /\ \A k \in 0..num : g[k] \in S[k]
  <2> HIDE DEF S, G
  <2>1. QED
    BY <1>9, StepsExist
<1>11. ASSUME NEW k \in 0..num
       PROVE  g[k] = IF k = 0 THEN run ELSE Step(g[k - 1], k)
  <2>1. CASE k = 0
    BY <1>10, <2>1
  <2>2. CASE k # 0
    <3>1. k \in 1..num /\ k - 1 \in 0..num
      BY <1>5, <2>2
    <3>2. g[k - 1] \in S[k - 1]
      BY <1>10, <3>1
    <3>3. G[k][g[k - 1]] = Step(g[k - 1], k)
      BY <3>1, <3>2
    <3>4. g[k] = G[k][g[k - 1]]
      BY <1>10, <2>2
    <3>5. QED
      BY <2>2, <3>3, <3>4
  <2>3. QED
    BY <2>1, <2>2
<1>12. Chain(Last(run).next, head) = cs
  BY <1>2 DEF cs
<1>13. \E f : IsSplit(f, run, head, d)
  <2>1. g = [k \in 0..num |-> g[k]]
    BY <1>10
  <2>2. g = [k \in 0..num |-> IF k = 0 THEN run ELSE memcpy(g[k - 1], cs[k], ps[k])]
    BY <1>11, <2>1 DEF Step
  <2>3. IsSplit(g, run, head, d)
    BY <1>12, <2>2 DEF IsSplit, num, ps
  <2>4. QED
    BY <2>3
<1>14. PICK f : IsSplit(f, run, head, d) /\ split(run, head, d) = f[SplitNum(run, head, d)]
  BY <1>13 DEF split, IsSplit, SplitNum
<1>15. f[0] = run /\ \A k \in 1..num : f[k] = Step(f[k - 1], k)
  <2>1. f = [i \in 0..num |-> IF i = 0 THEN run ELSE memcpy(f[i - 1], cs[i], ps[i])]
    BY <1>12, <1>14 DEF IsSplit, num, ps
  <2>2. 0 \in 0..num /\ \A k \in 1..num : k \in 0..num /\ k # 0
    BY <1>5
  <2>3. f[0] = run
    BY <2>1, <2>2
  <2>4. ASSUME NEW k \in 1..num PROVE f[k] = Step(f[k - 1], k)
    BY <2>1, <2>2 DEF Step
  <2>5. QED
    BY <2>3, <2>4
<1>16. \A k \in 0..num : f[k] \in S[k]
  <2>1. f[0] \in S[0]
    BY <1>5, <1>6, <1>8, <1>15
  <2>2. ASSUME NEW k \in 1..num, f[k - 1] \in S[k - 1] PROVE f[k] \in S[k]
    <3>1. k - 1 \in 0..num /\ k \in 0..num
      BY <1>5
    <3>2. Kept(f[k - 1], k - 1)
      BY <2>2, <3>1
    <3>3. Kept(f[k], k)
      BY <1>7, <1>15, <3>2
    <3>4. QED
      BY <1>8, <3>1, <3>3
  <2> HIDE DEF S
  <2>3. QED
    BY <1>5, <2>1, <2>2, StepInvariant
<1>17. Kept(f[num], num)
  BY <1>5, <1>16
<1>18. PICK w : Ends(f[num], w) /\ Written(m, cs, d, num, w)
  BY <1>17 DEF Kept
<1>19. \A c \in ChunkNodes \ T : w.data[c] = m.data[c]
  <2>1. Firsts(cs, num) \subseteq T
    <3>1. \A i \in 1..num : i \in 1..Len(cs)
      BY <1>1, <1>5
    <3>2. \A i \in 1..Len(cs) : cs[i] \in T
      BY <1>1, Elements
    <3>3. QED
      BY <3>1, <3>2 DEF Firsts
  <2>2. QED
    BY <1>18, <2>1 DEF Written
<1>20. ASSUME Cardinality(T) = get_chunk_num(DataLen(d)) PROVE ChainHolds(w, head, T, d)
  <2>1. num = Len(cs)
    BY <1>1, <1>3, <1>4, <1>20
  <2>2. w.next = m.next
    BY <1>18 DEF Written, DataStep
  <2>3. QED
    BY <1>1, <1>18, <2>1, <2>2 DEF ChainHolds, Written
<1>21. QED
  BY <1>14, <1>18, <1>19, <1>20 DEF Written, num

-----------------------------------------------------------------------------
(***************************************************************************)
(* Nodes                                                                   *)
(***************************************************************************)

LEMMA NodeStepKeeps ==
  ASSUME NEW m, NEW w, NodeStep(m, w)
  PROVE  /\ \A A : AddOK(m, A) => AddOK(w, A)
         /\ \A own : ChunksOK(m, own) => ChunksOK(w, own)
         /\ \A own, U : OwnersOK(m, own, U) => OwnersOK(w, own, U)
         /\ TotalsOK(m) => TotalsOK(w)
<1>1. \A A : AddOK(m, A) => AddOK(w, A)
  BY DEF NodeStep, AddOK
<1>2. \A own : ChunksOK(m, own) => ChunksOK(w, own)
  BY DEF NodeStep, ChunksOK
<1>3. \A own, U : OwnersOK(m, own, U) => OwnersOK(w, own, U)
  BY DEF NodeStep, OwnersOK, OwnerOK
<1>4. TotalsOK(m) => TotalsOK(w)
  BY DEF NodeStep, TotalsOK
<1>5. QED
  BY <1>1, <1>2, <1>3, <1>4

LEMMA AddStepKeeps ==
  ASSUME NEW m, NEW w, AddStep(m, w)
  PROVE  /\ \A place : NodesOK(m, place) => NodesOK(w, place)
         /\ \A place : BusyOK(m, place) => BusyOK(w, place)
         /\ \A own : ChunksOK(m, own) => ChunksOK(w, own)
         /\ \A own, U : OwnersOK(m, own, U) => OwnersOK(w, own, U)
         /\ TotalsOK(m) => TotalsOK(w)
<1>1. \A place : NodesOK(m, place) => NodesOK(w, place)
  BY DEF AddStep, NodesOK
<1>2. \A place : BusyOK(m, place) => BusyOK(w, place)
  BY DEF AddStep, BusyOK
<1>3. \A own : ChunksOK(m, own) => ChunksOK(w, own)
  BY DEF AddStep, ChunksOK
<1>4. \A own, U : OwnersOK(m, own, U) => OwnersOK(w, own, U)
  BY DEF AddStep, OwnersOK, OwnerOK
<1>5. TotalsOK(m) => TotalsOK(w)
  BY DEF AddStep, TotalsOK
<1>6. QED
  BY <1>1, <1>2, <1>3, <1>4, <1>5

LEMMA ContentStepKeeps ==
  ASSUME NEW m, NEW w, ContentStep(m, w)
  PROVE  /\ \A place : NodesOK(m, place) => NodesOK(w, place)
         /\ \A place : BusyOK(m, place) => BusyOK(w, place)
         /\ \A A : AddOK(m, A) => AddOK(w, A)
         /\ TotalsOK(m) => TotalsOK(w)
<1>1. \A place : NodesOK(m, place) => NodesOK(w, place)
  BY DEF ContentStep, NodesOK
<1>2. \A place : BusyOK(m, place) => BusyOK(w, place)
  BY DEF ContentStep, BusyOK
<1>3. \A A : AddOK(m, A) => AddOK(w, A)
  BY DEF ContentStep, AddOK
<1>4. TotalsOK(m) => TotalsOK(w)
  BY DEF ContentStep, TotalsOK
<1>5. QED
  BY <1>1, <1>2, <1>3, <1>4

LEMMA ChunkStepKeeps ==
  ASSUME NEW m, NEW w, ChunkStep(m, w)
  PROVE  /\ ContentStep(m, w)
         /\ \A place : NodesOK(m, place) => NodesOK(w, place)
         /\ \A place : BusyOK(m, place) => BusyOK(w, place)
         /\ \A A : AddOK(m, A) => AddOK(w, A)
         /\ TotalsOK(m) => TotalsOK(w)
<1>1. ContentStep(m, w)
  BY DEF ChunkStep, ContentStep
<1>2. QED
  BY <1>1, ContentStepKeeps

LEMMA DataStepKeeps ==
  ASSUME NEW m, NEW w, DataStep(m, w)
  PROVE  /\ ContentStep(m, w)
         /\ \A own : ChunksOK(m, own) => ChunksOK(w, own)
         /\ \A own, U : OwnersOK(m, own, U) => OwnersOK(w, own, U)
         /\ \A own, n : OwnerOK(m, own, n) => OwnerOK(w, own, n)
<1>1. ContentStep(m, w)
  BY DEF DataStep, ContentStep
<1>2. \A own : ChunksOK(m, own) => ChunksOK(w, own)
  BY DEF DataStep, ChunksOK
<1>3. \A own, n : OwnerOK(m, own, n) => OwnerOK(w, own, n)
  BY DEF DataStep, OwnerOK
<1>4. \A own, U : OwnersOK(m, own, U) => OwnersOK(w, own, U)
  BY <1>3 DEF OwnersOK
<1>5. QED
  BY <1>1, <1>2, <1>3, <1>4

\* The list of a bucket is as long as the bucket has nodes.
LEMMA BucketListLen ==
  ASSUME NEW m, NEW place, NodesOK(m, place), NEW b \in Buckets
  PROVE  /\ get_bucket_list_len(m, b) = Cardinality(Of(place, b))
         /\ get_bucket_list_len(m, b) = 0 <=> b \notin Busy(place)
         /\ IsFiniteSet(Busy(place)) /\ Cardinality(Busy(place)) \in Nat
<1> DEFINE next == m.node_next
           h == m.bucket[b]
           S == Of(place, b)
<1>1. next \in Arrays(Nodes) /\ INVALID \notin Nodes /\ IsFiniteSet(Nodes)
  BY NodesFinite DEF NodesOK
<1>2. ListOf(next, h, S, Nodes)
  <2> DEFINE prev == m.node_prev
  <2>1. PICK t : DListOf(next, prev, h, t, S, Nodes)
    BY DEF NodesOK
  <2> HIDE DEF next, prev, h, S
  <2>2. QED
    BY <1>1, <2>1, DListIs
<1> HIDE DEF next, h, S
<1>3. Len(Chain(next, h)) = Cardinality(S) /\ IsFiniteSet(S) /\ Cardinality(S) \in Nat
  BY <1>1, <1>2, ChainOfList
<1>4. get_bucket_list_len(m, b) = Cardinality(S)
  BY <1>3 DEF get_bucket_list_len, bucket_list, next, h
<1>5. Cardinality(S) = 0 <=> S = {}
  BY <1>3, FS_EmptySet
<1>6. b \in Busy(place) <=> S # {}
  BY DEF Busy, S
<1>7. IsFiniteSet(Busy(place)) /\ Cardinality(Busy(place)) \in Nat
  <2>1. Busy(place) \in SUBSET Buckets /\ IsFiniteSet(Buckets)
    BY Places DEF Busy
  <2>2. IsFiniteSet(Busy(place))
    BY <2>1, FS_Subset
  <2>3. QED
    BY <2>2, FS_CardinalityType
<1>8. QED
  BY <1>4, <1>5, <1>6, <1>7 DEF S

\* Node n comes to hold a record; the add list and the chunks stay.
UseStep(m, w, n, len, head) ==
  /\ w.chunk_len = [m.chunk_len EXCEPT ![n] = len]
  /\ w.chunk_head = [m.chunk_head EXCEPT ![n] = head]
  /\ w.add_prev = m.add_prev /\ w.add_next = m.add_next
  /\ w.chunk = m.chunk /\ w.next = m.next /\ w.data = m.data
  /\ w.map.node_total = m.map.node_total
  /\ w.map.add_head = m.map.add_head /\ w.map.add_tail = m.map.add_tail

\* Key, length and chunks are written to a node.
LEMMA NodeWritten ==
  ASSUME NEW run, NEW m, Ends(run, m), NEW n \in Nodes, NEW k \in Int, NEW len \in Int, NEW head \in Int
  PROVE  \E w : /\ Ends(run ++ <<"key", n, k>> ++ <<"chunk_len", n, len>>
                            ++ <<"chunk_head", n, head>>, w)
                /\ UseStep(m, w, n, len, head)
                /\ w.key = [m.key EXCEPT ![n] = k] /\ w.map = m.map /\ w.bucket = m.bucket
                /\ w.node_next = m.node_next /\ w.node_prev = m.node_prev
<1> DEFINE w1 == Put(m, "key", n, k)
           w2 == Put(w1, "chunk_len", n, len)
           w3 == Put(w2, "chunk_head", n, head)
           r1 == run ++ <<"key", n, k>>
           r2 == r1 ++ <<"chunk_len", n, len>>
           r3 == r2 ++ <<"chunk_head", n, head>>
<1>1. m \in Mems
  BY EndsIs
<1>2. /\ UseStep(m, w3, n, len, head)
      /\ w3.key = [m.key EXCEPT ![n] = k] /\ w3.map = m.map /\ w3.bucket = m.bucket
      /\ w3.node_next = m.node_next /\ w3.node_prev = m.node_prev
  BY <1>1 DEF Put, Mems, UseStep
<1> HIDE DEF w1, w2, w3
<1>3. Ends(r3, w3)
  <2>1. Fits("key", n, k) /\ Fits("chunk_len", n, len) /\ Fits("chunk_head", n, head)
    BY DEF Fits, NodeFields
  <2> HIDE DEF r1, r2, r3
  <2>2. Ends(r1, w1)
    BY <2>1, Stored DEF r1, w1
  <2>3. Ends(r2, w2)
    BY <2>1, <2>2, Stored DEF r2, w2
  <2>4. QED
    BY <2>1, <2>3, Stored DEF r3, w3
<1>4. QED
  BY <1>2, <1>3

\* Nothing but the number of buckets in use changes.
CountStep(m, w) ==
  /\ w.map.node_total = m.map.node_total /\ w.map.used_node_num = m.map.used_node_num
  /\ w.map.add_head = m.map.add_head /\ w.map.add_tail = m.map.add_tail
  /\ w.map.free_list = m.map.free_list
  /\ w.key = m.key /\ w.bucket = m.bucket
  /\ w.chunk_len = m.chunk_len /\ w.chunk_head = m.chunk_head
  /\ w.node_next = m.node_next /\ w.node_prev = m.node_prev
  /\ w.add_next = m.add_next /\ w.add_prev = m.add_prev
  /\ w.chunk = m.chunk /\ w.next = m.next /\ w.data = m.data

\* The number of buckets in use is written when x = y.
LEMMA BucketCounted ==
  ASSUME NEW run, NEW m, Ends(run, m), NEW x, NEW y, NEW u \in Int
  PROVE  LET w == PutEq(m, x, y, "map", "used_bucket_num", u)
         IN  /\ Ends(run ++ When(x = y, <<"map", "used_bucket_num", u>>), w)
             /\ w.map.used_bucket_num = IF x = y THEN u ELSE m.map.used_bucket_num
             /\ CountStep(m, w)
<1> DEFINE w == PutEq(m, x, y, "map", "used_bucket_num", u)
<1>1. m \in Mems
  BY EndsIs
<1>2. x = y => Fits("map", "used_bucket_num", u)
  BY DEF Fits, MapFields
<1>3. Ends(run ++ When(x = y, <<"map", "used_bucket_num", u>>), w)
  <2> HIDE DEF w
  <2>1. QED
    BY <1>2, StoredEq DEF w
<1>4. /\ w.map.used_bucket_num = IF x = y THEN u ELSE m.map.used_bucket_num
      /\ CountStep(m, w)
  BY <1>1 DEF PutEq, Mems, Maps, CountStep
<1>5. QED
  BY <1>3, <1>4

\* Node n has been filled and is where p says.
NodeFilled(m, w, p, n, k, len, head) ==
  /\ UseStep(m, w, n, len, head) /\ w.key = [m.key EXCEPT ![n] = k]
  /\ NodesOK(w, p) /\ BusyOK(w, p)

\* A node in hand is filled and put on the list of its bucket.
LEMMA NodeUsed ==
  ASSUME NEW run, NEW m, Ends(run, m), NEW place, NodesOK(m, place), BusyOK(m, place),
         NEW n \in Nodes, place[n] = HELD, NEW k \in Int, NEW len \in Int, NEW head \in Int
  PROVE  \E w : /\ Ends(use_node(run, n, k, len, head), w)
                /\ NodeFilled(m, w, [place EXCEPT ![n] = get_bucket_id(k)], n, k, len, head)
<1> DEFINE b == get_bucket_id(k)
           p == [place EXCEPT ![n] = b]
           r == run ++ <<"key", n, k>> ++ <<"chunk_len", n, len>> ++ <<"chunk_head", n, head>>
<1>1. b \in Buckets
  BY BucketIs
<1>2. place \in [Nodes -> Buckets \cup {FREE, HELD}] /\ n \notin Used(place) /\ m \in Mems
  BY Places, EndsIs DEF NodesOK, Used
<1> HIDE DEF b, r
<1>3. PICK v : /\ Ends(r, v) /\ UseStep(m, v, n, len, head)
               /\ v.key = [m.key EXCEPT ![n] = k] /\ v.map = m.map /\ v.bucket = m.bucket
               /\ v.node_next = m.node_next /\ v.node_prev = m.node_prev
  BY NodeWritten DEF r
<1>4. /\ \A x \in Nodes : x # n => v.key[x] = m.key[x]
      /\ v.key[n] = k
  BY <1>2, <1>3 DEF Mems
<1>5. NodesOK(v, place)
  <2>1. \A x \in Used(place) : v.key[x] = m.key[x]
    BY <1>2, <1>4 DEF Used
  <2>2. /\ v.node_next = m.node_next /\ v.node_prev = m.node_prev /\ v.bucket = m.bucket
        /\ v.map.free_list = m.map.free_list /\ v.map.used_node_num = m.map.used_node_num
    BY <1>3
  <2>3. QED
    BY <2>1, <2>2, NodesFrame
<1>6. Last(r) = v
  BY <1>3, EndsIs
<1> DEFINE len0 == get_bucket_list_len(v, b)
           u == v.map.used_bucket_num + 1
           q == r ++ When(len0 = 0, <<"map", "used_bucket_num", u>>)
<1>7. use_node(run, n, k, len, head) = insert_node_list(q, n)
  BY <1>6 DEF use_node, r, b
<1>8. /\ (len0 = 0 <=> b \notin Busy(place))
      /\ IsFiniteSet(Busy(place)) /\ Cardinality(Busy(place)) \in Nat
  BY <1>1, <1>5, BucketListLen
<1>9. u \in Int
  BY <1>2, <1>3 DEF Mems, Maps
<1> HIDE DEF len0, u
<1> DEFINE x == PutEq(v, len0, 0, "map", "used_bucket_num", u)
<1>10. /\ Ends(q, x) /\ CountStep(v, x)
       /\ x.map.used_bucket_num = IF len0 = 0 THEN u ELSE v.map.used_bucket_num
  <2> DEFINE none == 0
  <2> HIDE DEF none
  <2> DEFINE y == PutEq(v, len0, none, "map", "used_bucket_num", u)
  <2>1. /\ Ends(r ++ When(len0 = none, <<"map", "used_bucket_num", u>>), y)
        /\ y.map.used_bucket_num = IF len0 = none THEN u ELSE v.map.used_bucket_num
        /\ CountStep(v, y)
    BY <1>3, <1>9, BucketCounted
  <2>2. QED
    BY <2>1 DEF none
<1> HIDE DEF x
<1> HIDE DEF q
<1>11. NodesOK(x, place) /\ b = get_bucket_id(x.key[n])
  <2>1. NodesOK(x, place)
    BY <1>5, <1>10, NodesFrame DEF CountStep
  <2>2. x.key[n] = k
    BY <1>4, <1>10 DEF CountStep
  <2>3. QED
    BY <2>1, <2>2 DEF b
<1>12. PICK w : /\ Ends(insert_node_list(q, n), w) /\ NodeStep(x, w)
                /\ NodesOK(w, p)
  BY <1>1, <1>10, <1>11, NodeInserted
<1>13. UseStep(m, w, n, len, head) /\ w.key = [m.key EXCEPT ![n] = k]
  BY <1>3, <1>10, <1>12 DEF UseStep, NodeStep, CountStep
<1>14. Busy(p) = Busy(place) \cup {b}
  <2>1. Of(p, b) = Of(place, b) \cup {n}
    BY <1>1, <1>2 DEF Of
  <2>2. \A c \in Buckets \ {b} : Of(p, c) = Of(place, c)
    BY <1>1, <1>2, Places DEF Of
  <2> HIDE DEF p
  <2>3. QED
    BY <1>1, <2>1, <2>2 DEF Busy
<1>15. w.map.used_bucket_num = Cardinality(Busy(p))
  <2>1. v.map.used_bucket_num = Cardinality(Busy(place))
    BY <1>3 DEF BusyOK
  <2>2. w.map.used_bucket_num = IF len0 = 0 THEN u ELSE v.map.used_bucket_num
    BY <1>10, <1>12 DEF NodeStep
  <2>3. CASE len0 = 0
    <3>1. Cardinality(Busy(p)) = Cardinality(Busy(place)) + 1
      BY <1>8, <1>14, <2>3, FS_AddElement
    <3>2. QED
      BY <2>1, <2>2, <2>3, <3>1 DEF u
  <2>4. CASE len0 # 0
    <3>1. Busy(p) = Busy(place)
      BY <1>8, <1>14, <2>4
    <3>2. QED
      BY <2>1, <2>2, <2>4, <3>1
  <2>5. QED
    BY <2>3, <2>4
<1>16. BusyOK(w, p)
  BY <1>15 DEF BusyOK
<1>17. NodeFilled(m, w, p, n, k, len, head)
  BY <1>12, <1>13, <1>16 DEF NodeFilled
<1>18. QED
  BY <1>7, <1>12, <1>17 DEF b

LEMMA CountStepKeeps ==
  ASSUME NEW m, NEW w, CountStep(m, w)
  PROVE  /\ \A place : NodesOK(m, place) => NodesOK(w, place)
         /\ \A A : AddOK(m, A) => AddOK(w, A)
         /\ \A own : ChunksOK(m, own) => ChunksOK(w, own)
         /\ \A own, U : OwnersOK(m, own, U) => OwnersOK(w, own, U)
         /\ TotalsOK(m) => TotalsOK(w)
<1>1. \A place : NodesOK(m, place) => NodesOK(w, place)
  BY DEF CountStep, NodesOK
<1>2. \A A : AddOK(m, A) => AddOK(w, A)
  BY DEF CountStep, AddOK
<1>3. \A own : ChunksOK(m, own) => ChunksOK(w, own)
  BY DEF CountStep, ChunksOK
<1>4. \A own, U : OwnersOK(m, own, U) => OwnersOK(w, own, U)
  BY DEF CountStep, OwnersOK, OwnerOK
<1>5. TotalsOK(m) => TotalsOK(w)
  BY DEF CountStep, TotalsOK
<1>6. QED
  BY <1>1, <1>2, <1>3, <1>4, <1>5

\* The owners of chunks when node n has given up its own.
LEMMA OwnersWithout ==
  ASSUME NEW m, NEW own, NEW U, OwnersOK(m, own, U), U \subseteq Nodes, NEW n \in U, NEW w, NEW o,
         Of(o, n) = {},
         \A x \in Nodes \ {n} : /\ Of(o, x) = Of(own, x)
                                /\ \A c \in Of(own, x) : w.next[c] = m.next[c],
         w.chunk_head = m.chunk_head, w.chunk_len = m.chunk_len
  PROVE  OwnersOK(w, o, U \ {n})
<1>1. ASSUME NEW x \in U \ {n} PROVE OwnerOK(w, o, x)
  <2>1. OwnerOK(m, own, x) /\ x \in Nodes \ {n}
    BY DEF OwnersOK
  <2>2. /\ Of(o, x) = Of(own, x) /\ \A c \in Of(own, x) : w.next[c] = m.next[c]
        /\ w.chunk_head[x] = m.chunk_head[x] /\ w.chunk_len[x] = m.chunk_len[x]
    BY <2>1
  <2>3. QED
    BY <2>1, <2>2, OwnerFrame
<1>2. ASSUME NEW x \in Nodes \ (U \ {n}) PROVE Of(o, x) = {}
  <2>1. CASE x = n
    BY <2>1
  <2>2. CASE x # n
    <3>1. x \in Nodes \ {n} /\ x \in Nodes \ U
      BY <2>2
    <3>2. QED
      BY <3>1 DEF OwnersOK
  <2>3. QED
    BY <2>1, <2>2
<1>3. QED
  BY <1>1, <1>2 DEF OwnersOK

\* A node in use that is on no add list gives its chunks back and is cleared.
LEMMA NodeFreed ==
  ASSUME NEW run, NEW m, Ends(run, m), NEW place, NodesOK(m, place), BusyOK(m, place),
         NEW A, AddOK(m, A), NEW own, ChunksOK(m, own), OwnersOK(m, own, Used(place)), TotalsOK(m),
         NEW n \in Nodes, place[n] \in Buckets, n \notin A
  PROVE  LET p == [place EXCEPT ![n] = HELD]
         IN  \E w, o : /\ Ends(free_node(run, n), w) /\ NodesOK(w, p) /\ BusyOK(w, p)
                       /\ AddOK(w, A) /\ ChunksOK(w, o) /\ OwnersOK(w, o, Used(p)) /\ TotalsOK(w)
                       /\ Keeps(m, own, w, o, Used(p))
<1> DEFINE b == place[n]
           p == [place EXCEPT ![n] = HELD]
           U == Used(place)
           head == m.chunk_head[n]
           a == delete_from_node_list(run, n)
           r == free(a, head)
<1>1. /\ place \in [Nodes -> Buckets \cup {FREE, HELD}] /\ n \in U /\ U \subseteq Nodes
      /\ get_bucket_id(m.key[n]) = b /\ b \in Buckets /\ Last(run) = m
  BY EndsIs DEF NodesOK, Used
<1>2. Used(p) = U \ {n}
  BY <1>1, Places, UsedTaken
<1>3. Busy(p) = (IF b \in Busy(p) THEN Busy(place) ELSE Busy(place) \ {b}) /\ b \in Busy(place)
  <2>1. Of(p, b) = Of(place, b) \ {n} /\ n \in Of(place, b)
    BY <1>1, Places DEF Of
  <2>2. \A c \in Buckets \ {b} : Of(p, c) = Of(place, c)
    BY <1>1, Places DEF Of
  <2> HIDE DEF p, b
  <2>3. QED
    BY <1>1, <2>1, <2>2 DEF Busy
<1>4. p[n] = HELD
  BY <1>1
<1> HIDE DEF b, U, head, a, r
<1>5. PICK w1 : Ends(a, w1) /\ NodeStep(m, w1) /\ NodesOK(w1, p)
  BY NodeDeleted DEF a
<1> HIDE DEF p
<1>6. AddOK(w1, A) /\ ChunksOK(w1, own) /\ OwnersOK(w1, own, U) /\ TotalsOK(w1)
  BY <1>5, NodeStepKeeps DEF U
<1>7. ListOf(w1.next, head, Of(own, n), ChunkNodes)
  <2>1. OwnerOK(w1, own, n)
    BY <1>1, <1>6 DEF OwnersOK
  <2>2. w1.chunk_head[n] = head
    BY <1>5 DEF NodeStep, head
  <2>3. QED
    BY <2>1, <2>2 DEF OwnerOK
<1>8. PICK w2, o : /\ Ends(r, w2) /\ ChunkStep(w1, w2) /\ ChunksOK(w2, o) /\ Of(o, n) = {}
                   /\ \A x \in Nodes \ {n} : /\ Of(o, x) = Of(own, x)
                                             /\ \A c \in Of(own, x) : w2.next[c] = w1.next[c]
  BY <1>5, <1>6, <1>7, ChunksFreed DEF r
<1>9. NodesOK(w2, p) /\ AddOK(w2, A) /\ TotalsOK(w2) /\ OwnersOK(w2, o, U \ {n})
  <2>1. NodesOK(w2, p) /\ AddOK(w2, A) /\ TotalsOK(w2)
    BY <1>5, <1>6, <1>8, ChunkStepKeeps
  <2>2. w2.chunk_head = w1.chunk_head /\ w2.chunk_len = w1.chunk_len
    BY <1>8 DEF ChunkStep
  <2>3. OwnersOK(w2, o, U \ {n})
    BY <1>1, <1>6, <1>8, <2>2, OwnersWithout
  <2>4. QED
    BY <2>1, <2>3
<1>10. /\ w2.key = m.key /\ w2.map.used_bucket_num = m.map.used_bucket_num
       /\ w2 \in Mems /\ Last(r) = w2
  BY <1>5, <1>8, EndsIs DEF NodeStep, ChunkStep
<1> DEFINE len == get_bucket_list_len(w2, b)
           u == w2.map.used_bucket_num - 1
           q == r ++ When(len = 0, <<"map", "used_bucket_num", u>>)
<1>11. free_node(run, n) = init_node(q, n)
  BY <1>1, <1>10 DEF free_node, r, a, head
<1>12. /\ (len = 0 <=> b \notin Busy(p)) /\ IsFiniteSet(Busy(p)) /\ Cardinality(Busy(p)) \in Nat
       /\ IsFiniteSet(Busy(place)) /\ Cardinality(Busy(place)) \in Nat
  BY <1>1, <1>9, BucketListLen
<1>13. u \in Int
  BY <1>10 DEF Mems, Maps
<1> HIDE DEF len, u
<1> DEFINE w3 == PutEq(w2, len, 0, "map", "used_bucket_num", u)
<1>14. /\ Ends(q, w3) /\ CountStep(w2, w3)
       /\ w3.map.used_bucket_num = IF len = 0 THEN u ELSE w2.map.used_bucket_num
  <2> DEFINE none == 0
  <2> HIDE DEF none
  <2> DEFINE y == PutEq(w2, len, none, "map", "used_bucket_num", u)
  <2>1. /\ Ends(r ++ When(len = none, <<"map", "used_bucket_num", u>>), y)
        /\ y.map.used_bucket_num = IF len = none THEN u ELSE w2.map.used_bucket_num
        /\ CountStep(w2, y)
    BY <1>8, <1>13, BucketCounted
  <2>2. QED
    BY <2>1 DEF none
<1> HIDE DEF w3, q
<1>15. /\ NodesOK(w3, p) /\ AddOK(w3, A) /\ ChunksOK(w3, o) /\ OwnersOK(w3, o, U \ {n})
       /\ TotalsOK(w3) /\ w3 \in Mems
  BY <1>8, <1>9, <1>14, CountStepKeeps, EndsIs
<1>16. w3.map.used_bucket_num = Cardinality(Busy(p))
  <2>1. w2.map.used_bucket_num = Cardinality(Busy(place))
    BY <1>10 DEF BusyOK
  <2>2. CASE len = 0
    <3>1. Cardinality(Busy(p)) = Cardinality(Busy(place)) - 1
      BY <1>3, <1>12, <2>2, FS_RemoveElement
    <3>2. QED
      BY <1>14, <2>1, <2>2, <3>1 DEF u
  <2>3. CASE len # 0
    BY <1>3, <1>12, <1>14, <2>1, <2>3
  <2>4. QED
    BY <2>2, <2>3
<1>17. PICK w : Ends(init_node(q, n), w) /\ Clears(w3, w, n)
  BY <1>14, NodeCleared
<1>18. NodesOK(w, p) /\ AddOK(w, A)
  BY <1>4, <1>15, <1>17, HeldCleared
<1>19. BusyOK(w, p) /\ ChunksOK(w, o) /\ TotalsOK(w)
  BY <1>15, <1>16, <1>17 DEF Clears, BusyOK, ChunksOK, TotalsOK
<1>20. OwnersOK(w, o, U \ {n})
  <2>1. \A x \in Nodes : x # n => w.chunk_head[x] = w3.chunk_head[x] /\ w.chunk_len[x] = w3.chunk_len[x]
    BY <1>15, <1>17 DEF Clears, Mems
  <2>2. w.next = w3.next
    BY <1>17 DEF Clears
  <2>3. ASSUME NEW x \in U \ {n} PROVE OwnerOK(w, o, x)
    <3>1. OwnerOK(w3, o, x) /\ x \in Nodes /\ x # n
      BY <1>1, <1>15 DEF OwnersOK
    <3>2. QED
      BY <2>1, <2>2, <3>1 DEF OwnerOK
  <2>4. QED
    BY <1>15, <2>3 DEF OwnersOK
<1>21. Keeps(m, own, w, o, U \ {n})
  <2>1. ASSUME NEW x \in U \ {n}
        PROVE  /\ w.key[x] = m.key[x] /\ w.chunk_len[x] = m.chunk_len[x]
               /\ w.chunk_head[x] = m.chunk_head[x]
    <3>1. x \in Nodes /\ x # n
      BY <1>1
    <3>2. /\ w3.key = m.key /\ w3.chunk_len = m.chunk_len /\ w3.chunk_head = m.chunk_head
      BY <1>5, <1>8, <1>14 DEF NodeStep, ChunkStep, CountStep
    <3>3. w.key = w3.key /\ w.chunk_len[x] = w3.chunk_len[x] /\ w.chunk_head[x] = w3.chunk_head[x]
      BY <1>15, <1>17, <3>1 DEF Clears, Mems
    <3>4. QED
      BY <3>2, <3>3
  <2>2. ASSUME NEW x \in U \ {n}
        PROVE  /\ Of(o, x) = Of(own, x)
               /\ \A c \in Of(own, x) : w.next[c] = m.next[c] /\ w.data[c] = m.data[c]
    <3>1. x \in Nodes \ {n}
      BY <1>1
    <3>2. w1.next = m.next /\ w1.data = m.data
      BY <1>5 DEF NodeStep
    <3>3. w.next = w2.next /\ w.data = w1.data
      BY <1>8, <1>14, <1>17 DEF ChunkStep, CountStep, Clears
    <3>4. QED
      BY <1>8, <3>1, <3>2, <3>3
  <2>3. QED
    BY <2>1, <2>2, KeepsFrame
<1>22. QED
  BY <1>2, <1>11, <1>17, <1>18, <1>19, <1>20, <1>21 DEF p

-----------------------------------------------------------------------------
(***************************************************************************)
(* Records                                                                 *)
(***************************************************************************)

\* Nothing is in hand: place tells which list each node is on, own which record
\* each chunk belongs to, and the add list holds the nodes in use.
WholeBy(m, place, own) ==
  /\ NodesOK(m, place) /\ BusyOK(m, place) /\ AddOK(m, Used(place))
  /\ ChunksOK(m, own) /\ OwnersOK(m, own, Used(place)) /\ TotalsOK(m)
  /\ Of(place, HELD) = {}

Whole(m) == m \in Mems /\ \E place, own : WholeBy(m, place, own)

\* The chunks of the nodes in U belong to their records, but for node n.
OthersOK(m, own, U, n) ==
  /\ \A x \in U \ {n} : OwnerOK(m, own, x)
  /\ \A x \in Nodes \ (U \cup {n}) : Of(own, x) = {}

\* Chunks from head on have been given to node n and hold record d.
Placed(m, own, w, o, U, n, head, d) ==
  /\ ContentStep(m, w) /\ ChunksOK(w, o) /\ OthersOK(w, o, U, n)
  /\ ListOf(w.next, head, Of(o, n), ChunkNodes) /\ head \in ChunkNodes
  /\ Cardinality(Of(o, n)) = get_chunk_num(DataLen(d))
  /\ Keeps(m, own, w, o, Nodes \ {n}) /\ ChainHolds(w, head, Of(o, n), d)

\* The data of one node is written to chunks that are free.
LEMMA RecordPlaced ==
  ASSUME NEW run, NEW m, Ends(run, m), NEW own, ChunksOK(m, own), NEW U \in SUBSET Nodes,
         NEW n \in Nodes, OthersOK(m, own, U, n), Of(own, n) = {}, NEW d \in Data,
         NEW num, num = get_chunk_num(DataLen(d)), num <= m.chunk.free_total,
         NEW head, head = Last(Taken(m, num))
  PROVE  \E w, o : /\ Ends(split(malloc(run, num), head, d), w)
                   /\ Placed(m, own, w, o, U, n, head, d)
<1>1. num \in Nat \ {0}
  <2>1. DataLen(d) \in Nat \ {0}
    BY ShmAssumption
  <2>2. QED
    BY <2>1, ChunkNumber
<1>2. PICK w1, T : Ends(malloc(run, num), w1) /\ Handed(m, w1, own, T, head, num)
  BY <1>1, ChunksTaken
<1>3. PICK o : /\ ChunksOK(w1, o) /\ Of(o, n) = T
               /\ \A x \in Nodes \ {n} : Of(o, x) = Of(own, x) /\ Of(own, x) \cap T = {}
  BY <1>2, ChunksOwned
<1>4. /\ ChunkStep(m, w1) /\ head \in T /\ ListOf(w1.next, head, T, ChunkNodes)
      /\ w1.next \in Arrays(ChunkNodes) /\ Cardinality(T) = num
      /\ \A c \in ChunkNodes \ T : w1.next[c] = m.next[c]
  BY <1>2 DEF Handed
<1>5. head \in ChunkNodes
  BY <1>4, ListIs, ChunksFinite
<1>6. OthersOK(w1, o, U, n)
  <2>1. ASSUME NEW x \in U \ {n} PROVE OwnerOK(w1, o, x)
    <3>1. OwnerOK(m, own, x) /\ x \in Nodes \ {n}
      BY DEF OthersOK
    <3>2. Of(own, x) \subseteq ChunkNodes \ T /\ Of(o, x) = Of(own, x)
      BY <1>3, <3>1 DEF Of, ChunksOK
    <3>3. w1.chunk_head = m.chunk_head /\ w1.chunk_len = m.chunk_len
      BY <1>4 DEF ChunkStep
    <3>4. QED
      BY <1>4, <3>1, <3>2, <3>3, OwnerFrame
  <2>2. ASSUME NEW x \in Nodes \ (U \cup {n}) PROVE Of(o, x) = {}
    BY <1>3 DEF OthersOK
  <2>3. QED
    BY <2>1, <2>2 DEF OthersOK
<1>7. PICK w : /\ Ends(split(malloc(run, num), head, d), w) /\ DataStep(w1, w)
               /\ \A c \in ChunkNodes \ T : w.data[c] = w1.data[c]
               /\ Cardinality(T) = get_chunk_num(DataLen(d)) => ChainHolds(w, head, T, d)
  BY <1>2, <1>4, SplitKeeps
<1>8. ContentStep(w1, w) /\ ChunksOK(w, o) /\ OthersOK(w, o, U, n)
  BY <1>3, <1>6, <1>7, DataStepKeeps DEF OthersOK
<1>9. ContentStep(m, w) /\ w.next = w1.next
  BY <1>4, <1>7, <1>8 DEF ChunkStep, ContentStep, DataStep
<1>10. Keeps(m, own, w, o, Nodes \ {n})
  <2>1. ASSUME NEW x \in Nodes \ {n}
        PROVE  /\ Of(o, x) = Of(own, x)
               /\ \A c \in Of(own, x) : w.next[c] = m.next[c] /\ w.data[c] = m.data[c]
    <3>1. Of(own, x) \subseteq ChunkNodes \ T /\ Of(o, x) = Of(own, x)
      BY <1>3 DEF Of, ChunksOK
    <3>2. \A c \in ChunkNodes \ T : w.next[c] = m.next[c] /\ w.data[c] = m.data[c]
      BY <1>4, <1>7, <1>9 DEF ChunkStep
    <3>3. QED
      BY <3>1, <3>2
  <2>2. w.key = m.key /\ w.chunk_len = m.chunk_len /\ w.chunk_head = m.chunk_head
    BY <1>9 DEF ContentStep
  <2>3. QED
    BY <2>1, <2>2, KeepsFrame
<1>11. ChainHolds(w, head, Of(o, n), d)
  BY <1>3, <1>4, <1>7
<1>12. Placed(m, own, w, o, U, n, head, d)
  BY <1>3, <1>4, <1>5, <1>8, <1>9, <1>10, <1>11 DEF Placed
<1>13. QED
  BY <1>7, <1>12

\* Once the node refers to them the chunks belong to its record.
LEMMA OwnersWith ==
  ASSUME NEW m \in Mems, NEW own, NEW U \in SUBSET Nodes, NEW n \in Nodes, OthersOK(m, own, U, n),
         NEW w, NEW len \in Nat, NEW head, UseStep(m, w, n, len, head),
         ListOf(m.next, head, Of(own, n), ChunkNodes), Cardinality(Of(own, n)) = get_chunk_num(len)
  PROVE  OwnersOK(w, own, U \cup {n})
<1>1. /\ w.next = m.next /\ w.chunk_len[n] = len /\ w.chunk_head[n] = head
      /\ \A x \in Nodes \ {n} : /\ w.chunk_len[x] = m.chunk_len[x]
                                /\ w.chunk_head[x] = m.chunk_head[x]
  BY DEF UseStep, Mems
<1>2. OwnerOK(w, own, n)
  BY <1>1 DEF OwnerOK
<1>3. ASSUME NEW x \in U \ {n} PROVE OwnerOK(w, own, x)
  <2>1. OwnerOK(m, own, x)
    BY DEF OthersOK
  <2>2. QED
    BY <1>1, <2>1 DEF OwnerOK
<1>4. QED
  BY <1>2, <1>3 DEF OwnersOK, OthersOK

\* Nothing else changes when a node gets another length and other chunks.
RecordStep(m, w, n, len, head) ==
  /\ UseStep(m, w, n, len, head)
  /\ w.key = m.key /\ w.map = m.map /\ w.bucket = m.bucket
  /\ w.node_next = m.node_next /\ w.node_prev = m.node_prev

LEMMA LenWritten ==
  ASSUME NEW run, NEW m, Ends(run, m), NEW n \in Nodes, NEW len \in Int
  PROVE  \E w : /\ Ends(run ++ <<"chunk_len", n, len>>, w)
                /\ RecordStep(m, w, n, len, m.chunk_head[n])
<1> DEFINE w == Put(m, "chunk_len", n, len)
<1>1. m \in Mems
  BY EndsIs
<1>2. Ends(run ++ <<"chunk_len", n, len>>, w)
  <2>1. Fits("chunk_len", n, len)
    BY DEF Fits, NodeFields
  <2>2. QED
    BY <2>1, Stored
<1>3. RecordStep(m, w, n, len, m.chunk_head[n])
  BY <1>1 DEF RecordStep, UseStep, Put, Mems
<1>4. QED
  BY <1>2, <1>3

LEMMA RecordWritten ==
  ASSUME NEW run, NEW m, Ends(run, m), NEW n \in Nodes, NEW len \in Int, NEW head \in Int
  PROVE  \E w : /\ Ends(run ++ <<"chunk_len", n, len>> ++ <<"chunk_head", n, head>>, w)
                /\ RecordStep(m, w, n, len, head)
<1> DEFINE r == run ++ <<"chunk_len", n, len>>
<1>1. PICK v : Ends(r, v) /\ RecordStep(m, v, n, len, m.chunk_head[n])
  BY LenWritten
<1> DEFINE w == Put(v, "chunk_head", n, head)
<1>2. m \in Mems /\ v \in Mems
  BY <1>1, EndsIs
<1>3. Ends(r ++ <<"chunk_head", n, head>>, w)
  <2>1. Fits("chunk_head", n, head)
    BY DEF Fits, NodeFields
  <2> HIDE DEF r
  <2>2. QED
    BY <1>1, <2>1, Stored
<1>4. RecordStep(m, w, n, len, head)
  <2>1. /\ v.chunk_head = m.chunk_head /\ v.chunk_len = [m.chunk_len EXCEPT ![n] = len]
    BY <1>1, <1>2 DEF RecordStep, UseStep, Mems
  <2>2. /\ w.chunk_head = [v.chunk_head EXCEPT ![n] = head] /\ w.chunk_len = v.chunk_len
        /\ w.add_prev = v.add_prev /\ w.add_next = v.add_next /\ w.chunk = v.chunk /\ w.next = v.next
        /\ w.data = v.data /\ w.key = v.key /\ w.map = v.map /\ w.bucket = v.bucket
        /\ w.node_next = v.node_next /\ w.node_prev = v.node_prev
    BY <1>2 DEF Put, Mems
  <2> HIDE DEF w
  <2>3. QED
    BY <1>1, <2>1, <2>2 DEF RecordStep, UseStep
<1>5. QED
  BY <1>3, <1>4

LEMMA RecordStepKeeps ==
  ASSUME NEW m, NEW w, NEW n, NEW len, NEW head, RecordStep(m, w, n, len, head)
  PROVE  /\ \A place : NodesOK(m, place) => NodesOK(w, place)
         /\ \A place : BusyOK(m, place) => BusyOK(w, place)
         /\ \A A : AddOK(m, A) => AddOK(w, A)
         /\ \A own : ChunksOK(m, own) => ChunksOK(w, own)
         /\ TotalsOK(m) => TotalsOK(w)
<1> USE DEF RecordStep, UseStep
<1>1. ASSUME NEW place, NodesOK(m, place) PROVE NodesOK(w, place)
  BY <1>1 DEF NodesOK
<1>2. ASSUME NEW A, AddOK(m, A) PROVE AddOK(w, A)
  BY <1>2 DEF AddOK
<1>3. ASSUME NEW own, ChunksOK(m, own) PROVE ChunksOK(w, own)
  BY <1>3 DEF ChunksOK
<1>4. ASSUME NEW place, BusyOK(m, place) PROVE BusyOK(w, place)
  BY <1>4 DEF BusyOK
<1>5. QED
  BY <1>1, <1>2, <1>3, <1>4 DEF TotalsOK

-----------------------------------------------------------------------------
(***************************************************************************)
(* Calls                                                                   *)
(***************************************************************************)

\* A key is looked up among the nodes in use.
LEMMA KeyLookedUp ==
  ASSUME NEW m, NEW place, NodesOK(m, place), NEW k \in Int
  PROVE  /\ node_of(m, k) \in Used(place) \cup {INVALID}
         /\ Finds(node_of(m, k), Used(place), m.key, k)
<1> DEFINE b == get_bucket_id(k)
           next == m.node_next
           prev == m.node_prev
           h == m.bucket[b]
           S == Of(place, b)
<1>1. b \in Buckets
  BY BucketIs
<1>2. S \subseteq Used(place)
  BY <1>1 DEF NodesOK, Of, Used
<1>3. PICK t : DListOf(next, prev, h, t, S, Nodes)
  BY <1>1 DEF NodesOK
<1> HIDE DEF next, prev, h, S
<1>4. ListOf(next, h, S, Nodes)
  BY <1>3, DListIs, NodesFinite
<1>5. ListOf(m.node_next, m.bucket[get_bucket_id(k)], S, Nodes) /\ m.node_next \in Arrays(Nodes)
  BY <1>4 DEF next, h, NodesOK
<1>6. Finds(node_of(m, k), S, m.key, k)
  BY <1>5, NodeFound
<1>7. ASSUME NEW x \in Used(place), m.key[x] = k PROVE x \in S
  <2>1. get_bucket_id(m.key[x]) = place[x] /\ x \in Nodes /\ place \in [Nodes -> Buckets \cup {FREE, HELD}]
    BY DEF NodesOK, Used
  <2>2. QED
    BY <1>7, <2>1 DEF S, Of
<1>8. QED
  BY <1>2, <1>6, <1>7 DEF Finds

\* A lookup moves the node to the front of the add list.
LEMMA NodeLookedUp ==
  ASSUME NEW run, NEW m, Ends(run, m), NEW place, NEW own, WholeBy(m, place, own), NEW k \in Int
  PROVE  \E w : Ends(find_node(run, k), w) /\ WholeBy(w, place, own) /\ AddStep(m, w)
<1> DEFINE n == node_of(m, k)
<1>1. Last(run) = m
  BY EndsIs
<1>2. n \in Used(place) \cup {INVALID}
  BY KeyLookedUp DEF WholeBy
<1> HIDE DEF n
<1>3. CASE n = INVALID
  <2>1. find_node(run, k) = run
    BY <1>1, <1>3 DEF find_node, n
  <2>2. AddStep(m, m)
    BY DEF AddStep
  <2>3. QED
    BY <2>1, <2>2
<1>4. CASE n # INVALID
  <2>1. n \in Used(place) /\ n \in Nodes /\ Used(place) \cup {n} = Used(place)
    BY <1>2, <1>4 DEF Used
  <2>2. find_node(run, k) = insert_add_list_head(run, n)
    BY <1>1, <1>4 DEF find_node, n
  <2>3. AddOK(m, Used(place))
    BY DEF WholeBy
  <2>4. PICK w : /\ Ends(insert_add_list_head(run, n), w) /\ AddStep(m, w)
                 /\ AddOK(w, Used(place) \cup {n})
    BY <2>1, <2>3, AddInserted
  <2>5. WholeBy(w, place, own)
    BY <2>1, <2>4, AddStepKeeps DEF WholeBy
  <2>6. QED
    BY <2>2, <2>4, <2>5
<1>5. QED
  BY <1>3, <1>4

\* A step that touches neither keys nor chunks keeps all records.
LEMMA StepKeepsAll ==
  ASSUME NEW m, NEW w, w.key = m.key, w.chunk_len = m.chunk_len, w.chunk_head = m.chunk_head,
         w.next = m.next, w.data = m.data
  PROVE  \A own, U : Keeps(m, own, w, own, U)
BY KeepsFrame

\* Node n gets key k and the chunks from head, which hold record d.
RecordInNode(m, o, w, n, k, head, d) ==
  /\ UseStep(m, w, n, DataLen(d), head) /\ w.key = [m.key EXCEPT ![n] = k]
  /\ ChainHolds(m, head, Of(o, n), d)

LEMMA RecordHeld ==
  ASSUME NEW m \in Mems, NEW o, NEW w, NEW n \in Nodes, NEW k, NEW head, NEW d,
         RecordInNode(m, o, w, n, k, head, d), NEW U \in SUBSET Nodes
  PROVE  /\ w.key[n] = k /\ Holds(w, o, n, d)
         /\ Keeps(m, o, w, o, U \ {n})
<1>1. /\ w.next = m.next /\ w.data = m.data /\ w.key[n] = k
      /\ w.chunk_len[n] = DataLen(d) /\ w.chunk_head[n] = head
      /\ \A x \in Nodes \ {n} : /\ w.chunk_len[x] = m.chunk_len[x] /\ w.key[x] = m.key[x]
                                /\ w.chunk_head[x] = m.chunk_head[x]
  BY DEF RecordInNode, UseStep, Mems
<1>2. ChainHolds(w, head, Of(o, n), d)
  <2> DEFINE S == Of(o, n)
  <2>1. ChainHolds(m, head, S, d) /\ \A c \in S : w.next[c] = m.next[c] /\ w.data[c] = m.data[c]
    BY <1>1 DEF RecordInNode
  <2> HIDE DEF S
  <2>2. QED
    BY <2>1, ChainHoldsFrame DEF S
<1>3. Keeps(m, o, w, o, U \ {n})
  BY <1>1, KeepsFrame
<1>4. QED
  BY <1>1, <1>2, <1>3 DEF Holds

\* Record d of key k comes to be held by a node that was free.
Added(m, place, own, w, p, o, k, d) ==
  \E n \in Nodes \ Used(place) :
    /\ Used(p) = Used(place) \cup {n} /\ w.key[n] = k /\ Holds(w, o, n, d)
    /\ Keeps(m, own, w, o, Used(place))

\* A record is stored under a new key, or nothing is changed.
LEMMA RecordInserted ==
  ASSUME NEW run, NEW m, Ends(run, m), NEW place, NEW own, WholeBy(m, place, own),
         NEW k \in Int, NEW d \in Data
  PROVE  \E w, p, o : /\ Ends(insert_node(run, k, d), w) /\ WholeBy(w, p, o)
                      /\ IF insert_fails(m, d)
                         THEN Used(p) = Used(place) /\ Keeps(m, own, w, o, Used(place))
                         ELSE Added(m, place, own, w, p, o, k, d)
<1> DEFINE n == m.map.free_list
           len == DataLen(d)
           num == get_chunk_num(len)
           head == Last(Taken(m, num))
           r == free_list_remove(run)
           b == get_bucket_id(k)
           U == Used(place)
           p1 == [place EXCEPT ![n] = HELD]
           p2 == [p1 EXCEPT ![n] = b]
<1>1. /\ Last(run) = m /\ m \in Mems /\ len \in Nat /\ len \in Int /\ b \in Buckets
      /\ place \in [Nodes -> Buckets \cup {FREE, HELD}]
  BY EndsIs, BucketIs, ShmAssumption DEF WholeBy, NodesOK
<1>2. CASE n = INVALID
  <2>1. insert_node(run, k, d) = run
    BY <1>1, <1>2 DEF insert_node
  <2>2. insert_fails(m, d) /\ Keeps(m, own, m, own, Used(place))
    BY <1>2 DEF insert_fails, Keeps
  <2>3. QED
    BY <2>1, <2>2
<1>3. CASE n # INVALID
  <2>1. NodesOK(m, place)
    BY DEF WholeBy
  <2>2. /\ n \in Nodes /\ place[n] = FREE
        /\ \E w : Ends(r, w) /\ NodeStep(m, w) /\ NodesOK(w, p1)
    BY <1>3, <2>1, FreeNodeRemoved
  <2>3. PICK w1 : Ends(r, w1) /\ NodeStep(m, w1) /\ NodesOK(w1, p1)
    BY <2>2
  <2>4. /\ AddOK(w1, U) /\ ChunksOK(w1, own) /\ OwnersOK(w1, own, U) /\ TotalsOK(w1)
    BY <2>3, NodeStepKeeps DEF WholeBy
  <2>5. /\ U \subseteq Nodes /\ n \notin U /\ p1[n] = HELD /\ Used(p1) = U /\ Used(p2) = U \cup {n}
        /\ [p1 EXCEPT ![n] = FREE] = place /\ Of(p2, HELD) = {} /\ Busy(p1) = Busy(place)
    <3>1. U \subseteq Nodes /\ n \notin U /\ p1[n] = HELD /\ [p1 EXCEPT ![n] = FREE] = place
      BY <1>1, <2>2, Places DEF Used
    <3>2. Used(p1) = U
      BY <1>1, <2>2, Places DEF Used
    <3>3. Used(p2) = U \cup {n}
      BY <1>1, <2>2, Places DEF Used
    <3>4. Of(p2, HELD) = {}
      <4>1. Of(place, HELD) = {}
        BY DEF WholeBy
      <4>2. QED
        BY <1>1, <2>2, <4>1, Places DEF Of
    <3>5. \A c \in Buckets : Of(p1, c) = Of(place, c)
      BY <1>1, <2>2, Places DEF Of
    <3>6. Busy(p1) = Busy(place)
      BY <3>5 DEF Busy
    <3>7. QED
      BY <3>1, <3>2, <3>3, <3>4, <3>6
  <2>6. BusyOK(w1, p1)
    BY <2>3, <2>5 DEF BusyOK, NodeStep, WholeBy
  <2> HIDE DEF p1, p2, U, n, num, head, r, len, b
  <2>7. CASE m.chunk.free_total < num
    <3>1. insert_node(run, k, d) = free_list_insert(r, n)
      BY <1>1, <1>3, <2>7 DEF insert_node, n, num, r, len
    <3>2. PICK w : /\ Ends(free_list_insert(r, n), w) /\ NodeStep(w1, w)
                   /\ NodesOK(w, [p1 EXCEPT ![n] = FREE])
      BY <2>2, <2>3, <2>5, FreeNodeInserted
    <3>3. NodesOK(w, place)
      BY <2>5, <3>2
    <3>4. AddOK(w, U) /\ ChunksOK(w, own) /\ OwnersOK(w, own, U) /\ TotalsOK(w)
      BY <2>4, <3>2, NodeStepKeeps
    <3>5. BusyOK(w, place)
      BY <2>5, <2>6, <3>2 DEF BusyOK, NodeStep
    <3>6. WholeBy(w, place, own)
      BY <3>3, <3>4, <3>5 DEF WholeBy, U
    <3>7. insert_fails(m, d)
      BY <2>7 DEF insert_fails, num, len
    <3>8. Keeps(m, own, w, own, Used(place))
      <4>1. Keeps(m, own, w1, own, Used(place)) /\ Keeps(w1, own, w, own, Used(place))
        BY <2>3, <3>2, StepKeepsAll DEF NodeStep
      <4>2. QED
        BY <4>1, KeepsOn
    <3>9. QED
      BY <3>1, <3>2, <3>6, <3>7, <3>8
  <2>8. CASE ~(m.chunk.free_total < num)
    <3> DEFINE s == split(malloc(r, num), head, d)
               a == use_node(s, n, k, len, head)
    <3>1. insert_node(run, k, d) = insert_add_list_head(a, n)
      BY <1>1, <1>3, <2>8 DEF insert_node, n, num, r, len, head
    <3> HIDE DEF s, a
    <3>2. head = Last(Taken(w1, num)) /\ w1.chunk.free_total = m.chunk.free_total
      BY <2>3 DEF NodeStep, Taken, head
    <3>3. num <= w1.chunk.free_total
      <4>1. m.chunk.free_total \in Int
        BY <1>1 DEF Mems, ChunkHeads
      <4>2. num \in Nat
        BY <1>1, ChunkNumber DEF num
      <4>3. QED
        BY <2>8, <3>2, <4>1, <4>2
    <3>4. OthersOK(w1, own, U, n) /\ Of(own, n) = {}
      BY <2>2, <2>4, <2>5 DEF OthersOK, OwnersOK
    <3>5. num = get_chunk_num(DataLen(d)) /\ U \in SUBSET Nodes
      BY <2>5 DEF num, len
    <3>18. PICK w2, o : Ends(s, w2) /\ Placed(w1, own, w2, o, U, n, head, d)
      BY <2>2, <2>3, <2>4, <3>2, <3>3, <3>4, <3>5, RecordPlaced DEF s
    <3>6. /\ Ends(s, w2) /\ ContentStep(w1, w2)
          /\ ChunksOK(w2, o) /\ OthersOK(w2, o, U, n)
          /\ ListOf(w2.next, head, Of(o, n), ChunkNodes) /\ head \in ChunkNodes
          /\ Cardinality(Of(o, n)) = num
          /\ Keeps(w1, own, w2, o, Nodes \ {n}) /\ ChainHolds(w2, head, Of(o, n), d)
      BY <3>5, <3>18 DEF Placed
    <3>7. NodesOK(w2, p1) /\ BusyOK(w2, p1) /\ AddOK(w2, U) /\ TotalsOK(w2)
      BY <2>3, <2>4, <2>6, <3>6, ContentStepKeeps
    <3>8. head \in Int
      BY <3>6, ChunksFinite
    <3>19. PICK w3 : Ends(a, w3) /\ NodeFilled(w2, w3, p2, n, k, len, head)
      BY <1>1, <2>2, <2>5, <3>6, <3>7, <3>8, NodeUsed DEF a, p2, b, len
    <3>9. /\ Ends(a, w3) /\ UseStep(w2, w3, n, len, head) /\ NodesOK(w3, p2) /\ BusyOK(w3, p2)
          /\ w3.key = [w2.key EXCEPT ![n] = k]
      BY <3>19 DEF NodeFilled
    <3>10. OwnersOK(w3, o, U \cup {n})
      <4>1. w2 \in Mems /\ len \in Nat /\ Cardinality(Of(o, n)) = get_chunk_num(len)
        BY <1>1, <3>6, EndsIs DEF num, len
      <4>2. QED
        BY <2>2, <3>5, <3>6, <3>9, <4>1, OwnersWith
    <3>11. AddOK(w3, U) /\ ChunksOK(w3, o) /\ TotalsOK(w3)
      <4>1. AddOK(w3, U)
        BY <3>7, <3>9, AddFrame DEF UseStep
      <4>2. ChunksOK(w3, o)
        BY <3>6, <3>9, ChunksFrame DEF UseStep
      <4>3. TotalsOK(w3)
        BY <3>7, <3>9 DEF UseStep, TotalsOK
      <4>4. QED
        BY <4>1, <4>2, <4>3
    <3>12. PICK w : /\ Ends(insert_add_list_head(a, n), w) /\ AddStep(w3, w)
                    /\ AddOK(w, U \cup {n})
      BY <2>2, <3>9, <3>11, AddInserted
    <3>13. WholeBy(w, p2, o)
      <4>1. NodesOK(w, p2) /\ BusyOK(w, p2) /\ ChunksOK(w, o) /\ TotalsOK(w)
            /\ OwnersOK(w, o, U \cup {n})
        BY <3>9, <3>10, <3>11, <3>12, AddStepKeeps
      <4>2. QED
        BY <2>5, <3>12, <4>1 DEF WholeBy
    <3>14. w3.key[n] = k /\ Holds(w3, o, n, d) /\ Keeps(w2, o, w3, o, U)
      <4>1. w2 \in Mems
        BY <3>6, EndsIs
      <4>2. RecordInNode(w2, o, w3, n, k, head, d)
        BY <3>6, <3>9 DEF RecordInNode, len
      <4>3. QED
        <5>1. U \in SUBSET Nodes /\ U \ {n} = U
          BY <2>5
        <5>2. w3.key[n] = k /\ Holds(w3, o, n, d) /\ Keeps(w2, o, w3, o, U \ {n})
          BY <2>2, <4>1, <4>2, <5>1, RecordHeld
        <5>3. QED
          BY <5>1, <5>2
    <3>15. Added(m, place, own, w, p2, o, k, d)
      <4>1. Keeps(w3, o, w, o, U) /\ Holds(w, o, n, d) /\ w.key[n] = k
        <5>1. Keeps(w3, o, w, o, U) /\ Keeps(w3, o, w, o, {n})
          BY <3>12, StepKeepsAll DEF AddStep
        <5>2. QED
          BY <3>14, <5>1 DEF Keeps
      <4>2. Keeps(m, own, w1, own, U)
        BY <2>3, StepKeepsAll DEF NodeStep
      <4>3. Keeps(w1, own, w2, o, U)
        BY <2>5, <3>6 DEF Keeps
      <4>4. Keeps(m, own, w, o, U)
        BY <3>14, <4>1, <4>2, <4>3, KeepsOn
      <4>5. n \in Nodes \ Used(place) /\ Used(p2) = Used(place) \cup {n}
        BY <2>2, <2>5 DEF U
      <4>6. QED
        BY <4>1, <4>4, <4>5 DEF Added, U
    <3>16. ~insert_fails(m, d)
      BY <1>3, <2>8 DEF insert_fails, n, num, len
    <3>17. QED
      BY <3>1, <3>12, <3>13, <3>15, <3>16
  <2>9. QED
    BY <2>7, <2>8
<1>4. QED
  BY <1>2, <1>3

\* Node n keeps its key and comes to hold record d; the other nodes keep theirs.
Rewritten(m, own, w, o, U, n, d) ==
  w.key[n] = m.key[n] /\ Holds(w, o, n, d) /\ Keeps(m, own, w, o, U \ {n})

\* Once the length and the chunks of a node have been written it holds the record.
LEMMA RecordChanged ==
  ASSUME NEW m \in Mems, NEW o, NEW w, NEW n \in Nodes, NEW head, NEW d,
         RecordStep(m, w, n, DataLen(d), head), ChainHolds(m, head, Of(o, n), d),
         NEW U \in SUBSET Nodes
  PROVE  Rewritten(m, o, w, o, U, n, d)
<1> DEFINE k == m.key[n]
<1>1. RecordInNode(m, o, w, n, k, head, d)
  BY DEF RecordInNode, RecordStep, Mems
<1> HIDE DEF k
<1>2. w.key[n] = k /\ Holds(w, o, n, d) /\ Keeps(m, o, w, o, U \ {n})
  BY <1>1, RecordHeld
<1>3. QED
  BY <1>2 DEF Rewritten, k

\* The record of a node is replaced, or nothing is changed.
LEMMA RecordUpdated ==
  ASSUME NEW run, NEW m, Ends(run, m), NEW place, NEW own, WholeBy(m, place, own),
         NEW n \in Used(place), NEW d \in Data
  PROVE  \E w, o : /\ Ends(update_node(run, n, d), w) /\ WholeBy(w, place, o)
                   /\ IF update_fails(m, n, d) THEN Keeps(m, own, w, o, Used(place))
                      ELSE Rewritten(m, own, w, o, Used(place), n, d)
<1> DEFINE U == Used(place)
           len == DataLen(d)
           old == get_chunk_num(m.chunk_len[n])
           num == get_chunk_num(len)
           freed == free(run, m.chunk_head[n])
           head == Last(Taken(Last(freed), num))
<1>1. /\ Last(run) = m /\ m \in Mems /\ len \in Nat /\ len \in Int /\ n \in Nodes /\ n \in U
      /\ U \in SUBSET Nodes /\ U \cup {n} = U
  BY EndsIs, ShmAssumption DEF Used
<1>2. /\ ChunksOK(m, own) /\ OwnersOK(m, own, U) /\ OwnerOK(m, own, n)
  BY <1>1 DEF WholeBy, OwnersOK
<1>3. /\ ListOf(m.next, m.chunk_head[n], Of(own, n), ChunkNodes)
      /\ Cardinality(Of(own, n)) = old /\ old \in Nat /\ num \in Nat
      /\ m.next \in Arrays(ChunkNodes) /\ m.chunk.free_total \in Int
  BY <1>1, <1>2, ChunkNumber DEF OwnerOK, ChunksOK, Mems, ChunkHeads
<1>4. OthersOK(m, own, U, n)
  BY <1>1, <1>2 DEF OwnersOK, OthersOK
<1> HIDE DEF U, len, old, num, freed, head
<1>5. CASE old = num
  <2> DEFINE s == split(run, m.chunk_head[n], d)
  <2>1. update_node(run, n, d) = s ++ <<"chunk_len", n, len>>
    BY <1>1, <1>5 DEF update_node, old, num, len
  <2> HIDE DEF s
  <2>2. PICK w1 : /\ Ends(s, w1) /\ DataStep(m, w1)
                  /\ \A c \in ChunkNodes \ Of(own, n) : w1.data[c] = m.data[c]
                  /\ ChainHolds(w1, m.chunk_head[n], Of(own, n), d)
    <3> DEFINE hd == m.chunk_head[n]
               T == Of(own, n)
    <3>1. ListOf(m.next, hd, T, ChunkNodes) /\ m.next \in Arrays(ChunkNodes)
          /\ Cardinality(T) = get_chunk_num(DataLen(d)) /\ s = split(run, hd, d)
      BY <1>3, <1>5 DEF num, len, s
    <3> HIDE DEF hd, T, s
    <3>2. PICK w1 : /\ Ends(split(run, hd, d), w1) /\ DataStep(m, w1)
                    /\ \A c \in ChunkNodes \ T : w1.data[c] = m.data[c]
                    /\ Cardinality(T) = get_chunk_num(DataLen(d)) => ChainHolds(w1, hd, T, d)
      BY <3>1, SplitKeeps
    <3>3. QED
      BY <3>1, <3>2 DEF hd, T
  <2>3. PICK w : /\ Ends(s ++ <<"chunk_len", n, len>>, w)
                 /\ RecordStep(w1, w, n, len, w1.chunk_head[n])
    BY <1>1, <2>2, LenWritten
  <2>4. ContentStep(m, w1) /\ ChunksOK(w1, own) /\ OthersOK(w1, own, U, n)
    BY <1>2, <1>4, <2>2, DataStepKeeps DEF OthersOK
  <2>5. NodesOK(w1, place) /\ BusyOK(w1, place) /\ AddOK(w1, U) /\ TotalsOK(w1)
    BY <2>4, ContentStepKeeps DEF WholeBy, U
  <2>6. NodesOK(w, place) /\ BusyOK(w, place) /\ AddOK(w, U) /\ TotalsOK(w) /\ ChunksOK(w, own)
    BY <2>3, <2>4, <2>5, RecordStepKeeps
  <2>7. OwnersOK(w, own, U)
    <3> DEFINE hd == w1.chunk_head[n]
    <3>1. UseStep(w1, w, n, len, hd) /\ w1 \in Mems
      BY <2>2, <2>3, EndsIs DEF RecordStep
    <3>2. ListOf(w1.next, hd, Of(own, n), ChunkNodes)
      BY <1>3, <2>2 DEF DataStep
    <3> HIDE DEF hd
    <3>3. Cardinality(Of(own, n)) = get_chunk_num(len)
      BY <1>3, <1>5 DEF num
    <3>4. OwnersOK(w, own, U \cup {n})
      BY <1>1, <2>4, <3>1, <3>2, <3>3, OwnersWith
    <3>5. QED
      BY <1>1, <3>4
  <2>8. WholeBy(w, place, own)
    BY <2>6, <2>7 DEF WholeBy, U
  <2>9. Rewritten(m, own, w, own, U, n, d)
    <3> DEFINE hd == w1.chunk_head[n]
    <3>1. /\ ChainHolds(w1, hd, Of(own, n), d) /\ w1 \in Mems
          /\ RecordStep(w1, w, n, DataLen(d), hd)
      BY <2>2, <2>3, EndsIs DEF DataStep, len
    <3> HIDE DEF hd
    <3>2. Rewritten(w1, own, w, own, U, n, d)
      BY <1>1, <3>1, RecordChanged
    <3>3. Keeps(m, own, w1, own, U \ {n}) /\ w1.key = m.key
      <4>1. \A x \in U \ {n} : Of(own, x) \subseteq ChunkNodes \ Of(own, n)
        BY <1>2 DEF Of, ChunksOK
      <4>2. /\ w1.key = m.key /\ w1.chunk_len = m.chunk_len /\ w1.chunk_head = m.chunk_head
            /\ w1.next = m.next
        BY <2>2 DEF DataStep
      <4>3. \A x \in U \ {n} : \A c \in Of(own, x) : w1.data[c] = m.data[c]
        BY <2>2, <4>1
      <4>4. QED
        BY <4>2, <4>3, KeepsFrame
    <3>4. QED
      BY <3>2, <3>3, KeepsOn DEF Rewritten
  <2>10. ~update_fails(m, n, d)
    <3>1. m.chunk.free_total \in Nat
      BY <1>2, FreeTotalIs
    <3>2. QED
      BY <1>3, <1>5, <3>1 DEF update_fails, num, old, len
  <2>11. QED
    BY <2>1, <2>3, <2>8, <2>9, <2>10 DEF U
<1>6. CASE old # num /\ m.chunk.free_total < num - old
  <2>1. update_node(run, n, d) = run
    BY <1>1, <1>6 DEF update_node, old, num, len
  <2>2. update_fails(m, n, d)
    BY <1>6 DEF update_fails, num, old, len
  <2>3. Keeps(m, own, m, own, Used(place))
    BY DEF Keeps
  <2>4. QED
    BY <2>1, <2>2, <2>3
<1>7. CASE old # num /\ ~(m.chunk.free_total < num - old)
  <2> DEFINE s == split(malloc(freed, num), head, d)
             t == s ++ <<"chunk_len", n, len>> ++ <<"chunk_head", n, head>>
  <2>1. update_node(run, n, d) = t
    BY <1>1, <1>7 DEF update_node, old, num, len, freed, head
  <2> HIDE DEF s
  <2>2. PICK w1, o1 : /\ Ends(freed, w1) /\ ChunkStep(m, w1) /\ ChunksOK(w1, o1)
                      /\ w1.chunk.free_total = m.chunk.free_total + Cardinality(Of(own, n))
                      /\ Of(o1, n) = {}
                      /\ \A x \in Nodes \ {n} : /\ Of(o1, x) = Of(own, x)
                                                /\ \A c \in Of(own, x) : w1.next[c] = m.next[c]
    <3> DEFINE hd == m.chunk_head[n]
    <3>1. ListOf(m.next, hd, Of(own, n), ChunkNodes) /\ freed = free(run, hd)
      BY <1>3 DEF freed
    <3> HIDE DEF hd
    <3>2. QED
      BY <1>1, <1>2, <3>1, ChunksFreed
  <2>3. Last(freed) = w1 /\ w1 \in Mems /\ head = Last(Taken(w1, num))
    BY <2>2, EndsIs DEF head
  <2>4. num <= w1.chunk.free_total
    BY <1>3, <1>7, <2>2
  <2>5. OthersOK(w1, o1, U, n)
    <3>1. w1.chunk_head = m.chunk_head /\ w1.chunk_len = m.chunk_len
      BY <2>2 DEF ChunkStep
    <3>2. OwnersOK(w1, o1, U \ {n})
      BY <1>1, <1>2, <2>2, <3>1, OwnersWithout
    <3>3. QED
      BY <3>2 DEF OwnersOK, OthersOK
  <2>6. num = get_chunk_num(DataLen(d))
    BY DEF num, len
  <2>15. PICK w2, o : Ends(s, w2) /\ Placed(w1, o1, w2, o, U, n, head, d)
    BY <1>1, <2>2, <2>3, <2>4, <2>5, <2>6, RecordPlaced DEF s
  <2>7. /\ Ends(s, w2) /\ ContentStep(w1, w2)
        /\ ChunksOK(w2, o) /\ OthersOK(w2, o, U, n)
        /\ ListOf(w2.next, head, Of(o, n), ChunkNodes) /\ head \in ChunkNodes
        /\ Cardinality(Of(o, n)) = num
        /\ Keeps(w1, o1, w2, o, Nodes \ {n}) /\ ChainHolds(w2, head, Of(o, n), d)
    BY <2>6, <2>15 DEF Placed
  <2>8. head \in Int
    BY <2>7, ChunksFinite
  <2>9. PICK w : Ends(t, w) /\ RecordStep(w2, w, n, len, head)
    BY <1>1, <2>7, <2>8, RecordWritten
  <2> HIDE DEF t
  <2>10. NodesOK(w2, place) /\ BusyOK(w2, place) /\ AddOK(w2, U) /\ TotalsOK(w2)
    <3>1. NodesOK(w1, place) /\ BusyOK(w1, place) /\ AddOK(w1, U) /\ TotalsOK(w1)
      BY <2>2, ChunkStepKeeps DEF WholeBy, U
    <3>2. QED
      BY <2>7, <3>1, ContentStepKeeps
  <2>11. NodesOK(w, place) /\ BusyOK(w, place) /\ AddOK(w, U) /\ TotalsOK(w) /\ ChunksOK(w, o)
    BY <2>7, <2>9, <2>10, RecordStepKeeps
  <2>12. OwnersOK(w, o, U)
    <3>1. UseStep(w2, w, n, len, head) /\ w2 \in Mems
      BY <2>7, <2>9, EndsIs DEF RecordStep
    <3>2. Cardinality(Of(o, n)) = get_chunk_num(len)
      BY <2>7 DEF num
    <3>3. OwnersOK(w, o, U \cup {n})
      BY <1>1, <2>7, <3>1, <3>2, OwnersWith
    <3>4. QED
      BY <1>1, <3>3
  <2>13. WholeBy(w, place, o)
    BY <2>11, <2>12 DEF WholeBy, U
  <2>14. Rewritten(m, own, w, o, U, n, d)
    <3>1. Rewritten(w2, o, w, o, U, n, d)
      <4>1. w2 \in Mems /\ RecordStep(w2, w, n, DataLen(d), head)
        BY <2>7, <2>9, EndsIs DEF len
      <4>2. QED
        BY <1>1, <2>7, <4>1, RecordChanged
    <3>2. Keeps(m, own, w1, o1, U \ {n})
      <4>1. /\ w1.key = m.key /\ w1.chunk_len = m.chunk_len /\ w1.chunk_head = m.chunk_head
            /\ w1.data = m.data
        BY <2>2 DEF ChunkStep
      <4>2. U \ {n} \subseteq Nodes \ {n}
        BY <1>1
      <4>3. QED
        BY <2>2, <4>1, <4>2, KeepsFrame
    <3>3. Keeps(w1, o1, w2, o, U \ {n})
      BY <1>1, <2>7 DEF Keeps
    <3>4. w2.key = m.key
      BY <2>2, <2>7 DEF ChunkStep, ContentStep
    <3>5. Keeps(m, own, w, o, U \ {n})
      BY <3>1, <3>2, <3>3, KeepsOn DEF Rewritten
    <3>6. QED
      BY <3>1, <3>4, <3>5 DEF Rewritten
  <2>16. ~update_fails(m, n, d)
    BY <1>7 DEF update_fails, num, old, len
  <2>17. QED
    BY <2>1, <2>9, <2>13, <2>14, <2>16 DEF U
<1>8. QED
  BY <1>5, <1>6, <1>7

\* Whether a record cannot be stored.
StoreFails(m, k, d) ==
  LET n == node_of(m, k) IN IF n = INVALID THEN insert_fails(m, d) ELSE update_fails(m, n, d)

\* All nodes keep their records; record d is stored in the node of key k; it is
\* stored in a node that was free.
AllKept(m, place, own, w, p, o) == Used(p) = Used(place) /\ Keeps(m, own, w, o, Used(place))

Changed(m, place, own, w, p, o, k, d) ==
  Used(p) = Used(place) /\ Rewritten(m, own, w, o, Used(place), node_of(m, k), d)

Replaced(m, place, own, w, p, o, k, d) ==
  /\ StoreFails(m, k, d) => AllKept(m, place, own, w, p, o)
  /\ ~StoreFails(m, k, d) =>
       IF node_of(m, k) = INVALID THEN Added(m, place, own, w, p, o, k, d)
       ELSE Changed(m, place, own, w, p, o, k, d)

\* A record is stored under its key.
LEMMA RecordReplaced ==
  ASSUME NEW run, NEW m, Ends(run, m), NEW place, NEW own, WholeBy(m, place, own),
         NEW k \in Int, NEW d \in Data
  PROVE  \E w, p, o : /\ Ends(replace_node(run, k, d), w) /\ WholeBy(w, p, o)
                      /\ Replaced(m, place, own, w, p, o, k, d)
<1> DEFINE n == node_of(m, k)
           r == find_node(run, k)
<1>1. Last(run) = m /\ n \in Used(place) \cup {INVALID}
  BY EndsIs, KeyLookedUp DEF WholeBy
<1>2. CASE n = INVALID
  <2>1. replace_node(run, k, d) = insert_node(run, k, d)
    BY <1>1, <1>2 DEF replace_node
  <2>2. PICK w, p, o : /\ Ends(insert_node(run, k, d), w) /\ WholeBy(w, p, o)
                       /\ IF insert_fails(m, d)
                          THEN Used(p) = Used(place) /\ Keeps(m, own, w, o, Used(place))
                          ELSE Added(m, place, own, w, p, o, k, d)
    BY RecordInserted
  <2>3. Replaced(m, place, own, w, p, o, k, d)
    BY <1>2, <2>2 DEF Replaced, StoreFails, AllKept
  <2>4. QED
    BY <2>1, <2>2, <2>3
<1>3. CASE n # INVALID
  <2>1. replace_node(run, k, d) = update_node(r, n, d)
    BY <1>1, <1>3 DEF replace_node
  <2>2. PICK w1 : Ends(r, w1) /\ WholeBy(w1, place, own) /\ AddStep(m, w1)
    BY NodeLookedUp
  <2>3. n \in Used(place)
    BY <1>1, <1>3
  <2>4. Keeps(m, own, w1, own, Used(place)) /\ w1.key = m.key
    BY <2>2, StepKeepsAll DEF AddStep
  <2>5. update_fails(m, n, d) = update_fails(w1, n, d)
    BY <2>2 DEF update_fails, AddStep
  <2> DEFINE U == Used(place)
  <2> HIDE DEF n, r
  <2>7. PICK w, o : /\ Ends(update_node(r, n, d), w) /\ WholeBy(w, place, o)
                    /\ IF update_fails(w1, n, d) THEN Keeps(w1, own, w, o, Used(place))
                       ELSE Rewritten(w1, own, w, o, Used(place), n, d)
    BY <2>2, <2>3, RecordUpdated
  <2> HIDE DEF U
  <2>8. ASSUME update_fails(m, n, d) PROVE Keeps(m, own, w, o, U)
    <3>1. Keeps(m, own, w1, own, U) /\ Keeps(w1, own, w, o, U)
      BY <2>4, <2>5, <2>7, <2>8 DEF U
    <3>2. QED
      BY <3>1, KeepsOn
  <2>9. ASSUME ~update_fails(m, n, d) PROVE Rewritten(m, own, w, o, U, n, d)
    <3>1. Rewritten(w1, own, w, o, U, n, d)
      BY <2>5, <2>7, <2>9 DEF U
    <3>2. Keeps(m, own, w1, own, U \ {n})
      BY <2>4 DEF Keeps, U
    <3>3. Keeps(m, own, w, o, U \ {n})
      BY <3>1, <3>2, KeepsOn DEF Rewritten
    <3>4. QED
      BY <2>4, <3>1, <3>3 DEF Rewritten
  <2>10. Replaced(m, place, own, w, place, o, k, d)
    BY <1>3, <2>8, <2>9 DEF Replaced, StoreFails, AllKept, Changed, U, n
  <2>11. QED
    BY <2>1, <2>7, <2>10
<1>4. QED
  BY <1>2, <1>3

\* Node n gives up its record, the others keep theirs.
Removed(m, place, own, w, p, o, n) ==
  Used(p) = Used(place) \ {n} /\ Keeps(m, own, w, o, Used(place) \ {n})

\* A node in use is taken off its lists, gives its chunks back and is free.
LEMMA RecordDeleted ==
  ASSUME NEW run, NEW m, Ends(run, m), NEW place, NEW own, WholeBy(m, place, own),
         NEW n \in Used(place)
  PROVE  \E w, p, o : /\ Ends(delete_node(run, n), w) /\ WholeBy(w, p, o)
                      /\ Removed(m, place, own, w, p, o, n)
<1> DEFINE U == Used(place)
           p1 == [place EXCEPT ![n] = HELD]
           p == [p1 EXCEPT ![n] = FREE]
           a == delete_from_add_list(run, n)
           r == free_node(a, n)
<1>1. /\ place \in [Nodes -> Buckets \cup {FREE, HELD}] /\ n \in Nodes /\ place[n] \in Buckets
      /\ n \notin U \ {n}
  BY DEF WholeBy, NodesOK, Used
<1>2. /\ Used(p1) = U \ {n} /\ Used(p) = U \ {n} /\ p1[n] = HELD /\ Busy(p) = Busy(p1)
      /\ Of(p, HELD) = {}
  <2>1. Used(p1) = U \ {n} /\ Used(p) = U \ {n} /\ p1[n] = HELD
    BY <1>1, Places DEF Used
  <2>2. \A c \in Buckets : Of(p, c) = Of(p1, c)
    BY <1>1, Places DEF Of
  <2>3. Of(p, HELD) = {}
    <3>1. Of(place, HELD) = {}
      BY DEF WholeBy
    <3>2. QED
      BY <1>1, <3>1, Places DEF Of
  <2>4. QED
    BY <2>1, <2>2, <2>3 DEF Busy
<1> HIDE DEF U, p, a, r
<1>3. delete_node(run, n) = free_list_insert(r, n)
  BY DEF delete_node, r, a
<1>4. PICK w1 : Ends(a, w1) /\ AddStep(m, w1) /\ AddOK(w1, U \ {n})
  <2>1. AddOK(m, U)
    BY DEF WholeBy, U
  <2>2. QED
    BY <1>1, <2>1, AddDeleted DEF a
<1>5. NodesOK(w1, place) /\ BusyOK(w1, place) /\ ChunksOK(w1, own) /\ TotalsOK(w1)
      /\ OwnersOK(w1, own, Used(place))
  BY <1>4, AddStepKeeps DEF WholeBy
<1>6. \E w, o : /\ Ends(r, w) /\ NodesOK(w, p1) /\ BusyOK(w, p1)
                /\ AddOK(w, U \ {n}) /\ ChunksOK(w, o) /\ OwnersOK(w, o, Used(p1)) /\ TotalsOK(w)
                /\ Keeps(w1, own, w, o, Used(p1))
  BY <1>1, <1>4, <1>5, NodeFreed DEF r
<1>7. PICK w2, o : /\ Ends(r, w2) /\ NodesOK(w2, p1) /\ BusyOK(w2, p1)
                   /\ AddOK(w2, U \ {n}) /\ ChunksOK(w2, o) /\ OwnersOK(w2, o, U \ {n})
                   /\ TotalsOK(w2) /\ Keeps(w1, own, w2, o, U \ {n})
  BY <1>2, <1>6
<1> HIDE DEF p1
<1>8. PICK w : /\ Ends(free_list_insert(r, n), w) /\ NodeStep(w2, w) /\ NodesOK(w, p)
  BY <1>1, <1>2, <1>7, FreeNodeInserted DEF p
<1>9. AddOK(w, U \ {n}) /\ ChunksOK(w, o) /\ OwnersOK(w, o, U \ {n}) /\ TotalsOK(w)
  BY <1>7, <1>8, NodeStepKeeps
<1>10. BusyOK(w, p)
  BY <1>2, <1>7, <1>8 DEF BusyOK, NodeStep
<1>11. WholeBy(w, p, o)
  BY <1>2, <1>8, <1>9, <1>10 DEF WholeBy
<1>12. Keeps(m, own, w, o, U \ {n})
  <2> DEFINE R == U \ {n}
  <2>1. Keeps(m, own, w1, own, R) /\ Keeps(w1, own, w2, o, R) /\ Keeps(w2, o, w, o, R)
    BY <1>4, <1>7, <1>8, StepKeepsAll DEF AddStep, NodeStep
  <2> HIDE DEF R
  <2>2. Keeps(m, own, w, o, R)
    BY <2>1, KeepsOn
  <2>3. QED
    BY <2>2 DEF R
<1>13. Removed(m, place, own, w, p, o, n)
  BY <1>2, <1>12 DEF Removed, U
<1>14. QED
  BY <1>3, <1>8, <1>11, <1>13

-----------------------------------------------------------------------------
(***************************************************************************)
(* Opening a pool                                                          *)
(***************************************************************************)

\* The header of the table when no node is in use.
Blank(w) ==
  /\ w.map.node_total = NodeTotal /\ w.map.used_node_num = 0 /\ w.map.used_bucket_num = 0
  /\ w.map.add_head = INVALID /\ w.map.add_tail = INVALID

LEMMA MapStored ==
  ASSUME NEW run, NEW m, Ends(run, m), NEW f \in MapFields, NEW v \in Int
  PROVE  \E w : Ends(run ++ <<"map", f, v>>, w) /\ w.map = [m.map EXCEPT ![f] = v]
<1> DEFINE w == Put(m, "map", f, v)
<1>1. m \in Mems /\ Fits("map", f, v)
  BY EndsIs DEF Fits
<1>2. w.map = [m.map EXCEPT ![f] = v]
  BY <1>1 DEF Put, Mems
<1>3. Ends(run ++ <<"map", f, v>>, w)
  <2> HIDE DEF w
  <2>1. QED
    BY <1>1, Stored DEF w
<1>4. QED
  BY <1>2, <1>3

\* The header is written.
LEMMA HeaderWritten ==
  ASSUME NEW run, NEW m, Ends(run, m)
  PROVE  \E w : Ends(init_header(run), w) /\ Blank(w) /\ w.map.free_list = INVALID
<1> DEFINE none == 0
           r1 == run ++ <<"map", "node_total", NodeTotal>>
           r2 == r1 ++ <<"map", "used_node_num", none>>
           r3 == r2 ++ <<"map", "used_bucket_num", none>>
           r4 == r3 ++ <<"map", "add_head", INVALID>>
           r5 == r4 ++ <<"map", "add_tail", INVALID>>
           r6 == r5 ++ <<"map", "free_list", INVALID>>
<1>1. init_header(run) = r6
  BY DEF init_header
<1>2. NodeTotal \in Int /\ none \in Int /\ INVALID \in Int /\ none = 0
  BY HashAssumption DEF INVALID
<1>3. /\ "node_total" \in MapFields /\ "used_node_num" \in MapFields
      /\ "used_bucket_num" \in MapFields /\ "add_head" \in MapFields
      /\ "add_tail" \in MapFields /\ "free_list" \in MapFields
  BY DEF MapFields
<1>4. m.map \in Maps
  BY EndsIs DEF Mems
<1> HIDE DEF none, r1, r2, r3, r4, r5, r6
<1>5. PICK w1 : Ends(r1, w1) /\ w1.map = [m.map EXCEPT !["node_total"] = NodeTotal]
  BY <1>2, <1>3, MapStored DEF r1
<1>6. PICK w2 : Ends(r2, w2) /\ w2.map = [w1.map EXCEPT !["used_node_num"] = none]
  BY <1>2, <1>3, <1>5, MapStored DEF r2
<1>7. PICK w3 : Ends(r3, w3) /\ w3.map = [w2.map EXCEPT !["used_bucket_num"] = none]
  BY <1>2, <1>3, <1>6, MapStored DEF r3
<1>8. PICK w4 : Ends(r4, w4) /\ w4.map = [w3.map EXCEPT !["add_head"] = INVALID]
  BY <1>2, <1>3, <1>7, MapStored DEF r4
<1>9. PICK w5 : Ends(r5, w5) /\ w5.map = [w4.map EXCEPT !["add_tail"] = INVALID]
  BY <1>2, <1>3, <1>8, MapStored DEF r5
<1>10. PICK w6 : Ends(r6, w6) /\ w6.map = [w5.map EXCEPT !["free_list"] = INVALID]
  BY <1>2, <1>3, <1>9, MapStored DEF r6
<1>11. Blank(w6) /\ w6.map.free_list = INVALID
  BY <1>2, <1>4, <1>5, <1>6, <1>7, <1>8, <1>9, <1>10 DEF Blank, Maps
<1>12. QED
  BY <1>1, <1>10, <1>11

IsBuckets(f, run) ==
  f = [b \in 0..BucketSize |->
         IF b = 0 THEN run ELSE f[b - 1] ++ <<"bucket", b - 1, INVALID>>]

\* The lists of the buckets are made empty.
LEMMA BucketsWritten ==
  ASSUME NEW run, NEW m, Ends(run, m), Blank(m), m.map.free_list = INVALID
  PROVE  \E w : /\ Ends(init_buckets(run), w) /\ Blank(w) /\ w.map.free_list = INVALID
                /\ \A b \in Buckets : w.bucket[b] = INVALID
<1> DEFINE num == BucketSize
           a == run
           Blanked(w, k) == /\ Blank(w) /\ w.map.free_list = INVALID
                          /\ \A b \in 0..(k - 1) : w.bucket[b] = INVALID
           Kept(r, k) == \E w : Ends(r, w) /\ Blanked(w, k)
           Step(r, k) == r ++ <<"bucket", k - 1, INVALID>>
           S == [k \in 0..num |-> {r \in Seq(Mems) : Kept(r, k)}]
           G == [k \in 1..num |-> [r \in Seq(Mems) |-> Step(r, k)]]
<1>1. num \in Nat
  BY HashAssumption
<1>2. Kept(a, 0)
  OBVIOUS
<1>3. ASSUME NEW k \in 1..num, NEW r, Kept(r, k - 1) PROVE Kept(Step(r, k), k)
  <2>1. PICK w : Ends(r, w) /\ Blanked(w, k - 1)
    BY <1>3
  <2> DEFINE b == k - 1
             v == INVALID
             x == Put(w, "bucket", b, v)
  <2>2. b \in Buckets /\ v \in Int /\ w \in Mems
    BY <1>1, <2>1, EndsIs DEF Buckets, INVALID
  <2> HIDE DEF b, v
  <2>3. Ends(r ++ <<"bucket", b, v>>, x)
    <3>1. Fits("bucket", b, v)
      BY <2>2 DEF Fits
    <3>2. QED
      BY <2>1, <3>1, Stored
  <2>4. x.map = w.map /\ x.bucket = [w.bucket EXCEPT ![b] = v]
    BY <2>2 DEF Put, Mems
  <2>5. \A c \in 0..(k - 1) : x.bucket[c] = INVALID
    <3>1. w.bucket \in [Buckets -> Int]
      BY <2>2 DEF Mems
    <3>2. \A c \in 0..(k - 1) : c = k - 1 \/ c \in 0..(k - 1 - 1)
      BY <1>1
    <3>3. \A c \in 0..(k - 1) : c \in Buckets
      BY <1>1 DEF Buckets
    <3>4. x.bucket[b] = INVALID
      BY <2>2, <2>4, <3>1 DEF v
    <3> HIDE DEF x
    <3>5. \A c \in Buckets : c # b => x.bucket[c] = w.bucket[c]
      BY <2>4, <3>1
    <3>6. QED
      BY <2>1, <3>2, <3>3, <3>4, <3>5 DEF b
  <2>6. Blanked(x, k)
    BY <2>1, <2>4, <2>5 DEF Blank
  <2>7. QED
    BY <2>3, <2>6 DEF b, v
<1>4. ASSUME NEW r, NEW k, Kept(r, k) PROVE r \in Seq(Mems)
  BY <1>4 DEF Ends
<1> HIDE DEF Kept, Step
<1>5. IsSteps(num, S, a, G)
  <2>1. a \in S[0]
    BY <1>1, <1>2, <1>4
  <2>2. ASSUME NEW k \in 1..num, NEW r \in S[k - 1] PROVE G[k][r] \in S[k]
    <3>1. k - 1 \in 0..num /\ k \in 0..num
      BY <1>1
    <3>2. r \in Seq(Mems) /\ Kept(r, k - 1)
      BY <3>1
    <3>3. G[k][r] = Step(r, k)
      BY <3>2
    <3>4. Kept(Step(r, k), k)
      BY <1>3, <3>2
    <3>5. QED
      BY <1>4, <3>1, <3>3, <3>4
  <2> HIDE DEF S, G
  <2>3. QED
    BY <1>1, <2>1, <2>2 DEF IsSteps
<1>6. PICK g : /\ g = [k \in 0..num |-> IF k = 0 THEN a ELSE G[k][g[k - 1]]]
                /\ \A k \in 0..num : g[k] \in S[k]
  <2> HIDE DEF S, G
  <2>1. QED
    BY <1>5, StepsExist
<1>7. ASSUME NEW k \in 0..num
       PROVE  g[k] = IF k = 0 THEN a ELSE Step(g[k - 1], k)
  <2>1. CASE k = 0
    BY <1>6, <2>1
  <2>2. CASE k # 0
    <3>1. k \in 1..num /\ k - 1 \in 0..num
      BY <1>1, <2>2
    <3>2. g[k - 1] \in Seq(Mems)
      BY <1>6, <3>1
    <3>3. G[k][g[k - 1]] = Step(g[k - 1], k)
      BY <3>1, <3>2
    <3>4. g[k] = G[k][g[k - 1]]
      BY <1>6, <2>2
    <3>5. QED
      BY <2>2, <3>3, <3>4
  <2>3. QED
    BY <2>1, <2>2
<1>8. \E f : IsBuckets(f, run)
  <2>1. g = [k \in 0..num |-> g[k]]
    BY <1>6
  <2>2. g = [k \in 0..num |-> IF k = 0 THEN a ELSE g[k - 1] ++ <<"bucket", k - 1, INVALID>>]
    BY <1>7, <2>1 DEF Step
  <2>3. IsBuckets(g, run)
    BY <2>2 DEF IsBuckets, num
  <2>4. QED
    BY <2>3
<1>9. PICK f : IsBuckets(f, run) /\ init_buckets(run) = f[BucketSize]
  BY <1>8 DEF init_buckets, IsBuckets
<1>10. f[0] = a /\ \A k \in 1..num : f[k] = Step(f[k - 1], k)
  <2>1. f = [k \in 0..num |-> IF k = 0 THEN a ELSE f[k - 1] ++ <<"bucket", k - 1, INVALID>>]
    BY <1>9 DEF IsBuckets, num
  <2>2. 0 \in 0..num /\ \A k \in 1..num : k \in 0..num /\ k # 0
    BY <1>1
  <2>3. f[0] = a
    BY <2>1, <2>2
  <2>4. ASSUME NEW k \in 1..num PROVE f[k] = Step(f[k - 1], k)
    BY <2>1, <2>2 DEF Step
  <2>5. QED
    BY <2>3, <2>4
<1>11. \A k \in 0..num : f[k] \in S[k]
  <2>1. f[0] \in S[0]
    BY <1>1, <1>2, <1>4, <1>10
  <2>2. ASSUME NEW k \in 1..num, f[k - 1] \in S[k - 1] PROVE f[k] \in S[k]
    <3>1. k - 1 \in 0..num /\ k \in 0..num
      BY <1>1
    <3>2. Kept(f[k - 1], k - 1)
      BY <2>2, <3>1
    <3>3. Kept(f[k], k)
      BY <1>3, <1>10, <3>2
    <3>4. QED
      BY <1>4, <3>1, <3>3
  <2> HIDE DEF S
  <2>3. QED
    BY <1>1, <2>1, <2>2, StepInvariant
<1>12. Kept(f[num], num)
  BY <1>1, <1>11
<1>13. QED
  BY <1>9, <1>12 DEF Kept, Buckets

\* Node n is linked in front of the free list.
LEMMA FreeLinked ==
  ASSUME NEW run, NEW m, Ends(run, m), NEW n \in Nodes
  PROVE  \E w : /\ Ends(free_list_insert(run, n), w) /\ w.bucket = m.bucket
                /\ w.node_next = [m.node_next EXCEPT ![n] = m.map.free_list]
                /\ w.map = [m.map EXCEPT !["free_list"] = n]
                /\ w.add_next = m.add_next /\ w.add_prev = m.add_prev
<1> DEFINE h == m.map.free_list
           w1 == Put(m, "node_next", n, h)
           w2 == Put(w1, "map", "free_list", n)
           r1 == run ++ <<"node_next", n, h>>
           r2 == r1 ++ <<"map", "free_list", n>>
<1>1. m \in Mems /\ Last(run) = m
  BY EndsIs
<1>2. free_list_insert(run, n) = r2
  BY <1>1 DEF free_list_insert
<1>3. h \in Int /\ n \in Int
  BY <1>1, NodesFinite DEF Mems, Maps
<1> HIDE DEF h, r1, r2
<1>4. /\ w2.node_next = [m.node_next EXCEPT ![n] = h] /\ w2.bucket = m.bucket
      /\ w2.map = [m.map EXCEPT !["free_list"] = n]
      /\ w2.add_next = m.add_next /\ w2.add_prev = m.add_prev
  BY <1>1 DEF Put, Mems
<1> HIDE DEF w1, w2
<1>5. Ends(r2, w2)
  <2>1. Fits("map", "free_list", n) /\ Fits("node_next", n, h)
    BY <1>3 DEF Fits, NodeFields, MapFields
  <2>2. Ends(r1, w1)
    BY <2>1, Stored DEF r1, w1
  <2>3. QED
    BY <2>1, <2>2, Stored DEF r2, w2
<1>6. QED
  BY <1>2, <1>4, <1>5 DEF h

\* The first k nodes are free.
NodesBlank(w, k) ==
  /\ Blank(w) /\ \A b \in Buckets : w.bucket[b] = INVALID
  /\ ListOf(w.node_next, w.map.free_list, 1..k, Nodes)
  /\ \A x \in 1..k : /\ w.node_next[x] \in Nodes \cup {INVALID}
                     /\ w.add_next[x] = INVALID /\ w.add_prev[x] = INVALID

\* The next node is initialised and linked to the free list.
LEMMA NodeBlanked ==
  ASSUME NEW run, NEW m, NEW k \in Nodes, Ends(run, m), NodesBlank(m, k - 1)
  PROVE  \E w : Ends(free_list_insert(init_node(run, k), k), w) /\ NodesBlank(w, k)
<1> DEFINE D == 1..(k - 1)
           r == init_node(run, k)
<1>1. /\ k \notin D /\ 1..k = D \cup {k} /\ D \subseteq Nodes /\ INVALID \notin Nodes
  BY NodesFinite DEF Nodes
<1>2. PICK v : Ends(r, v) /\ Clears(m, v, k)
  BY NodeCleared
<1>3. v \in Mems /\ m \in Mems
  BY <1>2, EndsIs
<1> HIDE DEF r
<1>4. PICK w : /\ Ends(free_list_insert(r, k), w) /\ w.bucket = v.bucket
               /\ w.node_next = [v.node_next EXCEPT ![k] = v.map.free_list]
               /\ w.map = [v.map EXCEPT !["free_list"] = k]
               /\ w.add_next = v.add_next /\ w.add_prev = v.add_prev
  BY <1>2, FreeLinked
<1> DEFINE h == m.map.free_list
           next == m.node_next
           nx == w.node_next
<1>5. ListOf(next, h, D, Nodes)
  BY DEF NodesBlank
<1>6. w.map.free_list = k /\ Blank(w) /\ \A b \in Buckets : w.bucket[b] = INVALID
  <2>1. v.map = m.map /\ v.bucket = m.bucket /\ m.map \in Maps
    BY <1>2, <1>3 DEF Clears, Mems
  <2>2. QED
    BY <1>4, <2>1 DEF NodesBlank, Blank, Maps
<1>7. nx[k] = h /\ \A x \in Nodes : x # k => nx[x] = next[x]
  <2>1. /\ v.node_next = [next EXCEPT ![k] = INVALID] /\ v.map = m.map
        /\ next \in [Nodes -> Int] /\ v.node_next \in [Nodes -> Int]
    BY <1>2, <1>3 DEF Clears, Mems
  <2>2. QED
    BY <1>4, <2>1
<1>8. \A x \in Nodes : /\ x # k => w.add_next[x] = m.add_next[x] /\ w.add_prev[x] = m.add_prev[x]
                       /\ x = k => w.add_next[x] = INVALID /\ w.add_prev[x] = INVALID
  <2>1. /\ w.add_next = [m.add_next EXCEPT ![k] = INVALID]
        /\ w.add_prev = [m.add_prev EXCEPT ![k] = INVALID]
        /\ m.add_next \in [Nodes -> Int] /\ m.add_prev \in [Nodes -> Int]
    BY <1>2, <1>3, <1>4 DEF Clears, Mems
  <2>2. QED
    BY <2>1
<1>9. \A x \in D : /\ m.node_next[x] \in Nodes \cup {INVALID}
                   /\ m.add_next[x] = INVALID /\ m.add_prev[x] = INVALID
  BY DEF NodesBlank
<1>10. h \in Nodes \cup {INVALID}
  <2> HIDE DEF h, next, D
  <2>1. h \in D \cup {INVALID}
    BY <1>1, <1>5, ListIs
  <2>2. QED
    BY <1>1, <2>1
<1>11. ListOf(nx, k, D \cup {k}, Nodes)
  <2>1. \A x \in D : nx[x] = next[x]
    BY <1>1, <1>7
  <2>2. nx[k] = h
    BY <1>7
  <2> HIDE DEF nx, next, h, D
  <2>3. QED
    BY <1>1, <1>5, <2>1, <2>2, ListPushed
<1>12. \A x \in 1..k : /\ nx[x] \in Nodes \cup {INVALID}
                       /\ w.add_next[x] = INVALID /\ w.add_prev[x] = INVALID
  <2> HIDE DEF nx, h, D
  <2>1. \A x \in 1..k : x \in Nodes /\ (x = k \/ (x \in D /\ x # k))
    BY <1>1
  <2>2. QED
    BY <1>7, <1>8, <1>9, <1>10, <2>1
<1>13. NodesBlank(w, k)
  BY <1>1, <1>6, <1>11, <1>12 DEF NodesBlank
<1>14. QED
  BY <1>4, <1>13 DEF r

IsNodes(f, run) ==
  f = [n \in 0..NodeTotal |->
         IF n = 0 THEN run ELSE free_list_insert(init_node(f[n - 1], n), n)]

\* All nodes are free.
LEMMA NodesWritten ==
  ASSUME NEW run, NEW m, Ends(run, m), Blank(m), m.map.free_list = INVALID,
         \A b \in Buckets : m.bucket[b] = INVALID
  PROVE  \E w : Ends(init_nodes(run), w) /\ NodesBlank(w, NodeTotal)
<1> DEFINE num == NodeTotal
           a == run
           Kept(r, k) == \E w : Ends(r, w) /\ NodesBlank(w, k)
           Step(r, k) == free_list_insert(init_node(r, k), k)
           S == [k \in 0..num |-> {r \in Seq(Mems) : Kept(r, k)}]
           G == [k \in 1..num |-> [r \in Seq(Mems) |-> Step(r, k)]]
<1>1. num \in Nat
  BY HashAssumption
<1>2. Kept(a, 0)
  <2> DEFINE D == 1..0
             next == m.node_next
  <2>1. D = {}
    OBVIOUS
  <2> HIDE DEF D, next
  <2>2. ListOf(next, INVALID, D, Nodes)
    BY <2>1, EmptyList
  <2>3. NodesBlank(m, 0)
    BY <2>1, <2>2 DEF NodesBlank, D, next
  <2>4. QED
    BY <2>3
<1>3. ASSUME NEW k \in 1..num, NEW r, Kept(r, k - 1) PROVE Kept(Step(r, k), k)
  <2>1. PICK w : Ends(r, w) /\ NodesBlank(w, k - 1)
    BY <1>3
  <2>2. k \in Nodes
    BY DEF Nodes
  <2>3. QED
    BY <2>1, <2>2, NodeBlanked
<1>4. ASSUME NEW r, NEW k, Kept(r, k) PROVE r \in Seq(Mems)
  BY <1>4 DEF Ends
<1> HIDE DEF Kept, Step
<1>5. IsSteps(num, S, a, G)
  <2>1. a \in S[0]
    BY <1>1, <1>2, <1>4
  <2>2. ASSUME NEW k \in 1..num, NEW r \in S[k - 1] PROVE G[k][r] \in S[k]
    <3>1. k - 1 \in 0..num /\ k \in 0..num
      BY <1>1
    <3>2. r \in Seq(Mems) /\ Kept(r, k - 1)
      BY <3>1
    <3>3. G[k][r] = Step(r, k)
      BY <3>2
    <3>4. Kept(Step(r, k), k)
      BY <1>3, <3>2
    <3>5. QED
      BY <1>4, <3>1, <3>3, <3>4
  <2> HIDE DEF S, G
  <2>3. QED
    BY <1>1, <2>1, <2>2 DEF IsSteps
<1>6. PICK g : /\ g = [k \in 0..num |-> IF k = 0 THEN a ELSE G[k][g[k - 1]]]
                /\ \A k \in 0..num : g[k] \in S[k]
  <2> HIDE DEF S, G
  <2>1. QED
    BY <1>5, StepsExist
<1>7. ASSUME NEW k \in 0..num
       PROVE  g[k] = IF k = 0 THEN a ELSE Step(g[k - 1], k)
  <2>1. CASE k = 0
    BY <1>6, <2>1
  <2>2. CASE k # 0
    <3>1. k \in 1..num /\ k - 1 \in 0..num
      BY <1>1, <2>2
    <3>2. g[k - 1] \in Seq(Mems)
      BY <1>6, <3>1
    <3>3. G[k][g[k - 1]] = Step(g[k - 1], k)
      BY <3>1, <3>2
    <3>4. g[k] = G[k][g[k - 1]]
      BY <1>6, <2>2
    <3>5. QED
      BY <2>2, <3>3, <3>4
  <2>3. QED
    BY <2>1, <2>2
<1>8. \E f : IsNodes(f, run)
  <2>1. g = [k \in 0..num |-> g[k]]
    BY <1>6
  <2>2. g = [k \in 0..num |-> IF k = 0 THEN a ELSE free_list_insert(init_node(g[k - 1], k), k)]
    BY <1>7, <2>1 DEF Step
  <2>3. IsNodes(g, run)
    BY <2>2 DEF IsNodes, num
  <2>4. QED
    BY <2>3
<1>9. PICK f : IsNodes(f, run) /\ init_nodes(run) = f[NodeTotal]
  BY <1>8 DEF init_nodes, IsNodes
<1>10. f[0] = a /\ \A k \in 1..num : f[k] = Step(f[k - 1], k)
  <2>1. f = [k \in 0..num |-> IF k = 0 THEN a ELSE free_list_insert(init_node(f[k - 1], k), k)]
    BY <1>9 DEF IsNodes, num
  <2>2. 0 \in 0..num /\ \A k \in 1..num : k \in 0..num /\ k # 0
    BY <1>1
  <2>3. f[0] = a
    BY <2>1, <2>2
  <2>4. ASSUME NEW k \in 1..num PROVE f[k] = Step(f[k - 1], k)
    BY <2>1, <2>2 DEF Step
  <2>5. QED
    BY <2>3, <2>4
<1>11. \A k \in 0..num : f[k] \in S[k]
  <2>1. f[0] \in S[0]
    BY <1>1, <1>2, <1>4, <1>10
  <2>2. ASSUME NEW k \in 1..num, f[k - 1] \in S[k - 1] PROVE f[k] \in S[k]
    <3>1. k - 1 \in 0..num /\ k \in 0..num
      BY <1>1
    <3>2. Kept(f[k - 1], k - 1)
      BY <2>2, <3>1
    <3>3. Kept(f[k], k)
      BY <1>3, <1>10, <3>2
    <3>4. QED
      BY <1>4, <3>1, <3>3
  <2> HIDE DEF S
  <2>3. QED
    BY <1>1, <2>1, <2>2, StepInvariant
<1>12. Kept(f[num], num)
  BY <1>1, <1>11
<1>13. QED
  BY <1>9, <1>12 DEF Kept

\* The first k chunks are free.
ChunksBlank(m, w, k) ==
  /\ ChunkStep(m, w) /\ ListOf(w.next, w.chunk.free_list, 1..k, ChunkNodes)
  /\ \A x \in 1..k : w.next[x] \in ChunkNodes \cup {INVALID}

LEMMA ChunkBlanked ==
  ASSUME NEW m, NEW run, NEW w, NEW k \in ChunkNodes, Ends(run, w), ChunksBlank(m, w, k - 1)
  PROVE  \E x : /\ Ends(chunk_free_list_insert(run ++ <<"next", k, INVALID>>, k), x)
                /\ ChunksBlank(m, x, k)
<1> DEFINE D == 1..(k - 1)
           r == run ++ <<"next", k, INVALID>>
           v == Put(w, "next", k, INVALID)
<1>1. /\ k \notin D /\ 1..k = D \cup {k} /\ D \subseteq ChunkNodes /\ INVALID \notin ChunkNodes
  BY ChunksFinite DEF ChunkNodes
<1>2. w \in Mems /\ Fits("next", k, INVALID)
  BY EndsIs DEF Fits, INVALID
<1>3. Ends(r, v)
  <2> HIDE DEF v
  <2>1. QED
    BY <1>2, Stored DEF v
<1>4. v.next = [w.next EXCEPT ![k] = INVALID] /\ v.chunk = w.chunk /\ ChunkStep(w, v)
  BY <1>2 DEF Put, Mems, ChunkStep
<1> HIDE DEF r, v
<1>5. PICK x : /\ Ends(chunk_free_list_insert(r, k), x) /\ ChunkStep(v, x)
               /\ x.next = [v.next EXCEPT ![k] = v.chunk.free_list] /\ x.chunk.free_list = k
               /\ x.chunk.free_total = v.chunk.free_total
  BY <1>3, ChunkPushed
<1> DEFINE h == w.chunk.free_list
           next == w.next
           nx == x.next
<1>6. nx[k] = h /\ \A c \in ChunkNodes : c # k => nx[c] = next[c]
  <2>1. w.next \in [ChunkNodes -> Int] /\ v.next \in [ChunkNodes -> Int]
    BY <1>2, <1>3, EndsIs DEF Mems
  <2>2. QED
    BY <1>4, <1>5, <2>1
<1>7. ListOf(next, h, D, ChunkNodes) /\ \A c \in D : next[c] \in ChunkNodes \cup {INVALID}
  BY DEF ChunksBlank
<1>8. ChunkStep(m, x)
  BY <1>4, <1>5 DEF ChunksBlank, ChunkStep
<1>9. h \in ChunkNodes \cup {INVALID}
  <2> HIDE DEF h, next, D
  <2>1. h \in D \cup {INVALID}
    BY <1>1, <1>7, ListIs
  <2>2. QED
    BY <1>1, <2>1
<1>10. ListOf(nx, k, D \cup {k}, ChunkNodes)
  <2>1. \A c \in D : nx[c] = next[c]
    BY <1>1, <1>6
  <2>2. nx[k] = h
    BY <1>6
  <2> HIDE DEF nx, next, h, D
  <2>3. QED
    BY <1>1, <1>7, <2>1, <2>2, ListPushed
<1>11. \A c \in 1..k : nx[c] \in ChunkNodes \cup {INVALID}
  <2> HIDE DEF nx, next, h, D
  <2>1. \A c \in 1..k : c \in ChunkNodes /\ (c = k \/ (c \in D /\ c # k))
    BY <1>1
  <2>2. QED
    BY <1>6, <1>7, <1>9, <2>1
<1>12. ChunksBlank(m, x, k)
  BY <1>1, <1>5, <1>8, <1>10, <1>11 DEF ChunksBlank
<1>13. QED
  BY <1>5, <1>12 DEF r

IsChunks(f, run) ==
  f = [c \in 0..ChunkTotal |->
         IF c = 0 THEN run ++ <<"chunk", "free_list", INVALID>>
         ELSE chunk_free_list_insert(f[c - 1] ++ <<"next", c, INVALID>>, c)]

\* The chunks are linked to the free list.
LEMMA ChunksLinked ==
  ASSUME NEW run, NEW m, Ends(run, m)
  PROVE  \E r, w : /\ chunk_init_pool_data(run) = r ++ <<"chunk", "chunk_total", ChunkTotal>>
                                                    ++ <<"chunk", "free_total", ChunkTotal>>
                   /\ Ends(r, w) /\ ChunksBlank(m, w, ChunkTotal)
<1> DEFINE num == ChunkTotal
           a == run ++ <<"chunk", "free_list", INVALID>>
           Kept(r, k) == \E w : Ends(r, w) /\ ChunksBlank(m, w, k)
           Step(r, k) == chunk_free_list_insert(r ++ <<"next", k, INVALID>>, k)
           S == [k \in 0..num |-> {r \in Seq(Mems) : Kept(r, k)}]
           G == [k \in 1..num |-> [r \in Seq(Mems) |-> Step(r, k)]]
<1>1. num \in Nat
  BY ChunkAssumption
<1>2. Kept(a, 0)
  <2> DEFINE D == 1..0
             v == INVALID
             w == Put(m, "chunk", "free_list", v)
             next == m.next
  <2>1. m \in Mems /\ v \in Int /\ v = INVALID
    BY EndsIs DEF INVALID
  <2> HIDE DEF v
  <2>2. w.chunk.free_list = v /\ w.next = next /\ ChunkStep(m, w)
    BY <2>1 DEF Put, Mems, ChunkHeads, ChunkStep
  <2>3. Fits("chunk", "free_list", v)
    BY <2>1 DEF Fits, ChunkFields
  <2>4. Ends(run ++ <<"chunk", "free_list", v>>, w)
    <3> HIDE DEF w
    <3>1. QED
      BY <2>3, Stored DEF w
  <2>5. D = {}
    OBVIOUS
  <2> HIDE DEF D, next, w
  <2>6. ListOf(next, INVALID, D, ChunkNodes)
    BY <2>5, EmptyList
  <2>7. ChunksBlank(m, w, 0)
    BY <2>1, <2>2, <2>5, <2>6 DEF ChunksBlank, D
  <2>8. QED
    BY <2>4, <2>7 DEF v
<1>3. ASSUME NEW k \in 1..num, NEW r, Kept(r, k - 1) PROVE Kept(Step(r, k), k)
  <2>1. PICK w : Ends(r, w) /\ ChunksBlank(m, w, k - 1)
    BY <1>3
  <2>2. k \in ChunkNodes
    BY DEF ChunkNodes
  <2>3. QED
    BY <2>1, <2>2, ChunkBlanked
<1>4. ASSUME NEW r, NEW k, Kept(r, k) PROVE r \in Seq(Mems)
  BY <1>4 DEF Ends
<1> HIDE DEF Kept, Step, a
<1>5. IsSteps(num, S, a, G)
  <2>1. a \in S[0]
    BY <1>1, <1>2, <1>4
  <2>2. ASSUME NEW k \in 1..num, NEW r \in S[k - 1] PROVE G[k][r] \in S[k]
    <3>1. k - 1 \in 0..num /\ k \in 0..num
      BY <1>1
    <3>2. r \in Seq(Mems) /\ Kept(r, k - 1)
      BY <3>1
    <3>3. G[k][r] = Step(r, k)
      BY <3>2
    <3>4. Kept(Step(r, k), k)
      BY <1>3, <3>2
    <3>5. QED
      BY <1>4, <3>1, <3>3, <3>4
  <2> HIDE DEF S, G
  <2>3. QED
    BY <1>1, <2>1, <2>2 DEF IsSteps
<1>6. PICK g : /\ g = [k \in 0..num |-> IF k = 0 THEN a ELSE G[k][g[k - 1]]]
                /\ \A k \in 0..num : g[k] \in S[k]
  <2> HIDE DEF S, G
  <2>1. QED
    BY <1>5, StepsExist
<1>7. ASSUME NEW k \in 0..num
       PROVE  g[k] = IF k = 0 THEN a ELSE Step(g[k - 1], k)
  <2>1. CASE k = 0
    BY <1>6, <2>1
  <2>2. CASE k # 0
    <3>1. k \in 1..num /\ k - 1 \in 0..num
      BY <1>1, <2>2
    <3>2. g[k - 1] \in Seq(Mems)
      BY <1>6, <3>1
    <3>3. G[k][g[k - 1]] = Step(g[k - 1], k)
      BY <3>1, <3>2
    <3>4. g[k] = G[k][g[k - 1]]
      BY <1>6, <2>2
    <3>5. QED
      BY <2>2, <3>3, <3>4
  <2>3. QED
    BY <2>1, <2>2
<1>8. \E f : IsChunks(f, run)
  <2>1. g = [k \in 0..num |-> g[k]]
    BY <1>6
  <2>2. g = [k \in 0..num |-> IF k = 0 THEN a ELSE chunk_free_list_insert(g[k - 1] ++ <<"next", k, INVALID>>, k)]
    BY <1>7, <2>1 DEF Step
  <2>3. IsChunks(g, run)
    BY <2>2 DEF IsChunks, num, a
  <2>4. QED
    BY <2>3
<1>9. PICK f : IsChunks(f, run) /\ chunk_init_pool_data(run) = f[ChunkTotal] ++ <<"chunk", "chunk_total", ChunkTotal>>
                     ++ <<"chunk", "free_total", ChunkTotal>>
  BY <1>8 DEF chunk_init_pool_data, IsChunks
<1>10. f[0] = a /\ \A k \in 1..num : f[k] = Step(f[k - 1], k)
  <2>1. f = [k \in 0..num |-> IF k = 0 THEN a ELSE chunk_free_list_insert(f[k - 1] ++ <<"next", k, INVALID>>, k)]
    BY <1>9 DEF IsChunks, num, a
  <2>2. 0 \in 0..num /\ \A k \in 1..num : k \in 0..num /\ k # 0
    BY <1>1
  <2>3. f[0] = a
    BY <2>1, <2>2
  <2>4. ASSUME NEW k \in 1..num PROVE f[k] = Step(f[k - 1], k)
    BY <2>1, <2>2 DEF Step
  <2>5. QED
    BY <2>3, <2>4
<1>11. \A k \in 0..num : f[k] \in S[k]
  <2>1. f[0] \in S[0]
    BY <1>1, <1>2, <1>4, <1>10
  <2>2. ASSUME NEW k \in 1..num, f[k - 1] \in S[k - 1] PROVE f[k] \in S[k]
    <3>1. k - 1 \in 0..num /\ k \in 0..num
      BY <1>1
    <3>2. Kept(f[k - 1], k - 1)
      BY <2>2, <3>1
    <3>3. Kept(f[k], k)
      BY <1>3, <1>10, <3>2
    <3>4. QED
      BY <1>4, <3>1, <3>3
  <2> HIDE DEF S
  <2>3. QED
    BY <1>1, <2>1, <2>2, StepInvariant
<1>12. Kept(f[num], num)
  BY <1>1, <1>11
<1>13. QED
  BY <1>9, <1>12 DEF Kept

\* All chunks are free, the table is not touched.
LEMMA ChunksWritten ==
  ASSUME NEW run, NEW m, Ends(run, m), NEW own, own = [c \in ChunkNodes |-> FREE]
  PROVE  \E w : /\ Ends(chunk_init_pool_data(run), w) /\ ChunksOK(w, own)
                /\ w.chunk.chunk_total = ChunkTotal /\ w.map = m.map /\ w.bucket = m.bucket
                /\ w.node_next = m.node_next /\ w.add_next = m.add_next /\ w.add_prev = m.add_prev
<1>1. PICK r, v : /\ chunk_init_pool_data(run) = r ++ <<"chunk", "chunk_total", ChunkTotal>>
                                                   ++ <<"chunk", "free_total", ChunkTotal>>
                  /\ Ends(r, v) /\ ChunksBlank(m, v, ChunkTotal)
  BY ChunksLinked
<1>2. v \in Mems /\ ChunkTotal \in Nat /\ ChunkTotal \in Int
  BY <1>1, EndsIs, ChunkAssumption
<1> DEFINE x == Put(v, "chunk", "chunk_total", ChunkTotal)
           r1 == r ++ <<"chunk", "chunk_total", ChunkTotal>>
<1>3. Ends(r1, x)
  <2>1. Fits("chunk", "chunk_total", ChunkTotal)
    BY <1>2 DEF Fits, ChunkFields
  <2> HIDE DEF x
  <2>2. QED
    BY <1>1, <2>1, Stored DEF x
<1>4. /\ x.chunk.chunk_total = ChunkTotal /\ x.chunk.free_list = v.chunk.free_list
      /\ x.next = v.next /\ x.map = v.map /\ x.bucket = v.bucket /\ x.node_next = v.node_next
      /\ x.add_next = v.add_next /\ x.add_prev = v.add_prev
  BY <1>2 DEF Put, Mems, ChunkHeads
<1> HIDE DEF x, r1
<1>5. PICK w : /\ Ends(r1 ++ <<"chunk", "free_total", ChunkTotal>>, w) /\ ChunkStep(x, w)
               /\ w.next = x.next /\ w.chunk.free_list = x.chunk.free_list
               /\ w.chunk.free_total = ChunkTotal
  BY <1>2, <1>3, FreeTotalStored
<1>6. Of(own, FREE) = ChunkNodes
  BY DEF Of
<1>7. ChunksOK(w, own)
  <2>1. own \in [ChunkNodes -> Nodes \cup {FREE}]
    OBVIOUS
  <2>2. w.next \in Arrays(ChunkNodes)
    <3>1. w \in Mems /\ w.next = v.next
      BY <1>4, <1>5, EndsIs
    <3>2. v.next \in [ChunkNodes -> Int]
      BY <3>1 DEF Mems
    <3>3. \A c \in ChunkNodes : v.next[c] \in ChunkNodes \cup {INVALID}
      BY <1>1 DEF ChunksBlank, ChunkNodes
    <3>4. QED
      BY <3>1, <3>2, <3>3 DEF Arrays
  <2>3. ListOf(w.next, w.chunk.free_list, ChunkNodes, ChunkNodes)
    BY <1>1, <1>4, <1>5 DEF ChunksBlank, ChunkNodes
  <2>4. w.chunk.free_total = Cardinality(ChunkNodes)
    BY <1>5, ChunksFinite
  <2>5. QED
    BY <1>6, <2>1, <2>2, <2>3, <2>4 DEF ChunksOK
<1>8. /\ w.chunk.chunk_total = ChunkTotal /\ w.map = m.map /\ w.bucket = m.bucket
      /\ w.node_next = m.node_next /\ w.add_next = m.add_next /\ w.add_prev = m.add_prev
  BY <1>1, <1>4, <1>5 DEF ChunksBlank, ChunkStep
<1>9. QED
  BY <1>1, <1>5, <1>7, <1>8 DEF r1

\* A table in which all nodes and chunks are free.
EmptyPool(m) == \E place, own : WholeBy(m, place, own) /\ Used(place) = {}

LEMMA BlankWhole ==
  ASSUME NEW w \in Mems, NodesBlank(w, NodeTotal), NEW own, own = [c \in ChunkNodes |-> FREE],
         ChunksOK(w, own), w.chunk.chunk_total = ChunkTotal
  PROVE  EmptyPool(w)
<1> DEFINE place == [n \in Nodes |-> FREE]
<1>1. /\ Of(place, FREE) = Nodes /\ Used(place) = {} /\ Busy(place) = {} /\ Of(place, HELD) = {}
      /\ \A b \in Buckets : Of(place, b) = {}
      /\ place \in [Nodes -> Buckets \cup {FREE, HELD}]
      /\ \A n \in Nodes : Of(own, n) = {}
  BY Places DEF Of, Used, Busy
<1> HIDE DEF place
<1>2. NodesOK(w, place)
  <2>1. w.node_next \in Arrays(Nodes)
    <3>1. w.node_next \in [Nodes -> Int]
      BY DEF Mems
    <3>2. \A x \in Nodes : w.node_next[x] \in Nodes \cup {INVALID}
      BY DEF NodesBlank, Nodes
    <3>3. QED
      BY <3>1, <3>2 DEF Arrays
  <2>2. ASSUME NEW b \in Buckets
        PROVE  \E t : DListOf(w.node_next, w.node_prev, w.bucket[b], t, Of(place, b), Nodes)
    <3> DEFINE next == w.node_next
               prev == w.node_prev
    <3>1. w.bucket[b] = INVALID /\ Of(place, b) = {}
      BY <1>1 DEF NodesBlank
    <3> HIDE DEF next, prev
    <3>2. DListOf(next, prev, INVALID, INVALID, {}, Nodes)
      BY EmptyDList
    <3>3. QED
      BY <3>1, <3>2 DEF next, prev
  <2>3. ListOf(w.node_next, w.map.free_list, Of(place, FREE), Nodes)
    BY <1>1 DEF NodesBlank, Nodes
  <2>4. w.map.used_node_num = Cardinality(Used(place))
    BY <1>1, FS_EmptySet DEF NodesBlank, Blank
  <2>5. \A n \in Used(place) : get_bucket_id(w.key[n]) = place[n]
    BY <1>1
  <2>6. QED
    BY <1>1, <2>1, <2>2, <2>3, <2>4, <2>5 DEF NodesOK
<1>3. BusyOK(w, place)
  BY <1>1, FS_EmptySet DEF NodesBlank, Blank, BusyOK
<1>4. AddOK(w, Used(place))
  <2> DEFINE next == w.add_next
             prev == w.add_prev
  <2>1. \A n \in Nodes : next[n] = INVALID /\ prev[n] = INVALID
    BY DEF NodesBlank, Nodes
  <2>2. w.map.add_head = INVALID /\ w.map.add_tail = INVALID
    BY DEF NodesBlank, Blank
  <2> HIDE DEF next, prev
  <2>3. DListOf(next, prev, INVALID, INVALID, {}, Nodes)
    BY EmptyDList
  <2>4. QED
    BY <1>1, <2>1, <2>2, <2>3 DEF AddOK, next, prev
<1>5. OwnersOK(w, own, Used(place))
  BY <1>1 DEF OwnersOK
<1>6. TotalsOK(w)
  BY DEF TotalsOK, NodesBlank, Blank
<1>7. WholeBy(w, place, own)
  BY <1>1, <1>2, <1>3, <1>4, <1>5, <1>6 DEF WholeBy
<1>8. QED
  BY <1>1, <1>7 DEF EmptyPool

\* Whatever the segment held, opening it with init leaves an empty table.
LEMMA PoolOpened ==
  ASSUME NEW run, NEW m, Ends(run, m)
  PROVE  \E w : Ends(open_init(run), w) /\ EmptyPool(w)
<1> DEFINE r1 == init_header(run)
           r2 == init_buckets(r1)
           r3 == init_nodes(r2)
           own == [c \in ChunkNodes |-> FREE]
<1>1. open_init(run) = chunk_init_pool_data(r3)
  BY DEF open_init, init_pool_data
<1> HIDE DEF r1, r2, r3, own
<1>2. PICK w1 : Ends(r1, w1) /\ Blank(w1) /\ w1.map.free_list = INVALID
  BY HeaderWritten DEF r1
<1>3. PICK w2 : /\ Ends(r2, w2) /\ Blank(w2) /\ w2.map.free_list = INVALID
                /\ \A b \in Buckets : w2.bucket[b] = INVALID
  BY <1>2, BucketsWritten DEF r2
<1>4. PICK w3 : Ends(r3, w3) /\ NodesBlank(w3, NodeTotal)
  BY <1>3, NodesWritten DEF r3
<1>5. PICK w : /\ Ends(chunk_init_pool_data(r3), w) /\ ChunksOK(w, own)
               /\ w.chunk.chunk_total = ChunkTotal /\ w.map = w3.map /\ w.bucket = w3.bucket
               /\ w.node_next = w3.node_next /\ w.add_next = w3.add_next /\ w.add_prev = w3.add_prev
  BY <1>4, ChunksWritten DEF own
<1>6. NodesBlank(w, NodeTotal) /\ w \in Mems
  BY <1>4, <1>5, EndsIs DEF NodesBlank, Blank
<1>7. EmptyPool(w)
  BY <1>5, <1>6, BlankWhole DEF own
<1>8. QED
  BY <1>1, <1>5, <1>7

-----------------------------------------------------------------------------
(***************************************************************************)
(* The table is sound after every call                                     *)
(***************************************************************************)

\* A doubly linked list as the chain from its head.
LEMMA ChainOfDList ==
  ASSUME NEW D, IsFiniteSet(D), INVALID \notin D, NEW next \in Arrays(D), NEW prev,
         NEW h, NEW t, NEW S, DListOf(next, prev, h, t, S, D)
  PROVE  /\ Chain(next, h) \in Seq(D) /\ IsInjective(Chain(next, h)) /\ ToSet(Chain(next, h)) = S
         /\ \A i \in DOMAIN Chain(next, h) :
              /\ Chain(next, h)[i] \in S
              /\ prev[Chain(next, h)[i]] = IF i = 1 THEN INVALID ELSE Chain(next, h)[i - 1]
         /\ t = IF Chain(next, h) = <<>> THEN INVALID ELSE Last(Chain(next, h))
         /\ (Chain(next, h) = <<>> <=> S = {})
<1>1. PICK s : Leads(next, h, s, D) /\ DoublyLinked(prev, t, s) /\ ToSet(s) = S
  BY DEF DListOf
<1>2. Chain(next, h) = s
  BY <1>1, ChainIs
<1>3. s \in Seq(D) /\ Len(s) \in Nat /\ DOMAIN s = 1..Len(s)
  BY <1>1, LeadsIs
<1>4. IsInjective(s)
  BY <1>1, LengthIs
<1>5. \A i \in 1..Len(s) : s[i] \in S
  BY <1>1, <1>3, Elements
<1>6. ASSUME NEW i \in 1..Len(s)
      PROVE  prev[s[i]] = IF i = 1 THEN INVALID ELSE s[i - 1]
  <2>1. prev[s[i]] = At(s, i - 1)
    BY <1>1 DEF DoublyLinked
  <2>2. At(s, i - 1) = IF i = 1 THEN INVALID ELSE s[i - 1]
    BY <1>3 DEF At
  <2>3. QED
    BY <2>1, <2>2
<1>7. s = <<>> <=> Len(s) = 0
  BY <1>3, EmptySeq
<1>8. t = IF s = <<>> THEN INVALID ELSE Last(s)
  <2>1. t = At(s, Len(s))
    BY <1>1 DEF DoublyLinked
  <2>2. QED
    BY <1>3, <1>7, <2>1 DEF At, Last
<1>9. s = <<>> <=> S = {}
  <2>1. ToSet(s) = {s[i] : i \in 1..Len(s)}
    BY <1>3, Elements
  <2>2. QED
    BY <1>1, <1>3, <1>7, <2>1
<1>10. QED
  BY <1>2, <1>3, <1>4, <1>5, <1>6, <1>8, <1>9, <1>1

\* The list of a bucket.
BucketOK(m, b) ==
  LET l == bucket_list(m, b)
  IN  /\ IsInjective(l)
      /\ \A i \in DOMAIN l :
           /\ get_bucket_id(m.key[l[i]]) = b
           /\ m.node_prev[l[i]] = IF i = 1 THEN INVALID ELSE l[i - 1]

LEMMA BucketSound ==
  ASSUME NEW m, NEW place, NodesOK(m, place), NEW b \in Buckets
  PROVE  /\ BucketOK(m, b) /\ ToSet(bucket_list(m, b)) = Of(place, b)
         /\ (bucket_list(m, b) # <<>> <=> b \in Busy(place))
         /\ (m.bucket[b] # INVALID <=> b \in Busy(place))
<1> DEFINE next == m.node_next
           prev == m.node_prev
           h == m.bucket[b]
           S == Of(place, b)
           l == Chain(next, h)
<1>1. next \in Arrays(Nodes) /\ \E t : DListOf(next, prev, h, t, S, Nodes)
  BY DEF NodesOK
<1>2. \A n \in S : get_bucket_id(m.key[n]) = b
  BY DEF NodesOK, Of, Used
<1>3. l = bucket_list(m, b) /\ (b \in Busy(place) <=> S # {})
  BY DEF bucket_list, Busy
<1> HIDE DEF next, prev, h, S
<1>4. PICK t : DListOf(next, prev, h, t, S, Nodes)
  BY <1>1
<1>5. /\ IsInjective(l) /\ ToSet(l) = S /\ (l = <<>> <=> S = {})
      /\ \A i \in DOMAIN l : /\ l[i] \in S
                             /\ prev[l[i]] = IF i = 1 THEN INVALID ELSE l[i - 1]
  BY <1>1, <1>4, NodesFinite, ChainOfDList
<1>6. h = INVALID <=> S = {}
  BY <1>4, NodesFinite, DListIs
<1> HIDE DEF l
<1>7. QED
  BY <1>2, <1>3, <1>5, <1>6 DEF prev, h, S, BucketOK

LEMMA NodesAreSound ==
  ASSUME NEW m, NEW place, NodesOK(m, place), BusyOK(m, place), Of(place, HELD) = {}
  PROVE  /\ Linked(m) = Used(place) /\ NodesSound(m)
         /\ Cardinality({b \in Buckets : m.bucket[b] # INVALID}) = m.map.used_bucket_num
         /\ m.map.used_node_num + Len(Chain(m.node_next, m.map.free_list)) = NodeTotal
<1> DEFINE next == m.node_next
           h == m.map.free_list
           F == Of(place, FREE)
           l == Chain(next, h)
           U == Used(place)
<1>1. place \in [Nodes -> Buckets \cup {FREE, HELD}]
  BY DEF NodesOK
<1>2. Linked(m) = U
  <2>1. \A b \in Buckets : ToSet(bucket_list(m, b)) = Of(place, b)
    BY BucketSound
  <2>2. \A n \in Nodes : (\E b \in Buckets : n \in Of(place, b)) <=> n \in U
    BY <1>1 DEF Of, Used
  <2>3. QED
    BY <2>1, <2>2 DEF Linked, Used
<1>3. F = Nodes \ U /\ U \subseteq Nodes
  BY <1>1, Places DEF Of, Used
<1>4. ListOf(next, h, F, Nodes) /\ next \in Arrays(Nodes)
  BY DEF NodesOK
<1>5. IsInjective(l) /\ ToSet(l) = F /\ Len(l) = Cardinality(F)
  <2> HIDE DEF next, h, F
  <2>1. QED
    BY <1>4, NodesFinite, ChainOfList
<1>6. m.map.used_bucket_num = Cardinality(Busy(place)) /\ m.map.used_node_num = Cardinality(U)
  BY DEF BusyOK, NodesOK
<1>7. /\ {b \in Buckets : bucket_list(m, b) # <<>>} = Busy(place)
      /\ {b \in Buckets : m.bucket[b] # INVALID} = Busy(place)
  <2>1. Busy(place) \subseteq Buckets
    BY DEF Busy
  <2>2. QED
    BY <2>1, BucketSound
<1>8. Cardinality(U) + Cardinality(F) = NodeTotal
  <2> HIDE DEF U, F
  <2>1. /\ Cardinality(Nodes \ U) = Cardinality(Nodes) - Cardinality(Nodes \cap U)
    BY NodesFinite, FS_Difference
  <2>2. Nodes \cap U = U /\ Cardinality(U) \in Nat
    BY <1>3, NodesFinite, FS_Subset, FS_CardinalityType
  <2>3. Cardinality(F) = Cardinality(Nodes) - Cardinality(U)
    BY <1>3, <2>1, <2>2
  <2>4. Cardinality(Nodes) = NodeTotal /\ NodeTotal \in Nat
    BY NodesFinite
  <2> DEFINE cu == Cardinality(U)
             cf == Cardinality(F)
             cn == Cardinality(Nodes)
  <2>5. cu \in Nat /\ cf = cn - cu /\ cn = NodeTotal /\ NodeTotal \in Nat
    BY <2>2, <2>3, <2>4
  <2> HIDE DEF cu, cf, cn
  <2>6. cu + cf = NodeTotal
    BY <2>5
  <2>7. QED
    BY <2>6 DEF cu, cf
<1>9. FreeNodes(m) = F /\ IsList(m.node_next, m.map.free_list)
  BY <1>5 DEF FreeNodes, IsList
<1> HIDE DEF U, F
<1>10. NodesSound(m)
  <2>1. FreeNodes(m) = Nodes \ Linked(m) /\ m.map.used_node_num = Cardinality(Linked(m))
    BY <1>2, <1>3, <1>6, <1>9
  <2>2. m.map.used_bucket_num = Cardinality({b \in Buckets : bucket_list(m, b) # <<>>})
    BY <1>6, <1>7
  <2>3. ASSUME NEW b \in Buckets
        PROVE  BucketOK(m, b)
    BY BucketSound
  <2>4. QED
    BY <1>9, <2>1, <2>2, <2>3 DEF NodesSound, BucketOK
<1>11. QED
  BY <1>2, <1>5, <1>6, <1>7, <1>8, <1>10 DEF U

LEMMA AddListIsSound ==
  ASSUME NEW m \in Mems, NEW A, AddOK(m, A), Linked(m) = A
  PROVE  AddListSound(m)
<1> DEFINE next == m.add_next
           prev == m.add_prev
           h == m.map.add_head
           t == m.map.add_tail
           l == Chain(next, h)
<1>1. DListOf(next, prev, h, t, A, Nodes)
  BY DEF AddOK
<1>2. next \in Arrays(Nodes)
  <2>1. next \in [Nodes -> Int] /\ \A n \in Nodes \ A : next[n] = INVALID
    BY DEF AddOK, Mems
  <2> HIDE DEF next, prev, h, t
  <2>2. A \subseteq Nodes /\ \A x \in A : next[x] \in A \cup {INVALID}
    BY <1>1, NodesFinite, DListIs
  <2>3. \A x \in Nodes : next[x] \in Nodes \cup {INVALID}
    BY <2>1, <2>2
  <2>4. QED
    BY <2>1, <2>3 DEF Arrays
<1>3. /\ IsInjective(l) /\ ToSet(l) = A
      /\ \A i \in DOMAIN l : /\ l[i] \in A
                             /\ prev[l[i]] = IF i = 1 THEN INVALID ELSE l[i - 1]
      /\ t = IF l = <<>> THEN INVALID ELSE Last(l)
  <2> HIDE DEF next, prev, h, t
  <2>1. QED
    BY <1>1, <1>2, NodesFinite, ChainOfDList
<1>4. AddList(m) = l
  BY DEF AddList
<1> HIDE DEF l
<1>5. QED
  BY <1>3, <1>4 DEF AddListSound, prev, t

\* The chunks of a node.
LEMMA OwnedChunks ==
  ASSUME NEW m, NEW own, m.next \in Arrays(ChunkNodes), NEW n, OwnerOK(m, own, n)
  PROVE  /\ IsInjective(ChunksOf(m, n)) /\ ToSet(ChunksOf(m, n)) = Of(own, n)
         /\ Len(ChunksOf(m, n)) = get_chunk_num(m.chunk_len[n])
<1> DEFINE next == m.next
           h == m.chunk_head[n]
           S == Of(own, n)
<1>1. ListOf(next, h, S, ChunkNodes) /\ next \in Arrays(ChunkNodes)
  BY DEF OwnerOK
<1> HIDE DEF next, h, S
<1>2. /\ ToSet(Chain(next, h)) = S /\ IsInjective(Chain(next, h))
      /\ Len(Chain(next, h)) = Cardinality(S)
  BY <1>1, ChunksFinite, ChainOfList
<1>3. ChunksOf(m, n) = Chain(next, h)
  BY DEF ChunksOf, next, h
<1>4. QED
  BY <1>2, <1>3 DEF OwnerOK, S

LEMMA ChunksAreSound ==
  ASSUME NEW m, NEW own, NEW U \in SUBSET Nodes, ChunksOK(m, own), OwnersOK(m, own, U), Linked(m) = U
  PROVE  ChunksSound(m) /\ Len(Chain(m.next, m.chunk.free_list)) = m.chunk.free_total
<1> DEFINE next == m.next
           h == m.chunk.free_list
           F == Of(own, FREE)
           l == Chain(next, h)
           owned == [n \in U |-> ToSet(ChunksOf(m, n))]
<1>1. own \in [ChunkNodes -> Nodes \cup {FREE}] /\ next \in Arrays(ChunkNodes)
  BY DEF ChunksOK
<1>2. ListOf(next, h, F, ChunkNodes) /\ m.chunk.free_total = Cardinality(F)
  BY DEF ChunksOK
<1>3. IsInjective(l) /\ ToSet(l) = F /\ Len(l) = Cardinality(F)
  <2> HIDE DEF next, h, F
  <2>1. QED
    BY <1>1, <1>2, ChunksFinite, ChainOfList
<1>4. \A n \in U : /\ IsInjective(ChunksOf(m, n)) /\ ToSet(ChunksOf(m, n)) = Of(own, n)
                   /\ Len(ChunksOf(m, n)) = get_chunk_num(m.chunk_len[n])
  BY <1>1, OwnedChunks DEF OwnersOK
<1>5. \A n \in U : owned[n] = Of(own, n)
  BY <1>4
<1>6. \A n \in U : \A o \in U \ {n} : owned[n] \cap owned[o] = {}
  BY <1>5 DEF Of
<1>7. F = ChunkNodes \ UNION {owned[n] : n \in U}
  <2>1. \A c \in ChunkNodes : c \in F \/ \E n \in U : c \in Of(own, n)
    <3>1. \A c \in ChunkNodes : c \in F \/ (own[c] \in Nodes /\ c \in Of(own, own[c]))
      BY <1>1 DEF Of
    <3>2. \A n \in Nodes \ U : Of(own, n) = {}
      BY DEF OwnersOK
    <3> HIDE DEF F
    <3>3. QED
      BY <3>1, <3>2
  <2>2. \A n \in U : Of(own, n) \subseteq ChunkNodes /\ Of(own, n) \cap F = {}
    BY <1>1, Places DEF Of
  <2>3. F \subseteq ChunkNodes
    BY <1>1 DEF Of
  <2> HIDE DEF F, owned
  <2>4. QED
    BY <1>5, <2>1, <2>2, <2>3
<1>8. FreeChunks(m) = l
  BY DEF FreeChunks
<1>9. owned = [n \in Linked(m) |-> ToSet(ChunksOf(m, n))]
  OBVIOUS
<1> HIDE DEF owned, l, F
<1>10. ChunksSound(m)
  BY <1>2, <1>3, <1>4, <1>6, <1>7, <1>8, <1>9 DEF ChunksSound
<1>11. QED
  BY <1>2, <1>3, <1>10 DEF l

\* A whole pool is sound, and the next start accepts it.
LEMMA WholeIsSound ==
  ASSUME NEW m, Whole(m)
  PROVE  Sound(m) /\ open_verify(m)
<1>1. PICK place, own : WholeBy(m, place, own)
  BY DEF Whole
<1>2. m \in Mems
  BY DEF Whole
<1>3. /\ Linked(m) = Used(place) /\ NodesSound(m)
      /\ Cardinality({b \in Buckets : m.bucket[b] # INVALID}) = m.map.used_bucket_num
      /\ m.map.used_node_num + Len(Chain(m.node_next, m.map.free_list)) = NodeTotal
  BY <1>1, NodesAreSound DEF WholeBy
<1>4. AddListSound(m)
  BY <1>1, <1>2, <1>3, AddListIsSound DEF WholeBy
<1>5. ChunksSound(m) /\ Len(Chain(m.next, m.chunk.free_list)) = m.chunk.free_total
  <2>1. Used(place) \in SUBSET Nodes
    BY DEF Used
  <2>2. QED
    BY <1>1, <1>3, <2>1, ChunksAreSound DEF WholeBy
<1>6. m.map.node_total = NodeTotal /\ m.chunk.chunk_total = ChunkTotal
  BY <1>1 DEF WholeBy, TotalsOK
<1>7. QED
  BY <1>3, <1>4, <1>5, <1>6 DEF Sound, open_verify, verify_pool_data, chunk_verify_pool_data

-----------------------------------------------------------------------------
(***************************************************************************)
(* What the table holds                                                    *)
(***************************************************************************)

\* The record that a node holds is what merge reads from its chunks.
LEMMA ValueIs ==
  ASSUME NEW m \in Mems, NEW own, ChunksOK(m, own), NEW n, OwnerOK(m, own, n),
         NEW d \in Data, Holds(m, own, n, d)
  PROVE  Value(m, n) = d
<1> DEFINE next == m.next
           head == m.chunk_head[n]
           S == Of(own, n)
           num == get_chunk_num(m.chunk_len[n])
           cs == Chain(next, head)
<1>1. next \in Arrays(ChunkNodes) /\ Cardinality(S) = num
  BY DEF ChunksOK, OwnerOK
<1>2. m.chunk_len[n] = DataLen(d)
  BY DEF Holds
<1>3. PICK s : /\ Leads(next, head, s, ChunkNodes) /\ ToSet(s) = S
               /\ \A i \in 1..Len(s) : m.data[s[i]] = <<d, i>>
  BY DEF Holds, ChainHolds
<1>4. num \in Nat \ {0} /\ Pieces(d) = [i \in 1..num |-> <<d, i>>]
  <2>1. DataLen(d) \in Nat \ {0}
    BY ShmAssumption
  <2>2. QED
    BY <1>2, <2>1, ChunkNumber DEF Pieces
<1> HIDE DEF next, head, S, num, cs
<1>5. cs = s /\ Len(s) = num
  BY <1>1, <1>3, ChainIs, LengthIs, ChunksFinite DEF cs
<1>6. merge(m, m.chunk_head[n], m.chunk_len[n]) = [i \in 1..num |-> m.data[s[i]]]
  BY <1>5 DEF merge, cs, num, next, head
<1>7. merge(m, m.chunk_head[n], m.chunk_len[n]) = Pieces(d)
  BY <1>3, <1>4, <1>5, <1>6
<1>8. ASSUME NEW e \in Data, Pieces(d) = Pieces(e) PROVE e = d
  <2>1. 1 \in DOMAIN Pieces(d) /\ Pieces(d)[1] = <<d, 1>>
    BY <1>4
  <2>2. 1 \in DOMAIN Pieces(e) => Pieces(e)[1] = <<e, 1>>
    BY DEF Pieces
  <2>3. <<d, 1>> = <<e, 1>>
    BY <1>8, <2>1, <2>2
  <2>4. QED
    BY <2>3
<1>9. {e \in Data : Pieces(d) = Pieces(e)} = {d}
  BY <1>8
<1>10. QED
  BY <1>7, <1>9 DEF Value

\* The nodes in use hold the records of table t, one node for each key.
Content(m, place, own, t) ==
  /\ t \in [Keys -> Data \cup {NotFound}]
  /\ \A n \in Used(place) : /\ m.key[n] \in Keys /\ t[m.key[n]] \in Data
                            /\ Holds(m, own, n, t[m.key[n]])
  /\ \A n, x \in Used(place) : m.key[n] = m.key[x] => n = x
  /\ \A k \in Keys : t[k] # NotFound => \E n \in Used(place) : m.key[n] = k

\* A key is found in the table, with its record, or is not there.
LEMMA RecordFound ==
  ASSUME NEW m \in Mems, NEW place, NEW own, WholeBy(m, place, own),
         NEW t, Content(m, place, own, t), NEW k \in Keys
  PROVE  /\ Lookup(m, k) = t[k] /\ (node_of(m, k) = INVALID <=> t[k] = NotFound)
         /\ node_of(m, k) # INVALID => node_of(m, k) \in Used(place) /\ m.key[node_of(m, k)] = k
<1> DEFINE n == node_of(m, k)
<1>1. NodesOK(m, place) /\ ChunksOK(m, own) /\ k \in Int /\ INVALID \notin Used(place)
      /\ \A x \in Used(place) : OwnerOK(m, own, x)
  BY ShmAssumption, NodesFinite DEF WholeBy, OwnersOK, Used
<1>2. n \in Used(place) \cup {INVALID} /\ Finds(n, Used(place), m.key, k)
  BY <1>1, KeyLookedUp
<1>3. Lookup(m, k) = IF n = INVALID THEN NotFound ELSE Value(m, n)
  BY DEF Lookup
<1> HIDE DEF n
<1>4. CASE n = INVALID
  <2>1. \A x \in Used(place) : m.key[x] # k
    BY <1>1, <1>2, <1>4 DEF Finds
  <2>2. t[k] = NotFound
    BY <2>1 DEF Content
  <2>3. QED
    BY <1>3, <1>4, <2>2 DEF n
<1>5. CASE n # INVALID
  <2>1. n \in Used(place) /\ m.key[n] = k
    BY <1>2, <1>5 DEF Finds
  <2>2. t[k] \in Data /\ Holds(m, own, n, t[k])
    BY <2>1 DEF Content
  <2>3. Value(m, n) = t[k]
    BY <1>1, <2>1, <2>2, ValueIs
  <2>4. QED
    BY <1>3, <1>5, <2>1, <2>2, <2>3, ShmAssumption DEF n
<1>6. QED
  BY <1>4, <1>5

LEMMA ContentKept ==
  ASSUME NEW m, NEW place, NEW own, NEW t, Content(m, place, own, t),
         NEW w, NEW p, NEW o, AllKept(m, place, own, w, p, o)
  PROVE  Content(w, p, o, t)
<1>1. Used(p) = Used(place) /\ \A n \in Used(place) : w.key[n] = m.key[n]
  BY DEF AllKept, Keeps
<1>2. ASSUME NEW n \in Used(place) PROVE Holds(w, o, n, t[m.key[n]])
  BY DEF Content, AllKept, Keeps
<1>3. QED
  BY <1>1, <1>2 DEF Content

LEMMA ContentAdded ==
  ASSUME NEW m, NEW place, NEW own, NEW t, Content(m, place, own, t),
         NEW k \in Keys, NEW d \in Data, t[k] = NotFound,
         NEW w, NEW p, NEW o, Added(m, place, own, w, p, o, k, d)
  PROVE  Content(w, p, o, [t EXCEPT ![k] = d])
<1> DEFINE U == Used(place)
           u == [t EXCEPT ![k] = d]
<1>1. PICK n \in Nodes \ U : /\ Used(p) = U \cup {n} /\ w.key[n] = k /\ Holds(w, o, n, d)
                             /\ Keeps(m, own, w, o, U)
  BY DEF Added
<1>2. /\ t \in [Keys -> Data \cup {NotFound}]
      /\ \A x \in U : m.key[x] \in Keys /\ t[m.key[x]] \in Data /\ Holds(m, own, x, t[m.key[x]])
      /\ \A x, y \in U : m.key[x] = m.key[y] => x = y
      /\ \A j \in Keys : t[j] # NotFound => \E x \in U : m.key[x] = j
  BY DEF Content
<1>3. u \in [Keys -> Data \cup {NotFound}] /\ u[k] = d /\ \A j \in Keys \ {k} : u[j] = t[j]
  BY <1>2
<1> HIDE DEF U, u
<1>4. \A x \in U : w.key[x] = m.key[x] /\ Holds(w, o, x, t[m.key[x]])
  BY <1>1, <1>2 DEF Keeps
<1>5. \A x \in U : m.key[x] # k
  BY <1>2, ShmAssumption
<1>6. ASSUME NEW x \in Used(p)
      PROVE  w.key[x] \in Keys /\ u[w.key[x]] \in Data /\ Holds(w, o, x, u[w.key[x]])
  BY <1>1, <1>2, <1>3, <1>4, <1>5
<1>7. ASSUME NEW x \in Used(p), NEW y \in Used(p), w.key[x] = w.key[y] PROVE x = y
  BY <1>1, <1>2, <1>4, <1>5, <1>7
<1>8. ASSUME NEW j \in Keys, u[j] # NotFound PROVE \E x \in Used(p) : w.key[x] = j
  BY <1>1, <1>2, <1>3, <1>4, <1>8
<1>9. QED
  BY <1>3, <1>6, <1>7, <1>8 DEF Content, u

LEMMA ContentChanged ==
  ASSUME NEW m, NEW place, NEW own, NEW t, Content(m, place, own, t),
         NEW k \in Keys, NEW d \in Data, NEW n \in Used(place), n = node_of(m, k), m.key[n] = k,
         NEW w, NEW p, NEW o, Changed(m, place, own, w, p, o, k, d)
  PROVE  Content(w, p, o, [t EXCEPT ![k] = d])
<1> DEFINE U == Used(place)
           u == [t EXCEPT ![k] = d]
<1>1. /\ Used(p) = U /\ w.key[n] = k /\ Holds(w, o, n, d)
      /\ Keeps(m, own, w, o, U \ {n})
  BY DEF Changed, Rewritten
<1>2. /\ t \in [Keys -> Data \cup {NotFound}]
      /\ \A x \in U : m.key[x] \in Keys /\ t[m.key[x]] \in Data /\ Holds(m, own, x, t[m.key[x]])
      /\ \A x, y \in U : m.key[x] = m.key[y] => x = y
      /\ \A j \in Keys : t[j] # NotFound => \E x \in U : m.key[x] = j
  BY DEF Content
<1>3. u \in [Keys -> Data \cup {NotFound}] /\ u[k] = d /\ \A j \in Keys \ {k} : u[j] = t[j]
  BY <1>2
<1>4. \A x \in U : w.key[x] = m.key[x]
  BY <1>1 DEF Keeps
<1>5. \A x \in U \ {n} : Holds(w, o, x, t[m.key[x]]) /\ m.key[x] # k
  <2>1. \A x \in U \ {n} : Holds(w, o, x, t[m.key[x]])
    BY <1>1, <1>2 DEF Keeps
  <2>2. \A x \in U \ {n} : m.key[x] # k
    BY <1>2
  <2>3. QED
    BY <2>1, <2>2
<1> HIDE DEF U, u
<1>6. ASSUME NEW x \in U
      PROVE  w.key[x] \in Keys /\ u[w.key[x]] \in Data /\ Holds(w, o, x, u[w.key[x]])
  BY <1>1, <1>2, <1>3, <1>4, <1>5
<1>7. ASSUME NEW x \in U, NEW y \in U, w.key[x] = w.key[y] PROVE x = y
  BY <1>2, <1>4, <1>7
<1>8. ASSUME NEW j \in Keys, u[j] # NotFound PROVE \E x \in U : w.key[x] = j
  <2>1. CASE j = k
    BY <1>4, <2>1 DEF U
  <2>2. CASE j # k
    BY <1>2, <1>3, <1>4, <1>8, <2>2
  <2>3. QED
    BY <2>1, <2>2
<1>9. QED
  BY <1>1, <1>3, <1>6, <1>7, <1>8 DEF Content, u

LEMMA ContentRemoved ==
  ASSUME NEW m, NEW place, NEW own, NEW t, Content(m, place, own, t),
         NEW k \in Keys, NEW n \in Used(place), m.key[n] = k,
         NEW w, NEW p, NEW o, Removed(m, place, own, w, p, o, n)
  PROVE  Content(w, p, o, [t EXCEPT ![k] = NotFound])
<1> DEFINE U == Used(place)
           u == [t EXCEPT ![k] = NotFound]
           R == U \ {n}
<1>1. Used(p) = R /\ Keeps(m, own, w, o, R)
  BY DEF Removed
<1>2. /\ t \in [Keys -> Data \cup {NotFound}]
      /\ \A x \in U : m.key[x] \in Keys /\ t[m.key[x]] \in Data /\ Holds(m, own, x, t[m.key[x]])
      /\ \A x, y \in U : m.key[x] = m.key[y] => x = y
      /\ \A j \in Keys : t[j] # NotFound => \E x \in U : m.key[x] = j
  BY DEF Content
<1>3. /\ u \in [Keys -> Data \cup {NotFound}] /\ u[k] = NotFound
      /\ \A j \in Keys \ {k} : u[j] = t[j]
  BY <1>2
<1>4. \A x \in R : w.key[x] = m.key[x] /\ Holds(w, o, x, t[m.key[x]])
  BY <1>1, <1>2 DEF Keeps
<1>5. \A x \in R : m.key[x] # k
  BY <1>2
<1>6. \A j \in Keys \ {k} : u[j] # NotFound => \E x \in R : m.key[x] = j
  BY <1>2, <1>3
<1>7. \A x \in R : x \in U
  OBVIOUS
<1> HIDE DEF U, u, R
<1>8. ASSUME NEW x \in R
      PROVE  w.key[x] \in Keys /\ u[w.key[x]] \in Data /\ Holds(w, o, x, u[w.key[x]])
  BY <1>2, <1>3, <1>4, <1>5, <1>7
<1>9. ASSUME NEW x \in R, NEW y \in R, w.key[x] = w.key[y] PROVE x = y
  BY <1>2, <1>4, <1>7, <1>9
<1>10. ASSUME NEW j \in Keys, u[j] # NotFound PROVE \E x \in R : w.key[x] = j
  BY <1>3, <1>4, <1>6, <1>10
<1>11. QED
  BY <1>1, <1>3, <1>8, <1>9, <1>10 DEF Content, u

-----------------------------------------------------------------------------
(***************************************************************************)
(* What fits                                                               *)
(***************************************************************************)

HeldKeys(t) == {k \in Keys : t[k] # NotFound}
Sizes(t) == [k \in HeldKeys(t) |-> record_chunks(t[k])]

\* There is one node in use for each key in the table, and a free one if not all
\* are in use.
LEMMA KeysHeld ==
  ASSUME NEW m, NEW place, NEW own, WholeBy(m, place, own), NEW t, Content(m, place, own, t)
  PROVE  /\ IsFiniteSet(HeldKeys(t)) /\ Cardinality(HeldKeys(t)) \in Nat
         /\ Cardinality(HeldKeys(t)) <= NodeTotal
         /\ m.map.free_list = INVALID <=> Cardinality(HeldKeys(t)) = NodeTotal
<1> DEFINE U == Used(place)
           F == Of(place, FREE)
           H == HeldKeys(t)
           f == [n \in U |-> m.key[n]]
<1>1. /\ place \in [Nodes -> Buckets \cup {FREE, HELD}] /\ Of(place, HELD) = {}
      /\ ListOf(m.node_next, m.map.free_list, F, Nodes)
  BY DEF WholeBy, NodesOK
<1>2. U \in SUBSET Nodes /\ (F = {} <=> U = Nodes)
  BY <1>1, Places DEF Used, Of
<1>3. /\ \A n \in U : m.key[n] \in Keys /\ t[m.key[n]] \in Data
      /\ \A n, x \in U : m.key[n] = m.key[x] => n = x
      /\ \A k \in Keys : t[k] # NotFound => \E n \in U : m.key[n] = k
  BY DEF Content
<1>4. \A n \in U : m.key[n] \in H
  BY <1>3, ShmAssumption DEF HeldKeys
<1>5. \A k \in H : \E n \in U : m.key[n] = k
  BY <1>3 DEF HeldKeys
<1> HIDE DEF U, H
<1>6. f \in Bijection(U, H)
  <2>1. f \in [U -> H]
    BY <1>4
  <2>2. \A k \in H : \E n \in U : f[n] = k
    BY <1>5
  <2>3. \A n, x \in U : f[n] = f[x] => n = x
    BY <1>3
  <2> HIDE DEF f
  <2>4. QED
    BY <2>1, <2>2, <2>3 DEF Bijection, Injection, Surjection, IsInjective
<1>7. IsFiniteSet(U) /\ Cardinality(U) <= NodeTotal /\ (Cardinality(U) = NodeTotal <=> U = Nodes)
  BY <1>2, NodesFinite, FS_Subset
<1>8. IsFiniteSet(H) /\ Cardinality(H) = Cardinality(U)
  <2>1. ExistsBijection(U, H)
    BY <1>6 DEF ExistsBijection
  <2>2. QED
    BY <1>7, <2>1, FS_Bijection
<1>9. m.map.free_list = INVALID <=> F = {}
  <2> DEFINE next == m.node_next
             h == m.map.free_list
  <2>1. ListOf(next, h, F, Nodes)
    BY <1>1
  <2> HIDE DEF next, h, F
  <2>2. h = INVALID <=> F = {}
    BY <2>1, ListIs, NodesFinite
  <2>3. QED
    BY <2>2 DEF h
<1>10. Cardinality(H) \in Nat
  BY <1>8, FS_CardinalityType
<1>11. QED
  BY <1>2, <1>7, <1>8, <1>9, <1>10 DEF H

\* The chunks that are not free are those that the records need.
LEMMA SizesHeld ==
  ASSUME NEW m \in Mems, NEW place, NEW own, WholeBy(m, place, own),
         NEW t, Content(m, place, own, t)
  PROVE  /\ Sizes(t) \in [HeldKeys(t) -> Nat]
         /\ \A k \in HeldKeys(t) :
              Sizes(t)[k] = get_chunk_num(m.chunk_len[node_of(m, k)])
         /\ m.chunk.free_total \in Nat
         /\ SumFunction(Sizes(t)) = ChunkTotal - m.chunk.free_total
<1> DEFINE H == HeldKeys(t)
           f == Sizes(t)
           nd(k) == node_of(m, k)
           O == [k \in H |-> Of(own, nd(k))]
           F == Of(own, FREE)
<1>1. /\ own \in [ChunkNodes -> Nodes \cup {FREE}] /\ m.chunk.free_total = Cardinality(F)
      /\ OwnersOK(m, own, Used(place)) /\ ChunksOK(m, own)
  BY DEF WholeBy, ChunksOK
<1>2. \A k \in H : k \in Keys /\ t[k] # NotFound
  BY DEF HeldKeys
<1>3. ASSUME NEW k \in H PROVE nd(k) \in Used(place) /\ m.key[nd(k)] = k
  BY <1>2, RecordFound
<1>4. ASSUME NEW k \in H
      PROVE  /\ f[k] = get_chunk_num(m.chunk_len[nd(k)]) /\ f[k] \in Nat
             /\ Cardinality(Of(own, nd(k))) = f[k]
  <2> DEFINE n == nd(k)
  <2>1. n \in Used(place) /\ m.key[n] = k
    BY <1>3
  <2> HIDE DEF n
  <2>2. Holds(m, own, n, t[k]) /\ t[k] \in Data
    BY <2>1 DEF Content
  <2>3. m.chunk_len[n] = DataLen(t[k]) /\ DataLen(t[k]) \in Nat
    BY <2>2, ShmAssumption DEF Holds
  <2>4. Cardinality(Of(own, n)) = get_chunk_num(m.chunk_len[n])
    BY <1>1, <2>1 DEF OwnersOK, OwnerOK
  <2>5. f[k] = get_chunk_num(DataLen(t[k]))
    BY DEF Sizes, record_chunks
  <2>6. QED
    BY <2>3, <2>4, <2>5, ChunkNumber DEF n
<1>5. IsFiniteSet(H)
  BY KeysHeld
<1>6. \A v : Of(own, v) \in SUBSET ChunkNodes /\ IsFiniteSet(Of(own, v))
  <2>1. \A v : Of(own, v) \in SUBSET ChunkNodes
    BY <1>1 DEF Of
  <2>2. QED
    BY <2>1, ChunksFinite, FS_Subset
<1>7. \A k \in H : IsFiniteSet(O[k]) /\ Cardinality(O[k]) = f[k]
  BY <1>4, <1>6
<1>8. ASSUME NEW k \in H, NEW j \in H, k # j PROVE O[k] \cap O[j] = {}
  <2>1. nd(k) # nd(j)
    BY <1>3, <1>8
  <2>2. Of(own, nd(k)) \cap Of(own, nd(j)) = {}
    BY <2>1 DEF Of
  <2>3. QED
    BY <2>2
<1>9. Cover(O, H) = ChunkNodes \ F
  <2>1. ASSUME NEW c \in Cover(O, H) PROVE c \in ChunkNodes \ F
    <3>1. PICK k \in H : c \in Of(own, nd(k))
      BY DEF Cover
    <3>2. nd(k) \in Nodes
      BY <1>3 DEF Used
    <3>3. own[c] = nd(k) /\ c \in ChunkNodes
      BY <1>1, <3>1 DEF Of
    <3>4. QED
      BY <3>2, <3>3, Places DEF Of
  <2>2. ASSUME NEW c \in ChunkNodes \ F PROVE c \in Cover(O, H)
    <3> DEFINE n == own[c]
    <3>1. n \in Nodes /\ c \in Of(own, n)
      BY <1>1 DEF Of
    <3> HIDE DEF n
    <3>2. n \in Used(place)
      BY <1>1, <3>1 DEF OwnersOK
    <3>3. m.key[n] \in H
      BY <3>2, ShmAssumption DEF Content, HeldKeys
    <3>4. nd(m.key[n]) = n
      <4>1. nd(m.key[n]) \in Used(place) /\ m.key[nd(m.key[n])] = m.key[n]
        BY <1>3, <3>3
      <4>2. QED
        BY <3>2, <4>1 DEF Content
    <3>5. c \in O[m.key[n]]
      BY <3>1, <3>3, <3>4
    <3> HIDE DEF O, H
    <3>6. QED
      BY <3>3, <3>5 DEF Cover
  <2> HIDE DEF O, H, F
  <2>3. QED
    BY <2>1, <2>2
<1>10. f \in [H -> Nat] /\ f \in [H -> Int]
  <2>1. f = [k \in H |-> record_chunks(t[k])]
    BY DEF Sizes
  <2> HIDE DEF f, H
  <2>2. QED
    BY <1>4, <2>1
<1>11. Cardinality(ChunkNodes \ F) = ChunkTotal - Cardinality(F) /\ Cardinality(F) \in Nat
  <2>1. F \in SUBSET ChunkNodes /\ IsFiniteSet(F)
    BY <1>6
  <2> HIDE DEF F
  <2>2. Cardinality(ChunkNodes \ F) = Cardinality(ChunkNodes) - Cardinality(ChunkNodes \cap F)
    BY ChunksFinite, FS_Difference
  <2>3. ChunkNodes \cap F = F
    BY <2>1
  <2>4. QED
    BY <2>1, <2>2, <2>3, ChunksFinite, FS_CardinalityType
<1> HIDE DEF O, f
<1>12. SumFunction(f) = Cardinality(Cover(O, H))
  <2> HIDE DEF H
  <2>1. QED
    BY <1>5, <1>7, <1>8, <1>10, SumCounts
<1>13. QED
  BY <1>1, <1>4, <1>9, <1>10, <1>11, <1>12 DEF f

\* A record is refused exactly when the table with it would not fit: there is no node
\* left for a new key, or its chunks are more than those that are free and those that
\* its key has now.
LEMMA RefusedIs ==
  ASSUME NEW m \in Mems, NEW place, NEW own, WholeBy(m, place, own),
         NEW t, Content(m, place, own, t), NEW k \in Keys, NEW d \in Data,
         NEW u, u = [t EXCEPT ![k] = d]
  PROVE  StoreFails(m, k, d) <=> ~ /\ Cardinality(HeldKeys(u)) <= NodeTotal
                                   /\ SumFunction(Sizes(u)) <= ChunkTotal
<1> DEFINE H == HeldKeys(t)
           G == HeldKeys(u)
           num == record_chunks(d)
           spare == m.chunk.free_total
           n == node_of(m, k)
           rest == [x \in G \ {k} |-> Sizes(u)[x]]
<1>1. /\ t \in [Keys -> Data \cup {NotFound}] /\ u \in [Keys -> Data \cup {NotFound}]
      /\ u[k] = d /\ d # NotFound /\ \A x \in Keys \ {k} : u[x] = t[x]
  BY ShmAssumption DEF Content
<1>2. G = H \cup {k} /\ k \in G
  BY <1>1 DEF HeldKeys
<1>3. /\ IsFiniteSet(H) /\ Cardinality(H) \in Nat /\ Cardinality(H) <= NodeTotal
      /\ (m.map.free_list = INVALID <=> Cardinality(H) = NodeTotal) /\ NodeTotal \in Nat
  BY KeysHeld, NodesFinite
<1>4. /\ Sizes(t) \in [H -> Nat] /\ spare \in Nat /\ ChunkTotal \in Nat
      /\ SumFunction(Sizes(t)) = ChunkTotal - spare
      /\ \A x \in H : Sizes(t)[x] = get_chunk_num(m.chunk_len[node_of(m, x)])
  BY SizesHeld, ChunksFinite
<1>5. num \in Nat /\ num = get_chunk_num(DataLen(d))
  BY ShmAssumption, ChunkNumber DEF record_chunks
<1>6. (n = INVALID <=> t[k] = NotFound)
  BY RecordFound
<1>7. Sizes(u) \in [G -> Nat] /\ Sizes(u)[k] = num /\ \A x \in G \ {k} : Sizes(u)[x] = Sizes(t)[x]
  <2>1. \A x \in G : Sizes(u)[x] = record_chunks(u[x])
    BY DEF Sizes
  <2>2. \A x \in H : Sizes(t)[x] = record_chunks(t[x])
    BY DEF Sizes
  <2>3. \A x \in G \ {k} : x \in H /\ x \in Keys \ {k}
    BY <1>2 DEF HeldKeys
  <2>4. \A x \in G \ {k} : Sizes(u)[x] = Sizes(t)[x]
    BY <1>1, <2>1, <2>2, <2>3
  <2>5. Sizes(u)[k] = num
    BY <1>1, <1>2, <2>1
  <2>6. Sizes(u) = [x \in G |-> Sizes(u)[x]]
    BY DEF Sizes
  <2> HIDE DEF G, H, num
  <2>7. \A x \in G : Sizes(u)[x] \in Nat
    BY <1>4, <1>5, <2>3, <2>4, <2>5
  <2>8. QED
    BY <2>4, <2>5, <2>6, <2>7
<1> HIDE DEF H, G, num, spare, n
<1>8. IsFiniteSet(G) /\ Cardinality(G) = IF k \in H THEN Cardinality(H) ELSE Cardinality(H) + 1
  BY <1>2, <1>3, FS_AddElement
<1>9. /\ SumFunction(Sizes(u)) = num + SumFunction(rest)
      /\ SumFunction(Sizes(u)) \in Nat /\ SumFunction(rest) \in Nat
  <2> DEFINE f == Sizes(u)
  <2>1. f \in [G -> Nat] /\ f[k] = num /\ rest = [x \in G \ {k} |-> f[x]]
    BY <1>7
  <2> HIDE DEF f, rest
  <2>2. SumFunction(f) = f[k] + SumFunction(rest) /\ SumFunction(f) \in Nat /\ SumFunction(rest) \in Nat
    BY <1>2, <1>8, <2>1, SumWithout
  <2>3. QED
    BY <2>1, <2>2 DEF f
<1>10. CASE n = INVALID
  <2>1. k \notin H /\ G \ {k} = H
    BY <1>2, <1>6, <1>10 DEF HeldKeys, H
  <2>2. rest = Sizes(t)
    <3>1. \A x \in H : rest[x] = Sizes(t)[x]
      BY <1>7, <2>1
    <3>2. rest = [x \in H |-> rest[x]] /\ Sizes(t) = [x \in H |-> Sizes(t)[x]]
      BY <1>4, <2>1
    <3> HIDE DEF rest
    <3>3. QED
      BY <3>1, <3>2
  <2>3. StoreFails(m, k, d) <=> Cardinality(H) = NodeTotal \/ spare < num
    BY <1>3, <1>5, <1>10 DEF StoreFails, insert_fails, n, spare
  <2>4. Cardinality(G) <= NodeTotal <=> Cardinality(H) # NodeTotal
    BY <1>3, <1>8, <2>1
  <2>5. SumFunction(Sizes(u)) <= ChunkTotal <=> num <= spare
    <3> DEFINE a == SumFunction(Sizes(u))
    <3>1. a = num + (ChunkTotal - spare)
      BY <1>4, <1>9, <2>2
    <3> HIDE DEF a
    <3>2. a <= ChunkTotal <=> num <= spare
      BY <1>4, <1>5, <3>1
    <3>3. QED
      BY <3>2 DEF a
  <2>6. ~(spare < num) <=> num <= spare
    BY <1>4, <1>5
  <2>7. QED
    BY <2>3, <2>4, <2>5, <2>6 DEF G
<1>11. CASE n # INVALID
  <2> DEFINE old == Sizes(t)[k]
  <2>1. k \in H /\ G = H
    BY <1>2, <1>6, <1>11 DEF HeldKeys, H
  <2>2. /\ SumFunction(Sizes(t)) = old + SumFunction(rest) /\ old \in Nat
    <3> DEFINE f == Sizes(t)
    <3>1. f \in [H -> Nat] /\ \A x \in H \ {k} : rest[x] = f[x]
      BY <1>4, <1>7, <2>1
    <3>2. rest = [x \in H \ {k} |-> rest[x]]
      BY <2>1
    <3> HIDE DEF f, rest
    <3>3. rest = [x \in H \ {k} |-> f[x]]
      BY <3>1, <3>2
    <3>4. SumFunction(f) = f[k] + SumFunction(rest) /\ f[k] \in Nat
      BY <1>3, <2>1, <3>1, <3>3, SumWithout
    <3>5. QED
      BY <3>4 DEF f
  <2>3. StoreFails(m, k, d) <=> spare < num - old
    BY <1>4, <1>5, <1>11, <2>1 DEF StoreFails, update_fails, n, spare
  <2>4. Cardinality(G) <= NodeTotal
    BY <1>3, <2>1
  <2>5. SumFunction(Sizes(u)) <= ChunkTotal <=> num - old <= spare
    <3> DEFINE a == SumFunction(Sizes(u))
               b == SumFunction(rest)
    <3>1. a = num + b /\ b \in Nat /\ ChunkTotal - spare = old + b
      BY <1>4, <1>9, <2>2
    <3> HIDE DEF a, b, old
    <3>2. a <= ChunkTotal <=> num - old <= spare
      BY <1>4, <1>5, <2>2, <3>1
    <3>3. QED
      BY <3>2 DEF a
  <2>6. ~(spare < num - old) <=> num - old <= spare
    BY <1>4, <1>5, <2>2
  <2>7. QED
    BY <2>3, <2>4, <2>5, <2>6 DEF G
<1>12. QED
  BY <1>10, <1>11

-----------------------------------------------------------------------------
LEMMA ZeroPoolType == ZeroPool \in Mems
<1>1. \A S : [x \in S |-> 0] \in [S -> Int]
  OBVIOUS
<1>2. [c \in ChunkNodes |-> <<>>] \in [ChunkNodes -> PieceSet]
  BY DEF PieceSet
<1>3. [node_total |-> 0, used_node_num |-> 0, used_bucket_num |-> 0,
       add_head |-> 0, add_tail |-> 0, free_list |-> 0] \in Maps
  BY DEF Maps
<1>4. [chunk_total |-> 0, free_total |-> 0, free_list |-> 0] \in ChunkHeads
  BY DEF ChunkHeads
<1>5. QED
  BY <1>1, <1>2, <1>3, <1>4 DEF ZeroPool, Scrap, Mems

\* The pool is whole and holds table t.
Holding(m, t) ==
  m \in Mems /\ \E place, own : WholeBy(m, place, own) /\ Content(m, place, own, t)

LEMMA HoldingIs ==
  ASSUME NEW m, NEW t, Holding(m, t)
  PROVE  /\ Whole(m) /\ [k \in Keys |-> Lookup(m, k)] = t /\ t \in [Keys -> Data \cup {NotFound}]
         /\ \A k \in Keys : node_of(m, k) = INVALID <=> t[k] = NotFound
<1>1. PICK place, own : WholeBy(m, place, own) /\ Content(m, place, own, t)
  BY DEF Holding
<1>2. m \in Mems /\ Whole(m) /\ t \in [Keys -> Data \cup {NotFound}]
  BY <1>1 DEF Holding, Whole, Content
<1>3. \A k \in Keys : Lookup(m, k) = t[k] /\ (node_of(m, k) = INVALID <=> t[k] = NotFound)
  BY <1>1, <1>2, RecordFound
<1>4. [k \in Keys |-> Lookup(m, k)] = t
  BY <1>2, <1>3
<1>5. QED
  BY <1>2, <1>3, <1>4

LEMMA EmptyHolding ==
  ASSUME NEW m \in Mems, EmptyPool(m)
  PROVE  Holding(m, [k \in Keys |-> NotFound])
<1>1. PICK place, own : WholeBy(m, place, own) /\ Used(place) = {}
  BY DEF EmptyPool
<1>2. Content(m, place, own, [k \in Keys |-> NotFound])
  BY <1>1 DEF Content
<1>3. QED
  BY <1>1, <1>2 DEF Holding

\* What a store of d under k leaves, given whether the table has room for it.
AfterStore(t, k, d) ==
  LET u == [t EXCEPT ![k] = d]
  IN  IF /\ Cardinality(HeldKeys(u)) <= NodeTotal
         /\ SumFunction(Sizes(u)) <= ChunkTotal
      THEN u ELSE t

\* Every call leaves the table it should.
LEMMA CallsHold ==
  ASSUME NEW m, NEW t, Holding(m, t), NEW k \in Keys
  PROVE  /\ Holding(Last(find_node(<<m>>, k)), t)
         /\ \A d \in Data : Holding(Last(replace_node(<<m>>, k, d)), AfterStore(t, k, d))
         /\ node_of(m, k) # INVALID =>
              Holding(Last(delete_node(find_node(<<m>>, k), node_of(m, k))),
                      [t EXCEPT ![k] = NotFound])
<1>1. PICK place, own : WholeBy(m, place, own) /\ Content(m, place, own, t)
  BY DEF Holding
<1>2. m \in Mems /\ k \in Int /\ Ends(<<m>>, m) /\ Last(<<m>>) = m
  BY OneEnds, EndsIs, ShmAssumption DEF Holding
<1>3. \A r, w, p, o, u : Ends(r, w) /\ WholeBy(w, p, o) /\ Content(w, p, o, u) => Holding(Last(r), u)
  BY EndsIs DEF Holding
<1> DEFINE r1 == find_node(<<m>>, k)
           n == node_of(m, k)
<1>4. PICK w1 : Ends(r1, w1) /\ WholeBy(w1, place, own) /\ AddStep(m, w1)
  BY <1>1, <1>2, NodeLookedUp
<1>5. Content(w1, place, own, t)
  <2>1. AllKept(m, place, own, w1, place, own)
    BY <1>4, StepKeepsAll DEF AddStep, AllKept
  <2>2. QED
    BY <1>1, <2>1, ContentKept
<1> HIDE DEF r1, n
<1>6. Holding(Last(r1), t)
  BY <1>3, <1>4, <1>5
<1>7. ASSUME NEW d \in Data PROVE Holding(Last(replace_node(<<m>>, k, d)), AfterStore(t, k, d))
  <2> DEFINE r == replace_node(<<m>>, k, d)
             u == [t EXCEPT ![k] = d]
  <2>1. PICK w, p, o : /\ Ends(r, w) /\ WholeBy(w, p, o)
                       /\ Replaced(m, place, own, w, p, o, k, d)
    BY <1>1, <1>2, RecordReplaced
  <2>2. AfterStore(t, k, d) = IF StoreFails(m, k, d) THEN t ELSE u
    BY <1>1, <1>2, RefusedIs DEF AfterStore
  <2> HIDE DEF r, u
  <2>3. CASE StoreFails(m, k, d)
    <3>1. Content(w, p, o, t)
      BY <1>1, <2>1, <2>3, ContentKept DEF Replaced
    <3>2. QED
      BY <1>3, <2>1, <2>2, <2>3, <3>1 DEF r
  <2>4. CASE ~StoreFails(m, k, d)
    <3>1. CASE n = INVALID
      <4>1. t[k] = NotFound /\ Added(m, place, own, w, p, o, k, d)
        BY <1>1, <1>2, <2>1, <2>4, <3>1, RecordFound DEF Replaced, n
      <4>2. Content(w, p, o, u)
        BY <1>1, <4>1, ContentAdded DEF u
      <4>3. QED
        BY <1>3, <2>1, <2>2, <2>4, <4>2 DEF r
    <3>2. CASE n # INVALID
      <4>1. n \in Used(place) /\ m.key[n] = k /\ Changed(m, place, own, w, p, o, k, d)
        BY <1>1, <1>2, <2>1, <2>4, <3>2, RecordFound DEF Replaced, n
      <4>2. Content(w, p, o, u)
        BY <1>1, <4>1, ContentChanged DEF u, n
      <4>3. QED
        BY <1>3, <2>1, <2>2, <2>4, <4>2 DEF r
    <3>3. QED
      BY <3>1, <3>2
  <2>5. QED
    BY <2>3, <2>4
<1>8. ASSUME n # INVALID PROVE Holding(Last(delete_node(r1, n)), [t EXCEPT ![k] = NotFound])
  <2> DEFINE r == delete_node(r1, n)
             u == [t EXCEPT ![k] = NotFound]
  <2>1. n \in Used(place) /\ m.key[n] = k /\ w1.key = m.key
    BY <1>1, <1>2, <1>4, <1>8, RecordFound DEF n, AddStep
  <2>2. PICK w, p, o : /\ Ends(r, w) /\ WholeBy(w, p, o) /\ Removed(w1, place, own, w, p, o, n)
    BY <1>4, <2>1, RecordDeleted
  <2>3. Content(w, p, o, u)
    BY <1>5, <2>1, <2>2, ContentRemoved
  <2> HIDE DEF r, u
  <2>4. QED
    BY <1>3, <2>2, <2>3 DEF r, u
<1>9. QED
  BY <1>6, <1>7, <1>8 DEF r1, n

\* A process that is not interrupted inside a call works on a pool that holds a table,
\* and leaves one.
PoolInv ==
  /\ pool \in Mems
  /\ status \in {"new", "down", "up"}
  /\ status \in {"down", "up"} => \E t : Holding(pool, t)

\* What the table promises, for the table the pool holds.
LEMMA PromiseIs ==
  ASSUME NEW t
  PROVE  Abstract!Fits(t) <=> /\ Cardinality(HeldKeys(t)) <= NodeTotal
                              /\ SumFunction(Sizes(t)) <= ChunkTotal
<1>1. Abstract!Held(t) = HeldKeys(t)
  BY DEF Abstract!Held, HeldKeys
<1>2. [k \in Abstract!Held(t) |-> record_chunks(t[k])] = Sizes(t)
  BY <1>1 DEF Sizes
<1>3. \A S : Abstract!Cardinality(S) = Cardinality(S)
  BY DEF Cardinality, Abstract!Cardinality
<1>4. \A f : Abstract!SumFunction(f) = SumFunction(f)
  BY DEF SumFunction, Abstract!SumFunction, SumFunctionOnSet, Abstract!SumFunctionOnSet,
         FoldFunction, Abstract!FoldFunction, FoldFunctionOnSet, Abstract!FoldFunctionOnSet,
         MapThenFoldSet, Abstract!MapThenFoldSet
<1>5. QED
  BY <1>1, <1>2, <1>3, <1>4 DEF Abstract!Fits

LEMMA PoolInvInit ==
  ASSUME Init
  PROVE  PoolInv /\ Abstract!Init
<1>1. PoolInv
  BY ZeroPoolType DEF Init, PoolInv
<1>2. Abstract!Init
  BY DEF Init, Abstract!Init, Abstract!Empty, Table
<1>3. QED
  BY <1>1, <1>2

\* A call that leaves table u.
LEMMA CallStep ==
  ASSUME NEW t, Holding(pool, t), NEW run, NEW res, Done(run, res), NEW u, Holding(Last(run), u)
  PROVE  PoolInv' /\ Table = t /\ Table' = u /\ reply' = res
<1>1. pool' = Last(run) /\ status' = status /\ status = "up" /\ reply' = res
  BY DEF Done
<1>2. Holding(pool', u)
  BY <1>1
<1>3. [k \in Keys |-> Lookup(pool, k)] = t
  BY HoldingIs
<1>4. [k \in Keys |-> Lookup(pool', k)] = u
  BY <1>2, HoldingIs
<1>5. Table = t /\ Table' = u
  BY <1>1, <1>3, <1>4 DEF Table
<1>6. PoolInv'
  BY <1>1, <1>2 DEF PoolInv, Holding
<1>7. QED
  BY <1>1, <1>5, <1>6

LEMMA PoolInvStep ==
  ASSUME PoolInv, [Next]_vars
  PROVE  PoolInv' /\ [Abstract!Next]_(Abstract!vars)
<1> DEFINE Goal == PoolInv' /\ [Abstract!Next]_(Abstract!vars)
<1>1. ASSUME NEW k \in Keys, Find(k) PROVE Goal
  <2>1. Done(FindRun(k), FindReply(k)) /\ status = "up"
    BY <1>1 DEF Find, Done
  <2>2. PICK t : Holding(pool, t)
    BY <2>1 DEF PoolInv
  <2>3. Holding(Last(FindRun(k)), t)
    BY <2>2, CallsHold DEF FindRun
  <2>4. PoolInv' /\ Table = t /\ Table' = t /\ reply' = FindReply(k)
    BY <2>1, <2>2, <2>3, CallStep
  <2>5. FindReply(k) = t[k]
    BY <2>2, HoldingIs DEF FindReply
  <2>6. Abstract!Find(k)
    BY <2>4, <2>5 DEF Abstract!Find
  <2>7. QED
    BY <2>4, <2>6 DEF Abstract!Next
<1>2. ASSUME NEW k \in Keys, NEW d \in Data, SetValue(k, d) PROVE Goal
  <2>1. Done(SetValueRun(k, d), SetValueReply(k, d)) /\ status = "up"
    BY <1>2 DEF SetValue, Done
  <2>2. PICK t : Holding(pool, t)
    BY <2>1 DEF PoolInv
  <2> DEFINE u == [t EXCEPT ![k] = d]
  <2>3. Holding(Last(SetValueRun(k, d)), AfterStore(t, k, d))
    BY <2>2, CallsHold DEF SetValueRun
  <2>4. /\ PoolInv' /\ Table = t /\ Table' = AfterStore(t, k, d)
        /\ reply' = SetValueReply(k, d)
    BY <2>1, <2>2, <2>3, CallStep
  <2>5. SetValueReply(k, d) = IF StoreFails(pool, k, d) THEN -1 ELSE 0
    BY DEF SetValueReply, StoreFails
  <2>6. StoreFails(pool, k, d) <=> ~Abstract!Fits(u)
    <3>1. PICK place, own : WholeBy(pool, place, own) /\ Content(pool, place, own, t)
      BY <2>2 DEF Holding
    <3>2. pool \in Mems
      BY DEF PoolInv
    <3> HIDE DEF u
    <3>3. StoreFails(pool, k, d) <=> ~ /\ Cardinality(HeldKeys(u)) <= NodeTotal
                                       /\ SumFunction(Sizes(u)) <= ChunkTotal
      BY <3>1, <3>2, RefusedIs DEF u
    <3>4. QED
      BY <3>3, PromiseIs
  <2>7. AfterStore(t, k, d) = IF Abstract!Fits(u) THEN u ELSE t
    BY PromiseIs DEF AfterStore
  <2>8. Abstract!SetValue(k, d)
    <3>1. CASE Abstract!Fits(u)
      BY <2>4, <2>5, <2>6, <2>7, <3>1 DEF Abstract!SetValue
    <3>2. CASE ~Abstract!Fits(u)
      BY <2>4, <2>5, <2>6, <2>7, <3>2 DEF Abstract!SetValue
    <3>3. QED
      BY <3>1, <3>2
  <2>9. QED
    BY <2>4, <2>8 DEF Abstract!Next
<1>3. ASSUME NEW k \in Keys, Delete(k) PROVE Goal
  <2>1. Done(DeleteRun(k), DeleteReply(k)) /\ status = "up"
    BY <1>3 DEF Delete, Done
  <2>2. PICK t : Holding(pool, t)
    BY <2>1 DEF PoolInv
  <2> DEFINE u == [t EXCEPT ![k] = NotFound]
  <2>3. /\ t \in [Keys -> Data \cup {NotFound}]
        /\ node_of(pool, k) = INVALID <=> t[k] = NotFound
    BY <2>2, HoldingIs
  <2>4. Holding(Last(DeleteRun(k)), u)
    <3>1. CASE node_of(pool, k) = INVALID
      <4>1. DeleteRun(k) = <<pool>> /\ Last(<<pool>>) = pool
        BY <3>1, OneEnds, EndsIs DEF DeleteRun, PoolInv
      <4>2. u = t
        BY <2>3, <3>1
      <4>3. QED
        BY <2>2, <4>1, <4>2
    <3>2. CASE node_of(pool, k) # INVALID
      <4>1. DeleteRun(k) = delete_node(find_node(<<pool>>, k), node_of(pool, k))
        BY <3>2 DEF DeleteRun
      <4>2. QED
        BY <2>2, <3>2, <4>1, CallsHold
    <3>3. QED
      BY <3>1, <3>2
  <2> HIDE DEF u
  <2>5. PoolInv' /\ Table = t /\ Table' = u /\ reply' = DeleteReply(k)
    BY <2>1, <2>2, <2>4, CallStep
  <2>6. Abstract!Delete(k)
    BY <2>3, <2>5 DEF Abstract!Delete, DeleteReply, u
  <2>7. QED
    BY <2>5, <2>6 DEF Abstract!Next
<1>4. ASSUME NEW flag \in BOOLEAN, Start(flag) PROVE Goal
  <2> DEFINE none == [k \in Keys |-> NotFound]
  <2>1. CASE flag
    <3>1. PICK w : Ends(open_init(<<pool>>), w) /\ EmptyPool(w)
      BY OneEnds, PoolOpened DEF PoolInv
    <3>2. pool' = w /\ w \in Mems /\ reply' = reply
      BY <1>4, <2>1, <3>1, EndsIs DEF Start
    <3>3. Holding(pool', none)
      BY <3>1, <3>2, EmptyHolding
    <3> HIDE DEF none
    <3>4. Sound(pool') /\ [k \in Keys |-> Lookup(pool', k)] = none
      BY <3>3, HoldingIs, WholeIsSound
    <3>5. status' = "up"
      BY <1>4, <2>1, <3>4 DEF Start
    <3>6. PoolInv'
      BY <3>2, <3>3, <3>5 DEF PoolInv
    <3>7. Table' = none
      BY <3>4, <3>5 DEF Table
    <3>8. Abstract!Format
      BY <3>2, <3>7 DEF Abstract!Format, Abstract!Empty, none
    <3>9. QED
      BY <3>6, <3>8 DEF Abstract!Next
  <2>2. CASE ~flag
    <3>1. status = "down" /\ pool' = pool /\ reply' = reply
      BY <1>4, <2>2 DEF Start
    <3>2. PICK t : Holding(pool, t)
      BY <3>1 DEF PoolInv
    <3>3. open_verify(pool) /\ Sound(pool')
      BY <3>1, <3>2, HoldingIs, WholeIsSound
    <3>4. status' = "up"
      BY <1>4, <2>2, <3>3 DEF Start
    <3>5. PoolInv' /\ Table' = Table
      BY <3>1, <3>2, <3>4 DEF PoolInv, Table
    <3>6. QED
      BY <3>1, <3>5 DEF Abstract!vars
  <2>3. QED
    BY <2>1, <2>2
<1>5. ASSUME Stop PROVE Goal
  <2>1. status = "up" /\ status' = "down" /\ pool' = pool /\ reply' = reply
    BY <1>5 DEF Stop
  <2>2. QED
    BY <2>1 DEF PoolInv, Table, Abstract!vars
<1>6. ASSUME UNCHANGED vars PROVE Goal
  BY <1>6 DEF vars, PoolInv, Table, Abstract!vars
<1> HIDE DEF Goal
<1>7. Goal
  BY <1>1, <1>2, <1>3, <1>4, <1>5, <1>6 DEF Next, Call, Life
<1>8. QED
  BY <1>7 DEF Goal

LEMMA PoolInvAlways == Spec => []PoolInv
<1>1. Init => PoolInv
  BY PoolInvInit
<1>2. PoolInv /\ [Next]_vars => PoolInv'
  BY PoolInvStep
<1>3. QED
  BY <1>1, <1>2, PTL DEF Spec

\* Nodes, add list, chunks and counters agree after every call of a process that is
\* not interrupted inside one, and the next start accepts what it leaves: find_node,
\* insert_node, update_node, delete_node, free_node and init_pool_data of CHashMap and
\* malloc and free of CChunkAllocator, for tables of every size.
THEOREM PoolSoundAlways == Spec => []PoolSound
<1>1. PoolInv => PoolSound
  <2>1. ASSUME PoolInv PROVE PoolSound
    <3>1. status \in {"up", "down"} => Sound(pool) /\ open_verify(pool)
      BY <2>1, HoldingIs, WholeIsSound DEF PoolInv
    <3>2. status \notin {"refused", "damaged"}
      BY <2>1 DEF PoolInv
    <3>3. QED
      BY <3>1, <3>2 DEF PoolSound
  <2>2. QED
    BY <2>1
<1>2. QED
  BY <1>1, PoolInvAlways, PTL

\* The calls of CShmHashMap, through find_node, replace_node and delete_node down to
\* the chunks that split writes and merge reads, implement a map from keys to records:
\* a lookup returns what was stored last, a record is refused exactly when the node or
\* the chunks for it are missing, and a start keeps every record or none.
THEOREM ImplementsTableAlways == Spec => ImplementsTable
<1>1. Init => Abstract!Init
  BY PoolInvInit
<1>2. PoolInv /\ [Next]_vars => [Abstract!Next]_(Abstract!vars)
  BY PoolInvStep
<1>3. Spec => Abstract!Spec
  BY <1>1, <1>2, PoolInvAlways, PTL DEF Spec, Abstract!Spec
<1>4. QED
  BY <1>3 DEF ImplementsTable

=============================================================================
