---------------------------- MODULE RawCacheProofs ----------------------------
(***************************************************************************)
(* The buffers share their pool soundly and are queues of bytes, for any   *)
(* number of buffers, all block sizes and all limits of the pool.  First   *)
(* what the methods of CMemPool do to a pool: a block is in use or free,   *)
(* the pool knows the size of all its blocks, and no purge touches a block *)
(* in use; then the buffers that share it.                                 *)
(***************************************************************************)
EXTENDS RawCache, ProofBasics

-----------------------------------------------------------------------------
(***************************************************************************)
(* The pool                                                                *)
(***************************************************************************)

Blocks == Nat \ {0}

Pools == [free : [BlockSizes -> SUBSET Blocks], stub : [BlockSizes -> SUBSET Blocks],
          allocated : Nat, mark : Nat]

\* The free blocks are among all blocks of their size, and allocated counts the
\* bytes of all blocks.
PoolOK(p) ==
  /\ p \in Pools
  /\ \A z \in BlockSizes : IsFiniteSet(p.stub[z]) /\ p.free[z] \subseteq p.stub[z]
  /\ IsFiniteSet(Bytes(p.stub))
  /\ p.allocated = Cardinality(Bytes(p.stub))

\* The blocks of a size that somebody holds.
InUse(p, z) == p.stub[z] \ p.free[z]

\* The pool q has the same blocks in use as p.
SameUse(p, q) == \A z \in BlockSizes : InUse(q, z) = InUse(p, z)

-----------------------------------------------------------------------------
(***************************************************************************)
(* Sizes                                                                   *)
(***************************************************************************)

LEMMA SizeType == Size \in [0..MaxOrder -> Nat \ {0}]
<1> DEFINE S == Nat \ {0}
           F == [k \in 1..MaxOrder |-> [x \in S |-> 2 * x]]
<1>1. BlockUnit \in S /\ F \in [1..MaxOrder -> [S -> S]] /\ MaxOrder \in Nat
  BY MemPoolAssumption
<1>2. PICK f \in [0..MaxOrder -> S] :
        f[0] = BlockUnit /\ \A k \in 1..MaxOrder : f[k] = F[k][f[k - 1]]
  <2>1. IsLoop(MaxOrder, S, BlockUnit, F)
    BY <1>1 DEF IsLoop
  <2> HIDE DEF F, S
  <2>2. QED
    BY <2>1, LoopExists
<1>3. f = [k \in 0..MaxOrder |-> IF k = 0 THEN BlockUnit ELSE 2 * f[k - 1]]
  <2>1. ASSUME NEW k \in 0..MaxOrder
        PROVE  f[k] = IF k = 0 THEN BlockUnit ELSE 2 * f[k - 1]
    <3>1. CASE k = 0
      BY <1>2, <3>1
    <3>2. CASE k # 0
      <4>1. k \in 1..MaxOrder /\ k - 1 \in 0..MaxOrder
        BY <1>1, <3>2
      <4>2. F[k][f[k - 1]] = 2 * f[k - 1]
        BY <4>1
      <4>3. QED
        BY <1>2, <3>2, <4>1, <4>2
    <3>3. QED
      BY <3>1, <3>2
  <2>2. QED
    BY <2>1
<1>4. Size = [k \in 0..MaxOrder |-> IF k = 0 THEN BlockUnit ELSE 2 * Size[k - 1]]
  BY <1>3 DEF Size
<1> HIDE DEF F
<1>5. Size[0] \in S
  BY <1>1, <1>4
<1>6. ASSUME NEW k \in 1..MaxOrder, Size[k - 1] \in S PROVE Size[k] \in S
  <2>1. Size[k] = 2 * Size[k - 1]
    <3>1. k \in 0..MaxOrder /\ k # 0
      BY <1>1
    <3>2. Size[k] = IF k = 0 THEN BlockUnit ELSE 2 * Size[k - 1]
      BY <1>4, <3>1
    <3>3. QED
      BY <3>1, <3>2
  <2>2. QED
    BY <1>6, <2>1
<1>7. \A k \in 0..MaxOrder : Size[k] \in S
  <2> HIDE DEF S
  <2>1. QED
    BY <1>1, <1>5, <1>6, LoopInvariant
<1>8. QED
  BY <1>4, <1>7

LEMMA SizesPositive ==
  /\ BlockSizes \subseteq Nat \ {0}
  /\ \A k \in 0..MaxOrder : Size[k] \in BlockSizes
BY SizeType DEF BlockSizes

\* A request below the largest block gets a larger block.
LEMMA FitSize ==
  ASSUME NEW size \in Nat, size < Size[MaxOrder]
  PROVE  fit_block_size(size) \in BlockSizes /\ fit_block_size(size) > size
<1> DEFINE T == {z \in BlockSizes : z > size}
<1>1. MaxOrder \in 0..MaxOrder
  BY MemPoolAssumption
<1>2. T \in SUBSET Nat /\ T # {}
  <2>1. Size[MaxOrder] \in T
    BY <1>1, SizesPositive
  <2>2. QED
    BY <2>1, SizesPositive
<1>3. \E m \in T : \A k \in T : m <= k
  <2> HIDE DEF T
  <2>1. QED
    BY <1>2, NatMin
<1>4. Min(T) \in T
  <2> HIDE DEF T
  <2>1. QED
    BY <1>3 DEF Min
<1>5. QED
  BY <1>4 DEF fit_block_size

-----------------------------------------------------------------------------
(***************************************************************************)
(* Sets of blocks                                                          *)
(***************************************************************************)

LEMMA LastBlocks ==
  ASSUME NEW S \in SUBSET Nat, IsFiniteSet(S), NEW n \in 0..Cardinality(S)
  PROVE  LastOf(n, S) \subseteq S /\ Cardinality(LastOf(n, S)) = n
<1> DEFINE Last(m, s) == Cardinality(s) = m /\ \A b \in s, d \in S \ s : b > d
           T == {m \in Nat : m <= Cardinality(S) => \E s \in SUBSET S : Last(m, s)}
<1>1. Cardinality(S) \in Nat
  BY FS_CardinalityType
<1>2. 0 \in T
  <2>1. Last(0, {})
    BY FS_EmptySet
  <2> HIDE DEF Last
  <2>2. QED
    BY <2>1
<1>3. ASSUME NEW m \in T PROVE m + 1 \in T
  <2>1. SUFFICES ASSUME m + 1 <= Cardinality(S) PROVE \E s \in SUBSET S : Last(m + 1, s)
    <3> HIDE DEF Last
    <3>1. QED
      OBVIOUS
  <2>2. PICK s \in SUBSET S : Last(m, s)
    <3> HIDE DEF Last
    <3>1. QED
      BY <1>1, <2>1
  <2>3. IsFiniteSet(s) /\ IsFiniteSet(S \ s) /\ S \ s # {}
    <3>1. IsFiniteSet(s) /\ IsFiniteSet(S \ s)
      BY FS_Subset
    <3>2. s # S
      BY <1>1, <2>1, <2>2
    <3>3. QED
      BY <3>1, <3>2
  <2>4. PICK x \in S \ s : \A k \in S \ s : x >= k
    <3> DEFINE R == S \ s
    <3>1. R \in SUBSET Nat /\ R # {} /\ IsFiniteSet(R)
      BY <2>3
    <3> HIDE DEF R
    <3>2. \E y \in R : \A k \in R : y >= k
      BY <3>1, NatMax
    <3>3. QED
      BY <3>2 DEF R
  <2>5. Cardinality(s \cup {x}) = m + 1
    BY <2>2, <2>3, <2>4, FS_AddElement
  <2>6. \A b \in s \cup {x}, d \in S \ (s \cup {x}) : b > d
    BY <2>2, <2>4
  <2>7. s \cup {x} \in SUBSET S
    BY <2>4
  <2>8. QED
    BY <2>5, <2>6, <2>7
<1>4. T = Nat
  <2> HIDE DEF T
  <2>1. T \in SUBSET Nat
    BY DEF T
  <2>2. QED
    BY <1>2, <1>3, <2>1, SetInduction
<1>5. \E s \in SUBSET S : Last(n, s)
  <2> HIDE DEF Last
  <2>1. QED
    BY <1>1, <1>4
<1>6. QED
  BY <1>5 DEF LastOf

\* The bytes of some blocks of one size.
LEMMA BlockBytes ==
  ASSUME NEW z \in BlockSizes, NEW g, IsFiniteSet(g)
  PROVE  /\ IsFiniteSet({z} \X (g \X (1..z)))
         /\ Cardinality({z} \X (g \X (1..z))) = z * Cardinality(g)
<1>1. z \in Nat \ {0} /\ Cardinality(g) \in Nat
  BY SizesPositive, FS_CardinalityType
<1>2. IsFiniteSet(1..z) /\ Cardinality(1..z) = z
  BY <1>1, FS_Interval
<1>3. IsFiniteSet(g \X (1..z)) /\ Cardinality(g \X (1..z)) = Cardinality(g) * z
  BY <1>2, FS_Product
<1>4. IsFiniteSet({z}) /\ Cardinality({z}) = 1
  BY FS_Singleton
<1>5. /\ IsFiniteSet({z} \X (g \X (1..z)))
      /\ Cardinality({z} \X (g \X (1..z))) = 1 * (Cardinality(g) * z)
  BY <1>3, <1>4, FS_Product
<1>6. QED
  BY <1>1, <1>5

LEMMA BytesRemoved ==
  ASSUME NEW s \in [BlockSizes -> SUBSET Blocks], NEW z \in BlockSizes,
         NEW g \in SUBSET s[z], IsFiniteSet(g), IsFiniteSet(Bytes(s))
  PROVE  LET r == Bytes([s EXCEPT ![z] = @ \ g])
         IN  /\ IsFiniteSet(r)
             /\ Cardinality(r) = Cardinality(Bytes(s)) - z * Cardinality(g)
             /\ z * Cardinality(g) <= Cardinality(Bytes(s))
<1> DEFINE r == Bytes([s EXCEPT ![z] = @ \ g])
           d == {z} \X (g \X (1..z))
<1>1. r = Bytes(s) \ d
  BY DEF Bytes
<1>2. d \subseteq Bytes(s)
  BY DEF Bytes
<1>3. IsFiniteSet(d) /\ Cardinality(d) = z * Cardinality(g)
  BY BlockBytes
<1> HIDE DEF r, d
<1>4. Bytes(s) \cap d = d
  BY <1>2
<1>5. IsFiniteSet(r) /\ Cardinality(r) = Cardinality(Bytes(s)) - Cardinality(d)
  <2> DEFINE B == Bytes(s)
  <2> HIDE DEF B
  <2>1. IsFiniteSet(B)
    BY DEF B
  <2>2. IsFiniteSet(B \ d) /\ Cardinality(B \ d) = Cardinality(B) - Cardinality(B \cap d)
    BY <2>1, FS_Difference
  <2>3. QED
    BY <1>1, <1>4, <2>2 DEF B
<1>6. Cardinality(d) <= Cardinality(Bytes(s))
  BY <1>2, FS_Subset
<1>7. QED
  BY <1>3, <1>5, <1>6 DEF r

LEMMA BytesAdded ==
  ASSUME NEW s \in [BlockSizes -> SUBSET Blocks], NEW z \in BlockSizes,
         NEW g, g \cap s[z] = {}, IsFiniteSet(g), IsFiniteSet(Bytes(s))
  PROVE  LET r == Bytes([s EXCEPT ![z] = @ \cup g])
         IN  /\ IsFiniteSet(r)
             /\ Cardinality(r) = Cardinality(Bytes(s)) + z * Cardinality(g)
<1> DEFINE r == Bytes([s EXCEPT ![z] = @ \cup g])
           d == {z} \X (g \X (1..z))
<1>1. r = Bytes(s) \cup d
  BY DEF Bytes
<1>2. Bytes(s) \cap d = {}
  BY DEF Bytes
<1>3. IsFiniteSet(d) /\ Cardinality(d) = z * Cardinality(g)
  BY BlockBytes
<1>4. Cardinality(Bytes(s)) \in Nat /\ Cardinality(d) \in Nat
  BY <1>3, FS_CardinalityType
<1> HIDE DEF r, d
<1>5. IsFiniteSet(r) /\ Cardinality(r) = Cardinality(Bytes(s)) + Cardinality(d) - 0
  BY <1>1, <1>2, <1>3, FS_Union, FS_EmptySet
<1>6. QED
  BY <1>3, <1>4, <1>5 DEF r

-----------------------------------------------------------------------------
(***************************************************************************)
(* The methods                                                             *)
(***************************************************************************)

LEMMA PoolFields ==
  ASSUME NEW p, PoolOK(p), NEW z \in BlockSizes
  PROVE  /\ p.free \in [BlockSizes -> SUBSET Blocks] /\ p.stub \in [BlockSizes -> SUBSET Blocks]
         /\ p.free[z] \subseteq p.stub[z] /\ p.stub[z] \subseteq Blocks
         /\ IsFiniteSet(p.stub[z]) /\ IsFiniteSet(p.free[z])
         /\ Cardinality(p.free[z]) \in Nat /\ Cardinality(p.stub[z]) \in Nat
         /\ p.allocated \in Nat /\ p.mark \in Nat /\ z \in Nat \ {0}
<1>1. /\ p.free \in [BlockSizes -> SUBSET Blocks] /\ p.stub \in [BlockSizes -> SUBSET Blocks]
      /\ p.allocated \in Nat /\ p.mark \in Nat
  BY DEF PoolOK, Pools
<1>2. IsFiniteSet(p.stub[z]) /\ p.free[z] \subseteq p.stub[z]
  BY DEF PoolOK
<1>3. IsFiniteSet(p.free[z])
  BY <1>2, FS_Subset
<1>4. Cardinality(p.free[z]) \in Nat /\ Cardinality(p.stub[z]) \in Nat
  BY <1>2, <1>3, FS_CardinalityType
<1>5. p.stub[z] \subseteq Blocks /\ z \in Nat \ {0}
  BY <1>1, SizesPositive
<1>6. QED
  BY <1>1, <1>2, <1>3, <1>4, <1>5

\* No more is released than is free, so the loop of release never runs past the
\* end of the list.
LEMMA ReleaseCountBound ==
  ASSUME NEW p, PoolOK(p), NEW z \in BlockSizes
  PROVE  ReleaseCount(p, z) \in 0..Cardinality(p.free[z])
<1> DEFINE free == Cardinality(p.free[z])
<1>1. free \in Nat /\ z \in Nat /\ KeepFree \in Nat /\ Slot2 \in Nat
  BY PoolFields, MemPoolAssumption
<1>2. free \div 2 \in 0..free
  BY <1>1
<1>3. free * z \in Nat
  BY <1>1
<1>4. \/ free * z < KeepFree
      \/ free * z >= KeepFree /\ z > Slot2
      \/ free * z >= KeepFree /\ z <= Slot2
  <2> DEFINE x == free * z
  <2>1. x \in Nat
    BY <1>3
  <2> HIDE DEF x
  <2>2. \/ x < KeepFree
        \/ x >= KeepFree /\ z > Slot2
        \/ x >= KeepFree /\ z <= Slot2
    BY <1>1, <2>1
  <2>3. QED
    BY <2>2 DEF x
<1> HIDE DEF free
<1>5. 0 \in 0..free /\ free \in 0..free
  BY <1>1
<1>6. QED
  BY <1>2, <1>4, <1>5 DEF ReleaseCount, free

LEMMA ReleaseOK ==
  ASSUME NEW p, PoolOK(p), NEW z \in BlockSizes
  PROVE  /\ PoolOK(release(p, z)) /\ SameUse(p, release(p, z))
         /\ release(p, z).allocated <= p.allocated
<1> DEFINE n == ReleaseCount(p, z)
           gone == LastOf(n, p.free[z])
           q == release(p, z)
           stub == [p.stub EXCEPT ![z] = @ \ gone]
           free == [p.free EXCEPT ![z] = @ \ gone]
<1>1. /\ p.free \in [BlockSizes -> SUBSET Blocks] /\ p.stub \in [BlockSizes -> SUBSET Blocks]
      /\ p.free[z] \subseteq p.stub[z] /\ p.stub[z] \subseteq Blocks
      /\ IsFiniteSet(p.stub[z]) /\ IsFiniteSet(p.free[z])
      /\ p.allocated \in Nat /\ z \in Nat \ {0}
  BY PoolFields
<1>2. n \in 0..Cardinality(p.free[z]) /\ n \in Nat
  BY ReleaseCountBound
<1>3. q = [p EXCEPT !.free = free, !.stub = stub, !.allocated = @ - z * n]
  BY DEF release, PoolOK, Pools
<1> HIDE DEF q, n
<1>4. gone \subseteq p.free[z] /\ Cardinality(gone) = n /\ IsFiniteSet(gone)
  <2>1. gone \subseteq p.free[z] /\ Cardinality(gone) = n
    <3> DEFINE S == p.free[z]
    <3>1. S \in SUBSET Nat /\ IsFiniteSet(S) /\ n \in 0..Cardinality(S)
      BY <1>1, <1>2 DEF Blocks
    <3> HIDE DEF S
    <3>2. LastOf(n, S) \subseteq S /\ Cardinality(LastOf(n, S)) = n
      BY <3>1, LastBlocks
    <3>3. QED
      BY <3>2 DEF S
  <2>2. QED
    BY <1>1, <2>1, FS_Subset
<1> HIDE DEF gone
<1>5. /\ IsFiniteSet(Bytes(p.stub)) /\ p.allocated = Cardinality(Bytes(p.stub))
      /\ \A y \in BlockSizes : IsFiniteSet(p.stub[y]) /\ p.free[y] \subseteq p.stub[y]
  BY DEF PoolOK
<1>6. /\ IsFiniteSet(Bytes(stub)) /\ Cardinality(Bytes(stub)) = p.allocated - z * n
      /\ z * n <= p.allocated
  <2> DEFINE s == p.stub
  <2>1. /\ s \in [BlockSizes -> SUBSET Blocks] /\ gone \in SUBSET s[z]
        /\ IsFiniteSet(Bytes(s)) /\ p.allocated = Cardinality(Bytes(s))
    BY <1>1, <1>4, <1>5
  <2> HIDE DEF s
  <2>2. /\ IsFiniteSet(Bytes([s EXCEPT ![z] = @ \ gone]))
        /\ Cardinality(Bytes([s EXCEPT ![z] = @ \ gone]))
             = Cardinality(Bytes(s)) - z * Cardinality(gone)
        /\ z * Cardinality(gone) <= Cardinality(Bytes(s))
    BY <1>4, <2>1, BytesRemoved
  <2>3. QED
    BY <1>4, <2>1, <2>2 DEF s
<1>7. z * n \in Nat /\ p.allocated - z * n \in Nat
  BY <1>1, <1>2, <1>6
<1>8. /\ free \in [BlockSizes -> SUBSET Blocks] /\ stub \in [BlockSizes -> SUBSET Blocks]
      /\ \A y \in BlockSizes : stub[y] \subseteq p.stub[y] /\ free[y] \subseteq stub[y]
      /\ \A y \in BlockSizes : stub[y] \ free[y] = p.stub[y] \ p.free[y]
  BY <1>1, <1>4, <1>5
<1>9. \A y \in BlockSizes : IsFiniteSet(stub[y])
  BY <1>5, <1>8, FS_Subset
<1> HIDE DEF stub, free
<1>10. q \in Pools /\ q.free = free /\ q.stub = stub /\ q.allocated = p.allocated - z * n
  BY <1>3, <1>7, <1>8 DEF PoolOK, Pools
<1>11. PoolOK(q)
  BY <1>6, <1>8, <1>9, <1>10 DEF PoolOK
<1>12. SameUse(p, q)
  BY <1>8, <1>10 DEF SameUse, InUse
<1>13. q.allocated <= p.allocated
  BY <1>1, <1>7, <1>10
<1>14. QED
  BY <1>11, <1>12, <1>13 DEF q

\* The pools that releasing makes of p.
Released(p) == {q \in Pools : PoolOK(q) /\ SameUse(p, q) /\ q.allocated <= p.allocated}

LEMMA ReleasedOK ==
  ASSUME NEW p, PoolOK(p)
  PROVE  /\ p \in Released(p)
         /\ \A m \in Nat, q \in Released(p) : [q EXCEPT !.mark = m] \in Released(p)
         /\ \A q \in Released(p), z \in BlockSizes : release(q, z) \in Released(p)
<1>1. p \in Pools /\ p.allocated \in Nat
  BY DEF PoolOK, Pools
<1>2. p \in Released(p)
  BY <1>1 DEF Released, SameUse
<1>3. ASSUME NEW m \in Nat, NEW q \in Released(p)
      PROVE  [q EXCEPT !.mark = m] \in Released(p)
  <2> DEFINE t == [q EXCEPT !.mark = m]
  <2>1. q \in Pools /\ PoolOK(q) /\ SameUse(p, q) /\ q.allocated <= p.allocated
    BY DEF Released
  <2>2. t \in Pools /\ t.free = q.free /\ t.stub = q.stub /\ t.allocated = q.allocated
    BY <2>1 DEF Pools
  <2> HIDE DEF t
  <2>3. PoolOK(t) /\ SameUse(p, t)
    BY <2>1, <2>2 DEF PoolOK, SameUse, InUse
  <2>4. t \in Released(p)
    BY <2>1, <2>2, <2>3 DEF Released
  <2>5. QED
    BY <2>4 DEF t
<1>4. ASSUME NEW q \in Released(p), NEW z \in BlockSizes
      PROVE  release(q, z) \in Released(p)
  <2>1. q \in Pools /\ PoolOK(q) /\ SameUse(p, q) /\ q.allocated <= p.allocated
    BY DEF Released
  <2>2. /\ PoolOK(release(q, z)) /\ SameUse(q, release(q, z))
        /\ release(q, z).allocated <= q.allocated
    BY <2>1, ReleaseOK
  <2>3. release(q, z) \in Pools /\ release(q, z).allocated \in Nat /\ q.allocated \in Nat
    BY <2>1, <2>2 DEF PoolOK, Pools
  <2>4. SameUse(p, release(q, z))
    BY <2>1, <2>2 DEF SameUse
  <2>5. release(q, z).allocated <= p.allocated
    BY <1>1, <2>1, <2>2, <2>3
  <2>6. QED
    BY <2>2, <2>3, <2>4, <2>5 DEF Released
<1>5. QED
  BY <1>2, <1>3, <1>4

\* A purge releases free blocks only.
LEMMA PurgeOK ==
  ASSUME NEW p, PoolOK(p), NEW m
  PROVE  Purge(p, m) \in Released(p)
<1> DEFINE n == MaxOrder + 1
           S == Released(p)
           a == [p EXCEPT !.mark = AllocCapacity]
           Turn(j, x) == IF p.allocated - x.allocated >= m \/ 2 * Size[MaxOrder + 1 - j] < Slot1
                         THEN x ELSE release(x, Size[MaxOrder + 1 - j])
           F == [j \in 1..n |-> [x \in S |-> Turn(j, x)]]
           g == PurgeLoop(p, m)
<1>1. n \in Nat /\ AllocCapacity \in Nat /\ MaxWaterMark \in Nat
  BY MemPoolAssumption DEF AllocCapacity
<1>2. a \in S
  BY <1>1, ReleasedOK
<1>3. ASSUME NEW j \in 1..n, NEW x \in S PROVE Turn(j, x) \in S
  <2>1. MaxOrder + 1 - j \in 0..MaxOrder
    BY MemPoolAssumption
  <2>2. Size[MaxOrder + 1 - j] \in BlockSizes
    BY <2>1, SizesPositive
  <2>3. QED
    BY <2>2, ReleasedOK
<1> HIDE DEF S, a, n
<1>4. IsLoop(n, S, a, F)
  <2> HIDE DEF Turn
  <2>1. QED
    BY <1>1, <1>2, <1>3 DEF IsLoop
<1>5. PICK f \in [0..n -> S] : f[0] = a /\ \A j \in 1..n : f[j] = F[j][f[j - 1]]
  <2> HIDE DEF F
  <2>1. QED
    BY <1>4, LoopExists
<1>6. f = [j \in 0..n |-> IF j = 0 THEN a ELSE Turn(j, f[j - 1])]
  <2>1. ASSUME NEW j \in 0..n PROVE f[j] = IF j = 0 THEN a ELSE Turn(j, f[j - 1])
    <3>1. CASE j = 0
      BY <1>5, <3>1
    <3>2. CASE j # 0
      <4>1. j \in 1..n /\ j - 1 \in 0..n
        BY <1>1, <3>2
      <4> HIDE DEF Turn
      <4>2. f[j - 1] \in S
        BY <4>1
      <4>3. F[j][f[j - 1]] = Turn(j, f[j - 1])
        BY <4>1, <4>2
      <4> HIDE DEF F
      <4>4. QED
        BY <1>5, <3>2, <4>1, <4>3
    <3>3. QED
      BY <3>1, <3>2
  <2> HIDE DEF Turn
  <2>2. QED
    BY <2>1
<1>7. g = [j \in 0..n |-> IF j = 0 THEN a ELSE Turn(j, g[j - 1])]
  BY <1>6 DEF PurgeLoop, n, a
<1> HIDE DEF g, Turn
<1>8. g[0] \in S
  BY <1>1, <1>2, <1>7
<1>9. ASSUME NEW j \in 1..n, g[j - 1] \in S PROVE g[j] \in S
  <2>1. j \in 0..n /\ j # 0
    BY <1>1
  <2>2. g[j] = Turn(j, g[j - 1])
    BY <1>7, <2>1
  <2>3. QED
    BY <1>3, <1>9, <2>2
<1>10. \A j \in 0..n : g[j] \in S
  BY <1>1, <1>8, <1>9, LoopInvariant
<1>11. g[n] \in S
  BY <1>1, <1>10
<1>12. [g[n] EXCEPT !.mark = MaxWaterMark] \in S
  BY <1>1, <1>11, ReleasedOK DEF S
<1>13. QED
  BY <1>12 DEF Purge, g, n, S

LEMMA FitExtend ==
  ASSUME NEW z \in BlockSizes
  PROVE  fit_extend_set(z) \in Nat
<1>1. /\ z \in Nat \ {0} /\ Slot1 \in Nat \ {0} /\ Slot2 \in Nat \ {0} /\ ExtendSet \in Nat
      /\ AllocCapacity \in Nat
  BY SizesPositive, MemPoolAssumption DEF AllocCapacity
<1>2. AllocCapacity \div z \in Nat
  BY <1>1, DivMod
<1>3. QED
  BY <1>1, <1>2 DEF fit_extend_set

\* The blocks that operator new returns are not among those the pool has.
LEMMA NewBlocksOK ==
  ASSUME NEW p, PoolOK(p), NEW z \in BlockSizes, NEW n \in Nat
  PROVE  LET new == NewBlocks(p, z, n)
         IN  /\ new \subseteq Blocks /\ new \cap p.stub[z] = {}
             /\ IsFiniteSet(new) /\ Cardinality(new) = n
<1> DEFINE used == p.stub[z]
           c == Cardinality(used)
           R == 1..c + n
           S == R \ used
<1>1. IsFiniteSet(used) /\ c \in Nat
  BY PoolFields
<1> HIDE DEF c
<1>2. IsFiniteSet(R) /\ Cardinality(R) = c + n
  <2> DEFINE m == c + n
  <2>1. m \in Nat
    BY <1>1
  <2> HIDE DEF m
  <2>2. IsFiniteSet(1..m) /\ Cardinality(1..m) = m
    BY <2>1, FS_Interval
  <2>3. QED
    BY <2>2 DEF m
<1>3. R \in SUBSET Blocks
  BY <1>1 DEF Blocks
<1> HIDE DEF R, used
<1>4. IsFiniteSet(R \cap used) /\ Cardinality(R \cap used) <= c
  BY <1>1, FS_Subset DEF c
<1>5. IsFiniteSet(S) /\ Cardinality(S) = (c + n) - Cardinality(R \cap used)
  BY <1>2, FS_Difference
<1>6. n \in 0..Cardinality(S)
  <2>1. Cardinality(R \cap used) \in Nat
    BY <1>4, FS_CardinalityType
  <2>2. QED
    BY <1>1, <1>4, <1>5, <2>1
<1>7. S \in SUBSET Nat /\ S \subseteq Blocks /\ S \cap used = {}
  BY <1>3 DEF Blocks
<1> HIDE DEF S
<1>8. LastOf(n, S) \subseteq S /\ Cardinality(LastOf(n, S)) = n
  BY <1>5, <1>6, <1>7, LastBlocks
<1>9. IsFiniteSet(LastOf(n, S))
  BY <1>5, <1>8, FS_Subset
<1>10. NewBlocks(p, z, n) = LastOf(n, S)
  BY DEF NewBlocks, S, R, c, used
<1>11. QED
  BY <1>7, <1>8, <1>9, <1>10 DEF used

\* The pool with more free blocks.
Stocked(p, z, n) ==
  [p EXCEPT !.free[z] = @ \cup NewBlocks(p, z, n), !.stub[z] = @ \cup NewBlocks(p, z, n),
            !.allocated = @ + z * n]

LEMMA StockedOK ==
  ASSUME NEW p, PoolOK(p), NEW z \in BlockSizes, NEW n \in Nat
  PROVE  LET q == Stocked(p, z, n)
         IN  PoolOK(q) /\ SameUse(p, q) /\ q.allocated = p.allocated + z * n
<1> DEFINE new == NewBlocks(p, z, n)
           q == Stocked(p, z, n)
           stub == [p.stub EXCEPT ![z] = @ \cup new]
           free == [p.free EXCEPT ![z] = @ \cup new]
<1>1. /\ p.free \in [BlockSizes -> SUBSET Blocks] /\ p.stub \in [BlockSizes -> SUBSET Blocks]
      /\ p.free[z] \subseteq p.stub[z] /\ p.stub[z] \subseteq Blocks
      /\ IsFiniteSet(p.stub[z]) /\ p.allocated \in Nat /\ z \in Nat \ {0}
  BY PoolFields
<1>2. /\ new \subseteq Blocks /\ new \cap p.stub[z] = {}
      /\ IsFiniteSet(new) /\ Cardinality(new) = n
  BY NewBlocksOK
<1>3. q = [p EXCEPT !.free = free, !.stub = stub, !.allocated = @ + z * n]
  BY DEF Stocked, PoolOK, Pools
<1> HIDE DEF q, new
<1>4. /\ IsFiniteSet(Bytes(p.stub)) /\ p.allocated = Cardinality(Bytes(p.stub))
      /\ \A y \in BlockSizes : IsFiniteSet(p.stub[y]) /\ p.free[y] \subseteq p.stub[y]
  BY DEF PoolOK
<1>5. IsFiniteSet(Bytes(stub)) /\ Cardinality(Bytes(stub)) = p.allocated + z * n
  <2> DEFINE s == p.stub
  <2>1. /\ s \in [BlockSizes -> SUBSET Blocks] /\ new \cap s[z] = {}
        /\ IsFiniteSet(Bytes(s)) /\ p.allocated = Cardinality(Bytes(s))
    BY <1>1, <1>2, <1>4
  <2> HIDE DEF s
  <2>2. /\ IsFiniteSet(Bytes([s EXCEPT ![z] = @ \cup new]))
        /\ Cardinality(Bytes([s EXCEPT ![z] = @ \cup new]))
             = Cardinality(Bytes(s)) + z * Cardinality(new)
    BY <1>2, <2>1, BytesAdded
  <2>3. QED
    BY <1>2, <2>1, <2>2 DEF s
<1>6. z * n \in Nat /\ p.allocated + z * n \in Nat
  BY <1>1
<1>7. /\ free \in [BlockSizes -> SUBSET Blocks] /\ stub \in [BlockSizes -> SUBSET Blocks]
      /\ \A y \in BlockSizes : free[y] \subseteq stub[y]
      /\ \A y \in BlockSizes : stub[y] \ free[y] = p.stub[y] \ p.free[y]
      /\ \A y \in BlockSizes : y # z => stub[y] = p.stub[y]
      /\ stub[z] = p.stub[z] \cup new
  BY <1>1, <1>2, <1>4
<1>8. \A y \in BlockSizes : IsFiniteSet(stub[y])
  <2>1. IsFiniteSet(p.stub[z] \cup new)
    BY <1>1, <1>2, FS_Union
  <2>2. QED
    BY <1>4, <1>7, <2>1
<1> HIDE DEF stub, free
<1>9. q \in Pools /\ q.free = free /\ q.stub = stub /\ q.allocated = p.allocated + z * n
  BY <1>3, <1>6, <1>7 DEF PoolOK, Pools
<1>10. PoolOK(q)
  BY <1>5, <1>7, <1>8, <1>9 DEF PoolOK
<1>11. SameUse(p, q)
  BY <1>7, <1>9 DEF SameUse, InUse
<1>12. QED
  BY <1>9, <1>10, <1>11 DEF q

\* However much is asked for, extend stays within the limit of the pool.
LEMMA ExtendOK ==
  ASSUME NEW p, PoolOK(p), p.allocated <= MaxPoolSize, NEW z \in BlockSizes
  PROVE  LET q == extend(p, z)
         IN  PoolOK(q) /\ SameUse(p, q) /\ q.allocated <= MaxPoolSize
<1> DEFINE n == fit_extend_set(z)
           over == p.allocated + z * n - MaxPoolSize
           purged == IF over >= 0 THEN Purge(p, over) ELSE p
           q == Stocked(purged, z, n)
<1>1. n \in Nat /\ p.allocated \in Nat /\ z \in Nat /\ MaxPoolSize \in Nat
  BY FitExtend, PoolFields, MemPoolAssumption
<1>2. z * n \in Nat
  BY <1>1
<1>3. extend(p, z) = IF over >= 0 /\ p.allocated - purged.allocated < over THEN purged ELSE q
  BY DEF extend, Stocked
<1>4. purged \in Released(p)
  <2> HIDE DEF over
  <2>1. p \in Released(p) /\ Purge(p, over) \in Released(p)
    BY ReleasedOK, PurgeOK
  <2>2. QED
    BY <2>1
<1>5. over < 0 => purged = p
  BY <1>1, <1>2
<1> HIDE DEF purged, n, q
<1>6. /\ PoolOK(purged) /\ SameUse(p, purged) /\ purged.allocated <= p.allocated
      /\ purged.allocated \in Nat
  BY <1>4 DEF Released, Pools
<1>7. /\ PoolOK(q) /\ SameUse(purged, q) /\ q.allocated = purged.allocated + z * n
  BY <1>1, <1>6, StockedOK DEF q
<1>8. SameUse(p, q)
  BY <1>6, <1>7 DEF SameUse
<1>9. purged.allocated <= MaxPoolSize
  BY <1>1, <1>6
<1>10. ASSUME ~(over >= 0 /\ p.allocated - purged.allocated < over)
       PROVE  q.allocated <= MaxPoolSize
  <2>1. CASE over < 0
    BY <1>1, <1>2, <1>5, <1>7, <2>1
  <2>2. CASE over >= 0 /\ p.allocated - purged.allocated >= over
    BY <1>1, <1>2, <1>6, <1>7, <2>2
  <2>3. over \in Int
    BY <1>1, <1>2
  <2> HIDE DEF over
  <2>4. QED
    BY <1>1, <1>6, <1>10, <2>1, <2>2, <2>3
<1> HIDE DEF over
<1>11. QED
  BY <1>3, <1>6, <1>7, <1>8, <1>9, <1>10

\* The pool q has the block b of size z in use, besides those of p.
Taken(p, q, z, b) ==
  /\ b \in Blocks /\ b \notin InUse(p, z)
  /\ \A y \in BlockSizes : InUse(q, y) = IF y = z THEN InUse(p, y) \cup {b} ELSE InUse(p, y)

\* The pool q has the blocks of p in use, without b of size z.
GivenBack(p, q, z, b) ==
  \A y \in BlockSizes : InUse(q, y) = IF y = z THEN InUse(p, y) \ {b} ELSE InUse(p, y)

\* allocate hands out a block that nobody holds and that is larger than the
\* request, or NULL.
LEMMA AllocateOK ==
  ASSUME NEW p, PoolOK(p), p.allocated <= MaxPoolSize,
         NEW size \in Nat, size < Size[MaxOrder]
  PROVE  LET a == allocate(p, size)
         IN  /\ a.size \in BlockSizes /\ a.size > size
             /\ PoolOK(a.pool) /\ a.pool.allocated <= MaxPoolSize
             /\ a.mem = NULL => SameUse(p, a.pool)
             /\ a.mem # NULL => Taken(p, a.pool, a.size, a.mem)
<1> DEFINE z == fit_block_size(size)
           e == IF p.free[z] = {} THEN extend(p, z) ELSE p
           b == Min(e.free[z])
           q == [e EXCEPT !.free[z] = @ \ {Min(@)}]
           a == allocate(p, size)
<1>1. z \in BlockSizes /\ z > size
  BY FitSize
<1>2. a = IF e.free[z] = {} THEN [mem |-> NULL, size |-> z, pool |-> e]
          ELSE [mem |-> b, size |-> z, pool |-> q]
  BY DEF allocate
<1> HIDE DEF z, a
<1>3. PoolOK(e) /\ SameUse(p, e) /\ e.allocated <= MaxPoolSize
  <2>1. SameUse(p, p)
    BY DEF SameUse
  <2>2. QED
    BY <1>1, <2>1, ExtendOK
<1> HIDE DEF e
<1>4. CASE e.free[z] = {}
  <2>1. a.mem = NULL /\ a.size = z /\ a.pool = e
    BY <1>2, <1>4
  <2>2. QED
    BY <1>1, <1>3, <2>1 DEF a
<1>5. CASE e.free[z] # {}
  <2>1. /\ e.free \in [BlockSizes -> SUBSET Blocks] /\ e.free[z] \subseteq e.stub[z]
        /\ e.stub[z] \subseteq Blocks
    BY <1>1, <1>3, PoolFields
  <2>2. b \in e.free[z]
    <3> DEFINE F == e.free[z]
    <3>1. F \in SUBSET Nat /\ F # {}
      BY <1>5, <2>1 DEF Blocks
    <3> HIDE DEF F
    <3>2. \E m \in F : \A k \in F : m <= k
      BY <3>1, NatMin
    <3>3. Min(F) \in F
      BY <3>2 DEF Min
    <3>4. QED
      BY <3>3 DEF F
  <2> DEFINE free == [e.free EXCEPT ![z] = @ \ {b}]
  <2>3. q = [e EXCEPT !.free = free]
    BY <1>3 DEF PoolOK, Pools
  <2> HIDE DEF q, b
  <2>4. /\ free \in [BlockSizes -> SUBSET Blocks]
        /\ \A y \in BlockSizes : free[y] = IF y = z THEN e.free[y] \ {b} ELSE e.free[y]
    BY <1>1, <2>1
  <2> HIDE DEF free
  <2>5. q \in Pools /\ q.free = free /\ q.stub = e.stub /\ q.allocated = e.allocated
    BY <1>3, <2>3, <2>4 DEF PoolOK, Pools
  <2>6. PoolOK(q)
    BY <1>3, <2>4, <2>5 DEF PoolOK
  <2>7. b \in Blocks /\ b \notin InUse(p, z)
    BY <1>1, <1>3, <2>1, <2>2 DEF SameUse, InUse
  <2>8. ASSUME NEW y \in BlockSizes
        PROVE  InUse(q, y) = IF y = z THEN InUse(p, y) \cup {b} ELSE InUse(p, y)
    <3>1. InUse(p, y) = e.stub[y] \ e.free[y]
      BY <1>3 DEF SameUse, InUse
    <3>2. InUse(q, y) = e.stub[y] \ free[y]
      BY <2>5 DEF InUse
    <3>3. QED
      BY <1>1, <2>1, <2>2, <2>4, <3>1, <3>2
  <2>9. Taken(p, q, z, b)
    BY <2>7, <2>8 DEF Taken
  <2>10. a.mem = b /\ a.size = z /\ a.pool = q /\ b # NULL
    BY <1>2, <1>5, <2>7 DEF Blocks, NULL
  <2>11. QED
    BY <1>1, <1>3, <2>5, <2>6, <2>9, <2>10 DEF a
<1>6. QED
  BY <1>4, <1>5

\* recycle of a block that somebody holds: it is free then, or gone.
LEMMA RecycleOK ==
  ASSUME NEW p, PoolOK(p), p.allocated <= MaxPoolSize,
         NEW z \in BlockSizes, NEW b \in InUse(p, z)
  PROVE  LET q == recycle(p, b, z)
         IN  PoolOK(q) /\ q.allocated <= MaxPoolSize /\ GivenBack(p, q, z, b)
<1> DEFINE e == [p EXCEPT !.free[z] = @ \cup {b}]
           free == [p.free EXCEPT ![z] = @ \cup {b}]
           q == recycle(p, b, z)
<1>1. b \in p.stub[z]
  BY DEF InUse
<1>2. q = release(e, z)
  BY <1>1 DEF recycle
<1>3. /\ p.free \in [BlockSizes -> SUBSET Blocks] /\ p.stub[z] \subseteq Blocks
      /\ p.allocated \in Nat
  BY PoolFields
<1>4. e = [p EXCEPT !.free = free]
  BY DEF PoolOK, Pools
<1>5. /\ free \in [BlockSizes -> SUBSET Blocks]
      /\ \A y \in BlockSizes : free[y] = IF y = z THEN p.free[y] \cup {b} ELSE p.free[y]
  BY <1>1, <1>3
<1> HIDE DEF free, e, q
<1>6. e \in Pools /\ e.free = free /\ e.stub = p.stub /\ e.allocated = p.allocated
  BY <1>4, <1>5 DEF PoolOK, Pools
<1>7. PoolOK(e)
  BY <1>1, <1>5, <1>6 DEF PoolOK
<1>8. PoolOK(q) /\ SameUse(e, q) /\ q.allocated <= e.allocated
  BY <1>2, <1>7, ReleaseOK
<1>9. q.allocated <= MaxPoolSize
  <2>1. q.allocated \in Nat /\ MaxPoolSize \in Nat
    BY <1>8, MemPoolAssumption DEF PoolOK, Pools
  <2>2. QED
    BY <1>3, <1>6, <1>8, <2>1
<1>10. ASSUME NEW y \in BlockSizes
       PROVE  InUse(q, y) = IF y = z THEN InUse(p, y) \ {b} ELSE InUse(p, y)
  <2>1. InUse(q, y) = p.stub[y] \ free[y]
    BY <1>6, <1>8 DEF SameUse, InUse
  <2>2. QED
    BY <1>5, <2>1 DEF InUse
<1>11. GivenBack(p, q, z, b)
  BY <1>10 DEF GivenBack
<1>12. QED
  BY <1>8, <1>9, <1>11 DEF q

LEMMA EmptyPoolOK ==
  /\ PoolOK(EmptyPool) /\ EmptyPool.allocated <= MaxPoolSize
  /\ \A z \in BlockSizes : InUse(EmptyPool, z) = {}
<1>1. MaxWaterMark \in Nat /\ MaxPoolSize \in Nat
  BY MemPoolAssumption
<1>2. EmptyPool \in Pools
  BY <1>1 DEF EmptyPool, Pools
<1>3. \A z \in BlockSizes : EmptyPool.stub[z] = {} /\ EmptyPool.free[z] = {}
  BY DEF EmptyPool
<1>4. Bytes(EmptyPool.stub) = {}
  BY <1>3 DEF Bytes
<1>5. IsFiniteSet({}) /\ Cardinality({}) = 0
  BY FS_EmptySet
<1>6. EmptyPool.allocated = 0
  BY DEF EmptyPool
<1>7. PoolOK(EmptyPool)
  BY <1>2, <1>3, <1>4, <1>5, <1>6 DEF PoolOK
<1>8. QED
  BY <1>1, <1>3, <1>6, <1>7 DEF InUse

-----------------------------------------------------------------------------
(***************************************************************************)
(* The buffers                                                             *)
(***************************************************************************)

\* A buffer without a block, or with its data inside its block.
Buffers ==
  {NoBlock} \cup {b \in [mem : Blocks, size : BlockSizes, head : Nat, len : Nat] :
                    b.head + b.len <= b.size}

\* The blocks of a size that the other buffers hold.
Others(c, z) ==
  {cache[d].mem : d \in {e \in Caches \ {c} : cache[e].mem # NULL /\ cache[e].size = z}}

\* No two buffers share a block.
Distinct ==
  \A c, d \in Caches : c # d /\ cache[c].mem # NULL => Block(cache[c]) # Block(cache[d])

\* Every block in use has contents.
HeapOK ==
  \A c \in Caches : cache[c].mem # NULL =>
    /\ Block(cache[c]) \in DOMAIN heap
    /\ heap[Block(cache[c])] \in [1..cache[c].size -> Int]

RawInv ==
  /\ cache \in [Caches -> Buffers] /\ next \in [Caches -> Nat]
  /\ PoolOK(pool) /\ pool.allocated <= MaxPoolSize
  /\ \A z \in BlockSizes : InUse(pool, z) = Held(z)
  /\ Distinct
  /\ HeapOK

-----------------------------------------------------------------------------
(***************************************************************************)
(* Contents of blocks                                                      *)
(***************************************************************************)

\* The bytes of a block from an offset on.
Window(h, head, len) == [i \in 1..len |-> h[head + i]]

\* The contents of a block, with room for n bytes at an offset.
Room(z, h, at, n) ==
  z \in Nat /\ h \in [1..z -> Int] /\ at \in Nat /\ n \in Nat /\ at + n <= z

LEMMA CopyOK ==
  ASSUME NEW z, NEW h, NEW at, NEW s \in Seq(Int), Room(z, h, at, Len(s))
  PROVE  /\ Copy(h, at, s) \in [1..z -> Int]
         /\ \A i \in 1..z : i \notin at + 1..at + Len(s) => Copy(h, at, s)[i] = h[i]
         /\ \A i \in 1..Len(s) : Copy(h, at, s)[at + i] = s[i]
<1> USE DEF Room
<1>1. Len(s) \in Nat /\ \A i \in 1..Len(s) : s[i] \in Int
  OBVIOUS
<1> DEFINE n == Len(s)
           g == Copy(h, at, s)
<1>2. DOMAIN h = 1..z /\ \A i \in 1..z : h[i] \in Int
  OBVIOUS
<1>3. g = [i \in 1..z |-> IF i \in at + 1..at + n THEN s[i - at] ELSE h[i]]
  BY <1>2 DEF Copy
<1> HIDE DEF n, g
<1>4. n \in Nat /\ \A i \in 1..n : s[i] \in Int
  BY <1>1 DEF n
<1>5. \A i \in at + 1..at + n : i - at \in 1..n
  BY <1>4
<1>6. \A i \in 1..z : (IF i \in at + 1..at + n THEN s[i - at] ELSE h[i]) \in Int
  BY <1>2, <1>4, <1>5
<1>7. g \in [1..z -> Int]
  BY <1>3, <1>6
<1>8. \A i \in 1..z : i \notin at + 1..at + n => g[i] = h[i]
  BY <1>3
<1>9. ASSUME NEW i \in 1..n PROVE g[at + i] = s[i]
  <2>1. at + i \in 1..z /\ at + i \in at + 1..at + n /\ (at + i) - at = i
    BY <1>4 DEF n
  <2>2. QED
    BY <1>3, <2>1
<1>10. QED
  BY <1>7, <1>8, <1>9 DEF n, g

LEMMA WindowOK ==
  ASSUME NEW z, NEW h, NEW head, NEW len, Room(z, h, head, len)
  PROVE  /\ Window(h, head, len) \in Seq(Int) /\ Len(Window(h, head, len)) = len
         /\ \A i \in 1..len : Window(h, head, len)[i] = h[head + i]
<1> USE DEF Room
<1>1. \A i \in 1..len : head + i \in 1..z
  OBVIOUS
<1>2. \A i \in 1..len : h[head + i] \in Int
  BY <1>1
<1>3. QED
  BY <1>2 DEF Window

\* Two sequences with the same elements.
LEMMA SameSeq ==
  ASSUME NEW s \in Seq(Int), NEW t \in Seq(Int), Len(s) = Len(t),
         \A i \in 1..Len(s) : s[i] = t[i]
  PROVE  s = t
BY SeqEqual

LEMMA FreshOK ==
  ASSUME NEW z \in Nat
  PROVE  Fresh(z) \in [1..z -> Int]
BY DEF Fresh, Junk

\* Data written at the front of a block is read back.
LEMMA WindowFront ==
  ASSUME NEW z, NEW h, NEW s \in Seq(Int), Room(z, h, 0, Len(s))
  PROVE  Window(Copy(h, 0, s), 0, Len(s)) = s
<1> DEFINE n == Len(s)
           g == Copy(h, 0, s)
           w == Window(g, 0, n)
<1>1. z \in Nat /\ n \in Nat /\ 0 + n <= z
  BY DEF Room
<1>2. g \in [1..z -> Int] /\ \A i \in 1..n : g[0 + i] = s[i]
  BY CopyOK
<1> HIDE DEF g, n
<1>3. w \in Seq(Int) /\ Len(w) = n /\ \A i \in 1..n : w[i] = g[0 + i]
  <2>1. Room(z, g, 0, n)
    BY <1>1, <1>2 DEF Room
  <2>2. QED
    BY <2>1, WindowOK
<1> HIDE DEF w
<1>4. w = s
  <2>1. Len(w) = Len(s) /\ \A i \in 1..Len(w) : w[i] = s[i]
    BY <1>2, <1>3 DEF n
  <2>2. QED
    BY <1>3, <2>1, SameSeq
<1>5. QED
  BY <1>4 DEF w, g, n

\* Data written behind the data of a block is read after it.
LEMMA WindowBehind ==
  ASSUME NEW z, NEW h, NEW head, NEW len, NEW s \in Seq(Int),
         Room(z, h, head, len), head + len + Len(s) <= z
  PROVE  Window(Copy(h, head + len, s), head, len + Len(s)) = Window(h, head, len) \o s
<1> DEFINE n == Len(s)
           at == head + len
           m == len + n
           g == Copy(h, at, s)
           w == Window(h, head, len)
           v == Window(g, head, m)
<1>1. /\ z \in Nat /\ h \in [1..z -> Int] /\ head \in Nat /\ len \in Nat
      /\ n \in Nat /\ at \in Nat /\ m \in Nat
      /\ at + n <= z /\ at <= z /\ head + m <= z
  BY DEF Room
<1> HIDE DEF at, m
<1>2. Room(z, h, at, n)
  BY <1>1 DEF Room
<1>3. /\ g \in [1..z -> Int]
      /\ \A i \in 1..z : i \notin at + 1..at + n => g[i] = h[i]
      /\ \A i \in 1..n : g[at + i] = s[i]
  BY <1>2, CopyOK
<1> HIDE DEF g, n
<1>4. Room(z, g, head, m)
  BY <1>1, <1>3 DEF Room
<1>5. w \in Seq(Int) /\ Len(w) = len /\ \A i \in 1..len : w[i] = h[head + i]
  BY WindowOK
<1>6. v \in Seq(Int) /\ Len(v) = m /\ \A i \in 1..m : v[i] = g[head + i]
  BY <1>4, WindowOK
<1> HIDE DEF v, w
<1>7. /\ w \o s \in Seq(Int) /\ Len(w \o s) = Len(w) + n
      /\ \A i \in 1..Len(w) : (w \o s)[i] = w[i]
      /\ \A i \in 1..n : (w \o s)[Len(w) + i] = s[i]
  <2>1. w \in Seq(Int)
    BY <1>5
  <2>2. QED
    BY <2>1, Concat DEF n
<1> DEFINE t == w \o s
<1>8. t \in Seq(Int) /\ Len(t) = m
  BY <1>1, <1>5, <1>7 DEF m
<1>9. /\ \A i \in 1..len : t[i] = w[i]
      /\ \A i \in 1..n : t[len + i] = s[i]
  BY <1>5, <1>7
<1> HIDE DEF t
<1>10. ASSUME NEW i \in 1..m PROVE v[i] = t[i]
  <2>1. v[i] = g[head + i]
    BY <1>6
  <2>2. i \in Nat
    BY <1>1
  <2>3. CASE i <= len
    <3>1. head + i \in 1..z /\ head + i \notin at + 1..at + n /\ i \in 1..len
      BY <1>1, <2>2, <2>3 DEF at
    <3>2. g[head + i] = h[head + i] /\ w[i] = h[head + i] /\ t[i] = w[i]
      BY <1>3, <1>5, <1>9, <3>1
    <3>3. QED
      BY <2>1, <3>2
  <2>4. CASE i > len
    <3> DEFINE j == i - len
    <3>1. j \in 1..n /\ head + i = at + j /\ i = len + j
      BY <1>1, <2>2, <2>4 DEF at, m
    <3> HIDE DEF j
    <3>2. g[at + j] = s[j] /\ t[len + j] = s[j]
      BY <1>3, <1>9, <3>1
    <3>3. g[head + i] = g[at + j] /\ t[i] = t[len + j]
      BY <3>1
    <3>4. QED
      BY <2>1, <3>2, <3>3
  <2>5. QED
    BY <1>1, <2>2, <2>3, <2>4
<1>11. v = t
  BY <1>6, <1>8, <1>10, SameSeq
<1>12. QED
  BY <1>11 DEF v, w, g, n, t, at, m

\* Overwriting what is skipped leaves the rest.
LEMMA WindowSkip ==
  ASSUME NEW z, NEW h, NEW head, NEW len, NEW s \in Seq(Int),
         Room(z, h, head, len), Len(s) <= len
  PROVE  Window(Copy(h, head, s), head + Len(s), len - Len(s))
           = SubSeq(Window(h, head, len), Len(s) + 1, len)
<1> DEFINE n == Len(s)
           g == Copy(h, head, s)
           w == Window(h, head, len)
           at == head + n
           m == len - n
           v == Window(g, at, m)
           t == SubSeq(w, n + 1, Len(w))
<1>1. /\ z \in Nat /\ h \in [1..z -> Int] /\ head \in Nat /\ len \in Nat
      /\ n \in Nat /\ n \in 0..len /\ head + n <= z
      /\ at \in Nat /\ m \in Nat /\ at + m <= z
  BY DEF Room
<1>2. Room(z, h, head, n)
  BY <1>1 DEF Room
<1>3. /\ g \in [1..z -> Int]
      /\ \A i \in 1..z : i \notin head + 1..head + n => g[i] = h[i]
  BY <1>2, CopyOK
<1>4. w \in Seq(Int) /\ Len(w) = len /\ \A i \in 1..len : w[i] = h[head + i]
  BY WindowOK
<1> HIDE DEF g, w, n, at, m
<1>5. Room(z, g, at, m)
  BY <1>1, <1>3 DEF Room
<1>6. /\ v \in Seq(Int) /\ Len(v) = m
      /\ \A i \in 1..m : v[i] = g[at + i]
  BY <1>5, WindowOK
<1> USE DEF at, m
<1>7. /\ t \in Seq(Int) /\ Len(t) = len - n
      /\ \A i \in 1..len - n : t[i] = w[i + n]
  BY <1>1, <1>4, Suffix
<1> HIDE DEF v, t
<1>8. ASSUME NEW i \in 1..len - n PROVE v[i] = t[i]
  <2>1. /\ (head + n) + i \in 1..z /\ (head + n) + i \notin head + 1..head + n
        /\ i + n \in 1..len /\ head + (i + n) = (head + n) + i
    BY <1>1
  <2>2. w[i + n] = h[(head + n) + i]
    BY <1>4, <2>1
  <2>3. QED
    BY <1>3, <1>6, <1>7, <2>1, <2>2
<1>9. v = t
  BY <1>6, <1>7, <1>8, SameSeq
<1>10. QED
  BY <1>4, <1>9 DEF v, t, g, w, n

-----------------------------------------------------------------------------
(***************************************************************************)
(* One buffer changes                                                      *)
(***************************************************************************)

LEMMA BufferFields ==
  ASSUME NEW b \in Buffers
  PROVE  /\ b.head \in Nat /\ b.len \in Nat /\ b.size \in Nat /\ b.head + b.len <= b.size
         /\ b.mem = NULL => b = NoBlock /\ b.size \notin BlockSizes /\ b.len = 0
         /\ b.mem # NULL => b.mem \in Blocks /\ b.size \in BlockSizes
<1>1. CASE b = NoBlock
  BY <1>1, SizesPositive DEF NoBlock, NULL
<1>2. CASE b \in [mem : Blocks, size : BlockSizes, head : Nat, len : Nat]
           /\ b.head + b.len <= b.size
  BY <1>2, SizesPositive DEF Blocks, NULL
<1>3. QED
  BY <1>1, <1>2 DEF Buffers

LEMMA BlockEq ==
  ASSUME NEW b, NEW d
  PROVE  Block(b) = Block(d) <=> b.size = d.size /\ b.mem = d.mem
BY DEF Block

\* What the buffer c holds, and what the others hold.
LEMMA HeldSplit ==
  ASSUME NEW c \in Caches, NEW z
  PROVE  Held(z) = Others(c, z) \cup (IF cache[c].mem # NULL /\ cache[c].size = z
                                      THEN {cache[c].mem} ELSE {})
BY DEF Held, Others

\* No other buffer holds the block of the buffer c.
LEMMA OthersDistinct ==
  ASSUME RawInv, NEW c \in Caches, cache[c].mem # NULL
  PROVE  cache[c].mem \notin Others(c, cache[c].size)
<1>1. \A d \in Caches : d # c => Block(cache[c]) # Block(cache[d])
  BY DEF RawInv, Distinct
<1>2. QED
  BY <1>1, BlockEq DEF Others

\* The other buffers keep their blocks and the contents of these.
OthersKept(c) ==
  \A d \in Caches \ {c} : cache[d].mem # NULL =>
    /\ Block(cache[d]) \in DOMAIN heap'
    /\ heap'[Block(cache[d])] = heap[Block(cache[d])]

\* The buffer b has a block that no other buffer has, with contents.
Owns(c, b) ==
  b.mem # NULL =>
    /\ b.mem \notin Others(c, b.size)
    /\ Block(b) \in DOMAIN heap' /\ heap'[Block(b)] \in [1..b.size -> Int]

LEMMA OneBuffer ==
  ASSUME RawInv, NEW c \in Caches, NEW b \in Buffers,
         cache' = [cache EXCEPT ![c] = b], next' \in [Caches -> Nat],
         PoolOK(pool'), pool'.allocated <= MaxPoolSize,
         \A z \in BlockSizes :
           InUse(pool', z) = Others(c, z) \cup (IF b.mem # NULL /\ b.size = z THEN {b.mem} ELSE {}),
         OthersKept(c), Owns(c, b)
  PROVE  RawInv'
<1>1. cache \in [Caches -> Buffers] /\ Distinct /\ HeapOK
  BY DEF RawInv
<1>2. /\ cache' \in [Caches -> Buffers]
      /\ cache'[c] = b
      /\ \A d \in Caches : d # c => cache'[d] = cache[d]
  BY <1>1
<1>3. \A z : Others(c, z)' = Others(c, z)
  BY <1>2 DEF Others
<1>4. \A z : Held(z)' = Others(c, z)' \cup (IF cache'[c].mem # NULL /\ cache'[c].size = z
                                            THEN {cache'[c].mem} ELSE {})
  BY DEF Held, Others
<1>5. \A z \in BlockSizes : InUse(pool', z) = Held(z)'
  BY <1>2, <1>3, <1>4
<1>6. Distinct'
  <2>1. SUFFICES ASSUME NEW d \in Caches, NEW e \in Caches, d # e, cache'[d].mem # NULL
                 PROVE  Block(cache'[d]) # Block(cache'[e])
    BY DEF Distinct, Block
  <2>2. CASE d # c /\ e # c
    BY <1>1, <1>2, <2>1, <2>2 DEF Distinct
  <2>3. CASE d = c
    <3>1. cache'[d] = b /\ cache'[e] = cache[e] /\ e # c /\ b.mem # NULL
      BY <1>2, <2>1, <2>3
    <3>2. b.mem \notin Others(c, b.size)
      BY <3>1 DEF Owns
    <3>3. QED
      BY <3>1, <3>2, BlockEq DEF Others
  <2>4. CASE e = c
    <3>1. cache'[e] = b /\ cache'[d] = cache[d] /\ d # c /\ cache[d].mem # NULL
      BY <1>2, <2>1, <2>4
    <3>2. b.mem # NULL => b.mem \notin Others(c, b.size)
      BY DEF Owns
    <3>3. QED
      BY <3>1, <3>2, BlockEq DEF Others
  <2>5. QED
    BY <2>2, <2>3, <2>4
<1>7. HeapOK'
  <2>1. SUFFICES ASSUME NEW d \in Caches, cache'[d].mem # NULL
                 PROVE  /\ Block(cache'[d]) \in DOMAIN heap'
                        /\ heap'[Block(cache'[d])] \in [1..cache'[d].size -> Int]
    BY DEF HeapOK, Block
  <2>2. CASE d = c
    BY <1>2, <2>1, <2>2 DEF Owns
  <2>3. CASE d # c
    <3>1. cache'[d] = cache[d] /\ cache[d].mem # NULL
      BY <1>2, <2>1, <2>3
    <3>2. heap[Block(cache[d])] \in [1..cache[d].size -> Int]
      BY <1>1, <3>1 DEF HeapOK
    <3>3. QED
      BY <2>3, <3>1, <3>2 DEF OthersKept
  <2>4. QED
    BY <2>2, <2>3
<1>8. QED
  BY <1>2, <1>5, <1>6, <1>7 DEF RawInv

-----------------------------------------------------------------------------
(***************************************************************************)
(* The data of the buffers                                                 *)
(***************************************************************************)

\* What an action does to the queue of one buffer.
QueueBecomes(c, s) ==
  /\ Data(c)' = s
  /\ \A d \in Caches \ {c} : Data(d)' = Data(d)

LEMMA DataWindow ==
  \A c : Data(c) = Window(heap[Block(cache[c])], cache[c].head, cache[c].len)
BY DEF Data, Window

LEMMA DataOK ==
  ASSUME RawInv, NEW c \in Caches
  PROVE  /\ Data(c) \in Seq(Int) /\ Len(Data(c)) = cache[c].len
         /\ cache[c].mem # NULL =>
              Room(cache[c].size, heap[Block(cache[c])], cache[c].head, cache[c].len)
         /\ cache[c].mem = NULL => Data(c) = <<>>
<1> DEFINE b == cache[c]
           h == heap[Block(b)]
<1>1. b \in Buffers
  BY DEF RawInv
<1>2. Data(c) = Window(h, b.head, b.len)
  BY DataWindow
<1>3. CASE b.mem = NULL
  <2>1. b.len = 0
    BY <1>1, <1>3, BufferFields
  <2>2. Data(c) = <<>>
    BY <1>2, <2>1 DEF Window
  <2>3. QED
    BY <1>3, <2>1, <2>2
<1>4. CASE b.mem # NULL
  <2>1. Room(b.size, h, b.head, b.len)
    BY <1>1, <1>4, BufferFields DEF RawInv, HeapOK, Room
  <2> HIDE DEF h
  <2>2. Data(c) \in Seq(Int) /\ Len(Data(c)) = b.len
    BY <1>2, <2>1, WindowOK
  <2>3. QED
    BY <1>4, <2>1, <2>2 DEF h
<1>5. QED
  BY <1>3, <1>4

LEMMA OthersData ==
  ASSUME RawInv, NEW c \in Caches, NEW b, cache' = [cache EXCEPT ![c] = b], OthersKept(c)
  PROVE  \A d \in Caches \ {c} : Data(d)' = Data(d)
<1>1. SUFFICES ASSUME NEW d \in Caches \ {c} PROVE Data(d)' = Data(d)
  OBVIOUS
<1>2. cache'[d] = cache[d] /\ cache[d] \in Buffers
  BY DEF RawInv
<1>3. /\ Data(d) = Window(heap[Block(cache[d])], cache[d].head, cache[d].len)
      /\ Data(d)' = Window(heap'[Block(cache[d])], cache[d].head, cache[d].len)
  BY <1>2 DEF Data, Window, Block
<1>4. CASE cache[d].mem # NULL
  BY <1>3, <1>4 DEF OthersKept
<1>5. CASE cache[d].mem = NULL
  <2>1. cache[d].len = 0
    BY <1>2, <1>5, BufferFields
  <2>2. QED
    BY <1>3, <2>1 DEF Window
<1>6. QED
  BY <1>4, <1>5

-----------------------------------------------------------------------------
(***************************************************************************)
(* The actions: what each keeps, and what it does to the queues            *)
(***************************************************************************)

\* The queue of a buffer after a step.
LEMMA DataAfter ==
  ASSUME NEW c \in Caches, NEW b, cache'[c] = b
  PROVE  Data(c)' = Window(heap'[Block(b)], b.head, b.len)
BY DEF Data, Window

\* The buffer keeps its block.
LEMMA InPlace ==
  ASSUME RawInv, NEW c \in Caches, cache[c].mem # NULL,
         NEW b \in Buffers, b.mem = cache[c].mem, b.size = cache[c].size,
         NEW x, Room(b.size, x, b.head, b.len),
         cache' = [cache EXCEPT ![c] = b],
         heap' = [heap EXCEPT ![Block(cache[c])] = x],
         pool' = pool, next' \in [Caches -> Nat]
  PROVE  RawInv' /\ QueueBecomes(c, Window(x, b.head, b.len))
<1>1. cache \in [Caches -> Buffers] /\ Distinct /\ HeapOK
  BY DEF RawInv
<1>2. Block(b) = Block(cache[c]) /\ b.mem # NULL
  BY BlockEq
<1>3. Block(b) \in DOMAIN heap' /\ heap'[Block(b)] = x
  BY <1>1, <1>2 DEF HeapOK
<1>4. OthersKept(c)
  <2>1. SUFFICES ASSUME NEW d \in Caches \ {c}, cache[d].mem # NULL
                 PROVE  /\ Block(cache[d]) \in DOMAIN heap'
                        /\ heap'[Block(cache[d])] = heap[Block(cache[d])]
    BY DEF OthersKept
  <2>2. Block(cache[d]) # Block(cache[c]) /\ Block(cache[d]) \in DOMAIN heap
    BY <1>1, <2>1 DEF Distinct, HeapOK
  <2>3. QED
    BY <2>2
<1>5. Owns(c, b)
  <2>1. b.mem \notin Others(c, b.size)
    BY OthersDistinct
  <2>2. x \in [1..b.size -> Int]
    BY DEF Room
  <2>3. QED
    BY <1>3, <2>1, <2>2 DEF Owns
<1>6. \A z \in BlockSizes :
        InUse(pool', z) = Others(c, z) \cup (IF b.mem # NULL /\ b.size = z THEN {b.mem} ELSE {})
  BY HeldSplit DEF RawInv
<1>7. PoolOK(pool') /\ pool'.allocated <= MaxPoolSize
  BY DEF RawInv
<1>8. RawInv'
  BY <1>4, <1>5, <1>6, <1>7, OneBuffer
<1>9. Data(c)' = Window(x, b.head, b.len)
  <2>1. cache'[c] = b
    BY <1>1
  <2>2. Data(c)' = Window(heap'[Block(b)], b.head, b.len)
    BY <2>1, DataAfter
  <2>3. QED
    BY <1>3, <2>2
<1>10. QED
  BY <1>4, <1>8, <1>9, OthersData DEF QueueBecomes

LEMMA NextOK ==
  ASSUME RawInv, NEW c \in Caches, NEW n \in Nat,
         next' = [next EXCEPT ![c] = (@ + n) % StreamMod]
  PROVE  next' \in [Caches -> Nat]
<1>1. next \in [Caches -> Nat]
  BY DEF RawInv
<1>2. next[c] + n \in Nat
  BY <1>1
<1>3. (next[c] + n) % StreamMod \in Nat
  BY <1>2, RawCacheAssumption
<1>4. QED
  BY <1>1, <1>3

LEMMA AppendBehindOK ==
  ASSUME RawInv, NEW c \in Caches, cache[c].mem # NULL, NEW s \in Seq(Int),
         Len(s) + cache[c].head + cache[c].len <= cache[c].size, AppendBehind(c, s)
  PROVE  RawInv' /\ QueueBecomes(c, Data(c) \o s)
<1> DEFINE k == cache[c]
           n == Len(s)
           h == heap[Block(k)]
           at == k.head + k.len
           x == Copy(h, at, s)
           b == [mem |-> k.mem, size |-> k.size, head |-> k.head, len |-> k.len + n]
<1>1. /\ k \in Buffers /\ k.head \in Nat /\ k.len \in Nat /\ k.size \in Nat /\ n \in Nat
      /\ k.mem \in Blocks /\ k.size \in BlockSizes /\ cache \in [Caches -> Buffers]
  BY BufferFields DEF RawInv
<1>2. b \in Buffers
  BY <1>1 DEF Buffers
<1>3. cache' = [cache EXCEPT ![c] = b]
  <2>1. k \in [mem : Blocks, size : BlockSizes, head : Nat, len : Nat]
    BY <1>1 DEF Buffers, NoBlock, NULL
  <2>2. [k EXCEPT !.len = @ + n] = b
    BY <2>1
  <2>3. cache' = [cache EXCEPT ![c] = [k EXCEPT !.len = @ + n]]
    BY <1>1 DEF AppendBehind
  <2>4. QED
    BY <2>2, <2>3
<1>4. heap' = [heap EXCEPT ![Block(cache[c])] = x]
  BY DEF AppendBehind
<1>5. pool' = pool /\ next' \in [Caches -> Nat]
  BY <1>1, NextOK DEF AppendBehind
<1>6. Room(k.size, h, k.head, k.len) /\ Data(c) = Window(h, k.head, k.len)
  BY DataOK, DataWindow
<1> HIDE DEF h
<1>7. /\ k.head + k.len + n <= k.size
      /\ b.mem = k.mem /\ b.size = k.size /\ b.head = k.head /\ b.len = k.len + n
  BY <1>1
<1>8. Room(k.size, h, at, n)
  BY <1>1, <1>6, <1>7 DEF Room
<1>9. x \in [1..k.size -> Int]
  <2> HIDE DEF at
  <2>1. QED
    BY <1>8, CopyOK
<1>10. Room(b.size, x, b.head, b.len)
  <2> HIDE DEF x
  <2>1. QED
    BY <1>1, <1>7, <1>9 DEF Room
<1>11. Window(x, k.head, k.len + n) = Window(h, k.head, k.len) \o s
  <2> DEFINE z == k.size
             head == k.head
             len == k.len
  <2>1. Room(z, h, head, len) /\ head + len + Len(s) <= z
    BY <1>6, <1>7
  <2> HIDE DEF z, head, len
  <2>2. Window(Copy(h, head + len, s), head, len + Len(s)) = Window(h, head, len) \o s
    BY <2>1, WindowBehind
  <2>3. QED
    BY <2>2 DEF head, len
<1> HIDE DEF x, b
<1>12. RawInv' /\ QueueBecomes(c, Window(x, b.head, b.len))
  BY <1>2, <1>3, <1>4, <1>5, <1>7, <1>10, InPlace
<1>13. QED
  BY <1>6, <1>7, <1>11, <1>12

LEMMA MovedBuffer ==
  ASSUME NEW b \in [mem : Blocks, size : BlockSizes, head : Nat, len : Nat],
         NEW g, NEW l
  PROVE  [b EXCEPT !.head = g, !.len = l]
           = [mem |-> b.mem, size |-> b.size, head |-> g, len |-> l]
<1> DEFINE e == [b EXCEPT !.head = g]
           d == [mem |-> b.mem, size |-> b.size, head |-> g, len |-> b.len]
<1>1. e = d
  OBVIOUS
<1>2. [b EXCEPT !.head = g, !.len = l] = [e EXCEPT !.len = l]
  OBVIOUS
<1>3. [d EXCEPT !.len = l] = [mem |-> b.mem, size |-> b.size, head |-> g, len |-> l]
  OBVIOUS
<1> HIDE DEF e, d
<1>4. QED
  BY <1>1, <1>2, <1>3

LEMMA AppendShiftOK ==
  ASSUME RawInv, NEW c \in Caches, cache[c].mem # NULL, NEW s \in Seq(Int),
         Len(s) + cache[c].len <= cache[c].size, AppendShift(c, s)
  PROVE  RawInv' /\ QueueBecomes(c, Data(c) \o s)
<1> DEFINE k == cache[c]
           n == Len(s)
           h == heap[Block(k)]
           w == Data(c)
           y == Copy(Fresh(k.size), 0, w)
           x == Copy(y, k.len, s)
           b == [mem |-> k.mem, size |-> k.size, head |-> 0, len |-> k.len + n]
<1>1. /\ k \in Buffers /\ k.len \in Nat /\ k.size \in Nat /\ n \in Nat
      /\ k.mem \in Blocks /\ k.size \in BlockSizes /\ cache \in [Caches -> Buffers]
  BY BufferFields DEF RawInv
<1>2. b \in Buffers
  BY <1>1 DEF Buffers
<1>3. cache' = [cache EXCEPT ![c] = b]
  <2>1. k \in [mem : Blocks, size : BlockSizes, head : Nat, len : Nat]
    BY <1>1 DEF Buffers, NoBlock, NULL
  <2>2. [k EXCEPT !.head = 0, !.len = @ + n] = b
    <3> DEFINE l == k.len + n
    <3>1. [k EXCEPT !.head = 0, !.len = @ + n] = [k EXCEPT !.head = 0, !.len = l]
      BY <2>1
    <3> HIDE DEF l, k
    <3>2. QED
      BY <2>1, <3>1, MovedBuffer DEF l
  <2>3. cache' = [cache EXCEPT ![c] = [k EXCEPT !.head = 0, !.len = @ + n]]
    BY <1>1 DEF AppendShift
  <2>4. QED
    BY <2>2, <2>3
<1>4. heap' = [heap EXCEPT ![Block(cache[c])] = x]
  <2>1. h \in [1..k.size -> Int]
    BY DEF RawInv, HeapOK
  <2>2. Len(h) = k.size
    <3> HIDE DEF h, k
    <3>1. QED
      BY <1>1, <2>1
  <2>3. heap' = [heap EXCEPT ![Block(cache[c])] = Copy(Copy(Fresh(Len(h)), 0, w), k.len, s)]
    BY DEF AppendShift
  <2>4. QED
    BY <2>2, <2>3
<1>5. pool' = pool /\ next' \in [Caches -> Nat]
  BY <1>1, NextOK DEF AppendShift
<1>6. w \in Seq(Int) /\ Len(w) = k.len
  BY DataOK
<1>7. /\ k.len + n <= k.size /\ k.len <= k.size
      /\ b.mem = k.mem /\ b.size = k.size /\ b.head = 0 /\ b.len = k.len + n
  BY <1>1
<1> DEFINE z == k.size
           f == Fresh(z)
           len == k.len
<1>8. z \in Nat /\ len \in Nat /\ Len(w) = len /\ len + Len(s) <= z /\ len <= z
  BY <1>1, <1>6, <1>7
<1>9. y = Copy(f, 0, w) /\ x = Copy(y, len, s)
  OBVIOUS
<1> HIDE DEF z, len, w, x, y, b, k
<1>10. Room(z, f, 0, Len(w))
  BY <1>8, FreshOK DEF Room
<1> HIDE DEF f
<1>11. y \in [1..z -> Int] /\ Window(y, 0, len) = w
  BY <1>6, <1>8, <1>9, <1>10, CopyOK, WindowFront
<1>12. Room(z, y, len, Len(s)) /\ Room(z, y, 0, len)
  BY <1>1, <1>8, <1>11 DEF Room
<1>13. x \in [1..z -> Int]
  BY <1>9, <1>12, CopyOK
<1>14. Window(x, 0, len + Len(s)) = w \o s
  <2> DEFINE head == 0
  <2>1. Room(z, y, head, len) /\ head + len + Len(s) <= z /\ head + len = len
    BY <1>8, <1>12
  <2> HIDE DEF head
  <2>2. Window(Copy(y, head + len, s), head, len + Len(s)) = Window(y, head, len) \o s
    BY <2>1, WindowBehind
  <2>3. Window(Copy(y, len, s), head, len + Len(s)) = Window(y, head, len) \o s
    BY <2>1, <2>2
  <2>4. QED
    BY <1>9, <1>11, <2>3 DEF head
<1>15. Room(b.size, x, b.head, b.len)
  BY <1>1, <1>7, <1>13 DEF Room, z
<1>16. RawInv' /\ QueueBecomes(c, Window(x, b.head, b.len))
  BY <1>2, <1>3, <1>4, <1>5, <1>7, <1>15, InPlace DEF k
<1>17. QED
  BY <1>7, <1>14, <1>16 DEF w, len

\* skip of a part of the data.
LEMMA SkipPart ==
  ASSUME RawInv, NEW c \in Caches, cache[c].mem # NULL, NEW n \in 1..cache[c].len,
         n < cache[c].len, skip(c, n)
  PROVE  RawInv' /\ QueueBecomes(c, SubSeq(Data(c), n + 1, Len(Data(c)))) /\ next' = next
<1> DEFINE k == cache[c]
           h == heap[Block(k)]
           s == [i \in 1..n |-> Junk]
           x == Copy(h, k.head, s)
           b == [mem |-> k.mem, size |-> k.size, head |-> k.head + n, len |-> k.len - n]
<1>1. /\ k \in Buffers /\ k.head \in Nat /\ k.len \in Nat /\ k.size \in Nat /\ n \in Nat
      /\ k.head + k.len <= k.size
      /\ k.mem \in Blocks /\ k.size \in BlockSizes /\ cache \in [Caches -> Buffers]
  BY BufferFields DEF RawInv
<1>2. b \in Buffers
  BY <1>1 DEF Buffers
<1>3. ~(n >= k.len)
  BY <1>1
<1>4. cache' = [cache EXCEPT ![c] = b]
  <2>1. k \in [mem : Blocks, size : BlockSizes, head : Nat, len : Nat]
    BY <1>1 DEF Buffers, NoBlock, NULL
  <2>2. [k EXCEPT !.head = @ + n, !.len = @ - n] = b
    <3> DEFINE g == k.head + n
               l == k.len - n
    <3>1. [k EXCEPT !.head = @ + n, !.len = @ - n] = [k EXCEPT !.head = g, !.len = l]
      BY <2>1
    <3> HIDE DEF g, l, k
    <3>2. QED
      BY <2>1, <3>1, MovedBuffer DEF g, l
  <2>3. cache' = [cache EXCEPT ![c] = [k EXCEPT !.head = @ + n, !.len = @ - n]]
    BY <1>1, <1>3 DEF skip
  <2>4. QED
    BY <2>2, <2>3
<1>5. heap' = [heap EXCEPT ![Block(cache[c])] = x]
  BY <1>3 DEF skip
<1>6. pool' = pool /\ next' = next /\ next' \in [Caches -> Nat]
  BY <1>3 DEF skip, RawInv
<1>7. s \in Seq(Int) /\ Len(s) = n
  BY <1>1 DEF Junk
<1>8. /\ Room(k.size, h, k.head, k.len) /\ Data(c) = Window(h, k.head, k.len)
      /\ Len(Data(c)) = k.len
  BY DataOK, DataWindow
<1>9. /\ b.mem = k.mem /\ b.size = k.size /\ b.head = k.head + n /\ b.len = k.len - n
      /\ n <= k.len
  BY <1>1
<1> DEFINE z == k.size
           head == k.head
           len == k.len
<1>10. /\ Room(z, h, head, len) /\ Len(s) <= len /\ z \in Nat /\ head \in Nat /\ len \in Nat
       /\ head + len <= z
  BY <1>1, <1>7, <1>8, <1>9
<1> HIDE DEF h, s, b
<1>11. x = Copy(h, head, s)
  OBVIOUS
<1> HIDE DEF z, head, len, k, x
<1>12. Room(z, h, head, Len(s))
  BY <1>1, <1>7, <1>10 DEF Room
<1>13. x \in [1..z -> Int]
  BY <1>7, <1>11, <1>12, CopyOK
<1>14. Window(x, head + n, len - n) = SubSeq(Window(h, head, len), n + 1, len)
  <2>1. s \in Seq(Int) /\ Room(z, h, head, len) /\ Len(s) <= len
    BY <1>7, <1>10
  <2>2. Window(Copy(h, head, s), head + Len(s), len - Len(s))
          = SubSeq(Window(h, head, len), Len(s) + 1, len)
    BY <2>1, WindowSkip
  <2>3. QED
    BY <1>7, <1>11, <2>2
<1>15. Room(b.size, x, b.head, b.len)
  <2>1. x \in [1..b.size -> Int]
    BY <1>9, <1>13 DEF z
  <2>2. b.head \in Nat /\ b.len \in Nat /\ b.size \in Nat /\ b.head + b.len <= b.size
    BY <1>1, <1>9
  <2>3. QED
    BY <2>1, <2>2 DEF Room
<1>16. RawInv' /\ QueueBecomes(c, Window(x, b.head, b.len))
  BY <1>2, <1>4, <1>5, <1>6, <1>9, <1>15, InPlace DEF k
<1>17. QED
  BY <1>6, <1>8, <1>9, <1>14, <1>16 DEF head, len

\* The buffer gets a block that nobody held.
LEMMA InstallOK ==
  ASSUME RawInv, NEW c \in Caches, NEW new, NEW s \in Seq(Int), Install(c, new, s),
         new.mem \in Blocks, new.size \in BlockSizes, new.mem \notin Held(new.size),
         Len(s) <= new.size, next' \in [Caches -> Nat],
         PoolOK(pool'), pool'.allocated <= MaxPoolSize,
         \A z \in BlockSizes :
           InUse(pool', z) = Others(c, z) \cup (IF new.size = z THEN {new.mem} ELSE {})
  PROVE  RawInv' /\ QueueBecomes(c, s)
<1> DEFINE n == Len(s)
           b == [mem |-> new.mem, size |-> new.size, head |-> 0, len |-> n]
           f == Fresh(new.size)
           x == Copy(f, 0, s)
<1>1. n \in Nat /\ new.size \in Nat /\ n <= new.size
  <2>1. new.size \in Nat
    BY SizesPositive
  <2>2. QED
    BY <2>1
<1>2. cache \in [Caches -> Buffers] /\ Distinct /\ HeapOK
  BY DEF RawInv
<1>3. /\ b.mem = new.mem /\ b.size = new.size /\ b.head = 0 /\ b.len = n
      /\ new.mem # NULL
  BY DEF Blocks, NULL
<1>4. b \in Buffers
  BY <1>1 DEF Buffers
<1>5. /\ cache' = [cache EXCEPT ![c] = b]
      /\ heap' = [k \in (DOMAIN heap \ {Block(cache[c])}) \cup {Block(new)} |->
                    IF k = Block(new) THEN x ELSE heap[k]]
  BY DEF Install
<1>6. Room(new.size, f, 0, n)
  BY <1>1, FreshOK DEF Room
<1> HIDE DEF f
<1>7. x \in [1..new.size -> Int] /\ Window(x, 0, n) = s
  BY <1>6, CopyOK, WindowFront
<1> HIDE DEF x, b
<1>8. Block(b) = Block(new)
  BY <1>3, BlockEq
<1>9. Block(b) \in DOMAIN heap' /\ heap'[Block(b)] = x
  BY <1>5, <1>8
<1>10. OthersKept(c)
  <2>1. SUFFICES ASSUME NEW d \in Caches \ {c}, cache[d].mem # NULL
                 PROVE  /\ Block(cache[d]) \in DOMAIN heap'
                        /\ heap'[Block(cache[d])] = heap[Block(cache[d])]
    BY DEF OthersKept
  <2>2. Block(cache[d]) # Block(cache[c]) /\ Block(cache[d]) \in DOMAIN heap
    BY <1>2, <2>1 DEF Distinct, HeapOK
  <2>3. Block(cache[d]) # Block(new)
    BY <2>1, BlockEq DEF Held
  <2>4. QED
    BY <1>5, <2>2, <2>3
<1>11. Owns(c, b)
  <2>1. b.mem \notin Others(c, b.size)
    BY <1>3, HeldSplit
  <2>2. QED
    BY <1>3, <1>7, <1>9, <2>1 DEF Owns
<1>12. \A z \in BlockSizes :
         InUse(pool', z) = Others(c, z) \cup (IF b.mem # NULL /\ b.size = z THEN {b.mem} ELSE {})
  BY <1>3
<1>13. RawInv'
  BY <1>4, <1>5, <1>10, <1>11, <1>12, OneBuffer
<1>14. Data(c)' = s
  <2>1. cache'[c] = b
    BY <1>2, <1>5
  <2>2. Data(c)' = Window(heap'[Block(b)], b.head, b.len)
    BY <2>1, DataAfter
  <2>3. QED
    BY <1>3, <1>7, <1>9, <2>2
<1>15. QED
  BY <1>5, <1>10, <1>13, <1>14, OthersData DEF QueueBecomes

\* Nothing of the buffers changes when there is no memory.
LEMMA ThrowOK ==
  ASSUME RawInv, NEW p, PoolOK(p), p.allocated <= MaxPoolSize, SameUse(pool, p), Throw(p)
  PROVE  RawInv' /\ cache' = cache /\ heap' = heap /\ next' = next
<1>1. pool' = p /\ cache' = cache /\ heap' = heap /\ next' = next
  BY DEF Throw
<1>2. \A z : Held(z)' = Held(z)
  BY <1>1 DEF Held
<1>3. \A z \in BlockSizes : InUse(p, z) = Held(z)
  BY DEF SameUse, RawInv
<1>4. Distinct' /\ HeapOK'
  BY <1>1 DEF RawInv, Distinct, HeapOK, Block
<1>5. cache' \in [Caches -> Buffers] /\ next' \in [Caches -> Nat]
  BY <1>1 DEF RawInv
<1>6. QED
  BY <1>1, <1>2, <1>3, <1>4, <1>5 DEF RawInv

\* Either the data is appended, or there was no memory.
Appended(c, s) ==
  \/ /\ QueueBecomes(c, Data(c) \o s)
     /\ next' = [next EXCEPT ![c] = (@ + Len(s)) % StreamMod]
  \/ cache' = cache /\ heap' = heap /\ next' = next

LEMMA AppendFirstOK ==
  ASSUME RawInv, NEW c \in Caches, cache[c].mem = NULL, NEW s \in Seq(Int),
         Len(s) < Size[MaxOrder], AppendFirst(c, s)
  PROVE  RawInv' /\ Appended(c, s)
<1> DEFINE n == Len(s)
           new == allocate(pool, n)
<1>1. n \in Nat /\ n < Size[MaxOrder] /\ PoolOK(pool) /\ pool.allocated <= MaxPoolSize
  BY DEF RawInv
<1>2. /\ new.size \in BlockSizes /\ new.size > n
      /\ PoolOK(new.pool) /\ new.pool.allocated <= MaxPoolSize
      /\ new.mem = NULL => SameUse(pool, new.pool)
      /\ new.mem # NULL => Taken(pool, new.pool, new.size, new.mem)
  <2> HIDE DEF n
  <2>1. QED
    BY <1>1, AllocateOK
<1>3. \/ new.mem = NULL /\ Throw(new.pool)
      \/ /\ new.mem # NULL /\ Install(c, new, s) /\ pool' = new.pool
         /\ next' = [next EXCEPT ![c] = (@ + n) % StreamMod]
  BY DEF AppendFirst
<1> HIDE DEF new
<1>4. CASE new.mem = NULL /\ Throw(new.pool)
  BY <1>2, <1>4, ThrowOK DEF Appended
<1>5. CASE /\ new.mem # NULL /\ Install(c, new, s) /\ pool' = new.pool
           /\ next' = [next EXCEPT ![c] = (@ + n) % StreamMod]
  <2>1. Taken(pool, new.pool, new.size, new.mem)
    BY <1>2, <1>5
  <2>2. new.mem \in Blocks /\ new.mem \notin Held(new.size)
    BY <1>2, <2>1 DEF Taken, RawInv
  <2>3. ASSUME NEW z \in BlockSizes PROVE Held(z) = Others(c, z)
    BY DEF Held, Others
  <2>4. \A z \in BlockSizes :
          InUse(pool', z) = Others(c, z) \cup (IF new.size = z THEN {new.mem} ELSE {})
    BY <1>5, <2>1, <2>3 DEF Taken, RawInv
  <2>5. next' \in [Caches -> Nat]
    BY <1>1, <1>5, NextOK
  <2>6. n <= new.size
    <3>1. new.size \in Nat
      BY <1>2, SizesPositive
    <3>2. QED
      BY <1>1, <1>2, <3>1
  <2>7. RawInv' /\ QueueBecomes(c, s)
    BY <1>2, <1>5, <2>2, <2>4, <2>5, <2>6, InstallOK
  <2>8. Data(c) \o s = s
    BY DataOK
  <2>9. QED
    BY <1>5, <2>7, <2>8 DEF Appended
<1>6. QED
  BY <1>3, <1>4, <1>5

LEMMA AppendMoveOK ==
  ASSUME RawInv, NEW c \in Caches, cache[c].mem # NULL, NEW s \in Seq(Int),
         Len(s) + cache[c].len < Size[MaxOrder], AppendMove(c, s)
  PROVE  RawInv' /\ Appended(c, s)
<1> DEFINE k == cache[c]
           n == Len(s) + k.len
           new == allocate(pool, n)
           t == Data(c) \o s
<1>1. /\ k \in Buffers /\ k.len \in Nat /\ k.mem \in Blocks /\ k.size \in BlockSizes
      /\ Len(s) \in Nat /\ PoolOK(pool) /\ pool.allocated <= MaxPoolSize
  BY BufferFields DEF RawInv
<1>2. n \in Nat /\ n < Size[MaxOrder]
  BY <1>1
<1>3. /\ new.size \in BlockSizes /\ new.size > n
      /\ PoolOK(new.pool) /\ new.pool.allocated <= MaxPoolSize
      /\ new.mem = NULL => SameUse(pool, new.pool)
      /\ new.mem # NULL => Taken(pool, new.pool, new.size, new.mem)
  <2> HIDE DEF n
  <2>1. QED
    BY <1>1, <1>2, AllocateOK
<1>4. \/ new.mem = NULL /\ Throw(new.pool)
      \/ /\ new.mem # NULL /\ Install(c, new, t) /\ pool' = recycle(new.pool, k.mem, k.size)
         /\ next' = [next EXCEPT ![c] = (@ + Len(s)) % StreamMod]
  BY DEF AppendMove
<1> HIDE DEF new, t
<1>5. CASE new.mem = NULL /\ Throw(new.pool)
  BY <1>3, <1>5, ThrowOK DEF Appended
<1>6. CASE /\ new.mem # NULL /\ Install(c, new, t) /\ pool' = recycle(new.pool, k.mem, k.size)
           /\ next' = [next EXCEPT ![c] = (@ + Len(s)) % StreamMod]
  <2>1. Taken(pool, new.pool, new.size, new.mem)
    BY <1>3, <1>6
  <2>2. new.mem \in Blocks /\ new.mem \notin Held(new.size)
    BY <1>3, <2>1 DEF Taken, RawInv
  <2>3. \A z \in BlockSizes : InUse(pool, z) = Held(z)
    BY DEF RawInv
  <2>4. ASSUME NEW z \in BlockSizes
        PROVE  Held(z) = Others(c, z) \cup (IF k.size = z THEN {k.mem} ELSE {})
    BY DEF Held, Others
  <2>5. k.mem \in Held(k.size) /\ k.mem \notin Others(c, k.size)
    BY <1>1, <2>4, OthersDistinct
  <2>6. k.mem \in InUse(new.pool, k.size)
    BY <1>1, <2>1, <2>3, <2>5 DEF Taken
  <2>7. /\ PoolOK(pool') /\ pool'.allocated <= MaxPoolSize
        /\ GivenBack(new.pool, pool', k.size, k.mem)
    <3> HIDE DEF k
    <3>1. QED
      BY <1>1, <1>3, <1>6, <2>6, RecycleOK
  <2>8. ASSUME NEW z \in BlockSizes
        PROVE  InUse(pool', z) = Others(c, z) \cup (IF new.size = z THEN {new.mem} ELSE {})
    <3>1. InUse(new.pool, z) = IF z = new.size THEN Held(z) \cup {new.mem} ELSE Held(z)
      BY <2>1, <2>3 DEF Taken
    <3>2. InUse(pool', z) = IF z = k.size THEN InUse(new.pool, z) \ {k.mem}
                            ELSE InUse(new.pool, z)
      BY <2>7 DEF GivenBack
    <3> HIDE DEF k
    <3>3. CASE z = k.size
      <4>1. Held(z) = Others(c, z) \cup {k.mem} /\ k.mem \in Held(z) /\ k.mem \notin Others(c, z)
        BY <2>4, <2>5, <3>3
      <4>2. z = new.size => new.mem # k.mem
        BY <2>2, <4>1
      <4>3. QED
        BY <3>1, <3>2, <3>3, <4>1, <4>2
    <3>4. CASE z # k.size
      BY <2>4, <3>1, <3>2, <3>4
    <3>5. QED
      BY <3>3, <3>4
  <2>9. t \in Seq(Int) /\ Len(t) = n
    <3> DEFINE w == Data(c)
    <3>1. w \in Seq(Int) /\ Len(w) = k.len
      BY DataOK
    <3> HIDE DEF w, k
    <3>2. w \o s \in Seq(Int) /\ Len(w \o s) = Len(w) + Len(s)
      BY <3>1, Concat
    <3>3. QED
      BY <1>1, <3>1, <3>2 DEF t, w
  <2>10. Len(t) <= new.size
    <3>1. new.size \in Nat
      BY <1>3, SizesPositive
    <3>2. QED
      BY <1>2, <1>3, <2>9, <3>1
  <2>11. next' \in [Caches -> Nat]
    BY <1>1, <1>6, NextOK
  <2>12. RawInv' /\ QueueBecomes(c, t)
    BY <1>3, <1>6, <2>2, <2>7, <2>8, <2>9, <2>10, <2>11, InstallOK
  <2>13. QED
    BY <1>6, <2>12 DEF Appended, t
<1>7. QED
  BY <1>4, <1>5, <1>6

\* skip of all the data gives the block back.
LEMMA SkipAll ==
  ASSUME RawInv, NEW c \in Caches, cache[c].mem # NULL, NEW n \in 1..cache[c].len,
         n >= cache[c].len, skip(c, n)
  PROVE  RawInv' /\ QueueBecomes(c, SubSeq(Data(c), n + 1, Len(Data(c)))) /\ next' = next
<1> DEFINE k == cache[c]
<1>1. /\ k \in Buffers /\ k.len \in Nat /\ k.mem \in Blocks /\ k.size \in BlockSizes
      /\ PoolOK(pool) /\ pool.allocated <= MaxPoolSize
      /\ cache \in [Caches -> Buffers] /\ Distinct /\ HeapOK
  BY BufferFields DEF RawInv
<1>2. /\ pool' = recycle(pool, k.mem, k.size) /\ cache' = [cache EXCEPT ![c] = NoBlock]
      /\ heap' = [b \in DOMAIN heap \ {Block(k)} |-> heap[b]] /\ next' = next
  BY DEF skip, Without
<1>3. \A z \in BlockSizes : InUse(pool, z) = Held(z)
  BY DEF RawInv
<1>4. ASSUME NEW z \in BlockSizes
      PROVE  Held(z) = Others(c, z) \cup (IF k.size = z THEN {k.mem} ELSE {})
  BY DEF Held, Others
<1>5. k.mem \in Held(k.size) /\ k.mem \notin Others(c, k.size)
  BY <1>1, <1>4, OthersDistinct
<1>6. k.mem \in InUse(pool, k.size)
  BY <1>1, <1>3, <1>5
<1>7. /\ PoolOK(pool') /\ pool'.allocated <= MaxPoolSize
      /\ GivenBack(pool, pool', k.size, k.mem)
  <2> HIDE DEF k
  <2>1. QED
    BY <1>1, <1>2, <1>6, RecycleOK
<1>8. NoBlock \in Buffers /\ NoBlock.mem = NULL /\ NoBlock.len = 0
  BY DEF Buffers, NoBlock
<1>9. ASSUME NEW z \in BlockSizes
      PROVE  InUse(pool', z)
               = Others(c, z) \cup (IF NoBlock.mem # NULL /\ NoBlock.size = z
                                    THEN {NoBlock.mem} ELSE {})
  <2>1. InUse(pool', z) = IF z = k.size THEN Held(z) \ {k.mem} ELSE Held(z)
    BY <1>3, <1>7 DEF GivenBack
  <2>2. QED
    BY <1>4, <1>5, <1>8, <2>1
<1>10. OthersKept(c)
  <2>1. SUFFICES ASSUME NEW d \in Caches \ {c}, cache[d].mem # NULL
                 PROVE  /\ Block(cache[d]) \in DOMAIN heap'
                        /\ heap'[Block(cache[d])] = heap[Block(cache[d])]
    BY DEF OthersKept
  <2>2. Block(cache[d]) # Block(k) /\ Block(cache[d]) \in DOMAIN heap
    BY <1>1, <2>1 DEF Distinct, HeapOK
  <2>3. QED
    BY <1>2, <2>2
<1>11. Owns(c, NoBlock)
  BY <1>8 DEF Owns
<1>12. next' \in [Caches -> Nat]
  BY <1>2 DEF RawInv
<1> HIDE DEF k
<1>13. RawInv'
  BY <1>2, <1>7, <1>8, <1>9, <1>10, <1>11, <1>12, OneBuffer
<1>14. Data(c)' = <<>>
  <2>1. cache'[c] = NoBlock
    BY <1>1, <1>2
  <2>2. QED
    BY <1>8, <2>1 DEF Data
<1>15. SubSeq(Data(c), n + 1, Len(Data(c))) = <<>>
  <2> DEFINE w == Data(c)
  <2>1. w \in Seq(Int) /\ Len(w) = n
    BY <1>1, DataOK DEF k
  <2> HIDE DEF w
  <2>2. SubSeq(w, n + 1, Len(w)) = <<>>
    BY <2>1
  <2>3. QED
    BY <2>2 DEF w
<1>16. QED
  BY <1>2, <1>10, <1>13, <1>14, <1>15, OthersData DEF QueueBecomes

LEMMA StreamOK ==
  ASSUME NEW from \in Nat, NEW n \in Nat
  PROVE  /\ Stream(from, n) \in Seq(Int) /\ Len(Stream(from, n)) = n
         /\ Queue!Stream(from, n) = Stream(from, n)
<1>1. \A i \in 1..n : (from + i - 1) % StreamMod \in Int
  BY RawCacheAssumption
<1>2. QED
  BY <1>1 DEF Stream, Queue!Stream

\* The queues of all buffers.
Queues == [c \in Caches |-> Data(c)]

LEMMA OneQueue ==
  ASSUME NEW c \in Caches, NEW s, QueueBecomes(c, s)
  PROVE  Queues' = [Queues EXCEPT ![c] = s]
<1>1. \A d \in Caches : Data(d)' = IF d = c THEN s ELSE Data(d)
  BY DEF QueueBecomes
<1>2. Queues' = [d \in Caches |-> IF d = c THEN s ELSE Data(d)]
  BY <1>1 DEF Queues
<1>3. QED
  BY <1>2 DEF Queues

LEMMA AppendOK ==
  ASSUME RawInv, NEW c \in Caches, NEW n \in RecvSizes, append(c, n)
  PROVE  RawInv' /\ Appended(c, Stream(next[c], n))
<1> DEFINE k == cache[c]
           s == Stream(next[c], n)
<1>1. /\ n \in Nat /\ next[c] \in Nat /\ k \in Buffers /\ k.len \in Nat /\ k.head \in Nat
      /\ k.size \in Nat
  BY RawCacheAssumption, BufferFields DEF RawInv
<1>2. s \in Seq(Int) /\ Len(s) = n
  BY <1>1, StreamOK
<1> HIDE DEF s, k
<1>3. /\ k.len + n <= MaxData
      /\ \/ k.mem = NULL /\ AppendFirst(c, s)
         \/ k.mem # NULL /\ n + k.head + k.len <= k.size /\ AppendBehind(c, s)
         \/ k.mem # NULL /\ AppendMove(c, s)
         \/ k.mem # NULL /\ n + k.len <= k.size /\ AppendShift(c, s)
  BY DEF append, s, k
<1>4. n + k.len < Size[MaxOrder] /\ n < Size[MaxOrder]
  <2>1. Size[MaxOrder] \in Nat
    BY SizeType, MemPoolAssumption
  <2>2. QED
    BY <1>1, <1>3, <2>1, RawCacheAssumption
<1>5. CASE k.mem = NULL /\ AppendFirst(c, s)
  BY <1>2, <1>4, <1>5, AppendFirstOK DEF k, s
<1>6. CASE k.mem # NULL /\ n + k.head + k.len <= k.size /\ AppendBehind(c, s)
  <2>1. RawInv' /\ QueueBecomes(c, Data(c) \o s)
    BY <1>2, <1>6, AppendBehindOK DEF k
  <2>2. next' = [next EXCEPT ![c] = (@ + Len(s)) % StreamMod]
    BY <1>6 DEF AppendBehind
  <2>3. QED
    BY <2>1, <2>2 DEF Appended, s
<1>7. CASE k.mem # NULL /\ AppendMove(c, s)
  BY <1>2, <1>4, <1>7, AppendMoveOK DEF k, s
<1>8. CASE k.mem # NULL /\ n + k.len <= k.size /\ AppendShift(c, s)
  <2>1. RawInv' /\ QueueBecomes(c, Data(c) \o s)
    BY <1>2, <1>8, AppendShiftOK DEF k
  <2>2. next' = [next EXCEPT ![c] = (@ + Len(s)) % StreamMod]
    BY <1>8 DEF AppendShift
  <2>3. QED
    BY <2>1, <2>2 DEF Appended, s
<1>9. QED
  BY <1>3, <1>5, <1>6, <1>7, <1>8

LEMMA SkipOK ==
  ASSUME RawInv, NEW c \in Caches, NEW n \in 1..cache[c].len, skip(c, n)
  PROVE  RawInv' /\ QueueBecomes(c, SubSeq(Data(c), n + 1, Len(Data(c)))) /\ next' = next
<1>1. cache[c].mem # NULL
  BY DEF skip
<1>2. cache[c].len \in Nat /\ n \in Nat
  BY BufferFields DEF RawInv
<1>3. CASE n >= cache[c].len
  BY <1>1, <1>3, SkipAll
<1>4. CASE n < cache[c].len
  BY <1>1, <1>4, SkipPart
<1>5. QED
  BY <1>2, <1>3, <1>4

LEMMA StutterOK ==
  ASSUME RawInv, UNCHANGED vars
  PROVE  RawInv' /\ Queues' = Queues /\ next' = next
<1>1. pool' = pool /\ cache' = cache /\ heap' = heap /\ next' = next
  BY DEF vars
<1>2. \A z : Held(z)' = Held(z)
  BY <1>1 DEF Held
<1>3. Distinct' /\ HeapOK'
  BY <1>1 DEF RawInv, Distinct, HeapOK, Block
<1>4. RawInv'
  BY <1>1, <1>2, <1>3 DEF RawInv
<1>5. Queues' = Queues
  BY <1>1 DEF Queues, Data, Block
<1>6. QED
  BY <1>1, <1>4, <1>5

-----------------------------------------------------------------------------
LEMMA RawInit == Init => RawInv
<1> SUFFICES ASSUME Init PROVE RawInv
  OBVIOUS
<1>1. pool = EmptyPool /\ cache = [c \in Caches |-> NoBlock] /\ next = [c \in Caches |-> 0]
  BY DEF Init
<1>2. cache \in [Caches -> Buffers] /\ next \in [Caches -> Nat]
  BY <1>1 DEF Buffers
<1>3. \A c \in Caches : cache[c].mem = NULL
  BY <1>1 DEF NoBlock
<1>4. \A z : Held(z) = {}
  BY <1>3 DEF Held
<1>5. Distinct /\ HeapOK
  BY <1>3 DEF Distinct, HeapOK
<1>6. QED
  BY <1>1, <1>2, <1>4, <1>5, EmptyPoolOK DEF RawInv

LEMMA RawNext == RawInv /\ [Next]_vars => RawInv'
<1> SUFFICES ASSUME RawInv, [Next]_vars PROVE RawInv'
  OBVIOUS
<1>1. CASE Next
  BY <1>1, AppendOK, SkipOK DEF Next
<1>2. CASE UNCHANGED vars
  BY <1>2, StutterOK
<1>3. QED
  BY <1>1, <1>2

LEMMA RawAlways == Spec => []RawInv
BY RawInit, RawNext, PTL DEF Spec

\* Every block is free or the block of one buffer, and the pool knows each under
\* its size and counts the bytes of all of them.
THEOREM BlocksAreSound == Spec => []BlocksSound
<1>1. RawInv => BlocksSound
  <2> SUFFICES ASSUME RawInv PROVE BlocksSound
    OBVIOUS
  <2>1. ASSUME NEW z \in BlockSizes
        PROVE  pool.free[z] \cap Held(z) = {} /\ pool.stub[z] = pool.free[z] \cup Held(z)
    <3>1. Held(z) = pool.stub[z] \ pool.free[z] /\ pool.free[z] \subseteq pool.stub[z]
      BY DEF RawInv, PoolOK, InUse
    <3>2. QED
      BY <3>1
  <2>2. Distinct /\ pool.allocated = Cardinality(Bytes(pool.stub))
    BY DEF RawInv, PoolOK
  <2>3. QED
    BY <2>1, <2>2 DEF BlocksSound, Distinct
<1>2. QED
  BY <1>1, RawAlways, PTL

\* The pool stays within C_MAX_POOL_SIZE whatever is appended and skipped.
THEOREM PoolIsBounded == Spec => []PoolBounded
<1>1. RawInv => PoolBounded
  BY DEF RawInv, PoolBounded
<1>2. QED
  BY <1>1, RawAlways, PTL

\* Every step of a buffer is a step of a queue of bytes, or changes no queue: the
\* bytes come out once, in order and unmixed.
THEOREM CachesImplementQueues == Spec => CachesAreQueues
<1>1. Init => Queue!Init
  <2> SUFFICES ASSUME Init PROVE Queue!Init
    OBVIOUS
  <2>1. cache = [c \in Caches |-> NoBlock] /\ next = [c \in Caches |-> 0]
    BY DEF Init
  <2>2. ASSUME NEW c \in Caches PROVE Data(c) = <<>>
    BY <2>1, RawInit, DataOK DEF NoBlock
  <2>3. QED
    BY <2>1, <2>2 DEF Queue!Init
<1>2. RawInv /\ [Next]_vars => [Queue!Next]_<<Queues, next>>
  <2> SUFFICES ASSUME RawInv, [Next]_vars PROVE [Queue!Next]_<<Queues, next>>
    OBVIOUS
  <2>1. ASSUME NEW c \in Caches, NEW n \in RecvSizes, append(c, n)
        PROVE  Queue!Next \/ UNCHANGED <<Queues, next>>
    <3> DEFINE s == Stream(next[c], n)
    <3>1. Appended(c, s)
      BY <2>1, AppendOK
    <3>2. s = Queue!Stream(next[c], n) /\ Len(s) = n
      BY StreamOK, RawCacheAssumption DEF RawInv
    <3> HIDE DEF s
    <3>3. CASE /\ QueueBecomes(c, Data(c) \o s)
               /\ next' = [next EXCEPT ![c] = (@ + Len(s)) % StreamMod]
      <4>1. Queues' = [Queues EXCEPT ![c] = @ \o s]
        BY <3>3, OneQueue DEF Queues
      <4>2. Queue!Put(c, n)
        BY <3>2, <3>3, <4>1 DEF Queue!Put, Queues
      <4>3. QED
        BY <4>2 DEF Queue!Next
    <3>4. CASE cache' = cache /\ heap' = heap /\ next' = next
      BY <3>4 DEF Queues, Data, Block
    <3>5. QED
      BY <3>1, <3>3, <3>4 DEF Appended
  <2>2. ASSUME NEW c \in Caches, NEW n \in 1..cache[c].len, skip(c, n)
        PROVE  Queue!Next
    <3>1. /\ QueueBecomes(c, SubSeq(Data(c), n + 1, Len(Data(c)))) /\ next' = next
      BY <2>2, SkipOK
    <3>2. Queues' = [Queues EXCEPT ![c] = SubSeq(@, n + 1, Len(@))]
      BY <3>1, OneQueue DEF Queues
    <3>3. Queue!Skip(c, n)
      BY <3>1, <3>2 DEF Queue!Skip, Queues
    <3>4. n \in 1..Len(Queues[c])
      BY DataOK DEF Queues
    <3>5. QED
      BY <3>3, <3>4 DEF Queue!Next, Queues
  <2>3. CASE UNCHANGED vars
    BY <2>3, StutterOK
  <2>4. QED
    BY <2>1, <2>2, <2>3 DEF Next
<1>3. QED
  BY <1>1, <1>2, RawAlways, PTL DEF Spec, CachesAreQueues, Queue!Spec, Queues

=============================================================================
