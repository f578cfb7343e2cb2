----------------------------- MODULE ProofBasics -----------------------------
(***************************************************************************)
(* Facts about numbers and sequences that the proofs of several components *)
(* need: division into packets, taking from the front of a sequence and    *)
(* adding at its end, induction over numbers, what a loop computes, and    *)
(* sums over a finite set.                                                 *)
(***************************************************************************)
EXTENDS Integers, FiniteSets, Functions, SequenceTheorems, FiniteSetTheorems, TLAPS

\* Division with remainder.
LEMMA DivMod ==
  ASSUME NEW P \in Nat \ {0}, NEW a \in Nat
  PROVE  /\ a = P * (a \div P) + (a % P)
         /\ a % P \in 0..(P - 1) /\ a \div P \in Nat
OBVIOUS

\* The only multiple of P between -P and P is zero.
LEMMA SmallMultiple ==
  ASSUME NEW P \in Nat \ {0}, NEW d \in Int, P * d < P, P * d > -P
  PROVE  d = 0
OBVIOUS

\* Whole packets in front do not change the place of a piece in its packet.
LEMMA SkipMultiple ==
  ASSUME NEW P \in Nat \ {0}, NEW k \in Nat, NEW a \in Nat
  PROVE  (P * k + a) % P = a % P
<1> DEFINE b == P * k + a
           d == (b \div P) - (a \div P) - k
<1>1. P * k \in Nat /\ b \in Nat
  OBVIOUS
<1>2. b = P * (b \div P) + (b % P) /\ b % P \in 0..(P - 1) /\ b \div P \in Nat
  BY <1>1, DivMod
<1>3. a = P * (a \div P) + (a % P) /\ a % P \in 0..(P - 1) /\ a \div P \in Nat
  BY DivMod
<1>4. d \in Int /\ P * d = (P * (b \div P)) - (P * (a \div P)) - (P * k)
  BY <1>2, <1>3
<1>5. P * d = (a % P) - (b % P)
  BY <1>1, <1>2, <1>3, <1>4
<1>6. P * d < P /\ P * d > -P
  BY <1>2, <1>3, <1>5
<1>7. d = 0
  BY <1>4, <1>6, SmallMultiple
<1>8. P * d = 0
  BY <1>7
<1>9. QED
  BY <1>2, <1>3, <1>5, <1>8

\* What remains of whole packets when whole packets are taken away.
LEMMA TakeMultiple ==
  ASSUME NEW P \in Nat \ {0}, NEW k \in Nat, NEW a \in Nat, P * k <= a
  PROVE  a - P * k \in Nat /\ (a - P * k) % P = a % P
<1>1. a - P * k \in Nat /\ P * k + (a - P * k) = a
  OBVIOUS
<1>2. QED
  BY <1>1, SkipMultiple

\* The place of a piece that lies less than a packet after a whole number.
LEMMA SmallRemainder ==
  ASSUME NEW P \in Nat \ {0}, NEW a \in 0..(P - 1)
  PROVE  a % P = a
OBVIOUS

-----------------------------------------------------------------------------
LEMMA Concat ==
  ASSUME NEW S, NEW p \in Seq(S), NEW b \in Seq(S)
  PROVE  /\ p \o b \in Seq(S) /\ Len(p \o b) = Len(p) + Len(b)
         /\ Len(p) \in Nat /\ Len(b) \in Nat
         /\ \A i \in 1..Len(p) : (p \o b)[i] = p[i]
         /\ \A i \in 1..Len(b) : (p \o b)[Len(p) + i] = b[i]
OBVIOUS

\* What is left of a sequence when the first m elements are taken.
LEMMA Suffix ==
  ASSUME NEW S, NEW p \in Seq(S), NEW m \in 0..Len(p)
  PROVE  /\ SubSeq(p, m + 1, Len(p)) \in Seq(S)
         /\ Len(SubSeq(p, m + 1, Len(p))) = Len(p) - m
         /\ Len(p) - m \in Nat /\ Len(p) \in Nat /\ m \in Nat
         /\ \A i \in 1..(Len(p) - m) : SubSeq(p, m + 1, Len(p))[i] = p[i + m]
OBVIOUS

LEMMA Prefix ==
  ASSUME NEW S, NEW p \in Seq(S), NEW m \in 0..Len(p)
  PROVE  /\ SubSeq(p, 1, m) \in Seq(S) /\ Len(SubSeq(p, 1, m)) = m
         /\ \A i \in 1..m : SubSeq(p, 1, m)[i] = p[i]
OBVIOUS

\* A sequence is its first m elements and the others.
LEMMA SplitSeq ==
  ASSUME NEW S, NEW p \in Seq(S), NEW m \in 0..Len(p)
  PROVE  p = SubSeq(p, 1, m) \o SubSeq(p, m + 1, Len(p))
<1> DEFINE l == SubSeq(p, 1, m)
           r == SubSeq(p, m + 1, Len(p))
<1>1. l \in Seq(S) /\ Len(l) = m /\ \A i \in 1..m : l[i] = p[i]
  BY Prefix
<1>2. /\ r \in Seq(S) /\ Len(r) = Len(p) - m
      /\ Len(p) - m \in Nat /\ Len(p) \in Nat /\ m \in Nat
      /\ \A i \in 1..(Len(p) - m) : r[i] = p[i + m]
  BY Suffix
<1> HIDE DEF l, r
<1>3. /\ l \o r \in Seq(S) /\ Len(l \o r) = Len(l) + Len(r)
      /\ \A i \in 1..Len(l) : (l \o r)[i] = l[i]
      /\ \A i \in 1..Len(r) : (l \o r)[Len(l) + i] = r[i]
  <2>1. l \in Seq(S) /\ r \in Seq(S)
    BY <1>1, <1>2
  <2>2. QED
    BY <2>1, Concat
<1>4. Len(l \o r) = Len(p)
  BY <1>1, <1>2, <1>3
<1>5. ASSUME NEW i \in 1..Len(p) PROVE p[i] = (l \o r)[i]
  <2>1. CASE i \in 1..m
    BY <1>1, <1>3, <2>1
  <2>2. CASE i \notin 1..m
    <3> DEFINE j == i - m
    <3>1. j \in 1..(Len(p) - m) /\ i = m + j /\ i = j + m
      BY <1>2, <2>2
    <3> HIDE DEF j
    <3>2. QED
      BY <1>1, <1>2, <1>3, <3>1
  <2>3. QED
    BY <2>1, <2>2
<1>6. p = l \o r
  BY <1>3, <1>4, <1>5, SeqEqual
<1>7. QED
  BY <1>6 DEF l, r

\* Taking from the front and adding at the end do not disturb each other.
LEMMA SuffixConcat ==
  ASSUME NEW S, NEW p \in Seq(S), NEW b \in Seq(S), NEW m \in 0..Len(p)
  PROVE  SubSeq(p, m + 1, Len(p)) \o b = SubSeq(p \o b, m + 1, Len(p \o b))
<1> DEFINE l == SubSeq(p, m + 1, Len(p))
           c == p \o b
           r == SubSeq(c, m + 1, Len(c))
<1>1. Len(p) \in Nat /\ Len(b) \in Nat /\ m \in Nat /\ Len(p) - m \in Nat
  OBVIOUS
<1>2. /\ c \in Seq(S) /\ Len(c) = Len(p) + Len(b)
      /\ \A i \in 1..Len(p) : c[i] = p[i]
      /\ \A i \in 1..Len(b) : c[Len(p) + i] = b[i]
  BY Concat
<1>3. /\ l \in Seq(S) /\ Len(l) = Len(p) - m
      /\ \A i \in 1..(Len(p) - m) : l[i] = p[i + m]
  BY Suffix
<1> HIDE DEF c
<1>4. /\ r \in Seq(S) /\ Len(r) = Len(c) - m
      /\ \A i \in 1..(Len(c) - m) : r[i] = c[i + m]
  BY <1>1, <1>2
<1> HIDE DEF l, r
<1>5. /\ l \o b \in Seq(S) /\ Len(l \o b) = Len(l) + Len(b)
      /\ \A i \in 1..Len(l) : (l \o b)[i] = l[i]
      /\ \A i \in 1..Len(b) : (l \o b)[Len(l) + i] = b[i]
  <2>1. l \in Seq(S)
    BY <1>3
  <2>2. QED
    BY <2>1, Concat
<1>6. Len(l \o b) = Len(r)
  BY <1>1, <1>2, <1>3, <1>4, <1>5
<1>7. ASSUME NEW i \in 1..Len(l \o b) PROVE (l \o b)[i] = r[i]
  <2>1. CASE i \in 1..Len(l)
    <3>1. (l \o b)[i] = p[i + m] /\ i + m \in 1..Len(p)
      BY <1>1, <1>3, <1>5, <2>1
    <3>2. r[i] = p[i + m]
      BY <1>1, <1>2, <1>3, <1>4, <2>1, <3>1
    <3>3. QED
      BY <3>1, <3>2
  <2>2. CASE i \notin 1..Len(l)
    <3> DEFINE j == i - Len(l)
    <3>1. j \in 1..Len(b) /\ i = Len(l) + j /\ i + m = Len(p) + j
      BY <1>1, <1>3, <1>5, <2>2
    <3> HIDE DEF j
    <3>2. (l \o b)[i] = b[j]
      BY <1>5, <3>1
    <3>3. r[i] = c[i + m]
      BY <1>1, <1>2, <1>4, <1>5, <1>6, <1>7
    <3>4. c[i + m] = b[j]
      BY <1>2, <3>1
    <3>5. QED
      BY <3>2, <3>3, <3>4
  <2>3. QED
    BY <2>1, <2>2
<1>8. l \o b = r
  BY <1>4, <1>5, <1>6, <1>7, SeqEqual
<1>9. QED
  BY <1>8 DEF l, r, c

-----------------------------------------------------------------------------
(***************************************************************************)
(* Induction.  The strict subsets of finite sets are well founded; the     *)
(* numbers inherit that through their initial segments.                    *)
(***************************************************************************)

\* A family of finite sets has a member of which no other is a strict subset.
LEMMA LeastSet ==
  ASSUME NEW S, NEW U \in SUBSET FiniteSubsetsOf(S), U # {}
  PROVE  \E x \in U : \A y \in U : ~(y \subseteq x /\ y # x)
<1>1. PICK x \in U : \A y \in U : ~(<<y, x>> \in StrictSubsetOrdering(S))
  BY FS_StrictSubsetOrderingWellFounded, WFMin
<1>2. QED
  BY <1>1 DEF StrictSubsetOrdering, FiniteSubsetsOf

LEMMA NatMin ==
  ASSUME NEW T \in SUBSET Nat, T # {}
  PROVE  \E m \in T : \A k \in T : m <= k
<1> DEFINE U == {0..n : n \in T}
<1>1. U # {} /\ U \in SUBSET FiniteSubsetsOf(Nat)
  <2>1. \A n \in T : 0..n \subseteq Nat /\ IsFiniteSet(0..n)
    BY FS_Interval
  <2>2. QED
    BY <2>1 DEF FiniteSubsetsOf
<1>2. PICK x \in U : \A y \in U : ~(y \subseteq x /\ y # x)
  <2> HIDE DEF U
  <2>1. QED
    BY <1>1, LeastSet
<1>3. PICK m \in T : x = 0..m
  OBVIOUS
<1>4. ASSUME NEW k \in T, k < m PROVE FALSE
  <2>1. 0..k \subseteq 0..m /\ 0..k # 0..m
    BY <1>4
  <2>2. QED
    BY <1>2, <1>3, <2>1
<1>5. QED
  BY <1>4

LEMMA NatMax ==
  ASSUME NEW T \in SUBSET Nat, T # {}, IsFiniteSet(T)
  PROVE  \E m \in T : \A k \in T : m >= k
<1> DEFINE Above(n) == {k \in T : k > n}
           U == {Above(n) : n \in T}
<1>1. U # {} /\ U \in SUBSET FiniteSubsetsOf(T)
  <2>1. \A n \in T : Above(n) \subseteq T /\ IsFiniteSet(Above(n))
    BY FS_Subset
  <2> HIDE DEF Above
  <2>2. QED
    BY <2>1 DEF FiniteSubsetsOf
<1>2. PICK x \in U : \A y \in U : ~(y \subseteq x /\ y # x)
  <2> HIDE DEF U
  <2>1. QED
    BY <1>1, LeastSet
<1>3. PICK m \in T : x = Above(m)
  OBVIOUS
<1>4. ASSUME NEW k \in T, k > m PROVE FALSE
  <2>1. (\A j \in T : j > k => j > m) /\ ~(k > k)
    BY <1>4
  <2>2. Above(k) \subseteq Above(m) /\ k \in Above(m) /\ k \notin Above(k)
    BY <1>4, <2>1
  <2> HIDE DEF Above
  <2>3. QED
    BY <1>2, <1>3, <2>2
<1>5. QED
  BY <1>4

\* A finite set of integers has a least one.
LEMMA IntMin ==
  ASSUME NEW T \in SUBSET Int, T # {}, IsFiniteSet(T)
  PROVE  \E m \in T : \A k \in T : m <= k
<1> DEFINE Below(n) == {k \in T : k < n}
           U == {Below(n) : n \in T}
<1>1. U # {} /\ U \in SUBSET FiniteSubsetsOf(T)
  <2>1. \A n \in T : Below(n) \subseteq T /\ IsFiniteSet(Below(n))
    BY FS_Subset
  <2> HIDE DEF Below
  <2>2. QED
    BY <2>1 DEF FiniteSubsetsOf
<1>2. PICK x \in U : \A y \in U : ~(y \subseteq x /\ y # x)
  <2> HIDE DEF U
  <2>1. QED
    BY <1>1, LeastSet
<1>3. PICK m \in T : x = Below(m)
  OBVIOUS
<1>4. ASSUME NEW k \in T, k < m PROVE FALSE
  <2>1. (\A j \in T : j < k => j < m) /\ ~(k < k)
    BY <1>4
  <2>2. Below(k) \subseteq Below(m) /\ k \in Below(m) /\ k \notin Below(k)
    BY <1>4, <2>1
  <2> HIDE DEF Below
  <2>3. QED
    BY <1>2, <1>3, <2>2
<1>5. QED
  BY <1>4

LEMMA SetInduction ==
  ASSUME NEW T \in SUBSET Nat, 0 \in T, \A n \in T : n + 1 \in T
  PROVE  T = Nat
<1>1. SUFFICES ASSUME Nat \ T # {} PROVE FALSE
  OBVIOUS
<1>2. PICK m \in Nat \ T : \A k \in Nat \ T : m <= k
  BY <1>1, NatMin
<1>3. m # 0 /\ m - 1 \in Nat /\ m - 1 \in T
  BY <1>2
<1>4. QED
  BY <1>2, <1>3

\* What every turn of a loop keeps holds in the end.
LEMMA LoopInvariant ==
  ASSUME NEW n \in Nat, NEW S, NEW f, f[0] \in S,
         \A k \in 1..n : f[k - 1] \in S => f[k] \in S
  PROVE  \A k \in 0..n : f[k] \in S
<1> DEFINE T == {k \in Nat : k <= n => f[k] \in S}
<1>1. 0 \in T
  OBVIOUS
<1>2. ASSUME NEW k \in T PROVE k + 1 \in T
  <2>1. k \in Nat /\ k + 1 \in Nat /\ (k + 1) - 1 = k
    OBVIOUS
  <2>2. ASSUME k + 1 <= n PROVE f[k + 1] \in S
    <3>1. k <= n /\ k + 1 \in 1..n
      BY <2>1, <2>2
    <3>2. f[k] \in S
      BY <3>1
    <3>3. QED
      BY <2>1, <3>1, <3>2
  <2>3. QED
    BY <2>1, <2>2
<1>3. T = Nat
  <2> HIDE DEF T
  <2>1. T \in SUBSET Nat
    BY DEF T
  <2>2. QED
    BY <1>1, <1>2, <2>1, SetInduction
<1>4. QED
  BY <1>3

\* A loop of n turns that starts at a and of which turn k takes x to F[k][x].
IsLoop(n, S, a, F) == n \in Nat /\ a \in S /\ F \in [1..n -> [S -> S]]

\* It computes something.
LEMMA LoopExists ==
  ASSUME NEW n, NEW S, NEW a, NEW F, IsLoop(n, S, a, F)
  PROVE  \E f \in [0..n -> S] : f[0] = a /\ \A k \in 1..n : f[k] = F[k][f[k - 1]]
<1> USE DEF IsLoop
<1> DEFINE Run(m) == \E f \in [0..m -> S] :
                       f[0] = a /\ \A k \in 1..m : f[k] = F[k][f[k - 1]]
           T == {m \in Nat : m <= n => Run(m)}
<1>1. 0 \in T
  <2> DEFINE f == [k \in 0..0 |-> a]
  <2>1. f \in [0..0 -> S] /\ f[0] = a /\ 1..0 = {}
    OBVIOUS
  <2> HIDE DEF f
  <2>2. Run(0)
    BY <2>1
  <2> HIDE DEF Run
  <2>3. QED
    BY <2>2
<1>2. ASSUME NEW m \in T PROVE m + 1 \in T
  <2>1. SUFFICES ASSUME m + 1 <= n PROVE Run(m + 1)
    <3> HIDE DEF Run
    <3>1. QED
      OBVIOUS
  <2>2. PICK f \in [0..m -> S] : f[0] = a /\ \A k \in 1..m : f[k] = F[k][f[k - 1]]
    BY <2>1
  <2> DEFINE g == [k \in 0..(m + 1) |-> IF k <= m THEN f[k] ELSE F[m + 1][f[m]]]
  <2>3. F[m + 1][f[m]] \in S
    <3>1. m + 1 \in 1..n /\ f[m] \in S
      BY <2>1
    <3>2. QED
      BY <3>1
  <2>4. g \in [0..(m + 1) -> S] /\ g[0] = a
    BY <2>2, <2>3
  <2>5. \A k \in 1..(m + 1) : g[k] = F[k][g[k - 1]]
    BY <2>2
  <2>6. QED
    <3> HIDE DEF g
    <3>1. QED
      BY <2>4, <2>5
<1>3. T = Nat
  <2> HIDE DEF T
  <2>1. T \in SUBSET Nat
    BY DEF T
  <2>2. QED
    BY <1>1, <1>2, <2>1, SetInduction
<1>4. Run(n)
  BY <1>3
<1>5. QED
  BY <1>4


\* The same when the turns lead from one set to the next.
LEMMA StepInvariant ==
  ASSUME NEW n \in Nat, NEW S, NEW f, f[0] \in S[0],
         \A k \in 1..n : f[k - 1] \in S[k - 1] => f[k] \in S[k]
  PROVE  \A k \in 0..n : f[k] \in S[k]
<1> DEFINE T == {k \in Nat : k <= n => f[k] \in S[k]}
<1>1. 0 \in T
  OBVIOUS
<1>2. ASSUME NEW k \in T PROVE k + 1 \in T
  <2>1. k \in Nat /\ k + 1 \in Nat /\ (k + 1) - 1 = k
    OBVIOUS
  <2>2. ASSUME k + 1 <= n PROVE f[k + 1] \in S[k + 1]
    <3>1. k <= n /\ k + 1 \in 1..n
      BY <2>1, <2>2
    <3>2. f[k] \in S[k]
      BY <3>1
    <3>3. QED
      BY <2>1, <3>1, <3>2
  <2>3. QED
    BY <2>1, <2>2
<1>3. T = Nat
  <2> HIDE DEF T
  <2>1. T \in SUBSET Nat
    BY DEF T
  <2>2. QED
    BY <1>1, <1>2, <2>1, SetInduction
<1>4. QED
  BY <1>3

\* Steps from a in S[0], the k-th from S[k - 1] to S[k].
IsSteps(n, S, a, F) ==
  n \in Nat /\ a \in S[0] /\ \A k \in 1..n : \A x \in S[k - 1] : F[k][x] \in S[k]

LEMMA StepsExist ==
  ASSUME NEW n, NEW S, NEW a, NEW F, IsSteps(n, S, a, F)
  PROVE  \E f : /\ f = [k \in 0..n |-> IF k = 0 THEN a ELSE F[k][f[k - 1]]]
                /\ \A k \in 0..n : f[k] \in S[k]
<1> DEFINE U == UNION {S[k] : k \in 0..n}
           G == [k \in 1..n |-> [x \in U |-> IF x \in S[k - 1] THEN F[k][x] ELSE x]]
<1>1. n \in Nat /\ a \in S[0] /\ \A k \in 1..n : \A x \in S[k - 1] : F[k][x] \in S[k]
  BY DEF IsSteps
<1>2. ASSUME NEW k \in 1..n, NEW x \in U
      PROVE  (IF x \in S[k - 1] THEN F[k][x] ELSE x) \in U
  <2>1. k \in 0..n
    BY <1>1
  <2>2. x \in S[k - 1] => F[k][x] \in U
    BY <1>1, <2>1
  <2>3. QED
    BY <1>2, <2>2
<1>3. a \in U
  BY <1>1
<1> HIDE DEF U
<1>4. IsLoop(n, U, a, G)
  BY <1>1, <1>2, <1>3 DEF IsLoop
<1>5. PICK f \in [0..n -> U] : f[0] = a /\ \A k \in 1..n : f[k] = G[k][f[k - 1]]
  <2> HIDE DEF G
  <2>1. QED
    BY <1>4, LoopExists
<1>6. ASSUME NEW k \in 1..n
      PROVE  f[k] = IF f[k - 1] \in S[k - 1] THEN F[k][f[k - 1]] ELSE f[k - 1]
  <2>1. k - 1 \in 0..n
    BY <1>1
  <2>2. f[k - 1] \in U
    BY <2>1
  <2>3. QED
    BY <1>5, <2>2
<1>7. ASSUME NEW k \in 1..n, f[k - 1] \in S[k - 1] PROVE f[k] \in S[k]
  BY <1>1, <1>6, <1>7
<1>8. f[0] \in S[0]
  BY <1>1, <1>5
<1>9. \A k \in 0..n : f[k] \in S[k]
  <2> HIDE DEF G
  <2>1. QED
    BY <1>1, <1>7, <1>8, StepInvariant
<1>10. ASSUME NEW k \in 0..n PROVE f[k] = IF k = 0 THEN a ELSE F[k][f[k - 1]]
  <2>1. CASE k = 0
    BY <1>5, <2>1
  <2>2. CASE k # 0
    <3> DEFINE j == k - 1
    <3>1. k \in 1..n /\ j \in 0..n
      BY <1>1, <2>2
    <3> HIDE DEF j
    <3>2. f[j] \in S[j]
      BY <1>9, <3>1
    <3>3. QED
      BY <1>6, <2>2, <3>1, <3>2 DEF j
  <2>3. QED
    BY <2>1, <2>2
<1>11. f = [k \in 0..n |-> IF k = 0 THEN a ELSE F[k][f[k - 1]]]
  BY <1>10
<1>12. QED
  BY <1>9, <1>11

-----------------------------------------------------------------------------
(***************************************************************************)
(* Sums over a finite set                                                  *)
(***************************************************************************)

\* By how much a count changes when something that satisfies a comes to satisfy b.
Change(a, b) == (IF b THEN 1 ELSE 0) - (IF a THEN 1 ELSE 0)

Chosen(s) == CHOOSE x \in s : TRUE

\* The subsets of S with n elements at most.
UpTo(S, n) == {s \in SUBSET S : Cardinality(s) <= n}

\* h[s] is the sum of f over s, for the sets s of D.
IsSum(h, f, D) ==
  h = [s \in D |-> IF s = {} THEN 0 ELSE f[Chosen(s)] + h[s \ {Chosen(s)}]]

LEMMA ChosenFromUpTo ==
  ASSUME NEW S, IsFiniteSet(S), NEW n \in Nat, NEW s \in UpTo(S, n + 1), s # {}
  PROVE  /\ Chosen(s) \in s /\ Chosen(s) \in S
         /\ s \ {Chosen(s)} \in UpTo(S, n)
<1>1. Chosen(s) \in s /\ s \in SUBSET S
  BY DEF Chosen, UpTo
<1>2. IsFiniteSet(s) /\ Cardinality(s) \in Nat /\ Cardinality(s) <= n + 1
  BY <1>1, FS_Subset, FS_CardinalityType DEF UpTo
<1>3. Cardinality(s \ {Chosen(s)}) = Cardinality(s) - 1
  BY <1>1, <1>2, FS_RemoveElement
<1>4. Cardinality(s \ {Chosen(s)}) <= n
  BY <1>2, <1>3
<1>5. QED BY <1>1, <1>4 DEF UpTo

LEMMA UpToNone ==
  ASSUME NEW S, IsFiniteSet(S), NEW s \in UpTo(S, 0)
  PROVE  s = {}
<1>1. s \in SUBSET S /\ Cardinality(s) <= 0
  BY DEF UpTo
<1>2. IsFiniteSet(s) /\ Cardinality(s) \in Nat
  BY <1>1, FS_Subset, FS_CardinalityType
<1>3. Cardinality(s) = 0
  BY <1>1, <1>2
<1>4. QED BY <1>2, <1>3, FS_EmptySet

LEMMA UpToAll ==
  ASSUME NEW S, IsFiniteSet(S)
  PROVE  UpTo(S, Cardinality(S)) = SUBSET S /\ Cardinality(S) \in Nat
<1>1. ASSUME NEW s \in SUBSET S PROVE Cardinality(s) <= Cardinality(S)
  BY FS_Subset
<1>2. QED BY <1>1, FS_CardinalityType DEF UpTo

LEMMA SumUpTo ==
  ASSUME NEW S, IsFiniteSet(S), NEW f \in [S -> Int], NEW n \in Nat,
         NEW h \in [UpTo(S, n) -> Int], IsSum(h, f, UpTo(S, n))
  PROVE  \E g \in [UpTo(S, n + 1) -> Int] : IsSum(g, f, UpTo(S, n + 1))
<1> DEFINE D == UpTo(S, n)
           E == UpTo(S, n + 1)
           g == [s \in E |-> IF s = {} THEN 0 ELSE f[Chosen(s)] + h[s \ {Chosen(s)}]]
<1>1. ASSUME NEW s \in E, s # {}
      PROVE  Chosen(s) \in S /\ s \ {Chosen(s)} \in D
  BY <1>1, ChosenFromUpTo
<1>2. \A s \in D : s \in E /\ h[s] = IF s = {} THEN 0 ELSE f[Chosen(s)] + h[s \ {Chosen(s)}]
  <2>1. \A s \in D : s \in E
    <3> SUFFICES ASSUME NEW s \in D PROVE s \in E
      OBVIOUS
    <3>1. s \in SUBSET S /\ Cardinality(s) <= n
      BY DEF UpTo
    <3>2. Cardinality(s) \in Nat
      BY <3>1, FS_Subset, FS_CardinalityType
    <3>3. QED BY <3>1, <3>2 DEF UpTo
  <2>2. QED BY <2>1 DEF IsSum
<1> HIDE DEF D, E
<1>3. g \in [E -> Int]
  BY <1>1 DEF D
<1>4. \A s \in D : g[s] = h[s]
  BY <1>2
<1>5. g = [s \in E |-> IF s = {} THEN 0 ELSE f[Chosen(s)] + g[s \ {Chosen(s)}]]
  <2> DEFINE k == [s \in E |-> IF s = {} THEN 0 ELSE f[Chosen(s)] + g[s \ {Chosen(s)}]]
  <2>1. \A s \in E : g[s] = k[s]
    <3> SUFFICES ASSUME NEW s \in E PROVE g[s] = k[s]
      OBVIOUS
    <3>1. g[s] = IF s = {} THEN 0 ELSE f[Chosen(s)] + h[s \ {Chosen(s)}]
      OBVIOUS
    <3>2. k[s] = IF s = {} THEN 0 ELSE f[Chosen(s)] + g[s \ {Chosen(s)}]
      OBVIOUS
    <3>3. s # {} => g[s \ {Chosen(s)}] = h[s \ {Chosen(s)}]
      BY <1>1, <1>4
    <3> HIDE DEF g, k
    <3>4. QED BY <3>1, <3>2, <3>3
  <2>2. QED BY <2>1
<1>6. IsSum(g, f, E)
  <2> HIDE DEF g
  <2>1. QED BY <1>5 DEF IsSum
<1> HIDE DEF g
<1>7. QED BY <1>3, <1>6 DEF E

LEMMA SumExists ==
  ASSUME NEW S, IsFiniteSet(S), NEW f \in [S -> Int]
  PROVE  \E h \in [SUBSET S -> Int] : IsSum(h, f, SUBSET S)
<1> DEFINE T == {n \in Nat : \E h \in [UpTo(S, n) -> Int] : IsSum(h, f, UpTo(S, n))}
<1>1. 0 \in T
  <2> DEFINE D == UpTo(S, 0)
             h == [s \in D |-> 0]
  <2>1. \A s \in D : s = {}
    BY UpToNone
  <2> HIDE DEF D
  <2>2. h = [s \in D |-> IF s = {} THEN 0 ELSE f[Chosen(s)] + h[s \ {Chosen(s)}]]
    BY <2>1
  <2>3. h \in [D -> Int] /\ IsSum(h, f, D)
    BY <2>2 DEF IsSum
  <2> HIDE DEF h
  <2>4. QED BY <2>3 DEF D
<1>2. ASSUME NEW n \in T PROVE n + 1 \in T
  BY <1>2, SumUpTo
<1> HIDE DEF T
<1>3. T = Nat
  <2>1. T \in SUBSET Nat
    BY DEF T
  <2>2. QED BY <1>1, <1>2, <2>1, SetInduction
<1>4. Cardinality(S) \in T
  BY <1>3, UpToAll
<1>5. \E h \in [UpTo(S, Cardinality(S)) -> Int] : IsSum(h, f, UpTo(S, Cardinality(S)))
  BY <1>4 DEF T
<1>6. UpTo(S, Cardinality(S)) = SUBSET S
  BY UpToAll
<1>7. QED BY <1>5, <1>6

\* SumFunction of the community modules is that sum over the whole domain.
LEMMA SumIs ==
  ASSUME NEW S, IsFiniteSet(S), NEW f \in [S -> Int]
  PROVE  \E h : /\ IsSum(h, f, SUBSET S) /\ SumFunction(f) = h[S]
<1>1. DOMAIN f = S
  OBVIOUS
<1>a. PICK g : IsSum(g, f, SUBSET S)
  BY SumExists
<1>2. g = [s \in SUBSET DOMAIN f |->
             IF s = {} THEN 0 ELSE f[Chosen(s)] + g[s \ {Chosen(s)}]]
  BY <1>a, <1>1 DEF IsSum
<1>3. \E h : /\ h = [s \in SUBSET DOMAIN f |->
                       IF s = {} THEN 0 ELSE f[Chosen(s)] + h[s \ {Chosen(s)}]]
             /\ SumFunction(f) = h[DOMAIN f]
  BY <1>2 DEF SumFunction, SumFunctionOnSet, FoldFunctionOnSet, MapThenFoldSet, Chosen
<1>4. QED BY <1>1, <1>3 DEF IsSum

\* A sum does not grow when one value grows by one at the cost of another: over a part
\* of the set it changes by one at most, if the part has one of the two.
LEMMA SumsCompare ==
  ASSUME NEW S, IsFiniteSet(S), NEW f \in [S -> Int], NEW g \in [S -> Int], NEW a, NEW b,
         \A x \in S : g[x] <= f[x] + Change(x = a, x = b),
         a \in S <=> b \in S,
         NEW h, IsSum(h, f, SUBSET S), NEW k, IsSum(k, g, SUBSET S)
  PROVE  h[S] \in Int /\ k[S] \in Int /\ k[S] <= h[S]
<1> DEFINE Good(s) == /\ h[s] \in Int /\ k[s] \in Int
                      /\ k[s] <= h[s] + Change(a \in s, b \in s)
           T == {n \in Nat : \A s \in UpTo(S, n) : Good(s)}
<1>0. ASSUME NEW s \in SUBSET S
      PROVE  /\ h[s] = IF s = {} THEN 0 ELSE f[Chosen(s)] + h[s \ {Chosen(s)}]
             /\ k[s] = IF s = {} THEN 0 ELSE g[Chosen(s)] + k[s \ {Chosen(s)}]
  BY DEF IsSum
<1>1. 0 \in T
  <2>1. h[{}] = 0 /\ k[{}] = 0
    BY <1>0
  <2>2. Change(a \in {}, b \in {}) = 0
    BY DEF Change
  <2>3. Good({})
    BY <2>1, <2>2
  <2>4. QED BY <2>3, UpToNone
<1>2. ASSUME NEW n \in T PROVE n + 1 \in T
  <2> SUFFICES ASSUME NEW s \in UpTo(S, n + 1) PROVE Good(s)
    OBVIOUS
  <2>1. CASE s = {}
    <3>1. h[{}] = 0 /\ k[{}] = 0
      BY <1>0
    <3>2. Change(a \in {}, b \in {}) = 0
      BY DEF Change
    <3>3. QED BY <2>1, <3>1, <3>2
  <2>2. CASE s # {}
    <3> DEFINE x == Chosen(s)
               r == s \ {x}
    <3>1. x \in s /\ x \in S /\ r \in UpTo(S, n)
      BY <2>2, ChosenFromUpTo
    <3>2. Good(r)
      BY <3>1
    <3>3. s \in SUBSET S
      BY DEF UpTo
    <3>4. h[s] = f[x] + h[r] /\ k[s] = g[x] + k[r]
      BY <1>0, <2>2, <3>3
    <3>5. f[x] \in Int /\ g[x] \in Int /\ g[x] <= f[x] + Change(x = a, x = b)
      BY <3>1
    <3>6. Change(x = a, x = b) + Change(a \in r, b \in r) = Change(a \in s, b \in s)
      BY <3>1 DEF Change
    <3>7. /\ Change(x = a, x = b) \in Int /\ Change(a \in r, b \in r) \in Int
          /\ Change(a \in s, b \in s) \in Int
      BY DEF Change
    <3>8. /\ h[r] \in Int /\ k[r] \in Int
          /\ k[r] <= h[r] + Change(a \in r, b \in r)
      BY <3>2
    <3> DEFINE p == Change(x = a, x = b)
               q == Change(a \in r, b \in r)
               o == Change(a \in s, b \in s)
    <3>9. /\ p \in Int /\ q \in Int /\ o \in Int /\ p + q = o
          /\ g[x] <= f[x] + p /\ k[r] <= h[r] + q
      BY <3>5, <3>6, <3>7, <3>8
    <3> HIDE DEF x, r, p, q, o
    <3>10. h[s] \in Int /\ k[s] \in Int /\ k[s] <= h[s] + o
      BY <3>4, <3>5, <3>8, <3>9
    <3>11. QED BY <3>10 DEF o
  <2>3. QED BY <2>1, <2>2
<1> HIDE DEF T
<1>3. T = Nat
  <2>1. T \in SUBSET Nat
    BY DEF T
  <2>2. QED BY <1>1, <1>2, <2>1, SetInduction
<1>4. Cardinality(S) \in T
  BY <1>3, UpToAll
<1>5. S \in UpTo(S, Cardinality(S))
  BY UpToAll
<1>6. Good(S)
  BY <1>4, <1>5 DEF T
<1>7. Change(a \in S, b \in S) = 0
  BY DEF Change
<1>8. QED BY <1>6, <1>7

LEMMA SumKept ==
  ASSUME NEW S, IsFiniteSet(S), NEW f \in [S -> Int], NEW g \in [S -> Int], NEW a, NEW b,
         \A x \in S : g[x] <= f[x] + Change(x = a, x = b), a \in S <=> b \in S
  PROVE  /\ SumFunction(f) \in Int /\ SumFunction(g) \in Int
         /\ SumFunction(g) <= SumFunction(f)
<1>1. PICK h : IsSum(h, f, SUBSET S) /\ SumFunction(f) = h[S]
  BY SumIs
<1>2. PICK k : IsSum(k, g, SUBSET S) /\ SumFunction(g) = k[S]
  BY SumIs
<1>3. h[S] \in Int /\ k[S] \in Int /\ k[S] <= h[S]
  BY <1>1, <1>2, SumsCompare
<1>4. QED BY <1>1, <1>2, <1>3


\* All values but one are at least s.
LEMMA SumAtLeast ==
  ASSUME NEW S, IsFiniteSet(S), NEW f \in [S -> Int], NEW a \in S, NEW s \in Nat,
         \A x \in S : f[x] >= 0 /\ (x # a => f[x] >= s)
  PROVE  SumFunction(f) \in Int /\ SumFunction(f) >= (Cardinality(S) - 1) * s
<1>1. PICK h : IsSum(h, f, SUBSET S) /\ SumFunction(f) = h[S]
  BY SumIs
<1> DEFINE Others(t) == Cardinality(t) - (IF a \in t THEN 1 ELSE 0)
           Good(t) == h[t] \in Int /\ Others(t) \in Int /\ h[t] >= Others(t) * s
           T == {n \in Nat : \A t \in UpTo(S, n) : Good(t)}
<1>2. ASSUME NEW t \in SUBSET S
      PROVE  h[t] = IF t = {} THEN 0 ELSE f[Chosen(t)] + h[t \ {Chosen(t)}]
  BY <1>1 DEF IsSum
<1>3. Good({})
  <2>1. h[{}] = 0
    BY <1>2
  <2>2. Others({}) = 0
    BY FS_EmptySet
  <2> HIDE DEF Others
  <2>3. QED BY <2>1, <2>2
<1>4. 0 \in T
  BY <1>3, UpToNone
<1>5. ASSUME NEW n \in T PROVE n + 1 \in T
  <2> SUFFICES ASSUME NEW t \in UpTo(S, n + 1) PROVE Good(t)
    OBVIOUS
  <2>1. CASE t = {}
    BY <1>3, <2>1
  <2>2. CASE t # {}
    <3> DEFINE x == Chosen(t)
               r == t \ {x}
    <3>1. x \in t /\ x \in S /\ r \in UpTo(S, n)
      BY <2>2, ChosenFromUpTo
    <3>2. h[r] \in Int /\ Others(r) \in Int /\ h[r] >= Others(r) * s
      BY <3>1
    <3>3. t \in SUBSET S /\ IsFiniteSet(t)
      BY FS_Subset DEF UpTo
    <3>4. h[t] = f[x] + h[r]
      BY <1>2, <2>2, <3>3
    <3>5. f[x] \in Int /\ f[x] >= 0 /\ (x # a => f[x] >= s)
      BY <3>1
    <3>6. Cardinality(r) = Cardinality(t) - 1 /\ Cardinality(t) \in Nat
      BY <3>1, <3>3, FS_RemoveElement, FS_CardinalityType
    <3>7. Others(t) = Others(r) + (IF x = a THEN 0 ELSE 1) /\ Others(t) \in Int
      BY <3>1, <3>6
    <3> DEFINE o == Others(r)
    <3> HIDE DEF Others, x, r
    <3>8. o \in Int /\ h[r] >= o * s
      BY <3>2
    <3> HIDE DEF o
    <3>9. CASE x = a
      <4>1. Others(t) = o
        BY <3>7, <3>8, <3>9 DEF o
      <4>2. o * s \in Int
        BY <3>8
      <4>3. h[t] >= o * s
        BY <3>2, <3>4, <3>5, <3>8, <4>2
      <4>4. QED BY <3>2, <3>4, <3>5, <3>7, <4>1, <4>3
    <3>10. CASE x # a
      <4>1. Others(t) = o + 1
        BY <3>7, <3>10 DEF o
      <4>2. o * s \in Int /\ (o + 1) * s = o * s + s
        BY <3>8
      <4>3. h[t] >= o * s + s
        BY <3>2, <3>4, <3>5, <3>8, <3>10, <4>2
      <4>4. QED BY <3>2, <3>4, <3>5, <3>7, <4>1, <4>2, <4>3
    <3>11. QED BY <3>9, <3>10
  <2>3. QED BY <2>1, <2>2
<1> HIDE DEF T
<1>6. T = Nat
  <2>1. T \in SUBSET Nat
    BY DEF T
  <2>2. QED BY <1>4, <1>5, <2>1, SetInduction
<1>7. Cardinality(S) \in T /\ S \in UpTo(S, Cardinality(S))
  BY <1>6, UpToAll
<1>8. Good(S)
  BY <1>7 DEF T
<1>9. Others(S) = Cardinality(S) - 1
  OBVIOUS
<1>10. QED BY <1>1, <1>8, <1>9


LEMMA DisjointUnion ==
  ASSUME NEW A, IsFiniteSet(A), NEW B, IsFiniteSet(B), A \cap B = {}
  PROVE  /\ IsFiniteSet(A \cup B) /\ Cardinality(A \cup B) = Cardinality(A) + Cardinality(B)
         /\ Cardinality(A) \in Nat /\ Cardinality(B) \in Nat
<1>1. /\ IsFiniteSet(A \cup B)
      /\ Cardinality(A \cup B) = Cardinality(A) + Cardinality(B) - Cardinality(A \cap B)
  BY FS_Union
<1>2. Cardinality(A \cap B) = 0
  BY FS_EmptySet
<1>3. Cardinality(A) \in Nat /\ Cardinality(B) \in Nat
  BY FS_CardinalityType
<1>4. QED BY <1>1, <1>2, <1>3

\* All the elements of the sets O[x].
Cover(O, s) == UNION {O[x] : x \in s}

\* The sizes of disjoint sets add up to the size of their union.
LEMMA SumCounts ==
  ASSUME NEW S, IsFiniteSet(S), NEW f \in [S -> Int], NEW O,
         \A x \in S : IsFiniteSet(O[x]) /\ Cardinality(O[x]) = f[x],
         \A x, y \in S : x # y => O[x] \cap O[y] = {}
  PROVE  SumFunction(f) = Cardinality(Cover(O, S)) /\ IsFiniteSet(Cover(O, S))
<1>1. PICK h : IsSum(h, f, SUBSET S) /\ SumFunction(f) = h[S]
  BY SumIs
<1> DEFINE Good(t) == IsFiniteSet(Cover(O, t)) /\ h[t] = Cardinality(Cover(O, t))
           T == {n \in Nat : \A t \in UpTo(S, n) : Good(t)}
<1>2. ASSUME NEW t \in SUBSET S
      PROVE  h[t] = IF t = {} THEN 0 ELSE f[Chosen(t)] + h[t \ {Chosen(t)}]
  BY <1>1 DEF IsSum
<1>3. Good({})
  <2>1. h[{}] = 0 /\ Cover(O, {}) = {}
    BY <1>2 DEF Cover
  <2>2. QED BY <2>1, FS_EmptySet
<1>4. 0 \in T
  BY <1>3, UpToNone
<1>5. ASSUME NEW n \in T PROVE n + 1 \in T
  <2> SUFFICES ASSUME NEW t \in UpTo(S, n + 1) PROVE Good(t)
    OBVIOUS
  <2>1. CASE t = {}
    BY <1>3, <2>1
  <2>2. CASE t # {}
    <3> DEFINE x == Chosen(t)
               r == t \ {x}
    <3>1. x \in t /\ x \in S /\ r \in UpTo(S, n)
      BY <2>2, ChosenFromUpTo
    <3>2. IsFiniteSet(Cover(O, r)) /\ h[r] = Cardinality(Cover(O, r))
      BY <3>1
    <3>3. t \in SUBSET S
      BY DEF UpTo
    <3>4. h[t] = f[x] + h[r]
      BY <1>2, <2>2, <3>3
    <3>5. t = r \cup {x} /\ x \notin r /\ r \in SUBSET S
      BY <3>1, <3>3
    <3> HIDE DEF x, r
    <3>6. Cover(O, t) = O[x] \cup Cover(O, r)
      BY <3>5 DEF Cover
    <3>7. O[x] \cap Cover(O, r) = {}
      BY <3>1, <3>5 DEF Cover
    <3>8. IsFiniteSet(O[x]) /\ Cardinality(O[x]) = f[x] /\ f[x] \in Int
      BY <3>1
    <3> DEFINE A == O[x]
               B == Cover(O, r)
    <3>9. IsFiniteSet(A) /\ IsFiniteSet(B) /\ A \cap B = {}
      BY <3>2, <3>7, <3>8
    <3> HIDE DEF A, B
    <3>10. IsFiniteSet(A \cup B) /\ Cardinality(A \cup B) = Cardinality(A) + Cardinality(B)
           /\ Cardinality(A) \in Nat /\ Cardinality(B) \in Nat
      BY <3>9, DisjointUnion
    <3>11. QED BY <3>2, <3>4, <3>6, <3>8, <3>10 DEF A, B
  <2>3. QED BY <2>1, <2>2
<1> HIDE DEF T
<1>6. T = Nat
  <2>1. T \in SUBSET Nat
    BY DEF T
  <2>2. QED BY <1>4, <1>5, <2>1, SetInduction
<1>7. Cardinality(S) \in T /\ S \in UpTo(S, Cardinality(S))
  BY <1>6, UpToAll
<1>8. Good(S)
  BY <1>7 DEF T
<1>9. QED BY <1>1, <1>8

\* One value can be taken out of a sum.
LEMMA SumWithout ==
  ASSUME NEW S, IsFiniteSet(S), NEW f \in [S -> Nat], NEW k \in S,
         NEW g, g = [x \in S \ {k} |-> f[x]]
  PROVE  /\ SumFunction(f) = f[k] + SumFunction(g)
         /\ SumFunction(f) \in Nat /\ SumFunction(g) \in Nat
<1> DEFINE O == [x \in S |-> {x} \X (1..f[x])]
           R == S \ {k}
<1>1. ASSUME NEW x \in S PROVE IsFiniteSet(O[x]) /\ Cardinality(O[x]) = f[x]
  <2>1. f[x] \in Nat /\ f[x] \in Int
    OBVIOUS
  <2>2. IsFiniteSet(1..f[x]) /\ Cardinality(1..f[x]) = f[x]
    BY <2>1, FS_Interval
  <2>3. IsFiniteSet({x}) /\ Cardinality({x}) = 1
    BY FS_Singleton
  <2> DEFINE A == {x}
             B == 1..f[x]
  <2> HIDE DEF A, B
  <2>4. IsFiniteSet(A \X B) /\ Cardinality(A \X B) = Cardinality(A) * Cardinality(B)
    BY <2>2, <2>3, FS_Product DEF A, B
  <2>5. Cardinality(A) * Cardinality(B) = f[x]
    BY <2>1, <2>2, <2>3 DEF A, B
  <2>6. QED BY <2>4, <2>5 DEF A, B
<1>2. ASSUME NEW x \in S, NEW y \in S, x # y PROVE O[x] \cap O[y] = {}
  BY <1>2
<1>3. f \in [S -> Int] /\ g \in [R -> Int] /\ IsFiniteSet(R) /\ \A x \in R : g[x] = f[x]
  BY FS_RemoveElement
<1>4. S = R \cup {k} /\ k \notin R /\ R \in SUBSET S
  OBVIOUS
<1>12. \A x \in R : IsFiniteSet(O[x]) /\ Cardinality(O[x]) = g[x]
  BY <1>1, <1>3, <1>4
<1>13. \A x, y \in R : x # y => O[x] \cap O[y] = {}
  BY <1>2, <1>4
<1> HIDE DEF O, R
<1>5. SumFunction(f) = Cardinality(Cover(O, S)) /\ IsFiniteSet(Cover(O, S))
  BY <1>1, <1>2, <1>3, SumCounts
<1>6. SumFunction(g) = Cardinality(Cover(O, R)) /\ IsFiniteSet(Cover(O, R))
  BY <1>3, <1>12, <1>13, SumCounts
<1>7. Cover(O, S) = O[k] \cup Cover(O, R)
  BY <1>4 DEF Cover
<1>8. O[k] \cap Cover(O, R) = {}
  BY <1>2, <1>4 DEF Cover
<1> DEFINE A == O[k]
           B == Cover(O, R)
<1>9. IsFiniteSet(A) /\ IsFiniteSet(B) /\ A \cap B = {} /\ Cardinality(A) = f[k]
  BY <1>1, <1>6, <1>8
<1> HIDE DEF A, B
<1>10. Cardinality(A \cup B) = Cardinality(A) + Cardinality(B)
       /\ Cardinality(A) \in Nat /\ Cardinality(B) \in Nat
  BY <1>9, DisjointUnion
<1>11. QED BY <1>5, <1>6, <1>7, <1>9, <1>10 DEF A, B

=============================================================================
