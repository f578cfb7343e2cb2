------------------------- MODULE ServerConfigProofs -------------------------
(***************************************************************************)
(* Proofs about the logs, for any limits, any lengths of messages and any  *)
(* configuration.                                                          *)
(***************************************************************************)
EXTENDS ServerConfig, ProofBasics

-----------------------------------------------------------------------------
(***************************************************************************)
(* Files                                                                   *)
(***************************************************************************)

Records == [n : Nat, len : Nat]
Messages == [n : Nat \ {0}, len : Lengths]

LEMMA NoLength ==
  ASSUME NEW S, NEW q \in Seq(S)
  PROVE  Len(q) \in Nat /\ (q = <<>> <=> Len(q) = 0)
BY EmptySeq

\* Size counts from the beginning.
LEMMA SizeIs ==
  ASSUME NEW q \in Seq(Records)
  PROVE  \E sum : /\ sum = [i \in 0..Len(q) |-> IF i = 0 THEN 0 ELSE sum[i - 1] + q[i].len]
                  /\ \A i \in 0..Len(q) : sum[i] \in Nat
                  /\ Size(q) = sum[Len(q)]
<1> DEFINE n == Len(q)
           S == [k \in 0..n |-> Nat]
           F == [k \in 1..n |-> [x \in Nat |-> x + q[k].len]]
<1>1. n \in Nat /\ \A k \in 1..n : q[k].len \in Nat
  <2>1. n \in Nat /\ \A k \in 1..n : q[k] \in Records
    OBVIOUS
  <2>2. QED
    BY <2>1 DEF Records
<1> HIDE DEF n
<1>2. IsSteps(n, S, 0, F)
  <2>1. 0 \in S[0]
    BY <1>1
  <2>2. ASSUME NEW k \in 1..n, NEW x \in S[k - 1] PROVE F[k][x] \in S[k]
    <3>1. k - 1 \in 0..n /\ k \in 0..n
      BY <1>1
    <3>2. x \in Nat /\ F[k][x] = x + q[k].len
      BY <3>1
    <3>3. F[k][x] \in Nat
      BY <1>1, <3>2
    <3>4. QED
      BY <3>1, <3>3
  <2>3. QED
    BY <1>1, <2>1, <2>2 DEF IsSteps
<1>3. PICK f : /\ f = [k \in 0..n |-> IF k = 0 THEN 0 ELSE F[k][f[k - 1]]]
               /\ \A k \in 0..n : f[k] \in S[k]
  <2> HIDE DEF F, S
  <2>1. QED
    BY <1>2, StepsExist
<1>4. \A k \in 0..n : f[k] \in Nat
  BY <1>3
<1>5. f = [i \in 0..n |-> IF i = 0 THEN 0 ELSE f[i - 1] + q[i].len]
  <2> DEFINE g == [i \in 0..n |-> IF i = 0 THEN 0 ELSE f[i - 1] + q[i].len]
  <2>1. ASSUME NEW k \in 0..n PROVE f[k] = g[k]
    <3>1. CASE k = 0
      BY <1>3, <3>1
    <3>2. CASE k # 0
      <4>1. k \in 1..n /\ k - 1 \in 0..n
        BY <1>1, <3>2
      <4>2. f[k - 1] \in Nat
        BY <1>4, <4>1
      <4>3. f[k] = F[k][f[k - 1]]
        BY <1>3, <3>2
      <4>4. F[k][f[k - 1]] = f[k - 1] + q[k].len
        BY <4>1, <4>2
      <4>5. QED
        BY <3>2, <4>3, <4>4
    <3>3. QED
      BY <3>1, <3>2
  <2>2. QED
    BY <1>3, <2>1
<1> DEFINE h == CHOOSE s : s = [i \in 0..n |-> IF i = 0 THEN 0 ELSE s[i - 1] + q[i].len]
<1>6. h = [i \in 0..n |-> IF i = 0 THEN 0 ELSE h[i - 1] + q[i].len]
  <2> HIDE DEF F, S
  <2>1. QED
    BY <1>5
<1>7. Size(q) = h[n]
  BY DEF Size, n
<1> HIDE DEF h
<1>8. \A i \in 0..n : h[i] \in Nat
  <2> DEFINE T == [k \in 0..n |-> Nat]
  <2>1. h[0] \in T[0]
    BY <1>1, <1>6
  <2>2. ASSUME NEW k \in 1..n, h[k - 1] \in T[k - 1] PROVE h[k] \in T[k]
    <3>1. k \in 0..n /\ k - 1 \in 0..n /\ k # 0
      BY <1>1
    <3>2. h[k - 1] \in Nat
      BY <2>2, <3>1
    <3>3. h[k] = h[k - 1] + q[k].len
      BY <1>6, <3>1
    <3>4. QED
      BY <1>1, <3>1, <3>2, <3>3
  <2>3. \A k \in 0..n : h[k] \in T[k]
    <3> HIDE DEF T
    <3>1. QED
      BY <1>1, <2>1, <2>2, StepInvariant
  <2>4. QED
    BY <2>3
<1>9. QED
  BY <1>6, <1>7, <1>8 DEF n


LEMMA SizeNone ==
  Size(<<>>) = 0
<1>1. <<>> \in Seq(Records) /\ Len(<<>>) = 0
  BY EmptySeq
<1>2. PICK sum : /\ sum = [i \in 0..Len(<<>>) |->
                              IF i = 0 THEN 0 ELSE sum[i - 1] + (<<>>)[i].len]
                 /\ \A i \in 0..Len(<<>>) : sum[i] \in Nat
                 /\ Size(<<>>) = sum[Len(<<>>)]
  BY <1>1, SizeIs
<1>3. sum[0] = 0
  BY <1>1, <1>2
<1>4. QED
  BY <1>1, <1>2, <1>3

LEMMA SizeAppend ==
  ASSUME NEW q \in Seq(Records), NEW m \in Records
  PROVE  /\ Size(q) \in Nat
         /\ Size(Append(q, m)) = Size(q) + m.len
<1> DEFINE n == Len(q)
           r == Append(q, m)
<1>1. /\ n \in Nat /\ r \in Seq(Records) /\ Len(r) = n + 1
      /\ \A i \in 1..n : r[i] = q[i]
      /\ r[n + 1] = m
  BY AppendProperties
<1>2. PICK s : /\ s = [i \in 0..Len(q) |-> IF i = 0 THEN 0 ELSE s[i - 1] + q[i].len]
               /\ \A i \in 0..Len(q) : s[i] \in Nat
               /\ Size(q) = s[Len(q)]
  BY SizeIs
<1>3. PICK t : /\ t = [i \in 0..Len(r) |-> IF i = 0 THEN 0 ELSE t[i - 1] + r[i].len]
               /\ \A i \in 0..Len(r) : t[i] \in Nat
               /\ Size(r) = t[Len(r)]
  <2> HIDE DEF r
  <2>1. QED
    BY <1>1, SizeIs
<1> HIDE DEF r, n
<1>4. /\ \A i \in 0..n : s[i] = IF i = 0 THEN 0 ELSE s[i - 1] + q[i].len
      /\ \A i \in 0..(n + 1) : t[i] = IF i = 0 THEN 0 ELSE t[i - 1] + r[i].len
      /\ \A i \in 0..n : s[i] \in Nat
      /\ Size(q) = s[n] /\ Size(r) = t[n + 1]
  BY <1>1, <1>2, <1>3 DEF n
<1> DEFINE T == [k \in 0..n |-> {s[k]}]
<1>5. t[0] \in T[0]
  BY <1>1, <1>4
<1>6. ASSUME NEW k \in 1..n, t[k - 1] \in T[k - 1] PROVE t[k] \in T[k]
  <2>1. k \in 0..n /\ k \in 0..(n + 1) /\ k - 1 \in 0..n /\ k # 0
    BY <1>1
  <2>2. t[k - 1] = s[k - 1] /\ r[k] = q[k]
    BY <1>1, <1>6, <2>1
  <2>3. s[k] = s[k - 1] + q[k].len /\ t[k] = t[k - 1] + r[k].len
    BY <1>4, <2>1
  <2>4. QED
    BY <2>1, <2>2, <2>3
<1>7. \A k \in 0..n : t[k] \in T[k]
  <2> HIDE DEF T
  <2>1. QED
    BY <1>1, <1>5, <1>6, StepInvariant
<1>8. t[n] = s[n] /\ n \in 0..n
  BY <1>1, <1>7
<1>9. t[n + 1] = t[n] + m.len
  <2>1. n + 1 \in 0..(n + 1) /\ n + 1 # 0 /\ (n + 1) - 1 = n
    BY <1>1
  <2>2. QED
    BY <1>1, <1>4, <2>1
<1>10. QED
  BY <1>4, <1>8, <1>9 DEF r, n

LEMMA SizeOne ==
  ASSUME NEW m \in Records
  PROVE  Size(<<m>>) = m.len /\ <<m>> \in Seq(Records)
<1>1. <<>> \in Seq(Records) /\ <<m>> = Append(<<>>, m) /\ m.len \in Nat
  BY EmptySeq, AppendProperties DEF Records
<1>2. Size(Append(<<>>, m)) = Size(<<>>) + m.len
  BY <1>1, SizeAppend
<1>3. QED
  BY <1>1, <1>2, SizeNone

LEMMA SizeMissing ==
  Size(Missing) = 0
<1>1. [n |-> 0, len |-> 0] \in Records
  BY DEF Records
<1>2. QED
  BY <1>1, SizeOne DEF Missing


-----------------------------------------------------------------------------
(***************************************************************************)
(* The renamed files                                                       *)
(***************************************************************************)

\* The files when those from M - k on have been renamed.
Turned(f, M, k) ==
  [i \in 0..M |-> IF i < M - k \/ k = 0 THEN f[i]
                  ELSE IF i = M - k THEN Missing
                  ELSE IF i = M /\ f[M - 1] = Missing THEN f[M] ELSE f[i - 1]]

LEMMA TurnedNext ==
  ASSUME NEW M \in Nat \ {0}, NEW X, Missing \in X, NEW f \in [0..M -> X], NEW k \in 1..M
  PROVE  rename(Turned(f, M, k - 1), M - k, M - k + 1) = Turned(f, M, k)
<1> DEFINE a == Turned(f, M, k - 1)
           b == Turned(f, M, k)
           r == rename(a, M - k, M - k + 1)
<1>1. /\ M - k \in 0..M /\ M - k + 1 \in 0..M /\ (M - k + 1) - 1 = M - k
      /\ M - (k - 1) = M - k + 1 /\ M - 1 \in 0..M
  OBVIOUS
<1>2. /\ a = [i \in 0..M |-> IF i < M - k + 1 \/ k = 1 THEN f[i]
                  ELSE IF i = M - k + 1 THEN Missing
                  ELSE IF i = M /\ f[M - 1] = Missing THEN f[M] ELSE f[i - 1]]
      /\ b = [i \in 0..M |-> IF i < M - k THEN f[i]
                  ELSE IF i = M - k THEN Missing
                  ELSE IF i = M /\ f[M - 1] = Missing THEN f[M] ELSE f[i - 1]]
  BY <1>1 DEF Turned
<1>3. a[M - k] = f[M - k]
  BY <1>1, <1>2
<1> HIDE DEF a, b
<1>4. r = IF f[M - k] = Missing THEN a
          ELSE [a EXCEPT ![M - k + 1] = f[M - k], ![M - k] = Missing]
  BY <1>3 DEF rename
<1>5. ASSUME NEW i \in 0..M
      PROVE  r[i] = IF f[M - k] = Missing THEN a[i]
                    ELSE IF i = M - k + 1 THEN f[M - k]
                    ELSE IF i = M - k THEN Missing ELSE a[i]
  <2>1. CASE f[M - k] = Missing
    BY <1>4, <2>1
  <2>2. CASE f[M - k] # Missing
    <3>1. r = [[a EXCEPT ![M - k + 1] = f[M - k]] EXCEPT ![M - k] = Missing]
      BY <1>4, <2>2
    <3>2. a = [j \in 0..M |-> a[j]] /\ M - k # M - k + 1
      BY <1>2
    <3> HIDE DEF r
    <3>3. QED
      BY <1>1, <2>2, <3>1, <3>2
  <2>3. QED
    BY <2>1, <2>2
<1>6. r = [i \in 0..M |-> r[i]]
  <2>1. a = [j \in 0..M |-> a[j]]
    BY <1>2
  <2>2. r = a \/ r = [[a EXCEPT ![M - k + 1] = f[M - k]] EXCEPT ![M - k] = Missing]
    BY <1>4
  <2> HIDE DEF r
  <2>3. QED
    BY <2>1, <2>2
<1> HIDE DEF r
<1>7. ASSUME NEW i \in 0..M PROVE r[i] = b[i]
  <2>1. CASE i < M - k
    <3>1. a[i] = f[i] /\ b[i] = f[i]
      BY <1>2, <2>1
    <3>2. QED
      BY <1>5, <2>1, <3>1
  <2>2. CASE i = M - k
    BY <1>1, <1>2, <1>3, <1>5, <2>2
  <2>3. CASE i = M - k + 1
    <3>1. b[i] = IF i = M /\ f[M - 1] = Missing THEN f[M] ELSE f[M - k]
      BY <1>1, <1>2, <2>3
    <3>2. CASE f[M - k] # Missing
      <4>1. i = M => M - 1 = M - k
        BY <2>3
      <4>2. QED
        BY <1>5, <2>3, <3>1, <3>2, <4>1
    <3>3. CASE f[M - k] = Missing /\ k = 1
      BY <1>2, <1>5, <2>3, <3>1, <3>3
    <3>4. CASE f[M - k] = Missing /\ k # 1
      <4>1. i # M /\ a[i] = Missing
        BY <1>2, <2>3, <3>4
      <4>2. QED
        BY <1>5, <3>1, <3>4, <4>1
    <3>5. QED
      BY <3>2, <3>3, <3>4
  <2>4. CASE i > M - k + 1
    <3>1. ~(i < M - k + 1) /\ k # 1 /\ i # M - k + 1 /\ i # M - k /\ ~(i < M - k)
      BY <2>4
    <3>2. a[i] = b[i]
      BY <1>2, <3>1
    <3>3. QED
      BY <1>5, <3>1, <3>2
  <2>5. QED
    BY <2>1, <2>2, <2>3, <2>4
<1>8. b = [i \in 0..M |-> b[i]]
  BY <1>2
<1>9. r = b
  BY <1>6, <1>7, <1>8
<1>10. QED
  BY <1>9 DEF r, a, b

\* Every file gets the name of the next one; the last is lost if there is one to
\* take its name.
LEMMA RotateIs ==
  ASSUME NEW M \in Nat \ {0}, NEW X, Missing \in X, NEW f \in [0..M -> X]
  PROVE  rotate(f, M) = [i \in 0..M |-> IF i = 0 THEN Missing
                                        ELSE IF i = M /\ f[M - 1] = Missing THEN f[M]
                                        ELSE f[i - 1]]
<1> DEFINE S == [k \in 0..M |-> {Turned(f, M, k)}]
           F == [k \in 1..M |-> [x \in S[k - 1] |-> rename(x, M - k, M - k + 1)]]
<1>1. Turned(f, M, 0) = f
  BY DEF Turned
<1>2. ASSUME NEW k \in 1..M
      PROVE  /\ k - 1 \in 0..M /\ k \in 0..M /\ k # 0
             /\ rename(Turned(f, M, k - 1), M - k, M - k + 1) = Turned(f, M, k)
  BY TurnedNext
<1>3. IsSteps(M, S, f, F)
  <2>1. f \in S[0]
    BY <1>1
  <2>2. ASSUME NEW k \in 1..M, NEW x \in S[k - 1] PROVE F[k][x] \in S[k]
    <3>1. x = Turned(f, M, k - 1)
      BY <1>2
    <3>2. F[k][x] = rename(x, M - k, M - k + 1)
      OBVIOUS
    <3>3. QED
      BY <1>2, <3>1, <3>2
  <2>3. QED
    <3> HIDE DEF S, F
    <3>1. QED
      BY <2>1, <2>2 DEF IsSteps
<1>4. PICK g : /\ g = [k \in 0..M |-> IF k = 0 THEN f ELSE F[k][g[k - 1]]]
               /\ \A k \in 0..M : g[k] \in S[k]
  <2> HIDE DEF F, S
  <2>1. QED
    BY <1>3, StepsExist
<1>5. ASSUME NEW k \in 0..M
      PROVE  g[k] = IF k = 0 THEN f ELSE rename(g[k - 1], M - k, M - k + 1)
  <2>1. CASE k = 0
    BY <1>4, <2>1
  <2>2. CASE k # 0
    <3>1. k \in 1..M /\ k - 1 \in 0..M
      BY <2>2
    <3>2. g[k - 1] \in S[k - 1]
      BY <1>4, <3>1
    <3>3. F[k][g[k - 1]] = rename(g[k - 1], M - k, M - k + 1)
      BY <3>1, <3>2
    <3>4. g[k] = F[k][g[k - 1]]
      BY <1>4, <2>2
    <3>5. QED
      BY <2>2, <3>3, <3>4
  <2>3. QED
    BY <2>1, <2>2
<1>6. g = [k \in 0..M |-> IF k = 0 THEN f ELSE rename(g[k - 1], M - k, M - k + 1)]
  BY <1>4, <1>5
<1> DEFINE h == CHOOSE a : a = [k \in 0..M |->
                                  IF k = 0 THEN f ELSE rename(a[k - 1], M - k, M - k + 1)]
<1>7. h = [k \in 0..M |-> IF k = 0 THEN f ELSE rename(h[k - 1], M - k, M - k + 1)]
  <2> HIDE DEF S, F
  <2>1. QED
    BY <1>6
<1>8. rotate(f, M) = h[M]
  BY DEF rotate
<1> HIDE DEF h
<1>9. h[0] \in S[0]
  BY <1>1, <1>7
<1>10. ASSUME NEW k \in 1..M, h[k - 1] \in S[k - 1] PROVE h[k] \in S[k]
  <2>1. h[k] = rename(h[k - 1], M - k, M - k + 1)
    BY <1>2, <1>7
  <2>2. h[k - 1] = Turned(f, M, k - 1)
    BY <1>2, <1>10
  <2>3. h[k] = Turned(f, M, k)
    BY <1>2, <2>1, <2>2
  <2>4. QED
    BY <1>2, <2>3
<1>11. \A k \in 0..M : h[k] \in S[k]
  <2> HIDE DEF S
  <2>1. QED
    BY <1>9, <1>10, StepInvariant
<1>12. h[M] = Turned(f, M, M)
  BY <1>11
<1>13. QED
  BY <1>8, <1>12 DEF Turned


-----------------------------------------------------------------------------
(***************************************************************************)
(* What the files of the debug log hold                                    *)
(***************************************************************************)

Held(f) == (UNION {Numbers(f[i]) : i \in 0..MaxFile}) \ {0}

\* The files when N messages have been written, whatever was removed.
Row(f, N) ==
  /\ f \in [0..MaxFile -> Seq(Messages) \cup {Missing}]
  /\ \A i \in 0..MaxFile : f[i] # Missing => Numbers(f[i]) \subseteq 1..N
  /\ \A i, j \in 0..MaxFile : i < j /\ f[i] # Missing /\ f[j] # Missing =>
       \A m \in Numbers(f[i]), n \in Numbers(f[j]) : n < m
  /\ \A i \in 0..MaxFile : Size(f[i]) <= MaxSize + Max(Lengths)

\* With nothing removed, there are k old files, each of them full.
Whole(f, N, k) ==
  /\ k \in 0..MaxFile
  /\ \A i \in 1..MaxFile : f[i] # Missing <=> i <= k
  /\ \A i \in 1..k : Size(f[i]) > MaxSize
  /\ k = MaxFile \/ 1..N \subseteq Held(f)
  /\ \A m \in Held(f) : m..N \subseteq Held(f)

DebugInv ==
  /\ count.debug \in Nat
  /\ Row(debug, count.debug)
  /\ proc = "booted" => debug = [i \in 0..MaxFile |-> Missing] /\ count.debug = 0
  /\ ~cleaned => \E k \in 0..MaxFile : Whole(debug, count.debug, k)
  /\ ~cleaned /\ proc = "running" => debug[0] # Missing


LEMMA Limits ==
  /\ MaxFile \in Nat \ {0} /\ MaxSize \in Nat \ {0}
  /\ Lengths \subseteq Nat \ {0} /\ Messages \subseteq Records
  /\ Max(Lengths) \in Nat /\ \A len \in Lengths : len <= Max(Lengths)
<1>1. /\ MaxFile \in Nat \ {0} /\ MaxSize \in Nat \ {0}
      /\ Lengths \subseteq Nat \ {0} /\ Lengths # {} /\ IsFiniteSet(Lengths)
  BY ConfigAssumption
<1>2. Messages \subseteq Records
  BY <1>1 DEF Messages, Records
<1>3. Lengths \in SUBSET Nat
  BY <1>1
<1>4. \E m \in Lengths : \A k \in Lengths : m >= k
  BY <1>1, <1>3, NatMax
<1>5. Max(Lengths) \in Lengths /\ \A k \in Lengths : Max(Lengths) >= k
  BY <1>4 DEF Max
<1> HIDE DEF Max
<1>6. ASSUME NEW len \in Lengths PROVE len <= Max(Lengths)
  <2>1. len \in Nat /\ Max(Lengths) \in Nat /\ Max(Lengths) >= len
    BY <1>1, <1>5
  <2> HIDE DEF Max
  <2>2. QED
    BY <2>1
<1>7. QED
  BY <1>1, <1>2, <1>3, <1>5, <1>6

LEMMA MessageIs ==
  ASSUME NEW m \in Messages
  PROVE  m.n \in Nat \ {0} /\ m.len \in Nat /\ m.len <= Max(Lengths)
<1>1. m.n \in Nat \ {0} /\ m.len \in Lengths
  BY DEF Messages
<1>2. QED
  BY <1>1, Limits

\* The numbers and the size of a file that is there.
LEMMA FileIs ==
  ASSUME NEW q \in Seq(Messages)
  PROVE  /\ q # Missing /\ Numbers(q) \subseteq Nat \ {0}
         /\ Size(q) \in Nat /\ q \in Seq(Records)
<1>1. \A i \in DOMAIN q : q[i] \in Messages
  OBVIOUS
<1>2. Numbers(q) \subseteq Nat \ {0}
  BY <1>1 DEF Numbers, Messages
<1>3. q # Missing
  <2>1. 1 \in DOMAIN Missing /\ Missing[1].n = 0
    BY DEF Missing
  <2>2. \A i \in DOMAIN q : q[i].n # 0
    BY <1>1 DEF Messages
  <2>3. QED
    BY <2>1, <2>2
<1>4. q \in Seq(Records)
  <2>1. q \in [1..Len(q) -> Records] /\ Len(q) \in Nat
    BY Limits
  <2>2. QED
    BY <2>1
<1>5. Size(q) \in Nat
  <2>1. [n |-> 0, len |-> 0] \in Records
    BY DEF Records
  <2>2. QED
    BY <1>4, <2>1, SizeAppend
<1>6. QED
  BY <1>2, <1>3, <1>4, <1>5

LEMMA NumbersMissing ==
  Numbers(Missing) = {0}
<1>1. DOMAIN Missing = {1} /\ Missing[1].n = 0
  BY DEF Missing
<1>2. QED
  BY <1>1 DEF Numbers

LEMMA NumbersNone ==
  Numbers(<<>>) = {} /\ <<>> \in Seq(Messages)
BY EmptySeq DEF Numbers

\* A message is written to the end of a file.
LEMMA FileAppend ==
  ASSUME NEW q \in Seq(Messages), NEW m \in Messages
  PROVE  /\ Append(q, m) \in Seq(Messages)
         /\ Numbers(Append(q, m)) = Numbers(q) \cup {m.n}
         /\ Size(Append(q, m)) = Size(q) + m.len
<1>1. q \in Seq(Records) /\ m \in Records
  BY FileIs, Limits
<1> DEFINE r == Append(q, m)
           n == Len(q)
<1>2. /\ n \in Nat /\ r \in Seq(Messages) /\ Len(r) = n + 1
      /\ \A i \in 1..n : r[i] = q[i]
      /\ r[n + 1] = m
  BY AppendProperties
<1>3. DOMAIN r = 1..(n + 1) /\ DOMAIN q = 1..n
  BY <1>2
<1> HIDE DEF r, n
<1>4. 1..(n + 1) = 1..n \cup {n + 1}
  BY <1>2
<1>5. Numbers(r) = Numbers(q) \cup {m.n}
  BY <1>2, <1>3, <1>4 DEF Numbers
<1>6. Size(r) = Size(q) + m.len
  BY <1>1, SizeAppend DEF r
<1>7. QED
  BY <1>2, <1>5, <1>6 DEF r

LEMMA FileOne ==
  ASSUME NEW m \in Messages
  PROVE  /\ <<m>> \in Seq(Messages) /\ Numbers(<<m>>) = {m.n} /\ Size(<<m>>) = m.len
<1>1. <<m>> = Append(<<>>, m) /\ m.len \in Nat
  <2>1. m.len \in Nat
    BY Limits DEF Messages
  <2>2. QED
    BY <2>1
<1>2. Numbers(<<>>) = {} /\ <<>> \in Seq(Messages) /\ Size(<<>>) = 0
  BY NumbersNone, SizeNone
<1>3. /\ Append(<<>>, m) \in Seq(Messages)
      /\ Numbers(Append(<<>>, m)) = Numbers(<<>>) \cup {m.n}
      /\ Size(Append(<<>>, m)) = Size(<<>>) + m.len
  BY <1>2, FileAppend
<1>4. QED
  BY <1>1, <1>2, <1>3

\* check_file: where the file with the suffix .i comes from.
LEMMA Rotated ==
  ASSUME NEW f, NEW N, Row(f, N)
  PROVE  LET r == rotate(f, MaxFile)
             from(i) == IF i = MaxFile /\ f[MaxFile - 1] = Missing THEN i ELSE i - 1
         IN  /\ r = [i \in 0..MaxFile |-> IF i = 0 THEN Missing ELSE f[from(i)]]
             /\ \A i \in 1..MaxFile : from(i) \in 0..MaxFile
             /\ \A i, j \in 1..MaxFile :
                  i < j /\ r[i] # Missing /\ r[j] # Missing => from(i) < from(j)
<1> DEFINE X == Seq(Messages) \cup {Missing}
           r == rotate(f, MaxFile)
           from(i) == IF i = MaxFile /\ f[MaxFile - 1] = Missing THEN i ELSE i - 1
<1>1. f \in [0..MaxFile -> X] /\ Missing \in X /\ MaxFile \in Nat \ {0}
  BY Limits DEF Row
<1>2. r = [i \in 0..MaxFile |-> IF i = 0 THEN Missing
                                ELSE IF i = MaxFile /\ f[MaxFile - 1] = Missing
                                THEN f[MaxFile] ELSE f[i - 1]]
  <2> HIDE DEF X
  <2>1. QED
    BY <1>1, RotateIs
<1>3. r = [i \in 0..MaxFile |-> IF i = 0 THEN Missing ELSE f[from(i)]]
  BY <1>2
<1>4. \A i \in 1..MaxFile : from(i) \in 0..MaxFile
  BY <1>1
<1>5. ASSUME NEW i \in 1..MaxFile, NEW j \in 1..MaxFile, i < j,
             r[i] # Missing, r[j] # Missing
      PROVE  from(i) < from(j)
  <2>1. i # MaxFile /\ from(i) = i - 1
    BY <1>1, <1>5
  <2>2. from(j) = j \/ from(j) = j - 1
    OBVIOUS
  <2> HIDE DEF from, r
  <2>3. QED
    BY <1>1, <1>5, <2>1, <2>2
<1>6. QED
  BY <1>3, <1>4, <1>5

LEMMA RotateRow ==
  ASSUME NEW f, NEW N \in Nat, Row(f, N)
  PROVE  Row(rotate(f, MaxFile), N)
<1> DEFINE r == rotate(f, MaxFile)
           from(i) == IF i = MaxFile /\ f[MaxFile - 1] = Missing THEN i ELSE i - 1
<1>1. /\ r = [i \in 0..MaxFile |-> IF i = 0 THEN Missing ELSE f[from(i)]]
      /\ \A i \in 1..MaxFile : from(i) \in 0..MaxFile
      /\ \A i, j \in 1..MaxFile :
           i < j /\ r[i] # Missing /\ r[j] # Missing => from(i) < from(j)
  BY Rotated
<1> HIDE DEF r, from
<1>2. MaxFile \in Nat \ {0} /\ MaxSize \in Nat /\ Max(Lengths) \in Nat
  BY Limits
<1>3. ASSUME NEW i \in 0..MaxFile
      PROVE  (i = 0 /\ r[i] = Missing) \/ (i \in 1..MaxFile /\ r[i] = f[from(i)])
  BY <1>1, <1>2
<1>4. r \in [0..MaxFile -> Seq(Messages) \cup {Missing}]
  <2>1. ASSUME NEW i \in 0..MaxFile PROVE r[i] \in Seq(Messages) \cup {Missing}
    BY <1>1, <1>3 DEF Row
  <2>2. QED
    BY <1>1, <2>1
<1>5. ASSUME NEW i \in 0..MaxFile, r[i] # Missing PROVE Numbers(r[i]) \subseteq 1..N
  BY <1>1, <1>3, <1>5 DEF Row
<1>6. ASSUME NEW i \in 0..MaxFile, NEW j \in 0..MaxFile, i < j,
             r[i] # Missing, r[j] # Missing
      PROVE  \A m \in Numbers(r[i]), n \in Numbers(r[j]) : n < m
  <2>1. /\ i \in 1..MaxFile /\ r[i] = f[from(i)]
        /\ j \in 1..MaxFile /\ r[j] = f[from(j)]
    BY <1>3, <1>6
  <2>2. from(i) \in 0..MaxFile /\ from(j) \in 0..MaxFile /\ from(i) < from(j)
    BY <1>1, <1>6, <2>1
  <2>3. QED
    BY <1>6, <2>1, <2>2 DEF Row
<1>7. ASSUME NEW i \in 0..MaxFile PROVE Size(r[i]) <= MaxSize + Max(Lengths)
  <2>1. Size(Missing) = 0 /\ 0 <= MaxSize + Max(Lengths)
    BY <1>2, SizeMissing
  <2>2. CASE i = 0 /\ r[i] = Missing
    BY <2>1, <2>2
  <2>3. CASE i \in 1..MaxFile /\ r[i] = f[from(i)]
    BY <1>1, <2>3 DEF Row
  <2>4. QED
    BY <1>3, <2>2, <2>3
<1>8. Row(r, N)
  BY <1>4, <1>5, <1>6, <1>7 DEF Row
<1>9. QED
  BY <1>8 DEF r

\* check_file: afterwards there is room in the file itself.
LEMMA CheckRow ==
  ASSUME NEW f, NEW N \in Nat, Row(f, N), NEW garbage \in BOOLEAN
  PROVE  LET g == check_file(f, MaxFile, MaxSize, garbage)
         IN  /\ Row(g, N)
             /\ g[0] # Missing => Size(g[0]) <= MaxSize
             /\ \/ g = f
                \/ g = rotate(f, MaxFile) /\ (f[0] # Missing => Size(f[0]) > MaxSize)
<1> DEFINE g == check_file(f, MaxFile, MaxSize, garbage)
<1>1. MaxFile \in Nat \ {0} /\ MaxSize \in Nat \ {0} /\ 0 \in 0..MaxFile
  BY Limits
<1>2. f[0] # Missing => Size(f[0]) \in Nat
  BY <1>1, FileIs DEF Row
<1>3. CASE (f[0] = Missing /\ ~garbage) \/ (f[0] # Missing /\ ~(Size(f[0]) > MaxSize))
  <2>1. g = f
    BY <1>3 DEF check_file
  <2>2. f[0] # Missing => Size(f[0]) <= MaxSize
    BY <1>1, <1>2, <1>3
  <2> HIDE DEF g
  <2>3. g[0] # Missing => Size(g[0]) <= MaxSize
    BY <2>1, <2>2
  <2>4. QED
    BY <2>1, <2>3 DEF g
<1>4. CASE (f[0] = Missing /\ garbage) \/ (f[0] # Missing /\ Size(f[0]) > MaxSize)
  <2>1. g = rotate(f, MaxFile)
    BY <1>1, <1>4 DEF check_file
  <2>2. rotate(f, MaxFile)[0] = Missing
    <3>1. rotate(f, MaxFile)
            = [i \in 0..MaxFile |->
                 IF i = 0 THEN Missing
                 ELSE f[IF i = MaxFile /\ f[MaxFile - 1] = Missing THEN i ELSE i - 1]]
      BY Rotated
    <3>2. QED
      BY <1>1, <3>1
  <2>3. Row(rotate(f, MaxFile), N)
    BY RotateRow
  <2> HIDE DEF g
  <2>4. Row(g, N) /\ g[0] = Missing
    BY <2>1, <2>2, <2>3
  <2>5. QED
    BY <1>4, <2>1, <2>4 DEF g
<1>5. QED
  BY <1>3, <1>4


\* Without removals the old files are those before the first that is missing, and
\* renaming them keeps what they hold unless the last one was full.
LEMMA RotateWhole ==
  ASSUME NEW f, NEW N \in Nat, Row(f, N), NEW k \in 0..MaxFile, Whole(f, N, k),
         f[0] # Missing, Size(f[0]) > MaxSize
  PROVE  \E n \in 0..MaxFile : Whole(rotate(f, MaxFile), N, n)
<1> DEFINE r == rotate(f, MaxFile)
           n == IF k < MaxFile THEN k + 1 ELSE MaxFile
<1>1. /\ MaxFile \in Nat \ {0} /\ MaxSize \in Nat
      /\ 0 \in 0..MaxFile /\ MaxFile \in 1..MaxFile
  BY Limits
<1>2. n \in 0..MaxFile
  BY <1>1
<1>3. f[MaxFile - 1] = Missing => f[MaxFile] = Missing
  <2>1. CASE MaxFile = 1
    BY <2>1
  <2>2. CASE MaxFile # 1
    <3>1. MaxFile - 1 \in 1..MaxFile
      BY <1>1, <2>2
    <3>2. QED
      BY <1>1, <3>1 DEF Whole
  <2>3. QED
    BY <2>1, <2>2
<1>4. r = [i \in 0..MaxFile |->
             IF i = 0 THEN Missing
             ELSE f[IF i = MaxFile /\ f[MaxFile - 1] = Missing THEN i ELSE i - 1]]
  BY Rotated
<1> HIDE DEF r
<1>5. ASSUME NEW i \in 1..MaxFile
      PROVE  i \in 0..MaxFile /\ i - 1 \in 0..MaxFile /\ r[i] = f[i - 1]
  <2>1. i \in 0..MaxFile /\ i - 1 \in 0..MaxFile /\ i # 0
    BY <1>1
  <2>2. r[i] = f[IF i = MaxFile /\ f[MaxFile - 1] = Missing THEN i ELSE i - 1]
    BY <1>4, <2>1
  <2>3. QED
    BY <1>3, <2>1, <2>2
<1>6. ASSUME NEW i \in 1..MaxFile PROVE r[i] # Missing <=> i <= n
  <2>1. f[i - 1] # Missing <=> i - 1 <= k
    <3>1. CASE i = 1
      BY <1>1, <3>1
    <3>2. CASE i # 1
      <4>1. i - 1 \in 1..MaxFile
        BY <1>1, <3>2
      <4>2. QED
        BY <4>1 DEF Whole
    <3>3. QED
      BY <3>1, <3>2
  <2>2. i - 1 <= k <=> i <= n
    BY <1>1
  <2>3. QED
    BY <1>5, <2>1, <2>2
<1>7. ASSUME NEW i \in 1..n PROVE Size(r[i]) > MaxSize
  <2>1. i \in 1..MaxFile /\ i - 1 <= k
    BY <1>1
  <2>2. CASE i = 1
    BY <1>5, <2>1, <2>2
  <2>3. CASE i # 1
    <3>1. i - 1 \in 1..k
      BY <2>1, <2>3
    <3>2. Size(f[i - 1]) > MaxSize
      BY <3>1 DEF Whole
    <3>3. QED
      BY <1>5, <2>1, <3>2
  <2>4. QED
    BY <2>2, <2>3
<1>8. ASSUME NEW i \in 0..MaxFile, i # MaxFile, NEW x \in Numbers(f[i]), x # 0
      PROVE  x \in Held(r)
  <2>1. i + 1 \in 1..MaxFile /\ (i + 1) - 1 = i
    BY <1>1, <1>8
  <2>2. r[i + 1] = f[i] /\ i + 1 \in 0..MaxFile
    BY <1>5, <2>1
  <2>3. QED
    BY <1>8, <2>2 DEF Held
<1>9. n = MaxFile \/ 1..N \subseteq Held(r)
  <2>1. SUFFICES ASSUME n # MaxFile PROVE \A x \in 1..N : x \in Held(r)
    OBVIOUS
  <2>2. k < MaxFile
    BY <1>1, <2>1
  <2>3. 1..N \subseteq Held(f)
    BY <2>2 DEF Whole
  <2>4. f[MaxFile] = Missing
    BY <1>1, <2>2 DEF Whole
  <2>5. ASSUME NEW x \in 1..N PROVE x \in Held(r)
    <3>1. x # 0 /\ x \in Held(f)
      BY <2>3
    <3>2. PICK i \in 0..MaxFile : x \in Numbers(f[i])
      BY <3>1 DEF Held
    <3>3. i # MaxFile
      BY <2>4, <3>1, <3>2, NumbersMissing
    <3>4. QED
      BY <1>8, <3>1, <3>2, <3>3
  <2>6. QED
    BY <2>5
<1>10. ASSUME NEW m \in Held(r), NEW x \in m..N PROVE x \in Held(r)
  <2>1. m # 0 /\ \E i \in 0..MaxFile : m \in Numbers(r[i])
    BY <1>10 DEF Held
  <2>2. PICK i \in 0..MaxFile : m \in Numbers(r[i])
    BY <2>1
  <2>3. r[0] = Missing
    BY <1>1, <1>4
  <2>4. i \in 1..MaxFile
    BY <1>1, <2>1, <2>2, <2>3, NumbersMissing
  <2>5. i - 1 \in 0..MaxFile /\ i - 1 < MaxFile /\ m \in Numbers(f[i - 1])
    BY <1>1, <1>5, <2>2, <2>4
  <2>6. f[i - 1] # Missing
    BY <2>1, <2>5, NumbersMissing
  <2>7. m \in 1..N /\ m \in Held(f)
    BY <2>1, <2>5, <2>6 DEF Row, Held
  <2>8. x \in Held(f) /\ x # 0
    BY <1>10, <2>7 DEF Whole
  <2>9. PICK j \in 0..MaxFile : x \in Numbers(f[j])
    BY <2>8 DEF Held
  <2>10. f[j] # Missing
    BY <2>8, <2>9, NumbersMissing
  <2>11. j # MaxFile
    <3>1. SUFFICES ASSUME j = MaxFile PROVE FALSE
      OBVIOUS
    <3>2. i - 1 < j
      BY <2>5, <3>1
    <3>3. x < m
      BY <2>5, <2>6, <2>9, <2>10, <3>2 DEF Row
    <3>4. QED
      BY <1>10, <2>7, <3>3
  <2>12. QED
    BY <1>8, <2>8, <2>9, <2>11
<1> HIDE DEF n
<1>11. Whole(r, N, n)
  BY <1>2, <1>6, <1>7, <1>9, <1>10 DEF Whole
<1>12. QED
  BY <1>2, <1>11 DEF r

\* The message goes to the file itself, which is created if it is not there.
Written(g, m) == [g EXCEPT ![0] = IF @ = Missing THEN <<m>> ELSE Append(@, m)]

LEMMA WrittenFile ==
  ASSUME NEW g, NEW N, Row(g, N), NEW m \in Messages
  PROVE  LET y == Written(g, m)
             old == IF g[0] = Missing THEN {} ELSE Numbers(g[0])
         IN  /\ y \in [0..MaxFile -> Seq(Messages) \cup {Missing}]
             /\ \A i \in 1..MaxFile : y[i] = g[i]
             /\ y[0] # Missing
             /\ Numbers(y[0]) = old \cup {m.n}
             /\ Size(y[0]) = (IF g[0] = Missing THEN 0 ELSE Size(g[0])) + m.len
<1> DEFINE y == Written(g, m)
<1>1. /\ g \in [0..MaxFile -> Seq(Messages) \cup {Missing}]
      /\ 0 \in 0..MaxFile /\ m.len \in Nat
  BY Limits, MessageIs DEF Row
<1>2. /\ y[0] = IF g[0] = Missing THEN <<m>> ELSE Append(g[0], m)
      /\ \A i \in 1..MaxFile : y[i] = g[i]
      /\ \A i \in 0..MaxFile : i # 0 => y[i] = g[i]
      /\ y = [i \in 0..MaxFile |-> y[i]]
  <2> DEFINE v == IF g[0] = Missing THEN <<m>> ELSE Append(g[0], m)
  <2>1. y = [g EXCEPT ![0] = v]
    BY DEF Written
  <2> HIDE DEF v, y
  <2>2. /\ y[0] = v /\ \A i \in 0..MaxFile : i # 0 => y[i] = g[i]
        /\ y = [i \in 0..MaxFile |-> y[i]]
    BY <1>1, <2>1
  <2>3. \A i \in 1..MaxFile : i \in 0..MaxFile /\ i # 0
    BY Limits
  <2>4. QED
    BY <2>2, <2>3 DEF v
<1> HIDE DEF y
<1>3. /\ y[0] \in Seq(Messages)
      /\ Numbers(y[0]) = (IF g[0] = Missing THEN {} ELSE Numbers(g[0])) \cup {m.n}
      /\ Size(y[0]) = (IF g[0] = Missing THEN 0 ELSE Size(g[0])) + m.len
  <2>1. CASE g[0] = Missing
    BY <1>1, <1>2, <2>1, FileOne
  <2>2. CASE g[0] # Missing
    <3>1. g[0] \in Seq(Messages)
      BY <1>1, <2>2
    <3>2. QED
      BY <1>2, <2>2, <3>1, FileAppend
  <2>3. QED
    BY <2>1, <2>2
<1>4. y[0] # Missing
  BY <1>3, FileIs
<1>5. y \in [0..MaxFile -> Seq(Messages) \cup {Missing}]
  <2>1. ASSUME NEW i \in 0..MaxFile PROVE y[i] \in Seq(Messages) \cup {Missing}
    BY <1>1, <1>2, <1>3
  <2>2. QED
    BY <1>2, <2>1
<1>6. QED
  BY <1>2, <1>3, <1>4, <1>5 DEF y

LEMMA WriteRow ==
  ASSUME NEW g, NEW N \in Nat, Row(g, N), g[0] # Missing => Size(g[0]) <= MaxSize,
         NEW m \in Messages, m.n = N + 1
  PROVE  Row(Written(g, m), N + 1)
<1> DEFINE y == Written(g, m)
<1>1. /\ y \in [0..MaxFile -> Seq(Messages) \cup {Missing}]
      /\ \A i \in 1..MaxFile : y[i] = g[i]
      /\ y[0] # Missing
      /\ Numbers(y[0]) = (IF g[0] = Missing THEN {} ELSE Numbers(g[0])) \cup {m.n}
      /\ Size(y[0]) = (IF g[0] = Missing THEN 0 ELSE Size(g[0])) + m.len
  BY WrittenFile
<1> HIDE DEF y
<1>2. /\ MaxFile \in Nat \ {0} /\ MaxSize \in Nat /\ Max(Lengths) \in Nat
      /\ m.len \in Nat /\ m.len <= Max(Lengths) /\ 0 \in 0..MaxFile
  BY Limits, MessageIs
<1>3. ASSUME NEW i \in 0..MaxFile PROVE i = 0 \/ i \in 1..MaxFile
  BY <1>2
<1>4. ASSUME NEW i \in 0..MaxFile, g[i] # Missing PROVE Numbers(g[i]) \subseteq 1..N
  BY <1>4 DEF Row
<1>5. ASSUME NEW i \in 0..MaxFile, y[i] # Missing PROVE Numbers(y[i]) \subseteq 1..(N + 1)
  <2>1. CASE i = 0
    <3>1. N + 1 \in 1..(N + 1) /\ 1..N \subseteq 1..(N + 1)
      OBVIOUS
    <3>2. g[0] # Missing => Numbers(g[0]) \subseteq 1..N
      BY <1>2, <1>4
    <3>3. QED
      BY <1>1, <2>1, <3>1, <3>2
  <2>2. CASE i # 0
    <3>1. i \in 1..MaxFile
      BY <1>3, <2>2
    <3>2. y[i] = g[i]
      BY <1>1, <3>1
    <3>3. Numbers(g[i]) \subseteq 1..N
      BY <1>4, <1>5, <3>2
    <3>4. 1..N \subseteq 1..(N + 1)
      OBVIOUS
    <3>5. QED
      BY <3>2, <3>3, <3>4
  <2>3. QED
    BY <2>1, <2>2
<1>6. ASSUME NEW i \in 0..MaxFile, NEW j \in 0..MaxFile, i < j,
             y[i] # Missing, y[j] # Missing,
             NEW a \in Numbers(y[i]), NEW b \in Numbers(y[j])
      PROVE  b < a
  <2>1. j \in 1..MaxFile /\ y[j] = g[j] /\ b \in 1..N
    <3>1. j \in 1..MaxFile
      BY <1>2, <1>6
    <3>2. y[j] = g[j]
      BY <1>1, <3>1
    <3>3. QED
      BY <1>4, <1>6, <3>1, <3>2
  <2>2. CASE i = 0 /\ a = m.n
    BY <2>1, <2>2
  <2>3. CASE i = 0 /\ a # m.n
    <3>1. g[0] # Missing /\ a \in Numbers(g[0])
      BY <1>1, <1>6, <2>3
    <3>2. QED
      BY <1>6, <2>1, <2>3, <3>1 DEF Row
  <2>4. CASE i # 0
    <3>1. i \in 1..MaxFile /\ y[i] = g[i]
      BY <1>1, <1>3, <2>4
    <3>2. QED
      BY <1>6, <2>1, <3>1 DEF Row
  <2>5. QED
    BY <2>2, <2>3, <2>4
<1>7. ASSUME NEW i \in 0..MaxFile PROVE Size(y[i]) <= MaxSize + Max(Lengths)
  <2>1. CASE i = 0
    <3>1. CASE g[0] = Missing
      BY <1>1, <1>2, <2>1, <3>1
    <3>2. CASE g[0] # Missing
      <4>1. g[0] \in Seq(Messages)
        BY <1>2, <3>2 DEF Row
      <4>2. Size(g[0]) \in Nat
        BY <4>1, FileIs
      <4>3. QED
        BY <1>1, <1>2, <2>1, <3>2, <4>2
    <3>3. QED
      BY <3>1, <3>2
  <2>2. CASE i # 0
    BY <1>1, <1>3, <2>2 DEF Row
  <2>3. QED
    BY <2>1, <2>2
<1>8. Row(y, N + 1)
  BY <1>1, <1>5, <1>6, <1>7 DEF Row
<1>9. QED
  BY <1>8 DEF y

LEMMA WriteWhole ==
  ASSUME NEW g, NEW N \in Nat, Row(g, N), NEW k \in 0..MaxFile, Whole(g, N, k),
         NEW m \in Messages, m.n = N + 1
  PROVE  Whole(Written(g, m), N + 1, k)
<1> DEFINE y == Written(g, m)
<1>1. /\ y \in [0..MaxFile -> Seq(Messages) \cup {Missing}]
      /\ \A i \in 1..MaxFile : y[i] = g[i]
      /\ y[0] # Missing
      /\ Numbers(y[0]) = (IF g[0] = Missing THEN {} ELSE Numbers(g[0])) \cup {m.n}
  BY WrittenFile
<1> HIDE DEF y
<1>2. MaxFile \in Nat \ {0} /\ 0 \in 0..MaxFile
  BY Limits
<1>3. Held(y) = Held(g) \cup {N + 1}
  <2>1. ASSUME NEW x \in Held(y) PROVE x \in Held(g) \cup {N + 1}
    <3>1. PICK i \in 0..MaxFile : x \in Numbers(y[i]) /\ x # 0
      BY <2>1 DEF Held
    <3>2. CASE i = 0
      BY <1>1, <1>2, <3>1, <3>2 DEF Held
    <3>3. CASE i # 0
      <4>1. i \in 1..MaxFile
        BY <1>2, <3>3
      <4>2. QED
        BY <1>1, <3>1, <4>1 DEF Held
    <3>4. QED
      BY <3>2, <3>3
  <2>2. ASSUME NEW x \in Held(g) PROVE x \in Held(y)
    <3>1. PICK i \in 0..MaxFile : x \in Numbers(g[i]) /\ x # 0
      BY <2>2 DEF Held
    <3>2. CASE i = 0
      <4>1. g[0] # Missing
        BY <3>1, <3>2, NumbersMissing
      <4>2. x \in Numbers(y[0])
        BY <1>1, <3>1, <3>2, <4>1
      <4>3. QED
        BY <1>2, <3>1, <4>2 DEF Held
    <3>3. CASE i # 0
      <4>1. i \in 1..MaxFile
        BY <1>2, <3>3
      <4>2. x \in Numbers(y[i])
        BY <1>1, <3>1, <4>1
      <4>3. QED
        BY <3>1, <4>2 DEF Held
    <3>4. QED
      BY <3>2, <3>3
  <2>3. N + 1 \in Held(y)
    <3>1. N + 1 \in Numbers(y[0]) /\ N + 1 # 0
      BY <1>1
    <3>2. QED
      BY <1>2, <3>1 DEF Held
  <2>4. QED
    BY <2>1, <2>2, <2>3
<1>4. ASSUME NEW x \in Held(g) PROVE x \in 1..N
  <2>1. PICK i \in 0..MaxFile : x \in Numbers(g[i]) /\ x # 0
    BY <1>4 DEF Held
  <2>2. g[i] # Missing
    BY <2>1, NumbersMissing
  <2>3. QED
    BY <2>1, <2>2 DEF Row
<1>5. ASSUME NEW i \in 1..MaxFile PROVE y[i] # Missing <=> i <= k
  BY <1>1 DEF Whole
<1>6. ASSUME NEW i \in 1..k PROVE Size(y[i]) > MaxSize
  <2>1. i \in 1..MaxFile
    BY <1>2
  <2>2. QED
    BY <1>1, <2>1 DEF Whole
<1>7. k = MaxFile \/ 1..(N + 1) \subseteq Held(y)
  <2>1. 1..(N + 1) = 1..N \cup {N + 1}
    OBVIOUS
  <2>2. k = MaxFile \/ 1..N \subseteq Held(g)
    BY DEF Whole
  <2>3. QED
    BY <1>3, <2>1, <2>2
<1>8. ASSUME NEW a \in Held(y), NEW x \in a..(N + 1) PROVE x \in Held(y)
  <2>1. CASE a \in Held(g)
    <3>1. a..N \subseteq Held(g) /\ a \in 1..N
      BY <1>4, <2>1 DEF Whole
    <3>2. x \in a..N \/ x = N + 1
      BY <1>8, <3>1
    <3>3. QED
      BY <1>3, <3>1, <3>2
  <2>2. CASE a = N + 1
    BY <1>3, <1>8, <2>2
  <2>3. QED
    BY <1>3, <1>8, <2>1, <2>2
<1>9. Whole(y, N + 1, k)
  BY <1>5, <1>6, <1>7, <1>8 DEF Whole
<1>10. QED
  BY <1>9 DEF y


LEMMA ClibWrite ==
  ASSUME NEW f, NEW N \in Nat, Row(f, N), NEW garbage \in BOOLEAN,
         NEW m \in Messages, m.n = N + 1
  PROVE  LET y == clib_write(f, MaxFile, MaxSize, garbage, m)
         IN  /\ Row(y, N + 1)
             /\ y[0] # Missing
             /\ f[0] # Missing /\ (\E k \in 0..MaxFile : Whole(f, N, k)) =>
                  \E k \in 0..MaxFile : Whole(y, N + 1, k)
<1> DEFINE g == check_file(f, MaxFile, MaxSize, garbage)
           y == clib_write(f, MaxFile, MaxSize, garbage, m)
<1>1. /\ Row(g, N)
      /\ g[0] # Missing => Size(g[0]) <= MaxSize
      /\ \/ g = f
         \/ g = rotate(f, MaxFile) /\ (f[0] # Missing => Size(f[0]) > MaxSize)
  BY CheckRow
<1>2. y = Written(g, m)
  BY DEF clib_write, Written
<1> HIDE DEF g, y
<1>3. Row(y, N + 1)
  BY <1>1, <1>2, WriteRow
<1>4. y[0] # Missing
  BY <1>1, <1>2, WrittenFile
<1>5. ASSUME f[0] # Missing, NEW k \in 0..MaxFile, Whole(f, N, k)
      PROVE  \E n \in 0..MaxFile : Whole(y, N + 1, n)
  <2>1. \E n \in 0..MaxFile : Whole(g, N, n)
    <3>1. CASE g = f
      BY <1>5, <3>1
    <3>2. CASE g = rotate(f, MaxFile) /\ (f[0] # Missing => Size(f[0]) > MaxSize)
      BY <1>5, <3>2, RotateWhole
    <3>3. QED
      BY <1>1, <3>1, <3>2
  <2>2. PICK n \in 0..MaxFile : Whole(g, N, n)
    BY <2>1
  <2>3. Whole(Written(g, m), N + 1, n)
    BY <1>1, <2>2, WriteWhole
  <2>4. QED
    BY <1>2, <2>3
<1>6. QED
  BY <1>3, <1>4, <1>5 DEF y

\* A file that is removed leaves the others in order.
LEMMA RemovedRow ==
  ASSUME NEW f, NEW N, Row(f, N), NEW j \in 0..MaxFile
  PROVE  Row([f EXCEPT ![j] = Missing], N)
<1> DEFINE y == [f EXCEPT ![j] = Missing]
<1>1. f \in [0..MaxFile -> Seq(Messages) \cup {Missing}]
  BY DEF Row
<1>2. /\ y \in [0..MaxFile -> Seq(Messages) \cup {Missing}]
      /\ \A i \in 0..MaxFile : y[i] = Missing \/ y[i] = f[i]
  BY <1>1
<1> HIDE DEF y
<1>3. Size(Missing) <= MaxSize + Max(Lengths)
  BY SizeMissing, Limits
<1>4. \A i \in 0..MaxFile : Size(y[i]) <= MaxSize + Max(Lengths)
  BY <1>2, <1>3 DEF Row
<1>5. \A i \in 0..MaxFile : y[i] # Missing => Numbers(y[i]) \subseteq 1..N
  BY <1>2 DEF Row
<1>6. ASSUME NEW a \in 0..MaxFile, NEW b \in 0..MaxFile, a < b, y[a] # Missing, y[b] # Missing
      PROVE  \A m \in Numbers(y[a]), n \in Numbers(y[b]) : n < m
  <2>1. y[a] = f[a] /\ y[b] = f[b]
    BY <1>2, <1>6
  <2>2. QED
    BY <1>6, <2>1 DEF Row
<1>7. Row(y, N)
  BY <1>2, <1>4, <1>5, <1>6 DEF Row
<1>8. QED
  BY <1>7 DEF y

\* Before the start there are no files, at the start there is an empty one.
LEMMA StartRow ==
  LET none == [i \in 0..MaxFile |-> Missing]
      first == [none EXCEPT ![0] = <<>>]
  IN  /\ Row(none, 0) /\ Whole(none, 0, 0)
      /\ Row(first, 0) /\ Whole(first, 0, 0) /\ first[0] # Missing
<1>1. MaxFile \in Nat \ {0} /\ 0 <= MaxSize + Max(Lengths) /\ 0 \in 0..MaxFile
  BY Limits
<1>2. <<>> \in Seq(Messages) /\ Numbers(<<>>) = {} /\ Size(<<>>) = 0 /\ <<>> # Missing
  BY NumbersNone, SizeNone, FileIs
<1>3. Size(Missing) = 0 /\ Numbers(Missing) = {0}
  BY SizeMissing, NumbersMissing
<1>4. ASSUME NEW f, f = [i \in 0..MaxFile |-> f[i]],
             f[0] \in {<<>>, Missing},
             \A i \in 0..MaxFile : i # 0 => f[i] = Missing
      PROVE  Row(f, 0) /\ Whole(f, 0, 0)
  <2>1. \A i \in 0..MaxFile : f[i] \in {<<>>, Missing}
    BY <1>4
  <2>2. f \in [0..MaxFile -> Seq(Messages) \cup {Missing}]
    BY <1>2, <1>4, <2>1
  <2>3. \A i \in 0..MaxFile : /\ f[i] # Missing => Numbers(f[i]) \subseteq 1..0
                              /\ Size(f[i]) <= MaxSize + Max(Lengths)
    BY <1>1, <1>2, <1>3, <2>1
  <2>4. \A i, j \in 0..MaxFile : i < j /\ f[i] # Missing /\ f[j] # Missing =>
          \A m \in Numbers(f[i]), n \in Numbers(f[j]) : n < m
    BY <1>2, <2>1
  <2>5. Row(f, 0)
    BY <2>2, <2>3, <2>4 DEF Row
  <2>6. \A i \in 0..MaxFile : Numbers(f[i]) \subseteq {0}
    BY <1>2, <1>3, <2>1
  <2>7. Held(f) = {}
    BY <2>6 DEF Held
  <2>8. \A i \in 1..MaxFile : i \in 0..MaxFile /\ i # 0 /\ ~(i <= 0)
    BY <1>1
  <2>9. \A i \in 1..MaxFile : f[i] # Missing <=> i <= 0
    BY <1>4, <2>8
  <2>10. \A i \in 1..0 : Size(f[i]) > MaxSize
    OBVIOUS
  <2>11. 1..0 \subseteq Held(f)
    OBVIOUS
  <2>12. Whole(f, 0, 0)
    BY <1>1, <2>7, <2>9, <2>10, <2>11 DEF Whole
  <2>13. QED
    BY <2>5, <2>12
<1> DEFINE none == [i \in 0..MaxFile |-> Missing]
           first == [none EXCEPT ![0] = <<>>]
<1>5. /\ none = [i \in 0..MaxFile |-> none[i]] /\ none[0] \in {<<>>, Missing}
      /\ \A i \in 0..MaxFile : i # 0 => none[i] = Missing
  BY <1>1
<1>6. /\ first = [i \in 0..MaxFile |-> first[i]] /\ first[0] = <<>>
      /\ \A i \in 0..MaxFile : i # 0 => first[i] = Missing
  BY <1>1
<1> HIDE DEF none, first
<1>7. Row(none, 0) /\ Whole(none, 0, 0)
  BY <1>4, <1>5
<1>8. Row(first, 0) /\ Whole(first, 0, 0)
  BY <1>4, <1>6
<1>9. first[0] # Missing
  BY <1>2, <1>6
<1>10. QED
  BY <1>7, <1>8, <1>9 DEF none, first

-----------------------------------------------------------------------------
LEMMA DebugInit ==
  ASSUME Init
  PROVE  DebugInv
<1>1. count.debug = 0 /\ debug = [i \in 0..MaxFile |-> Missing] /\ proc = "booted"
  BY DEF Init
<1>2. Row(debug, 0) /\ Whole(debug, 0, 0) /\ 0 \in 0..MaxFile
  BY <1>1, StartRow, Limits
<1>3. Row(debug, count.debug) /\ Whole(debug, count.debug, 0)
  <2> DEFINE N == count.debug
  <2>1. N = 0
    BY <1>1
  <2> HIDE DEF N
  <2>2. Row(debug, N) /\ Whole(debug, N, 0)
    BY <1>2, <2>1
  <2>3. QED
    BY <2>2 DEF N
<1>4. \E k \in 0..MaxFile : Whole(debug, count.debug, k)
  BY <1>2, <1>3
<1>5. proc # "running" /\ count.debug \in Nat
  BY <1>1
<1>6. QED
  BY <1>1, <1>3, <1>4, <1>5 DEF DebugInv

LEMMA DebugStart ==
  ASSUME DebugInv, NEW opened \in BOOLEAN, Start(opened)
  PROVE  DebugInv'
<1>1. /\ proc = "booted" /\ debug = [i \in 0..MaxFile |-> Missing] /\ count.debug = 0
      /\ count' = count /\ cleaned' = cleaned /\ 0 \in 0..MaxFile
      /\ Row(debug, 0)
  BY Limits DEF Start, DebugInv
<1>2. CASE ~opened
  <2>1. debug' = debug /\ proc' = "failed"
    BY <1>2 DEF Start
  <2>2. Row(debug', 0) /\ Whole(debug', 0, 0)
    BY <1>1, <2>1, StartRow
  <2>3. QED
    BY <1>1, <2>1, <2>2 DEF DebugInv
<1>3. CASE opened
  <2>1. debug' = [debug EXCEPT ![0] = <<>>] /\ proc' = "running"
    BY <1>3 DEF Start
  <2>2. Row(debug', 0) /\ Whole(debug', 0, 0) /\ debug'[0] # Missing
    BY <1>1, <2>1, StartRow
  <2>3. QED
    BY <1>1, <2>1, <2>2 DEF DebugInv
<1>4. QED
  BY <1>2, <1>3

LEMMA DebugLogMsg ==
  ASSUME DebugInv, NEW len \in Lengths, NEW garbage \in BOOLEAN, LogMsg(len, garbage),
         count \in [log : Nat, debug : Nat]
  PROVE  DebugInv'
<1> DEFINE N == count.debug
           m == [n |-> N + 1, len |-> len]
<1>1. /\ proc = "running" /\ proc' = proc /\ cleaned' = cleaned
      /\ debug' = clib_write(debug, MaxFile, MaxSize, garbage, m)
      /\ count' = [count EXCEPT !.debug = N + 1]
  BY DEF LogMsg
<1>2. N \in Nat /\ Row(debug, N)
  BY DEF DebugInv
<1>3. m \in Messages /\ m.n = N + 1
  BY <1>2 DEF Messages
<1>4. count'.debug = N + 1
  BY <1>1
<1> HIDE DEF m, N
<1>5. /\ Row(debug', N + 1) /\ debug'[0] # Missing
      /\ debug[0] # Missing /\ (\E k \in 0..MaxFile : Whole(debug, N, k)) =>
           \E k \in 0..MaxFile : Whole(debug', N + 1, k)
  BY <1>1, <1>2, <1>3, ClibWrite
<1>6. ~cleaned' => \E k \in 0..MaxFile : Whole(debug', N + 1, k)
  <2>1. ~cleaned => debug[0] # Missing /\ \E k \in 0..MaxFile : Whole(debug, N, k)
    BY <1>1 DEF DebugInv, N
  <2>2. QED
    BY <1>1, <1>5, <2>1
<1>7. QED
  BY <1>1, <1>2, <1>4, <1>5, <1>6 DEF DebugInv

LEMMA DebugNext ==
  ASSUME DebugInv, count \in [log : Nat, debug : Nat], [Next]_vars
  PROVE  DebugInv' /\ count' \in [log : Nat, debug : Nat]
<1>1. ASSUME UNCHANGED <<debug, cleaned>>, count'.debug = count.debug,
             proc' # "booted" \/ proc' = proc,
             proc' = "running" => proc = "running"
      PROVE  DebugInv'
  <2>1. proc' = "booted" => proc = "booted"
    BY <1>1
  <2>2. QED
    BY <1>1, <2>1 DEF DebugInv
<1>2. CASE UNCHANGED vars
  BY <1>1, <1>2 DEF vars
<1>3. ASSUME NEW line \in PlainLines \cup OddLines, Edit(line)
      PROVE  DebugInv' /\ count' = count
  BY <1>1, <1>3 DEF Edit
<1>4. ASSUME NEW opened \in BOOLEAN, Start(opened)
      PROVE  DebugInv' /\ count' = count
  BY <1>4, DebugStart DEF Start
<1>5. CASE ReadRandomConfig
  BY <1>1, <1>5 DEF ReadRandomConfig
<1>6. CASE GetRand
  BY <1>1, <1>6 DEF GetRand
<1>7. ASSUME NEW len \in Lengths, WriteLog(len)
      PROVE  DebugInv' /\ count' \in [log : Nat, debug : Nat]
  <2>1. UNCHANGED <<proc, debug, cleaned>> /\ count' = [count EXCEPT !.log = @ + 1]
    BY <1>7 DEF WriteLog
  <2>2. count'.debug = count.debug /\ count' \in [log : Nat, debug : Nat]
    BY <2>1
  <2>3. QED
    BY <1>1, <2>1, <2>2
<1>8. ASSUME NEW len \in Lengths, NEW garbage \in BOOLEAN, LogMsg(len, garbage)
      PROVE  DebugInv' /\ count' \in [log : Nat, debug : Nat]
  <2>1. count' = [count EXCEPT !.debug = @ + 1]
    BY <1>8 DEF LogMsg
  <2>2. count' \in [log : Nat, debug : Nat]
    BY <2>1
  <2>3. QED
    BY <1>8, <2>2, DebugLogMsg
<1>9. ASSUME NEW i \in 0..MaxFile, CleanUp(i)
      PROVE  DebugInv' /\ count' = count
  <2>1. /\ debug' = [debug EXCEPT ![i] = Missing] /\ cleaned' = TRUE
        /\ UNCHANGED <<proc, count>> /\ proc = "running"
    BY <1>9 DEF CleanUp
  <2>2. Row(debug', count.debug)
    BY <2>1, RemovedRow DEF DebugInv
  <2>3. QED
    BY <2>1, <2>2 DEF DebugInv
<1>10. CASE Next
  BY <1>3, <1>4, <1>5, <1>6, <1>7, <1>8, <1>9, <1>10 DEF Next, ReadRandomConfig, GetRand
<1>11. QED
  BY <1>2, <1>10 DEF vars

\* Min of the numbers that are held.
LEMMA HeldFrom ==
  ASSUME NEW N \in Nat, NEW kept \in SUBSET (1..N), kept # {},
         \A m \in kept : m..N \subseteq kept
  PROVE  kept = Min(kept)..N
<1>1. kept \in SUBSET Nat
  OBVIOUS
<1>2. \E m \in kept : \A k \in kept : m <= k
  BY <1>1, NatMin
<1>3. Min(kept) \in kept /\ \A k \in kept : Min(kept) <= k
  BY <1>2 DEF Min
<1> DEFINE a == Min(kept)
<1> HIDE DEF a
<1>4. a \in kept /\ \A k \in kept : a <= k
  BY <1>3 DEF a
<1>5. \A k \in kept : k \in a..N
  BY <1>4
<1>6. a..N \subseteq kept
  BY <1>4
<1>7. QED
  BY <1>5, <1>6 DEF a

LEMMA DebugInvInOrder ==
  ASSUME DebugInv
  PROVE  DebugInOrder
<1> DEFINE N == count.debug
           kept == (UNION {Numbers(debug[i]) : i \in 0..MaxFile}) \ {0}
<1>1. N \in Nat /\ Row(debug, N)
  BY DEF DebugInv
<1>2. kept = Held(debug)
  BY DEF Held
<1>3. kept \in SUBSET (1..N)
  <2>1. ASSUME NEW x \in kept PROVE x \in 1..N
    <3>1. PICK i \in 0..MaxFile : x \in Numbers(debug[i]) /\ x # 0
      OBVIOUS
    <3>2. debug[i] # Missing
      BY <3>1, NumbersMissing
    <3>3. QED
      BY <1>1, <3>1, <3>2 DEF Row
  <2>2. QED
    BY <2>1
<1> HIDE DEF kept, N
<1>4. ASSUME ~cleaned
      PROVE  /\ kept # {} => kept = Min(kept)..N
             /\ \/ 1 \in kept \/ N = 0
                \/ \A i \in 1..MaxFile : Size(debug[i]) > MaxSize
  <2>1. PICK k \in 0..MaxFile : Whole(debug, N, k)
    BY <1>4 DEF DebugInv, N
  <2>2. /\ k = MaxFile \/ 1..N \subseteq kept
        /\ \A m \in kept : m..N \subseteq kept
        /\ \A i \in 1..k : Size(debug[i]) > MaxSize
    BY <1>2, <2>1 DEF Whole
  <2>3. kept # {} => kept = Min(kept)..N
    BY <1>1, <1>3, <2>2, HeldFrom
  <2>4. N = 0 \/ 1 \in 1..N
    BY <1>1
  <2>5. \/ 1 \in kept \/ N = 0
        \/ \A i \in 1..MaxFile : Size(debug[i]) > MaxSize
    BY <2>2, <2>4
  <2>6. QED
    BY <2>3, <2>5
<1>5. \A i, j \in 0..MaxFile : i < j /\ debug[j] # Missing /\ debug[i] # Missing =>
        \A m \in Numbers(debug[i]), n \in Numbers(debug[j]) : n < m
  BY <1>1 DEF Row
<1>6. \A i \in 0..MaxFile : Size(debug[i]) <= MaxSize + Max(Lengths)
  BY <1>1 DEF Row
<1>7. QED
  BY <1>4, <1>5, <1>6 DEF DebugInOrder, kept, N

\* The debug log is in order whatever is written to it and whichever of its files
\* are removed (clib_log::check_file, clib_log::write).
THEOREM DebugInOrderAlways ==
  Spec => []DebugInOrder
<1> DEFINE Counted == count \in [log : Nat, debug : Nat]
<1>1. Init => DebugInv /\ Counted
  <2>1. Init => Counted
    BY DEF Init
  <2>2. QED
    BY <2>1, DebugInit
<1>2. DebugInv /\ Counted /\ [Next]_vars => DebugInv' /\ Counted'
  BY DebugNext
<1>3. DebugInv => DebugInOrder
  BY DebugInvInOrder
<1> HIDE DEF Counted
<1>4. QED
  BY <1>1, <1>2, <1>3, PTL DEF Spec


-----------------------------------------------------------------------------
(***************************************************************************)
(* The reader of the configuration                                         *)
(***************************************************************************)

LEMMA MinIs ==
  ASSUME NEW T \in SUBSET Nat, T # {}
  PROVE  Min(T) \in T /\ \A k \in T : Min(T) <= k
<1>1. \E m \in T : \A k \in T : m <= k
  BY NatMin
<1>2. QED
  BY <1>1 DEF Min

LEMMA SkipWhileIs ==
  ASSUME NEW text, NEW p \in Nat, NEW end \in Nat, NEW skip
  PROVE  LET q == SkipWhile(text, p, end, skip)
         IN  /\ q \in Nat /\ p <= q /\ (p <= end => q <= end) /\ (p > end => q = p)
             /\ \A i \in p..(q - 1) : text[i] \in skip
<1> DEFINE stops == {q \in p..(end - 1) : text[q] \notin skip}
           q == SkipWhile(text, p, end, skip)
<1>1. q = IF p >= end \/ stops = {} THEN (IF p > end THEN p ELSE end) ELSE Min(stops)
  BY DEF SkipWhile
<1>2. stops \in SUBSET Nat /\ \A i \in stops : i \in p..(end - 1)
  OBVIOUS
<1>3. \A i \in p..(end - 1) : i \notin stops => text[i] \in skip
  OBVIOUS
<1> HIDE DEF stops, q
<1>4. CASE p >= end
  <2>1. q = p
    BY <1>1, <1>4
  <2>2. \A i \in p..(q - 1) : text[i] \in skip
    BY <2>1
  <2>3. QED
    BY <1>4, <2>1, <2>2 DEF q
<1>5. CASE p < end /\ stops = {}
  <2>1. q = end
    BY <1>1, <1>5
  <2>2. \A i \in p..(q - 1) : text[i] \in skip
    BY <1>3, <1>5, <2>1
  <2>3. QED
    BY <1>5, <2>1, <2>2 DEF q
<1>6. CASE p < end /\ stops # {}
  <2>1. q = Min(stops)
    BY <1>1, <1>6
  <2>2. q \in stops /\ \A k \in stops : q <= k
    BY <1>2, <1>6, <2>1, MinIs
  <2>3. q \in p..(end - 1)
    BY <1>2, <2>2
  <2>4. ASSUME NEW i \in p..(q - 1) PROVE text[i] \in skip
    <3>1. i \in p..(end - 1) /\ ~(q <= i)
      BY <2>3
    <3>2. i \notin stops
      BY <2>2, <3>1
    <3>3. QED
      BY <1>3, <3>1, <3>2
  <2>5. QED
    BY <1>6, <2>3, <2>4 DEF q
<1>7. QED
  BY <1>4, <1>5, <1>6 DEF q

LEMMA SkipToIs ==
  ASSUME NEW text, NEW p \in Nat, NEW end \in Nat, NEW stop
  PROVE  LET q == SkipTo(text, p, end, stop)
         IN  q \in Nat /\ p <= q /\ (p <= end => q <= end) /\ (p > end => q = p)
<1> DEFINE stops == {q \in p..(end - 1) : text[q] \in stop}
           q == SkipTo(text, p, end, stop)
<1>1. q = IF p >= end \/ stops = {} THEN (IF p > end THEN p ELSE end) ELSE Min(stops)
  BY DEF SkipTo
<1>2. stops \in SUBSET Nat /\ \A i \in stops : i \in p..(end - 1)
  OBVIOUS
<1> HIDE DEF stops, q
<1>3. CASE p >= end \/ stops = {}
  BY <1>1, <1>3 DEF q
<1>4. CASE p < end /\ stops # {}
  <2>1. q = Min(stops)
    BY <1>1, <1>4
  <2>2. q \in p..(end - 1)
    BY <1>2, <1>4, <2>1, MinIs
  <2>3. QED
    BY <1>4, <2>2 DEF q
<1>5. QED
  BY <1>3, <1>4

\* A place that is found is within the range.
LEMMA LocateStrIs ==
  ASSUME NEW S, NEW text \in Seq(S), NEW word, NEW begin \in Nat, NEW end \in Nat
  PROVE  LET p == LocateStr(text, word, begin, end)
         IN  \/ p = 0
             \/ p \in begin..Len(text) /\ p + 1 <= end
<1> DEFINE found == SearchMarchStr(text, begin, word)
           p == LocateStr(text, word, begin, end)
<1>1. p = IF begin >= end \/ found = {} THEN 0
          ELSE IF Min(found) + 1 > end THEN 0 ELSE Min(found)
  BY DEF LocateStr, FirstBefore
<1>2. Len(text) \in Nat
  OBVIOUS
<1>3. found \subseteq begin..Len(text)
  BY DEF SearchMarchStr
<1> HIDE DEF found, p
<1>4. found \in SUBSET Nat
  BY <1>2, <1>3
<1>5. CASE begin >= end \/ found = {}
  BY <1>1, <1>5 DEF p
<1>6. CASE ~(begin >= end) /\ found # {}
  <2>1. Min(found) \in found
    BY <1>4, <1>6, MinIs
  <2> DEFINE m == Min(found)
  <2>2. p = IF m + 1 > end THEN 0 ELSE m
    BY <1>1, <1>6
  <2>3. m \in begin..Len(text)
    BY <1>3, <2>1
  <2> HIDE DEF m
  <2>4. p = 0 \/ (p \in begin..Len(text) /\ p + 1 <= end)
    BY <1>2, <2>2, <2>3
  <2>5. QED
    BY <2>4 DEF p
<1>7. QED
  BY <1>5, <1>6

\* A section lies within the text.
LEMMA LocateSectionIs ==
  ASSUME NEW S, NEW text \in Seq(S), NEW header
  PROVE  LET section == LocateSection(text, header)
         IN  section.found =>
               /\ section.begin \in Nat \ {0}
               /\ section.end \in Nat /\ section.end <= Len(text) + 1
<1> DEFINE n == Len(text) + 1
           p == LocateStr(text, header, 1, n)
           eol == SkipTo(text, p + 1, n, {NL})
           begin == SkipWhile(text, eol, n, {NL})
           ends == {q \in begin..Len(text) :
                      ToLower(text[q]) \in Headers /\ FirstOnLine(text, begin, q)}
           section == LocateSection(text, header)
           end == IF ends = {} THEN n ELSE Min(ends)
<1>1. section = IF p = 0 THEN NotFound ELSE [found |-> TRUE, begin |-> begin, end |-> end]
  BY DEF LocateSection
<1>2. n \in Nat /\ Len(text) \in Nat /\ n = Len(text) + 1
  OBVIOUS
<1>3. p = 0 \/ (p \in 1..Len(text) /\ p + 1 <= n)
  <2> HIDE DEF n
  <2>1. 1 \in Nat
    OBVIOUS
  <2>2. QED
    BY <1>2, <2>1, LocateStrIs
<1>4. ends \subseteq begin..Len(text)
  OBVIOUS
<1> HIDE DEF n, p, ends, section, begin, eol
<1>5. CASE p = 0
  <2>1. ~section.found
    BY <1>1, <1>5 DEF NotFound
  <2>2. QED
    BY <2>1 DEF section
<1>6. CASE p # 0
  <2>1. p + 1 \in Nat
    BY <1>2, <1>3
  <2>2. eol \in Nat /\ p + 1 <= eol
    BY <1>2, <2>1, SkipToIs DEF eol
  <2>3. begin \in Nat /\ eol <= begin
    BY <1>2, <2>2, SkipWhileIs DEF begin
  <2>4. begin \in Nat \ {0}
    BY <1>2, <1>3, <1>6, <2>1, <2>2, <2>3
  <2>5. end \in Nat /\ end <= n
    <3>1. CASE ends = {}
      BY <1>2, <3>1
    <3>2. CASE ends # {}
      <4>1. ends \in SUBSET Nat
        BY <1>2, <1>4, <2>4
      <4>2. end \in ends
        BY <3>2, <4>1, MinIs
      <4> HIDE DEF end
      <4>3. end \in begin..Len(text)
        BY <1>4, <4>2
      <4>4. QED
        BY <1>2, <2>4, <4>3
    <3>3. QED
      BY <3>1, <3>2
  <2> HIDE DEF end
  <2>6. section = [found |-> TRUE, begin |-> begin, end |-> end]
    BY <1>1, <1>6
  <2>7. section.begin = begin /\ section.end = end
    BY <2>6
  <2>8. QED
    BY <1>2, <2>4, <2>5, <2>7 DEF section
<1>7. QED
  BY <1>5, <1>6


\* One turn of the search for a key, which goes on as g says.
Turn(text, key, end, g, b) ==
  LET p == LocateStr(text, key, b, end)
      q == SkipWhile(text, p + 1, end, Blanks)
  IN  IF p = 0 THEN NotFound
      ELSE IF At(text, q) = "=" THEN [found |-> TRUE, begin |-> p, eq |-> q]
      ELSE g[q]

\* Every turn ends the search or goes on further right.
LEMMA TurnIs ==
  ASSUME NEW S, NEW text \in Seq(S), NEW key, NEW end \in Nat, NEW b \in Nat
  PROVE  \/ \A f : Turn(text, key, end, f, b) = NotFound
         \/ \E p, q \in Nat \ {0} :
              /\ b < q /\ q <= end /\ b < end
              /\ \/ \A f : Turn(text, key, end, f, b)
                             = [found |-> TRUE, begin |-> p, eq |-> q]
                 \/ \A f : Turn(text, key, end, f, b) = f[q]
<1> DEFINE p == LocateStr(text, key, b, end)
           q == SkipWhile(text, p + 1, end, Blanks)
<1>1. p = 0 \/ (p \in b..Len(text) /\ p + 1 <= end)
  BY LocateStrIs
<1>2. Len(text) \in Nat
  OBVIOUS
<1>3. ASSUME p # 0
      PROVE  p \in Nat \ {0} /\ q \in Nat \ {0} /\ b < q /\ q <= end /\ b < end
  <2> HIDE DEF p
  <2>1. p \in Nat \ {0} /\ p + 1 \in Nat /\ b <= p /\ p + 1 <= end
    BY <1>1, <1>2, <1>3
  <2>2. q \in Nat /\ p + 1 <= q /\ (p + 1 <= end => q <= end)
    BY <2>1, SkipWhileIs
  <2> HIDE DEF q
  <2>3. QED
    BY <2>1, <2>2
<1>4. ASSUME NEW f
      PROVE  Turn(text, key, end, f, b)
               = IF p = 0 THEN NotFound
                 ELSE IF At(text, q) = "=" THEN [found |-> TRUE, begin |-> p, eq |-> q]
                 ELSE f[q]
  BY DEF Turn
<1> HIDE DEF p, q
<1>5. CASE p = 0
  BY <1>4, <1>5
<1>6. CASE p # 0 /\ At(text, q) = "="
  <2>1. \A f : Turn(text, key, end, f, b) = [found |-> TRUE, begin |-> p, eq |-> q]
    BY <1>4, <1>6
  <2>2. QED
    BY <1>3, <1>6, <2>1
<1>7. CASE p # 0 /\ At(text, q) # "="
  <2>1. \A f : Turn(text, key, end, f, b) = f[q]
    BY <1>4, <1>7
  <2>2. QED
    BY <1>3, <1>7, <2>1
<1>8. QED
  BY <1>5, <1>6, <1>7

\* The search is determined from the end of the range on.
LEMMA SearchExists ==
  ASSUME NEW S, NEW text \in Seq(S), NEW key, NEW end \in Nat
  PROVE  \E g : g = [b \in Nat |-> Turn(text, key, end, g, b)]
<1> DEFINE Right(g, k) == \A b \in Nat : b >= end - k => g[b] = Turn(text, key, end, g, b)
           T == {k \in Nat : \E g : g = [b \in Nat |-> g[b]] /\ Right(g, k)}
<1>1. 0 \in T
  <2> DEFINE g == [b \in Nat |-> NotFound]
  <2>1. ASSUME NEW b \in Nat, b >= end PROVE g[b] = Turn(text, key, end, g, b)
    <3>1. ~(b < end)
      BY <2>1
    <3>2. Turn(text, key, end, g, b) = NotFound
      <4> HIDE DEF g
      <4>1. QED
        BY <3>1, TurnIs
    <3>3. QED
      BY <3>2
  <2>2. g = [b \in Nat |-> g[b]]
    OBVIOUS
  <2> HIDE DEF g
  <2>3. Right(g, 0)
    BY <2>1
  <2>4. QED
    BY <2>2, <2>3
<1>2. ASSUME NEW k \in T PROVE k + 1 \in T
  <2>1. PICK f : f = [b \in Nat |-> f[b]] /\ Right(f, k)
    BY <1>2
  <2> DEFINE a == end - (k + 1)
             g == [b \in Nat |-> IF b = a THEN Turn(text, key, end, f, b) ELSE f[b]]
  <2>2. ASSUME NEW b \in Nat, b >= a PROVE g[b] = Turn(text, key, end, g, b)
    <3>1. Turn(text, key, end, g, b) = Turn(text, key, end, f, b)
      <4>1. \A q \in Nat : b < q => g[q] = f[q]
        BY <2>2
      <4> HIDE DEF g
      <4>2. \/ \A e : Turn(text, key, end, e, b) = NotFound
            \/ \E p, q \in Nat \ {0} :
                 /\ b < q
                 /\ \/ \A e : Turn(text, key, end, e, b)
                                = [found |-> TRUE, begin |-> p, eq |-> q]
                    \/ \A e : Turn(text, key, end, e, b) = e[q]
        BY TurnIs
      <4>3. QED
        BY <4>1, <4>2
    <3>2. g[b] = Turn(text, key, end, f, b)
      <4>1. CASE b = a
        BY <4>1
      <4>2. CASE b # a
        <5>1. b >= end - k
          BY <1>2, <2>2, <4>2
        <5>2. f[b] = Turn(text, key, end, f, b)
          BY <2>1, <5>1
        <5>3. QED
          BY <4>2, <5>2
      <4>3. QED
        BY <4>1, <4>2
    <3>3. QED
      BY <3>1, <3>2
  <2>3. g = [b \in Nat |-> g[b]]
    OBVIOUS
  <2> HIDE DEF g
  <2>4. Right(g, k + 1)
    BY <2>2
  <2>5. k + 1 \in Nat
    BY <1>2
  <2>6. QED
    BY <2>3, <2>4, <2>5
<1>3. end \in T
  <2>1. T \in SUBSET Nat
    OBVIOUS
  <2> HIDE DEF T
  <2>2. QED
    BY <1>1, <1>2, <2>1, SetInduction
<1>4. PICK g : g = [b \in Nat |-> g[b]] /\ Right(g, end)
  BY <1>3
<1>5. \A b \in Nat : g[b] = Turn(text, key, end, g, b)
  BY <1>4
<1>6. g = [b \in Nat |-> Turn(text, key, end, g, b)]
  BY <1>4, <1>5
<1>7. QED
  BY <1>6

\* The "=" behind a key that is found is within the range.
LEMMA LocateKeyIs ==
  ASSUME NEW S, NEW text \in Seq(S), NEW key, NEW begin \in Nat, NEW end \in Nat
  PROVE  LET k == LocateKey(text, key, begin, end)
         IN  k.found => k.eq \in Nat \ {0} /\ k.eq <= end
<1> DEFINE h == CHOOSE g : g = [b \in Nat |-> Turn(text, key, end, g, b)]
           Good(r) == r.found => r.eq \in Nat \ {0} /\ r.eq <= end
<1>1. LocateKey(text, key, begin, end) = h[begin]
  BY DEF LocateKey, Turn
<1>2. h = [b \in Nat |-> Turn(text, key, end, h, b)]
  BY SearchExists
<1> HIDE DEF h
<1> DEFINE T == {k \in Nat : \A b \in Nat : b >= end - k => Good(h[b])}
<1>3. Good(NotFound)
  BY DEF NotFound
<1>4. ASSUME NEW b \in Nat, \A q \in Nat : b < q /\ b < end => Good(h[q])
      PROVE  Good(h[b])
  <2>1. h[b] = Turn(text, key, end, h, b)
    BY <1>2
  <2>2. \/ h[b] = NotFound
        \/ \E p, q \in Nat \ {0} :
             /\ b < q /\ q <= end /\ b < end
             /\ \/ h[b] = [found |-> TRUE, begin |-> p, eq |-> q]
                \/ h[b] = h[q]
    BY <2>1, TurnIs
  <2>3. CASE h[b] = NotFound
    BY <1>3, <2>3
  <2>4. ASSUME NEW p \in Nat \ {0}, NEW q \in Nat \ {0}, b < q, q <= end, b < end,
               h[b] = [found |-> TRUE, begin |-> p, eq |-> q] \/ h[b] = h[q]
        PROVE  Good(h[b])
    <3>1. CASE h[b] = [found |-> TRUE, begin |-> p, eq |-> q]
      <4>1. h[b].eq = q
        BY <3>1
      <4>2. QED
        BY <2>4, <4>1
    <3>2. CASE h[b] = h[q]
      BY <1>4, <2>4, <3>2
    <3>3. QED
      BY <2>4, <3>1, <3>2
  <2> HIDE DEF Good
  <2>5. QED
    BY <2>2, <2>3, <2>4
<1> HIDE DEF Good
<1>5. 0 \in T
  <2>1. ASSUME NEW b \in Nat, b >= end PROVE Good(h[b])
    BY <1>4, <2>1
  <2>2. QED
    BY <2>1
<1>6. ASSUME NEW k \in T PROVE k + 1 \in T
  <2>1. ASSUME NEW b \in Nat, b >= end - (k + 1) PROVE Good(h[b])
    <3>1. \A q \in Nat : b < q => q >= end - k
      BY <1>6, <2>1
    <3>2. \A q \in Nat : q >= end - k => Good(h[q])
      BY <1>6
    <3>3. QED
      BY <1>4, <3>1, <3>2
  <2>2. QED
    BY <1>6, <2>1
<1>7. end \in T
  <2>1. T \in SUBSET Nat
    OBVIOUS
  <2> HIDE DEF T
  <2>2. QED
    BY <1>5, <1>6, <2>1, SetInduction
<1>8. Good(h[begin])
  BY <1>7
<1>9. QED
  BY <1>1, <1>8 DEF Good

\* A value that is found is a part of the text.
LEMMA GetItemValueIs ==
  ASSUME NEW S, NEW text \in Seq(S), NEW header, NEW key
  PROVE  GetItemValue(text, header, key) \in Seq(S)
<1> DEFINE section == LocateSection(text, header)
           k == LocateKey(text, key, section.begin, section.end)
           begin == SkipWhile(text, k.eq + 1, section.end, Blanks)
           end == SkipTo(text, begin, section.end, {"tab", NL})
           value == LocateKeyValue(text, key, section)
           n == Len(text)
<1>1. GetItemValue(text, header, key)
        = IF ~section.found THEN <<>>
          ELSE IF ~value.found THEN <<>>
          ELSE SubSeq(text, value.begin, value.end - 1)
  BY DEF GetItemValue, Part
<1>2. value = IF ~k.found THEN NotFound
              ELSE IF end > begin THEN [found |-> TRUE, begin |-> begin, end |-> end]
              ELSE NotFound
  BY DEF LocateKeyValue
<1>3. section.found =>
        /\ section.begin \in Nat \ {0}
        /\ section.end \in Nat /\ section.end <= n + 1
  BY LocateSectionIs
<1>4. n \in Nat /\ <<>> \in Seq(S)
  BY EmptySeq
<1> HIDE DEF section, value, n
<1>5. CASE ~section.found \/ ~value.found
  BY <1>1, <1>4, <1>5
<1>6. CASE section.found /\ value.found
  <2>1. k.found /\ end > begin /\ value = [found |-> TRUE, begin |-> begin, end |-> end]
    <3>1. ~NotFound.found
      BY DEF NotFound
    <3> HIDE DEF k, begin, end
    <3>2. QED
      BY <1>2, <1>6, <3>1
  <2>2. /\ section.begin \in Nat /\ section.end \in Nat /\ section.end <= n + 1
    BY <1>3, <1>6
  <2>3. k.eq \in Nat \ {0} /\ k.eq <= section.end
    BY <2>1, <2>2, LocateKeyIs
  <2> HIDE DEF k
  <2>4. k.eq + 1 \in Nat
    BY <2>3
  <2>5. begin \in Nat /\ k.eq + 1 <= begin
    BY <2>2, <2>4, SkipWhileIs
  <2> HIDE DEF begin
  <2>6. end \in Nat /\ (begin <= section.end => end <= section.end)
                    /\ (begin > section.end => end = begin)
    BY <2>2, <2>5, SkipToIs
  <2> HIDE DEF end
  <2>7. begin \in 1..n /\ end - 1 \in begin..n
    BY <1>4, <2>1, <2>2, <2>3, <2>5, <2>6
  <2>8. SubSeq(text, begin, end - 1) \in Seq(S)
    <3>1. begin \in 1..Len(text) /\ end - 1 \in begin..Len(text)
      BY <2>7 DEF n
    <3>2. QED
      BY <3>1
  <2>9. value.begin = begin /\ value.end = end
    BY <2>1
  <2>10. QED
    BY <1>1, <1>6, <2>8, <2>9
<1>7. QED
  BY <1>5, <1>6


\* A text of digits is a number.
LEMMA AtolIs ==
  ASSUME NEW S, NEW value \in Seq(S)
  PROVE  atol(value) \in Nat
<1> DEFINE end == SkipWhile(value, 1, Len(value) + 1, DOMAIN Digits)
           n == end - 1
<1>1. n \in Nat /\ \A i \in 1..n : value[i] \in DOMAIN Digits
  <2>1. Len(value) + 1 \in Nat /\ 1 \in Nat /\ 1 <= Len(value) + 1
    OBVIOUS
  <2>2. end \in Nat /\ 1 <= end /\ \A i \in 1..(end - 1) : value[i] \in DOMAIN Digits
    BY <2>1, SkipWhileIs
  <2> HIDE DEF end
  <2>3. QED
    BY <2>2
<1>2. \A c \in DOMAIN Digits : Digits[c] \in Nat
  BY DEF Digits
<1>3. atol(value) = LET number[i \in 0..n] ==
                          IF i = 0 THEN 0 ELSE 10 * number[i - 1] + Digits[value[i]]
                    IN  number[n]
  BY DEF atol
<1> HIDE DEF end, n
<1> DEFINE S0 == [k \in 0..n |-> Nat]
           F == [k \in 1..n |-> [x \in Nat |-> 10 * x + Digits[value[k]]]]
<1>4. ASSUME NEW k \in 1..n
      PROVE  k \in 0..n /\ k - 1 \in 0..n /\ k # 0 /\ Digits[value[k]] \in Nat
  BY <1>1, <1>2
<1>5. IsSteps(n, S0, 0, F)
  <2>1. 0 \in S0[0]
    BY <1>1
  <2>2. ASSUME NEW k \in 1..n, NEW x \in S0[k - 1] PROVE F[k][x] \in S0[k]
    <3>1. x \in Nat /\ F[k][x] = 10 * x + Digits[value[k]]
      BY <1>4
    <3>2. F[k][x] \in Nat
      BY <1>4, <3>1
    <3>3. QED
      BY <1>4, <3>2
  <2>3. QED
    <3> HIDE DEF S0, F
    <3>1. QED
      BY <1>1, <2>1, <2>2 DEF IsSteps
<1>6. PICK f : /\ f = [k \in 0..n |-> IF k = 0 THEN 0 ELSE F[k][f[k - 1]]]
               /\ \A k \in 0..n : f[k] \in S0[k]
  <2> HIDE DEF F, S0
  <2>1. QED
    BY <1>5, StepsExist
<1>7. ASSUME NEW i \in 0..n
      PROVE  f[i] = IF i = 0 THEN 0 ELSE 10 * f[i - 1] + Digits[value[i]]
  <2>1. CASE i = 0
    BY <1>6, <2>1
  <2>2. CASE i # 0
    <3>1. i \in 1..n /\ i - 1 \in 0..n
      BY <1>1, <2>2
    <3>2. f[i - 1] \in Nat /\ f[i] = F[i][f[i - 1]]
      BY <1>6, <2>2, <3>1
    <3>3. F[i][f[i - 1]] = 10 * f[i - 1] + Digits[value[i]]
      BY <3>1, <3>2
    <3>4. QED
      BY <2>2, <3>2, <3>3
  <2>3. QED
    BY <2>1, <2>2
<1>8. f = [i \in 0..n |-> IF i = 0 THEN 0 ELSE 10 * f[i - 1] + Digits[value[i]]]
  <2>1. f = [i \in 0..n |-> f[i]]
    BY <1>6
  <2> HIDE DEF F, S0
  <2>2. QED
    BY <1>7, <2>1
<1> DEFINE h == CHOOSE s : s = [i \in 0..n |->
                                  IF i = 0 THEN 0 ELSE 10 * s[i - 1] + Digits[value[i]]]
<1>9. h = [i \in 0..n |-> IF i = 0 THEN 0 ELSE 10 * h[i - 1] + Digits[value[i]]]
  <2> HIDE DEF F, S0
  <2>1. QED
    BY <1>8
<1>10. atol(value) = h[n]
  BY <1>3
<1> HIDE DEF h, F
<1>11. h[0] \in S0[0]
  BY <1>1, <1>9
<1>12. ASSUME NEW k \in 1..n, h[k - 1] \in S0[k - 1] PROVE h[k] \in S0[k]
  <2>1. h[k - 1] \in Nat
    BY <1>4, <1>12
  <2>2. h[k] = 10 * h[k - 1] + Digits[value[k]]
    BY <1>4, <1>9
  <2>3. h[k] \in Nat
    BY <1>4, <2>1, <2>2
  <2>4. QED
    BY <1>4, <2>3
<1>13. \A k \in 0..n : h[k] \in S0[k]
  <2> HIDE DEF S0
  <2>1. QED
    BY <1>1, <1>11, <1>12, StepInvariant
<1>14. h[n] \in Nat
  BY <1>1, <1>13
<1>15. QED
  BY <1>10, <1>14

LEMMA ReadIntIs ==
  ASSUME NEW S, NEW text \in Seq(S), NEW header, NEW key, NEW default \in Nat
  PROVE  ReadInt(text, header, key, default) \in Nat
<1> DEFINE value == GetItemValue(text, header, key)
<1>1. value \in Seq(S)
  BY GetItemValueIs
<1>2. ReadInt(text, header, key, default) = IF value = <<>> THEN default ELSE atol(value)
  BY DEF ReadInt, Read
<1> HIDE DEF value
<1>3. atol(value) \in Nat
  BY <1>1, AtolIs
<1>4. QED
  BY <1>2, <1>3

\* The lines of a file, one after the other.
LEMMA FlattenIs ==
  ASSUME NEW S, NEW lines \in Seq(Seq(S))
  PROVE  FlattenSeq(lines) \in Seq(S)
<1> DEFINE n == Len(lines)
           S0 == [k \in 0..n |-> Seq(S)]
           F == [k \in 1..n |-> [x \in Seq(S) |-> IF k = 1 THEN lines[k] ELSE x \o lines[k]]]
<1>1. n \in Nat /\ <<>> \in Seq(S) /\ \A k \in 1..n : lines[k] \in Seq(S)
  BY EmptySeq
<1>2. CASE n = 0
  <2>1. lines = <<>>
    BY <1>2, EmptySeq
  <2>2. FlattenSeq(lines) = lines
    BY <1>2 DEF FlattenSeq
  <2>3. QED
    BY <1>1, <2>1, <2>2
<1>3. CASE n # 0
  <2>1. FlattenSeq(lines)
          = LET flatten[i \in 1..n] == IF i = 1 THEN lines[i] ELSE flatten[i - 1] \o lines[i]
            IN  flatten[n]
    BY <1>3 DEF FlattenSeq
  <2> HIDE DEF n
  <2>2. ASSUME NEW k \in 1..n
        PROVE  k \in 0..n /\ k - 1 \in 0..n /\ k # 0 /\ lines[k] \in Seq(S)
    BY <1>1
  <2>3. IsSteps(n, S0, <<>>, F)
    <3>1. <<>> \in S0[0]
      BY <1>1
    <3>2. ASSUME NEW k \in 1..n, NEW x \in S0[k - 1] PROVE F[k][x] \in S0[k]
      <4>1. x \in Seq(S)
        BY <2>2
      <4>2. F[k][x] = IF k = 1 THEN lines[k] ELSE x \o lines[k]
        BY <4>1
      <4>3. x \o lines[k] \in Seq(S)
        BY <2>2, <4>1, Concat
      <4>4. F[k][x] \in Seq(S)
        BY <2>2, <4>2, <4>3
      <4>5. QED
        BY <2>2, <4>4
    <3>3. QED
      <4> HIDE DEF S0, F
      <4>1. QED
        BY <1>1, <3>1, <3>2 DEF IsSteps
  <2>4. PICK f : /\ f = [k \in 0..n |-> IF k = 0 THEN <<>> ELSE F[k][f[k - 1]]]
                 /\ \A k \in 0..n : f[k] \in S0[k]
    <3> HIDE DEF F, S0
    <3>1. QED
      BY <2>3, StepsExist
  <2> DEFINE g == [i \in 1..n |-> f[i]]
  <2>5. ASSUME NEW i \in 1..n
        PROVE  g[i] = IF i = 1 THEN lines[i] ELSE g[i - 1] \o lines[i]
    <3>1. f[i - 1] \in Seq(S) /\ f[i] = F[i][f[i - 1]]
      BY <2>2, <2>4
    <3>2. F[i][f[i - 1]] = IF i = 1 THEN lines[i] ELSE f[i - 1] \o lines[i]
      BY <3>1
    <3>3. i # 1 => i - 1 \in 1..n
      BY <1>1
    <3> HIDE DEF F
    <3>4. i # 1 => g[i - 1] = f[i - 1]
      BY <3>3
    <3>5. QED
      BY <3>1, <3>2, <3>4
  <2>6. g = [i \in 1..n |-> IF i = 1 THEN lines[i] ELSE g[i - 1] \o lines[i]]
    <3>1. g = [i \in 1..n |-> g[i]]
      OBVIOUS
    <3> HIDE DEF g, F, S0
    <3>2. QED
      BY <2>5, <3>1
  <2> DEFINE h == CHOOSE s : s = [i \in 1..n |->
                                    IF i = 1 THEN lines[i] ELSE s[i - 1] \o lines[i]]
  <2>7. h = [i \in 1..n |-> IF i = 1 THEN lines[i] ELSE h[i - 1] \o lines[i]]
    <3> HIDE DEF g, F, S0
    <3>1. QED
      BY <2>6
  <2>8. FlattenSeq(lines) = h[n]
    BY <2>1
  <2> HIDE DEF h, F, S0
  <2> DEFINE T == {k \in Nat : k + 1 \in 1..n => h[k + 1] \in Seq(S)}
  <2>9. 0 \in T
    <3>1. 1 \in 1..n => h[1] = lines[1]
      BY <2>7
    <3>2. QED
      BY <2>2, <3>1
  <2>10. ASSUME NEW k \in T PROVE k + 1 \in T
    <3>1. k + 1 \in Nat /\ (k + 1) + 1 # 1 /\ ((k + 1) + 1) - 1 = k + 1
      OBVIOUS
    <3>2. ASSUME (k + 1) + 1 \in 1..n PROVE h[(k + 1) + 1] \in Seq(S)
      <4>1. k + 1 \in 1..n
        BY <1>1, <3>1, <3>2
      <4>2. h[(k + 1) + 1] = h[k + 1] \o lines[(k + 1) + 1]
        BY <2>7, <3>1, <3>2
      <4>3. h[k + 1] \in Seq(S) /\ lines[(k + 1) + 1] \in Seq(S)
        BY <2>2, <3>2, <4>1
      <4>4. QED
        BY <4>2, <4>3, Concat
    <3>3. QED
      BY <3>1, <3>2
  <2>11. n - 1 \in T
    <3>1. T \in SUBSET Nat
      OBVIOUS
    <3> HIDE DEF T
    <3>2. T = Nat
      BY <2>9, <2>10, <3>1, SetInduction
    <3>3. QED
      BY <1>1, <1>3, <3>2 DEF n
  <2>12. (n - 1) + 1 = n /\ n \in 1..n
    BY <1>1, <1>3 DEF n
  <2>13. h[n] \in Seq(S)
    BY <2>11, <2>12
  <2>14. QED
    BY <2>8, <2>13
<1>4. QED
  BY <1>2, <1>3


-----------------------------------------------------------------------------
(***************************************************************************)
(* The ring                                                                *)
(***************************************************************************)

\* How many files ago the file was left.
Age(l, p) == IF p <= l.pos THEN l.pos - p ELSE l.pos - p + l.num

Kept(l) == UNION {Numbers(l.files[p]) : p \in DOMAIN l.files}

\* The file that is written to, the files that are left, and what each of them holds.
Files(l, N) ==
  /\ l.num \in Nat \ {0} /\ l.size \in Nat \ {0}
  /\ l.files \in [DOMAIN l.files -> Seq(Messages)]
  /\ l.pos \in DOMAIN l.files /\ DOMAIN l.files \subseteq 0..(l.num - 1)
  /\ N \in Numbers(l.files[l.pos])
  /\ \A p \in DOMAIN l.files :
       /\ Numbers(l.files[p]) \subseteq 1..N
       /\ Size(l.files[p]) < l.size + Max(Lengths)
       /\ p # l.pos => Size(l.files[p]) >= l.size

\* An older file has older messages, and none is missing between two that are kept;
\* until the ring has been round once, none is missing at all.
Ordered(l, N) ==
  /\ \A p, q \in DOMAIN l.files : Age(l, p) < Age(l, q) =>
       \A m \in Numbers(l.files[p]), n \in Numbers(l.files[q]) : n < m
  /\ \A m \in Kept(l) : m..N \subseteq Kept(l)
  /\ \/ DOMAIN l.files = 0..(l.num - 1)
     \/ DOMAIN l.files = 0..l.pos /\ 1..N \subseteq Kept(l)

Fresh(l) ==
  /\ l.num \in Nat \ {0} /\ l.size \in Nat \ {0}
  /\ l.pos = 0 /\ l.files = NoFiles

Directories == UNION {[D -> Seq(Messages)] : D \in SUBSET Nat}

\* The names main gives its logs.
Apps == {"boot", "server"}

Logs == [app : Apps, num : Nat \ {0}, size : Nat \ {0}, pos : Nat, files : Directories]

\* init_log has given the log a name.
Named(l) == l.app # ""

RingInv ==
  /\ log \in Logs /\ Named(log) /\ count.log \in Nat
  /\ count.log = 0 => Fresh(log)
  /\ count.log > 0 => Files(log, count.log) /\ Ordered(log, count.log)
  /\ proc = "booted" => count.log = 0

LEMMA DirectoryIs ==
  ASSUME NEW d
  PROVE  d \in Directories <=> DOMAIN d \subseteq Nat /\ d \in [DOMAIN d -> Seq(Messages)]
BY DEF Directories

LEMMA LogIs ==
  ASSUME NEW l \in Logs
  PROVE  /\ l.num \in Nat \ {0} /\ l.size \in Nat \ {0} /\ l.pos \in Nat
         /\ DOMAIN l.files \subseteq Nat /\ l.files \in [DOMAIN l.files -> Seq(Messages)]
<1>1. /\ l.num \in Nat \ {0} /\ l.size \in Nat \ {0} /\ l.pos \in Nat
      /\ l.files \in Directories
  BY DEF Logs
<1>2. QED
  BY <1>1, DirectoryIs

LEMMA AgeIs ==
  ASSUME NEW l, l.num \in Nat \ {0}, l.pos \in Nat, NEW p \in 0..(l.num - 1)
  PROVE  Age(l, p) \in Nat
<1> DEFINE n == l.num
           u == l.pos
<1>1. Age(l, p) = IF p <= u THEN u - p ELSE u - p + n
  BY DEF Age
<1>2. n \in Nat \ {0} /\ u \in Nat /\ p \in 0..(n - 1)
  OBVIOUS
<1> HIDE DEF n, u
<1>3. QED
  BY <1>1, <1>2

\* One file is written and becomes the one that is written to.
IsPut(y, l, P, F) ==
  /\ y \in Logs
  /\ y.app = l.app /\ y.num = l.num /\ y.size = l.size /\ y.pos = P
  /\ DOMAIN y.files = DOMAIN l.files \cup {P}
  /\ y.files[P] = F
  /\ \A p \in DOMAIN l.files : p # P => y.files[p] = l.files[p]

LEMMA PutIs ==
  ASSUME NEW l \in Logs, NEW P \in Nat, NEW F \in Seq(Messages)
  PROVE  IsPut(Put(l, P, F), l, P, F)
<1> DEFINE y == Put(l, P, F)
           d == [p \in DOMAIN l.files \cup {P} |-> IF p = P THEN F ELSE l.files[p]]
<1>1. y = [l EXCEPT !.pos = P, !.files = d]
  BY DEF Put
<1>2. DOMAIN l.files \subseteq Nat /\ l.files \in [DOMAIN l.files -> Seq(Messages)]
  BY LogIs
<1>3. /\ DOMAIN d = DOMAIN l.files \cup {P} /\ d[P] = F
      /\ \A p \in DOMAIN l.files : p # P => d[p] = l.files[p]
  OBVIOUS
<1>4. d \in Directories
  <2>1. \A p \in DOMAIN l.files \cup {P} : d[p] \in Seq(Messages)
    BY <1>2
  <2>2. d = [p \in DOMAIN l.files \cup {P} |-> d[p]] /\ DOMAIN l.files \cup {P} \subseteq Nat
    BY <1>2
  <2> HIDE DEF d
  <2>3. DOMAIN d \subseteq Nat /\ d \in [DOMAIN d -> Seq(Messages)]
    BY <1>3, <2>1, <2>2
  <2>4. QED
    BY <2>3, DirectoryIs
<1> HIDE DEF d, y
<1>5. /\ l \in [app : Apps, num : Nat \ {0}, size : Nat \ {0}, pos : Nat, files : Directories]
  BY DEF Logs
<1>6. /\ y.app = l.app /\ y.num = l.num /\ y.size = l.size /\ y.pos = P /\ y.files = d
  BY <1>1, <1>5
<1>7. y \in [app : Apps, num : Nat \ {0}, size : Nat \ {0}, pos : Nat, files : Directories]
  BY <1>1, <1>4, <1>5
<1>8. IsPut(y, l, P, F)
  BY <1>3, <1>6, <1>7 DEF IsPut, Logs
<1>9. QED
  BY <1>8 DEF y

\* The first message goes to the first file.
LEMMA FirstWrite ==
  ASSUME NEW l \in Logs, Fresh(l), NEW y \in Logs, NEW m \in Messages, m.n = 1,
         IsPut(y, l, 0, <<m>>)
  PROVE  Files(y, 1) /\ Ordered(y, 1)
<1>1. <<m>> \in Seq(Messages) /\ Numbers(<<m>>) = {1} /\ Size(<<m>>) = m.len
  BY FileOne
<1>2. DOMAIN l.files = {}
  BY DEF Fresh, NoFiles
<1>3. /\ y.num = l.num /\ y.size = l.size /\ y.pos = 0
      /\ DOMAIN y.files = {0} /\ y.files[0] = <<m>>
  BY <1>2 DEF IsPut
<1>4. y.num \in Nat \ {0} /\ y.size \in Nat \ {0} /\ y.files \in [DOMAIN y.files -> Seq(Messages)]
  BY LogIs
<1>5. m.len < y.size + Max(Lengths)
  BY <1>4, MessageIs, Limits
<1>6. Files(y, 1)
  BY <1>1, <1>3, <1>4, <1>5 DEF Files
<1>7. Kept(y) = {1}
  BY <1>1, <1>3 DEF Kept
<1>8. 0..0 = {0} /\ 1..1 = {1}
  OBVIOUS
<1>9. Ordered(y, 1)
  <2>1. \A p, q \in DOMAIN y.files : Age(y, p) < Age(y, q) => FALSE
    <3>1. \A p, q \in DOMAIN y.files : p = 0 /\ q = 0
      BY <1>3
    <3>2. Age(y, 0) = 0
      BY <1>3 DEF Age
    <3>3. QED
      BY <3>1, <3>2
  <2>2. \A a \in Kept(y) : a..1 \subseteq Kept(y)
    BY <1>7, <1>8
  <2>3. DOMAIN y.files = 0..y.pos /\ 1..1 \subseteq Kept(y)
    BY <1>3, <1>7, <1>8
  <2>4. QED
    BY <2>1, <2>2, <2>3 DEF Ordered
<1>10. QED
  BY <1>6, <1>9


\* Another message fits into the file that is written to.
LEMMA WriteStays ==
  ASSUME NEW l \in Logs, NEW N \in Nat \ {0}, Files(l, N), Ordered(l, N),
         Size(l.files[l.pos]) < l.size, NEW m \in Messages, m.n = N + 1,
         NEW y \in Logs, IsPut(y, l, l.pos, Append(l.files[l.pos], m))
  PROVE  Files(y, N + 1) /\ Ordered(y, N + 1)
<1> DEFINE D == DOMAIN l.files
           q == l.files[l.pos]
           F == Append(q, m)
<1>1. /\ l.num \in Nat \ {0} /\ l.size \in Nat \ {0} /\ l.pos \in Nat
      /\ D \subseteq Nat /\ l.files \in [D -> Seq(Messages)] /\ l.pos \in D
      /\ D \subseteq 0..(l.num - 1)
  BY LogIs DEF Files
<1>2. /\ q \in Seq(Messages) /\ F \in Seq(Messages)
      /\ Numbers(F) = Numbers(q) \cup {N + 1} /\ Size(F) = Size(q) + m.len
      /\ Size(q) \in Nat /\ Size(q) < l.size
  <2>1. q \in Seq(Messages)
    BY <1>1
  <2> HIDE DEF q
  <2>2. Size(q) \in Nat
    BY <2>1, FileIs
  <2>3. QED
    BY <2>1, <2>2, FileAppend DEF q
<1> HIDE DEF q, F
<1>3. IsPut(y, l, l.pos, F)
  BY DEF F, q
<1>5. /\ y.num = l.num /\ y.size = l.size /\ y.pos = l.pos
      /\ DOMAIN y.files = D /\ y.files[l.pos] = F
      /\ \A p \in D : p # l.pos => y.files[p] = l.files[p]
      /\ y.files \in [DOMAIN y.files -> Seq(Messages)]
  BY <1>1, <1>3, LogIs DEF IsPut
<1>6. /\ m.len \in Nat /\ m.len <= Max(Lengths) /\ Max(Lengths) \in Nat
      /\ 1..N \subseteq 1..(N + 1) /\ N + 1 \in 1..(N + 1) /\ 1..(N + 1) = 1..N \cup {N + 1}
  BY MessageIs, Limits
<1> HIDE DEF D
<1>7. ASSUME NEW p \in D
      PROVE  /\ Numbers(y.files[p]) \subseteq 1..(N + 1)
             /\ Size(y.files[p]) < l.size + Max(Lengths)
             /\ p # l.pos => Size(y.files[p]) >= l.size
  <2>1. CASE p = l.pos
    <3>1. Numbers(q) \subseteq 1..N
      BY <1>1 DEF Files, D, q
    <3>2. Numbers(F) \subseteq 1..(N + 1)
      BY <1>2, <1>6, <3>1
    <3>3. Size(F) < l.size + Max(Lengths)
      BY <1>1, <1>2, <1>6
    <3>4. QED
      BY <1>5, <2>1, <3>2, <3>3
  <2>2. CASE p # l.pos
    <3>1. /\ Numbers(l.files[p]) \subseteq 1..N
          /\ Size(l.files[p]) < l.size + Max(Lengths)
          /\ Size(l.files[p]) >= l.size
      BY <2>2 DEF Files, D
    <3>2. QED
      BY <1>5, <1>6, <2>2, <3>1
  <2>3. QED
    BY <2>1, <2>2
<1>8. Files(y, N + 1)
  BY <1>1, <1>2, <1>5, <1>7 DEF Files
<1>9. Kept(y) = Kept(l) \cup {N + 1}
  <2>1. ASSUME NEW x \in Kept(y) PROVE x \in Kept(l) \cup {N + 1}
    <3>1. PICK p \in D : x \in Numbers(y.files[p])
      BY <1>5, <2>1 DEF Kept
    <3>2. CASE p = l.pos
      BY <1>1, <1>2, <1>5, <3>1, <3>2 DEF Kept, D, q
    <3>3. CASE p # l.pos
      BY <1>5, <3>1, <3>3 DEF Kept, D
    <3>4. QED
      BY <3>2, <3>3
  <2>2. ASSUME NEW x \in Kept(l) PROVE x \in Kept(y)
    <3>1. PICK p \in D : x \in Numbers(l.files[p])
      BY <2>2 DEF Kept, D
    <3>2. x \in Numbers(y.files[p])
      <4>1. CASE p = l.pos
        BY <1>2, <1>5, <3>1, <4>1 DEF q
      <4>2. CASE p # l.pos
        BY <1>5, <3>1, <4>2
      <4>3. QED
        BY <4>1, <4>2
    <3>3. QED
      BY <1>5, <3>2 DEF Kept
  <2>3. N + 1 \in Kept(y)
    BY <1>1, <1>2, <1>5 DEF Kept
  <2>4. QED
    BY <2>1, <2>2, <2>3
<1>10. ASSUME NEW a \in Kept(y), NEW x \in a..(N + 1) PROVE x \in Kept(y)
  <2>1. CASE a \in Kept(l)
    <3>1. PICK p \in D : a \in Numbers(l.files[p])
      BY <2>1 DEF Kept, D
    <3>2. a \in 1..N
      BY <3>1 DEF Files, D
    <3>3. a..N \subseteq Kept(l)
      BY <2>1 DEF Ordered
    <3>4. x \in a..N \/ x = N + 1
      BY <1>10, <3>2
    <3>5. QED
      BY <1>9, <3>3, <3>4
  <2>2. CASE a = N + 1
    BY <1>9, <1>10, <2>2
  <2>3. QED
    BY <1>9, <1>10, <2>1, <2>2
<1>11. ASSUME NEW i \in D, NEW j \in D, Age(y, i) < Age(y, j),
              NEW a \in Numbers(y.files[i]), NEW b \in Numbers(y.files[j])
       PROVE  b < a
  <2>1. Age(y, i) = Age(l, i) /\ Age(y, j) = Age(l, j)
    BY <1>5 DEF Age
  <2>2. j # l.pos
    <3>1. SUFFICES ASSUME j = l.pos PROVE FALSE
      OBVIOUS
    <3>2. Age(l, j) = 0
      BY <1>1, <3>1 DEF Age
    <3>3. i \in 0..(l.num - 1)
      BY <1>1
    <3>4. Age(l, i) >= 0 /\ Age(l, i) \in Int
      BY <1>1, <3>3, AgeIs
    <3>5. QED
      BY <1>11, <2>1, <3>2, <3>4
  <2>3. y.files[j] = l.files[j] /\ b \in 1..N
    BY <1>5, <1>11, <2>2 DEF Files, D
  <2>4. CASE a = N + 1
    BY <2>3, <2>4
  <2>5. CASE a # N + 1
    <3>1. a \in Numbers(l.files[i])
      <4>1. CASE i = l.pos
        BY <1>2, <1>5, <1>11, <2>5, <4>1 DEF q
      <4>2. CASE i # l.pos
        BY <1>5, <1>11, <4>2
      <4>3. QED
        BY <4>1, <4>2
    <3>2. QED
      BY <1>11, <2>1, <2>3, <3>1 DEF Ordered, D
  <2>6. QED
    BY <2>4, <2>5
<1>12. \/ D = 0..(y.num - 1)
       \/ D = 0..y.pos /\ 1..(N + 1) \subseteq Kept(y)
  <2>1. \/ D = 0..(l.num - 1)
        \/ D = 0..l.pos /\ 1..N \subseteq Kept(l)
    BY DEF Ordered, D
  <2>2. QED
    BY <1>5, <1>6, <1>9, <2>1
<1>13. Ordered(y, N + 1)
  BY <1>5, <1>10, <1>11, <1>12 DEF Ordered
<1>14. QED
  BY <1>8, <1>13


\* The file that is written to is full: the next one is emptied.
LEMMA WriteMoves ==
  ASSUME NEW l \in Logs, NEW N \in Nat \ {0}, Files(l, N), Ordered(l, N),
         Size(l.files[l.pos]) >= l.size, NEW m \in Messages, m.n = N + 1,
         NEW P, P = IF l.pos + 1 = l.num THEN 0 ELSE l.pos + 1,
         NEW y \in Logs, IsPut(y, l, P, <<m>>)
  PROVE  Files(y, N + 1) /\ Ordered(y, N + 1)
<1> DEFINE D == DOMAIN l.files
           F == <<m>>
<1>1. /\ l.num \in Nat \ {0} /\ l.size \in Nat \ {0} /\ l.pos \in Nat
      /\ D \subseteq Nat /\ l.files \in [D -> Seq(Messages)] /\ l.pos \in D
      /\ D \subseteq 0..(l.num - 1)
  BY LogIs DEF Files
<1>2. F \in Seq(Messages) /\ Numbers(F) = {N + 1} /\ Size(F) = m.len
  BY FileOne
<1>3. IsPut(y, l, P, F)
  OBVIOUS
<1> HIDE DEF F
<1>4. P \in 0..(l.num - 1) /\ l.pos \in 0..(l.num - 1) /\ P \in Nat
  BY <1>1
<1>5. /\ y.num = l.num /\ y.size = l.size /\ y.pos = P
      /\ DOMAIN y.files = D \cup {P} /\ y.files[P] = F
      /\ \A p \in D : p # P => y.files[p] = l.files[p]
      /\ y.files \in [DOMAIN y.files -> Seq(Messages)]
  BY <1>3, LogIs DEF IsPut
<1>6. /\ m.len \in Nat /\ m.len <= Max(Lengths) /\ Max(Lengths) \in Nat
      /\ 1..N \subseteq 1..(N + 1) /\ N + 1 \in 1..(N + 1) /\ 1..(N + 1) = 1..N \cup {N + 1}
  BY MessageIs, Limits
<1> HIDE DEF D
<1>7. ASSUME NEW p \in D \cup {P}
      PROVE  /\ Numbers(y.files[p]) \subseteq 1..(N + 1)
             /\ Size(y.files[p]) < l.size + Max(Lengths)
             /\ p # P => Size(y.files[p]) >= l.size
  <2>1. CASE p = P
    <3>1. Numbers(F) \subseteq 1..(N + 1)
      BY <1>2, <1>6
    <3>2. Size(F) < l.size + Max(Lengths)
      BY <1>1, <1>2, <1>6
    <3>3. QED
      BY <1>5, <2>1, <3>1, <3>2
  <2>2. CASE p # P
    <3>1. p \in D /\ y.files[p] = l.files[p]
      BY <1>5, <2>2
    <3>2. /\ Numbers(l.files[p]) \subseteq 1..N
          /\ Size(l.files[p]) < l.size + Max(Lengths)
          /\ Size(l.files[p]) >= l.size
      BY <3>1 DEF Files, D
    <3>3. QED
      BY <1>6, <2>2, <3>1, <3>2
  <2>3. QED
    BY <2>1, <2>2
<1>8. D \cup {P} \subseteq 0..(l.num - 1)
  BY <1>1, <1>4
<1>9. Files(y, N + 1)
  BY <1>1, <1>2, <1>5, <1>7, <1>8 DEF Files
<1>10. ASSUME NEW p \in D
       PROVE  /\ p # P => Age(y, p) = Age(l, p) + 1
              /\ p # P /\ P \in D => Age(l, p) < Age(l, P)
              /\ Age(y, P) = 0 /\ Age(l, p) \in Nat
  <2> DEFINE n == l.num
             u == l.pos
  <2>1. /\ Age(y, p) = IF p <= P THEN P - p ELSE P - p + n
        /\ Age(y, P) = IF P <= P THEN P - P ELSE P - P + n
        /\ Age(l, p) = IF p <= u THEN u - p ELSE u - p + n
        /\ Age(l, P) = IF P <= u THEN u - P ELSE u - P + n
    BY <1>5 DEF Age
  <2>2. /\ n \in Nat \ {0} /\ u \in 0..(n - 1) /\ p \in 0..(n - 1)
        /\ P = IF u + 1 = n THEN 0 ELSE u + 1
    BY <1>1, <1>4
  <2> HIDE DEF n, u
  <2>3. QED
    BY <2>1, <2>2
<1>11. ASSUME NEW i \in D \cup {P}, NEW j \in D \cup {P}, Age(y, i) < Age(y, j),
              NEW a \in Numbers(y.files[i]), NEW b \in Numbers(y.files[j])
       PROVE  b < a
  <2>1. j # P /\ j \in D
    <3>1. SUFFICES ASSUME j = P PROVE FALSE
      BY <1>11
    <3>2. CASE i = P
      BY <1>1, <1>10, <1>11, <3>1, <3>2
    <3>3. CASE i # P
      <4>1. i \in D /\ Age(y, i) = Age(l, i) + 1 /\ Age(y, P) = 0 /\ Age(l, i) \in Nat
        BY <1>10, <3>3
      <4>2. QED
        BY <1>11, <3>1, <4>1
    <3>4. QED
      BY <3>2, <3>3
  <2>2. y.files[j] = l.files[j] /\ b \in 1..N
    BY <1>5, <1>11, <2>1 DEF Files, D
  <2>3. CASE i = P
    <3>1. a = N + 1
      BY <1>2, <1>5, <1>11, <2>3
    <3>2. QED
      BY <2>2, <3>1
  <2>4. CASE i # P
    <3>1. i \in D /\ y.files[i] = l.files[i]
      BY <1>5, <2>4
    <3>2. /\ Age(y, i) = Age(l, i) + 1 /\ Age(y, j) = Age(l, j) + 1
          /\ Age(l, i) \in Nat /\ Age(l, j) \in Nat
      BY <1>10, <2>1, <2>4, <3>1
    <3>3. Age(l, i) < Age(l, j)
      BY <1>11, <3>2
    <3>4. QED
      BY <1>11, <2>1, <2>2, <3>1, <3>3 DEF Ordered, D
  <2>5. QED
    BY <2>3, <2>4
<1>12. N + 1 \in Kept(y)
  BY <1>2, <1>5 DEF Kept
<1>13. ASSUME NEW p \in D, p # P, NEW x \in Numbers(l.files[p])
       PROVE  x \in Kept(y)
  BY <1>5, <1>13 DEF Kept
<1>14. ASSUME NEW a \in Kept(y), NEW x \in a..(N + 1) PROVE x \in Kept(y)
  <2>1. PICK p \in D \cup {P} : a \in Numbers(y.files[p])
    BY <1>5, <1>14 DEF Kept
  <2>2. CASE p = P
    <3>1. a = N + 1
      BY <1>2, <1>5, <2>1, <2>2
    <3>2. QED
      BY <1>12, <1>14, <3>1
  <2>3. CASE p # P
    <3>1. p \in D /\ a \in Numbers(l.files[p])
      BY <1>5, <2>1, <2>3
    <3>2. a \in 1..N /\ a \in Kept(l)
      BY <3>1 DEF Files, D, Kept
    <3>3. CASE x = N + 1
      BY <1>12, <3>3
    <3>4. CASE x # N + 1
      <4>1. x \in a..N
        BY <1>14, <3>2, <3>4
      <4>2. x \in Kept(l)
        BY <3>2, <4>1 DEF Ordered
      <4>3. PICK q \in D : x \in Numbers(l.files[q])
        BY <4>2 DEF Kept, D
      <4>4. CASE q # P
        BY <1>13, <4>3, <4>4
      <4>5. CASE q = P
        <5>1. Age(l, p) < Age(l, q)
          BY <1>10, <2>3, <3>1, <4>5
        <5>2. x < a
          BY <3>1, <4>3, <5>1 DEF Ordered, D
        <5>3. QED
          BY <3>2, <4>1, <5>2
      <4>6. QED
        BY <4>4, <4>5
    <3>5. QED
      BY <3>3, <3>4
  <2>4. QED
    BY <2>2, <2>3
<1>15. \/ DOMAIN y.files = 0..(y.num - 1)
       \/ DOMAIN y.files = 0..y.pos /\ 1..(N + 1) \subseteq Kept(y)
  <2>1. CASE D = 0..(l.num - 1)
    BY <1>4, <1>5, <2>1
  <2>2. CASE D = 0..l.pos /\ 1..N \subseteq Kept(l)
    <3>1. CASE l.pos + 1 = l.num
      <4>1. 0..l.pos = 0..(l.num - 1)
        BY <1>1, <3>1
      <4>2. QED
        BY <1>4, <1>5, <2>2, <4>1
    <3>2. CASE l.pos + 1 # l.num
      <4>1. P = l.pos + 1 /\ P \notin 0..l.pos /\ 0..l.pos \cup {l.pos + 1} = 0..(l.pos + 1)
        BY <1>1, <3>2
      <4>2. DOMAIN y.files = 0..y.pos
        BY <1>5, <2>2, <4>1
      <4>3. ASSUME NEW x \in 1..N PROVE x \in Kept(y)
        <5>1. PICK q \in D : x \in Numbers(l.files[q])
          BY <2>2 DEF Kept, D
        <5>2. q # P
          BY <2>2, <4>1
        <5>3. QED
          BY <1>13, <5>1, <5>2
      <4>4. QED
        BY <1>6, <1>12, <4>2, <4>3
    <3>3. QED
      BY <3>1, <3>2
  <2>3. QED
    BY <2>1, <2>2 DEF Ordered, D
<1>16. Ordered(y, N + 1)
  BY <1>5, <1>11, <1>14, <1>15 DEF Ordered
<1>17. QED
  BY <1>9, <1>16

LEMMA WriteRing ==
  ASSUME NEW l \in Logs, Named(l), NEW N \in Nat,
         N = 0 => Fresh(l), N > 0 => Files(l, N) /\ Ordered(l, N),
         NEW m \in Messages, m.n = N + 1
  PROVE  LET y == write_log(l, m)
         IN  y \in Logs /\ y.app = l.app /\ Files(y, N + 1) /\ Ordered(y, N + 1)
<1> DEFINE y == write_log(l, m)
           P == (l.pos + 1) % l.num
<1>1. l.num \in Nat \ {0} /\ l.size \in Nat \ {0} /\ l.pos \in Nat
  BY LogIs
<1>2. /\ <<m>> \in Seq(Messages) /\ <<>> \in Seq(Messages)
      /\ Size(<<>>) = 0 /\ Append(<<>>, m) = <<m>>
  <2>1. Append(<<>>, m) = <<m>>
    OBVIOUS
  <2>2. <<m>> \in Seq(Messages)
    BY FileOne
  <2>3. QED
    BY <2>1, <2>2, NumbersNone, SizeNone
<1>3. y = IF Size(File(l)) >= l.size THEN Put(l, P, <<m>>)
          ELSE Put(l, l.pos, Append(File(l), m))
  BY DEF write_log, Named
<1> HIDE DEF y
<1>4. CASE N = 0
  <2>1. l.pos = 0 /\ DOMAIN l.files = {}
    BY <1>4 DEF Fresh, NoFiles
  <2>2. File(l) = <<>>
    BY <2>1 DEF File
  <2>3. Size(File(l)) = 0 /\ ~(Size(File(l)) >= l.size)
    BY <1>1, <1>2, <2>2
  <2>4. y = Put(l, 0, <<m>>)
    BY <1>2, <1>3, <2>1, <2>2, <2>3
  <2>5. IsPut(y, l, 0, <<m>>)
    <3> DEFINE F == <<m>>
    <3>1. F \in Seq(Messages) /\ 0 \in Nat /\ y = Put(l, 0, F)
      BY <1>2, <2>4
    <3> HIDE DEF F
    <3>2. IsPut(y, l, 0, F)
      BY <3>1, PutIs
    <3>3. QED
      BY <3>2 DEF F
  <2>6. y \in Logs /\ y.app = l.app
    BY <2>5 DEF IsPut
  <2>7. N + 1 = 1 /\ m.n = 1
    BY <1>4
  <2>8. Files(y, 1) /\ Ordered(y, 1)
    BY <1>4, <2>5, <2>6, <2>7, FirstWrite
  <2>9. QED
    BY <2>6, <2>7, <2>8 DEF y
<1>5. CASE N # 0
  <2> DEFINE q == l.files[l.pos]
  <2>1. N > 0 /\ N \in Nat \ {0} /\ Files(l, N) /\ Ordered(l, N)
    BY <1>5
  <2>2. /\ l.pos \in DOMAIN l.files /\ DOMAIN l.files \subseteq 0..(l.num - 1)
        /\ l.files \in [DOMAIN l.files -> Seq(Messages)]
    BY <2>1 DEF Files
  <2>3. File(l) = q /\ q \in Seq(Messages)
    BY <2>2 DEF File
  <2>4. Size(q) \in Nat
    BY <2>3, FileIs
  <2> HIDE DEF q
  <2>5. CASE Size(q) >= l.size
    <3>1. P = IF l.pos + 1 = l.num THEN 0 ELSE l.pos + 1
      <4> DEFINE n == l.num
                 u == l.pos
      <4>1. n \in Nat \ {0} /\ u \in 0..(n - 1)
        BY <1>1, <2>2
      <4> HIDE DEF n, u
      <4>2. (u + 1) % n = IF u + 1 = n THEN 0 ELSE u + 1
        <5>1. CASE u + 1 = n
          <6>1. (n * 1 + 0) % n = 0 % n /\ 0 % n = 0
            BY <4>1, SkipMultiple, SmallRemainder
          <6>2. n * 1 + 0 = u + 1
            BY <4>1, <5>1
          <6>3. QED
            BY <5>1, <6>1, <6>2
        <5>2. CASE u + 1 # n
          <6>1. u + 1 \in 0..(n - 1)
            BY <4>1, <5>2
          <6>2. QED
            BY <4>1, <5>2, <6>1, SmallRemainder
        <5>3. QED
          BY <5>1, <5>2
      <4>3. QED
        BY <4>2 DEF n, u
    <3>2. P \in Nat
      BY <1>1, <3>1
    <3> HIDE DEF P
    <3>3. y = Put(l, P, <<m>>)
      BY <1>3, <2>3, <2>5
    <3>4. IsPut(y, l, P, <<m>>)
      BY <1>2, <3>2, <3>3, PutIs
    <3>5. y \in Logs /\ y.app = l.app
      BY <3>4 DEF IsPut
    <3>6. Files(y, N + 1) /\ Ordered(y, N + 1)
      BY <2>1, <2>5, <3>1, <3>4, <3>5, WriteMoves DEF q
    <3>7. QED
      BY <3>5, <3>6 DEF y
  <2>6. CASE ~(Size(q) >= l.size)
    <3>1. Size(q) < l.size
      BY <1>1, <2>4, <2>6
    <3>2. Append(q, m) \in Seq(Messages)
      BY <2>3, FileAppend
    <3>3. y = Put(l, l.pos, Append(q, m))
      BY <1>3, <2>3, <2>6
    <3>4. IsPut(y, l, l.pos, Append(q, m))
      BY <1>1, <3>2, <3>3, PutIs
    <3>5. y \in Logs /\ y.app = l.app
      BY <3>4 DEF IsPut
    <3>6. Files(y, N + 1) /\ Ordered(y, N + 1)
      BY <2>1, <3>1, <3>4, <3>5, WriteStays DEF q
    <3>7. QED
      BY <3>5, <3>6 DEF y
  <2>7. QED
    BY <2>5, <2>6
<1>6. QED
  BY <1>4, <1>5


-----------------------------------------------------------------------------
Symbols == UNION {ToSet(line) : line \in PlainLines \cup OddLines}

LEMMA LinesAre ==
  \A line \in PlainLines \cup OddLines : line \in Seq(Symbols)
<1> SUFFICES ASSUME NEW line \in PlainLines \cup OddLines PROVE line \in Seq(Symbols)
  OBVIOUS
<1>1. line \in Seq(ToSet(line)) /\ ToSet(line) \subseteq Symbols
  BY ConfigAssumption DEF Symbols
<1>2. line \in [1..Len(line) -> ToSet(line)] /\ Len(line) \in Nat
  BY <1>1
<1>3. line \in [1..Len(line) -> Symbols]
  BY <1>1, <1>2
<1>4. QED
  BY <1>2, <1>3

\* A log description put together from its parts, and one with new parts.
LEMMA Described ==
  ASSUME NEW A, NEW N, NEW P, NEW D,
         NEW app \in A, NEW num \in N, NEW size \in N, NEW pos \in P, NEW dir \in D,
         NEW l \in [app : A, num : N, size : N, pos : P, files : D]
  PROVE  /\ [app |-> app, num |-> num, size |-> size, pos |-> pos, files |-> dir]
               \in [app : A, num : N, size : N, pos : P, files : D]
         /\ [[l EXCEPT !.app = app, !.num = num, !.size = size] EXCEPT !.files = dir]
               \in [app : A, num : N, size : N, pos : P, files : D]
  OBVIOUS

\* The limits that the configuration gives, or the ones before.
LEMMA RenamedIs ==
  ASSUME NEW l \in Logs, NEW text \in Seq(Symbols), l.pos = 0
  PROVE  LET y == Renamed(l, text)
         IN  y \in Logs /\ Named(y) /\ Fresh(y)
<1> DEFINE n == ReadInt(text, "[log]", "lognum", DefLogNum)
           s == ReadInt(text, "[log]", "logsize", DefLogSize)
           num == IF n > 0 THEN n ELSE l.num
           size == IF s > 0 THEN s ELSE l.size
           y == Renamed(l, text)
<1>1. l.num \in Nat \ {0} /\ l.size \in Nat \ {0} /\ l.pos \in Nat
  BY LogIs
<1>2. n \in Nat /\ s \in Nat
  BY ConfigAssumption, ReadIntIs
<1>3. num \in Nat \ {0} /\ size \in Nat \ {0}
  <2> HIDE DEF n, s
  <2>1. QED
    BY <1>1, <1>2
<1>4. y = [[l EXCEPT !.app = "server", !.num = num, !.size = size] EXCEPT !.files = NoFiles]
  BY DEF Renamed, init_log
<1>5. NoFiles \in Directories
  BY DirectoryIs DEF NoFiles
<1> HIDE DEF num, size, y, n, s
<1>6. l \in [app : Apps, num : Nat \ {0}, size : Nat \ {0}, pos : Nat, files : Directories]
  BY DEF Logs
<1>7. /\ y.app = "server" /\ y.num = num /\ y.size = size /\ y.pos = l.pos
      /\ y.files = NoFiles
  BY <1>4, <1>6
<1>8. y \in [app : Apps, num : Nat \ {0}, size : Nat \ {0}, pos : Nat, files : Directories]
  <2> DEFINE A == Apps
             server == "server"
  <2>1. server \in A
    BY DEF Apps
  <2> HIDE DEF A, server
  <2>2. l \in [app : A, num : Nat \ {0}, size : Nat \ {0}, pos : Nat, files : Directories]
    BY <1>6 DEF A
  <2>3. [[l EXCEPT !.app = server, !.num = num, !.size = size] EXCEPT !.files = NoFiles]
          \in [app : A, num : Nat \ {0}, size : Nat \ {0}, pos : Nat, files : Directories]
    BY <1>1, <1>3, <1>5, <2>1, <2>2, Described
  <2>4. QED
    BY <1>4, <2>3 DEF A, server
<1>9. y \in Logs /\ Fresh(y)
  BY <1>3, <1>7, <1>8 DEF Logs, Fresh
<1>10. Named(y)
  BY <1>7 DEF Named
<1>11. QED
  BY <1>9, <1>10 DEF y

LogInv ==
  /\ file \in Seq(Seq(Symbols))
  /\ count \in [log : Nat, debug : Nat]
  /\ RingInv

LEMMA LogInit ==
  ASSUME Init
  PROVE  LogInv
<1>1. /\ file = <<>> /\ proc = "booted" /\ count = [log |-> 0, debug |-> 0]
      /\ log = [app |-> "boot", num |-> DEFAULT_FILE_NUM, size |-> DEFAULT_FILE_SIZE,
                pos |-> 0, files |-> NoFiles]
  BY DEF Init
<1>2. DEFAULT_FILE_NUM \in Nat \ {0} /\ DEFAULT_FILE_SIZE \in Nat \ {0}
  BY ConfigAssumption
<1>3. NoFiles \in Directories
  BY DirectoryIs DEF NoFiles
<1>4. log \in [app : Apps, num : Nat \ {0}, size : Nat \ {0}, pos : Nat, files : Directories]
  <2> DEFINE A == Apps
             boot == "boot"
             l == [app |-> boot, num |-> DEFAULT_FILE_NUM, size |-> DEFAULT_FILE_SIZE,
                   pos |-> 0, files |-> NoFiles]
  <2>1. boot \in A /\ log = l
    BY <1>1 DEF Apps
  <2> HIDE DEF A, boot
  <2>2. l \in [app : A, num : Nat \ {0}, size : Nat \ {0}, pos : Nat, files : Directories]
    BY <1>2, <1>3, <2>1
  <2> HIDE DEF l
  <2>3. QED
    BY <2>1, <2>2 DEF A
<1>5. /\ log.app = "boot" /\ log.num = DEFAULT_FILE_NUM /\ log.size = DEFAULT_FILE_SIZE
      /\ log.pos = 0 /\ log.files = NoFiles
  BY <1>1
<1>6. Named(log)
  BY <1>5 DEF Named
<1>7. log \in Logs /\ Fresh(log)
  BY <1>2, <1>4, <1>5 DEF Logs, Fresh
<1>8. file \in Seq(Seq(Symbols)) /\ count \in [log : Nat, debug : Nat] /\ count.log = 0
  BY <1>1, EmptySeq
<1>9. QED
  BY <1>6, <1>7, <1>8 DEF LogInv, RingInv

LEMMA LogStart ==
  ASSUME LogInv, NEW opened \in BOOLEAN, Start(opened)
  PROVE  LogInv'
<1>1. /\ file \in Seq(Seq(Symbols)) /\ count \in [log : Nat, debug : Nat]
      /\ log \in Logs /\ Named(log) /\ count.log = 0 /\ Fresh(log)
      /\ file' = file /\ count' = count
  BY DEF LogInv, RingInv, Start
<1>2. log' \in Logs /\ Named(log') /\ Fresh(log')
  <2>1. CASE opened
    <3>1. Text \in Seq(Symbols)
      BY <1>1, FlattenIs DEF Text
    <3>2. log.pos = 0
      BY <1>1 DEF Fresh
    <3>3. log' = Renamed(log, Text)
      BY <2>1 DEF Start
    <3> DEFINE t == Text
    <3> HIDE DEF t
    <3>4. t \in Seq(Symbols) /\ log' = Renamed(log, t)
      BY <3>1, <3>3 DEF t
    <3>5. Renamed(log, t) \in Logs /\ Named(Renamed(log, t)) /\ Fresh(Renamed(log, t))
      BY <1>1, <3>2, <3>4, RenamedIs
    <3>6. QED
      BY <3>4, <3>5
  <2>2. CASE ~opened
    BY <1>1, <2>2 DEF Start
  <2>3. QED
    BY <2>1, <2>2
<1>3. QED
  BY <1>1, <1>2 DEF LogInv, RingInv

LEMMA LogWrite ==
  ASSUME LogInv, NEW len \in Lengths, WriteLog(len)
  PROVE  LogInv'
<1> DEFINE N == count.log
           m == [n |-> N + 1, len |-> len]
<1>1. /\ file \in Seq(Seq(Symbols)) /\ count \in [log : Nat, debug : Nat]
      /\ log \in Logs /\ Named(log) /\ N \in Nat
      /\ N = 0 => Fresh(log)
      /\ N > 0 => Files(log, N) /\ Ordered(log, N)
  BY DEF LogInv, RingInv
<1>2. /\ proc = "running" /\ proc' = proc /\ file' = file
      /\ count' = [count EXCEPT !.log = N + 1]
      /\ log' = write_log(log, m)
  BY DEF WriteLog
<1>3. m \in Messages /\ m.n = N + 1
  BY <1>1 DEF Messages
<1>4. count' \in [log : Nat, debug : Nat] /\ count'.log = N + 1
  BY <1>1, <1>2
<1> HIDE DEF m, N
<1>5. /\ log' \in Logs /\ log'.app = log.app
      /\ Files(log', N + 1) /\ Ordered(log', N + 1)
  BY <1>1, <1>2, <1>3, WriteRing
<1>6. Named(log')
  BY <1>1, <1>5 DEF Named
<1>7. proc' # "booted" /\ N + 1 # 0 /\ N + 1 \in Nat
  BY <1>1, <1>2
<1>8. QED
  BY <1>1, <1>2, <1>4, <1>5, <1>6, <1>7 DEF LogInv, RingInv

LEMMA LogNext ==
  ASSUME LogInv, [Next]_vars
  PROVE  LogInv'
<1>1. ASSUME file' \in Seq(Seq(Symbols)), count' \in [log : Nat, debug : Nat],
             log' = log, count'.log = count.log, proc' = "booted" => proc = "booted"
      PROVE  LogInv'
  BY <1>1 DEF LogInv, RingInv
<1>2. file \in Seq(Seq(Symbols)) /\ count \in [log : Nat, debug : Nat]
  BY DEF LogInv
<1>3. CASE UNCHANGED vars
  BY <1>1, <1>2, <1>3 DEF vars
<1>4. ASSUME NEW line \in PlainLines \cup OddLines, Edit(line)
      PROVE  LogInv'
  <2>1. file' = Append(file, line) /\ UNCHANGED <<proc, log, count>>
    BY <1>4 DEF Edit
  <2>2. line \in Seq(Symbols)
    BY LinesAre
  <2>3. file' \in Seq(Seq(Symbols))
    BY <1>2, <2>1, <2>2, AppendProperties
  <2>4. QED
    BY <1>1, <1>2, <2>1, <2>3
<1>5. ASSUME NEW opened \in BOOLEAN, Start(opened)
      PROVE  LogInv'
  BY <1>5, LogStart
<1>6. CASE ReadRandomConfig
  BY <1>1, <1>2, <1>6 DEF ReadRandomConfig
<1>7. CASE GetRand
  BY <1>1, <1>2, <1>7 DEF GetRand
<1>8. ASSUME NEW len \in Lengths, WriteLog(len)
      PROVE  LogInv'
  BY <1>8, LogWrite
<1>9. ASSUME NEW len \in Lengths, NEW garbage \in BOOLEAN, LogMsg(len, garbage)
      PROVE  LogInv'
  <2>1. count' = [count EXCEPT !.debug = @ + 1] /\ UNCHANGED <<file, proc, log>>
    BY <1>9 DEF LogMsg
  <2>2. count' \in [log : Nat, debug : Nat] /\ count'.log = count.log
    BY <1>2, <2>1
  <2>3. QED
    BY <1>1, <1>2, <2>1, <2>2
<1>10. ASSUME NEW i \in 0..MaxFile, CleanUp(i)
       PROVE  LogInv'
  <2>1. UNCHANGED <<file, proc, log, count>>
    BY <1>10 DEF CleanUp
  <2>2. QED
    BY <1>1, <1>2, <2>1
<1>11. CASE Next
  BY <1>4, <1>5, <1>6, <1>7, <1>8, <1>9, <1>10, <1>11 DEF Next
<1>12. QED
  BY <1>3, <1>11 DEF vars

LEMMA LogInvKeeps ==
  ASSUME LogInv
  PROVE  LogKeepsRecent
<1> DEFINE D == DOMAIN log.files
           N == count.log
           kept == UNION {Numbers(log.files[p]) : p \in D}
           f == [p \in D |-> Size(log.files[p])]
           total == SumFunction(f)
<1>1. /\ N \in Nat /\ log \in Logs
      /\ N = 0 => Fresh(log)
      /\ N > 0 => Files(log, N) /\ Ordered(log, N)
  BY DEF LogInv, RingInv
<1>2. /\ log.num \in Nat \ {0} /\ log.size \in Nat \ {0} /\ log.pos \in Nat
      /\ log.files \in [D -> Seq(Messages)]
  BY <1>1, LogIs
<1>3. kept = Kept(log)
  BY DEF Kept
<1> HIDE DEF D, N, kept, f, total
<1>4. CASE N = 0
  <2>1. D = {}
    BY <1>1, <1>4 DEF Fresh, NoFiles, D
  <2>2. kept = {} /\ Cardinality(D) = 0
    BY <2>1, FS_EmptySet DEF kept
  <2>3. /\ N > 0 => N \in kept
        /\ \A m \in kept : m..N \subseteq kept
        /\ \A p \in D : Size(log.files[p]) < log.size + Max(Lengths)
        /\ Cardinality(D) <= log.num
    BY <1>2, <1>4, <2>1, <2>2
  <2>4. QED
    BY <1>4, <2>3 DEF LogKeepsRecent, D, N, kept, f, total
<1>5. CASE N # 0
  <2>1. Files(log, N) /\ Ordered(log, N)
    BY <1>1, <1>5
  <2>2. /\ log.pos \in D /\ D \subseteq 0..(log.num - 1) /\ N \in Numbers(log.files[log.pos])
        /\ \A p \in D :
             /\ Size(log.files[p]) < log.size + Max(Lengths)
             /\ p # log.pos => Size(log.files[p]) >= log.size
    BY <2>1 DEF Files, D
  <2>3. N \in kept
    BY <2>2 DEF kept
  <2>4. \A m \in kept : m..N \subseteq kept
    BY <1>3, <2>1 DEF Ordered
  <2>5. /\ IsFiniteSet(0..(log.num - 1)) /\ Cardinality(0..(log.num - 1)) = log.num
    <3>1. log.num - 1 \in Int /\ ~(0 > log.num - 1) /\ (log.num - 1) - 0 + 1 = log.num
      BY <1>2
    <3>2. QED
      BY <3>1, FS_Interval
  <2>6. IsFiniteSet(D) /\ Cardinality(D) <= log.num
    BY <2>2, <2>5, FS_Subset
  <2>7. 1 \in kept \/ total >= (log.num - 1) * log.size
    <3>1. CASE D = 0..(log.num - 1)
      <4>1. f \in [D -> Int] /\ \A p \in D : f[p] >= 0 /\ (p # log.pos => f[p] >= log.size)
        <5>1. ASSUME NEW p \in D
              PROVE  Size(log.files[p]) \in Nat
          BY <1>2, FileIs
        <5>2. QED
          BY <2>2, <5>1 DEF f
      <4> DEFINE a == log.pos
                 s == log.size
      <4>2. a \in D /\ s \in Nat
        BY <1>2, <2>2
      <4>3. \A p \in D : f[p] >= 0 /\ (p # a => f[p] >= s)
        BY <4>1
      <4> HIDE DEF a, s
      <4>4. SumFunction(f) >= (Cardinality(D) - 1) * s
        BY <2>6, <4>1, <4>2, <4>3, SumAtLeast
      <4>5. QED
        BY <2>5, <3>1, <4>4 DEF total, s
    <3>2. CASE 1..N \subseteq Kept(log)
      <4>1. 1 \in 1..N
        BY <1>1, <1>5
      <4>2. QED
        BY <1>3, <3>2, <4>1
    <3>3. QED
      BY <2>1, <3>1, <3>2 DEF Ordered, D
  <2>8. QED
    BY <2>2, <2>3, <2>4, <2>6, <2>7 DEF LogKeepsRecent, D, N, kept, f, total
<1>6. QED
  BY <1>4, <1>5

\* The ring holds the newest messages, whatever limits the configuration gives it
\* (write_log, init_log, readSysCfg).
THEOREM LogKeepsRecentAlways ==
  Spec => []LogKeepsRecent
<1>1. Init => LogInv
  BY LogInit
<1>2. LogInv /\ [Next]_vars => LogInv'
  BY LogNext
<1>3. LogInv => LogKeepsRecent
  BY LogInvKeeps
<1>4. QED
  BY <1>1, <1>2, <1>3, PTL DEF Spec

=============================================================================
