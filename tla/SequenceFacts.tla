----------------------------- MODULE SequenceFacts -----------------------------
(***************************************************************************)
(* What the proofs about several modules need to know of numbers and       *)
(* sequences.  Induction is about a set of numbers, not about an operator. *)
(***************************************************************************)
EXTENDS Sequences, SequencesExt, FiniteSetTheorems, SequenceTheorems, WellFoundedInduction, TLAPS

\* A set of natural numbers that is not empty has a least element.
LEMMA LeastNatural ==
  ASSUME NEW T \in SUBSET Nat, T # {}
  PROVE  \E n \in T : \A m \in T : n <= m
  <1> DEFINE Less == {ss \in Nat \X Nat : ss[1] < ss[2]}
  <1>1. Less = OpToRel(<, Nat)
    BY Zenon DEF OpToRel
  <1>2. IsWellFoundedOn(Less, Nat)
    BY <1>1, NatLessThanWellFounded, Zenon
  <1>3. PICK n \in T : \A m \in T : <<m, n>> \notin Less
    BY <1>2, WFMin
  <1>4. ASSUME NEW m \in T
        PROVE  n <= m
    <2>1. m \in Nat /\ n \in Nat
      OBVIOUS
    <2>2. <<m, n>> \in Nat \X Nat /\ <<m, n>>[1] = m /\ <<m, n>>[2] = n
      BY <2>1
    <2>3. ~ m < n
      BY <1>3, <2>2
    <2>4. QED  BY <2>1, <2>3
  <1>5. QED  BY <1>4

\* Induction, for a set of numbers.
LEMMA SetInduction ==
  ASSUME NEW S, 0 \in S, \A n \in Nat : n \in S => n + 1 \in S
  PROVE  \A n \in Nat : n \in S
  <1>1. SUFFICES ASSUME Nat \ S # {}
                 PROVE  FALSE
    OBVIOUS
  <1>2. PICK n \in Nat \ S : \A m \in Nat \ S : n <= m
    BY <1>1, LeastNatural
  <1>3. n - 1 \in Nat /\ ~ n <= n - 1 /\ (n - 1) + 1 = n
    BY <1>2
  <1>4. n - 1 \in S
    BY <1>2, <1>3
  <1>5. QED  BY <1>3, <1>4

\* The elements of two sequences that are joined.
LEMMA ConcatIs ==
  ASSUME NEW S, NEW a \in Seq(S), NEW b \in Seq(S)
  PROVE  a \o b = [i \in 1..(Len(a) + Len(b)) |-> IF i <= Len(a) THEN a[i] ELSE b[i - Len(a)]]
  <1>1. PICK c : c = a \o b
    OBVIOUS
  <1>2. c \in Seq(S) /\ Len(c) = Len(a) + Len(b)
    BY <1>1, ConcatProperties
  <1>3. \A i \in 1..(Len(a) + Len(b)) : c[i] = IF i <= Len(a) THEN a[i] ELSE b[i - Len(a)]
    BY <1>1, ConcatProperties
  <1>4. c = [i \in 1..Len(c) |-> c[i]]
    BY <1>2
  <1>5. QED  BY <1>1, <1>2, <1>3, <1>4

\* A sequence over a set is one over a greater set.
LEMMA SeqOver ==
  ASSUME NEW S, NEW T, S \subseteq T, NEW a \in Seq(S)
  PROVE  a \in Seq(T)
<1>1. PICK n \in Nat : n = Len(a) /\ a \in [1..n -> S]
  OBVIOUS
<1>2. a \in [1..n -> T]
  BY <1>1
<1> QED
  BY <1>2

\* A part of a sequence.
LEMMA SubSeqIs ==
  ASSUME NEW S, NEW seq \in Seq(S), NEW m \in Nat, NEW k \in Nat, m + k <= Len(seq),
         NEW part, part = SubSeq(seq, m + 1, m + k)
  PROVE  /\ part \in Seq(S) /\ Len(part) = k
         /\ \A i \in 1..k : m + i \in 1..Len(seq) /\ part[i] = seq[m + i]
  <1>1. PICK n : n = Len(seq) /\ n \in Nat /\ m + k <= n
    OBVIOUS
  <1>2. m + 1 \in Int /\ m + k \in Int /\ (m + k) - (m + 1) + 1 = k
    OBVIOUS
  <1>3. \A i \in (m + 1)..(m + k) : seq[i] \in S
    <2>1. \A i \in (m + 1)..(m + k) : i \in 1..n
      BY <1>1
    <2>2. QED  BY <1>1, <2>1, ElementOfSeq
  <1>4. part \in Seq(S)
    BY <1>2, <1>3, SubSeqProperties
  <1>5. Len(part) = IF m + 1 <= m + k THEN k ELSE 0
    BY <1>2, <1>3, SubSeqProperties
  <1>6. \A i \in 1..k : part[i] = seq[(m + 1) + i - 1]
    BY <1>2, <1>3, SubSeqProperties
  <1>7. Len(part) = k
    BY <1>5
  <1>8. \A i \in 1..k : m + i \in 1..n /\ (m + 1) + i - 1 = m + i
    BY <1>1
  <1>9. QED  BY <1>1, <1>4, <1>6, <1>7, <1>8

\* The last element of a sequence changes.
LEMMA AppendExcept ==
  ASSUME NEW S, NEW seq \in Seq(S), NEW a \in S, NEW b \in S
  PROVE  [Append(seq, a) EXCEPT ![Len(seq) + 1] = b] = Append(seq, b)
  <1>1. PICK n : n = Len(seq) /\ n \in Nat
    OBVIOUS
  <1>2. PICK c, d, e : c = Append(seq, a) /\ d = [c EXCEPT ![n + 1] = b] /\ e = Append(seq, b)
    OBVIOUS
  <1>3. c \in Seq(S) /\ Len(c) = n + 1 /\ e \in Seq(S) /\ Len(e) = n + 1
    BY <1>1, <1>2, AppendProperties
  <1>4. (\A i \in 1..n : c[i] = seq[i] /\ e[i] = seq[i]) /\ e[n + 1] = b
    BY <1>1, <1>2, AppendProperties
  <1>5. n + 1 \in 1..Len(c)
    BY <1>1, <1>3
  <1>6. d \in Seq(S) /\ Len(d) = n + 1
    BY <1>2, <1>3, <1>5, ExceptSeq
  <1>7. \A j \in 1..Len(c) : d[j] = IF j = n + 1 THEN b ELSE c[j]
    <2>1. c \in [1..Len(c) -> S]
      BY <1>3, LenProperties
    <2>2. QED  BY <1>2, <1>5, <2>1
  <1>8. \A j \in 1..(n + 1) : j = n + 1 \/ j \in 1..n
    BY <1>1
  <1>9. \A j \in 1..(n + 1) : d[j] = e[j]
    BY <1>3, <1>4, <1>7, <1>8
  <1>10. d = e
    BY <1>3, <1>6, <1>9, SeqEqual
  <1>11. QED  BY <1>1, <1>2, <1>10

\* A sequence without a part of it.
Excised(seq, m, k) == SubSeq(seq, 1, m) \o SubSeq(seq, m + k + 1, Len(seq))

IsExcised(S, seq, m, k, rest) ==
  /\ rest \in Seq(S) /\ Len(rest) = Len(seq) - k
  /\ \A i \in 1..(Len(seq) - k) : rest[i] = IF i <= m THEN seq[i] ELSE seq[i + k]

LEMMA ExcisedIs ==
  ASSUME NEW S, NEW seq \in Seq(S), NEW m \in Nat, NEW k \in Nat, m + k <= Len(seq),
         NEW rest, rest = Excised(seq, m, k)
  PROVE  IsExcised(S, seq, m, k, rest)
  <1>1. PICK n : n = Len(seq) /\ n \in Nat /\ m + k <= n
    OBVIOUS
  <1>2. PICK l, h : l = n - (m + k) /\ h = m + k
    OBVIOUS
  <1>3. l \in Nat /\ h \in Nat /\ h + l = n /\ m + l = n - k
    BY <1>1, <1>2
  <1>4. 0 \in Nat /\ 0 + m <= n /\ 0 + 1 = 1 /\ 0 + m = m
    BY <1>1
  <1>5. PICK a, b : a = SubSeq(seq, 0 + 1, 0 + m) /\ b = SubSeq(seq, h + 1, h + l)
    OBVIOUS
  <1>6. a \in Seq(S) /\ Len(a) = m /\ \A i \in 1..m : a[i] = seq[0 + i]
    <2>1. a \in Seq(S) /\ Len(a) = m
      BY <1>1, <1>4, <1>5, SubSeqIs
    <2>2. \A i \in 1..m : a[i] = seq[0 + i]
      BY <1>1, <1>4, <1>5, SubSeqIs
    <2>3. QED  BY <2>1, <2>2
  <1>7. b \in Seq(S) /\ Len(b) = l
    BY <1>1, <1>3, <1>5, SubSeqIs
  <1>8. \A i \in 1..l : b[i] = seq[h + i]
    BY <1>1, <1>3, <1>5, SubSeqIs
  <1>9. rest = a \o b
    <2>1. a = SubSeq(seq, 1, m)
      BY <1>4, <1>5
    <2>2. b = SubSeq(seq, m + k + 1, n)
      BY <1>2, <1>3, <1>5
    <2>3. QED  BY <1>1, <2>1, <2>2 DEF Excised
  <1>10. rest \in Seq(S) /\ Len(rest) = Len(a) + Len(b)
    BY <1>6, <1>7, <1>9, ConcatProperties
  <1>11. \A i \in 1..(Len(a) + Len(b)) : rest[i] = IF i <= Len(a) THEN a[i] ELSE b[i - Len(a)]
    <2>1. \A i \in 1..(Len(a) + Len(b)) : (a \o b)[i] = IF i <= Len(a) THEN a[i] ELSE b[i - Len(a)]
      BY <1>6, <1>7, ConcatProperties
    <2>2. QED  BY <1>9, <2>1
  <1>12. ASSUME NEW i \in 1..(n - k)
         PROVE  rest[i] = IF i <= m THEN seq[i] ELSE seq[i + k]
    <2>1. i \in 1..(m + l)
      BY <1>3
    <2>2. rest[i] = IF i <= m THEN a[i] ELSE b[i - m]
      BY <1>6, <1>7, <1>11, <2>1
    <2>3. CASE i <= m
      <3>1. i \in 1..m
        BY <2>3
      <3>2. a[i] = seq[i]
        BY <1>6, <3>1
      <3>3. QED  BY <2>2, <2>3, <3>2
    <2>4. CASE ~ i <= m
      <3>1. i - m \in 1..l /\ h + (i - m) = i + k
        BY <1>1, <1>2, <1>3, <2>1, <2>4
      <3>2. b[i - m] = seq[i + k]
        BY <1>8, <3>1
      <3>3. QED  BY <2>2, <2>4, <3>2
    <2>5. QED  BY <2>3, <2>4
  <1>13. Len(rest) = n - k
    BY <1>3, <1>6, <1>7, <1>10
  <1>14. QED  BY <1>1, <1>10, <1>12, <1>13 DEF IsExcised

-------------------------------------------------------------------------------
(* A sequence of the elements of a finite set.                                 *)

LEMMA SetToSeqIs ==
  ASSUME NEW S, IsFiniteSet(S)
  PROVE  SetToSeq(S) \in Seq(S) /\ ToSet(SetToSeq(S)) = S
  <1> DEFINE D == 1..Cardinality(S)
  <1>1. Cardinality(S) \in Nat /\ \E f \in [D -> S] : IsInjective(f)
    BY FS_CardinalityType DEF ExistsBijection, Bijection, Injection
  <1>2. SetToSeq(S) \in [D -> S] /\ IsInjective(SetToSeq(S))
    BY <1>1 DEF SetToSeq
  <1>3. SetToSeq(S) \in Injection(D, S)
    BY <1>2 DEF Injection
  <1>4. Cardinality(D) = Cardinality(S)
    BY <1>1, FS_Interval
  <1>5. SetToSeq(S) \in Surjection(D, S)
    BY <1>3, <1>4, FS_Injection
  <1>6. \A x \in S : \E i \in D : SetToSeq(S)[i] = x
    BY <1>5 DEF Surjection
  <1>7. SetToSeq(S) \in Seq(S)
    BY <1>1, <1>2
  <1>8. ToSet(SetToSeq(S)) = S
    BY <1>2, <1>6 DEF ToSet
  <1>9. QED  BY <1>7, <1>8

-------------------------------------------------------------------------------
(* Joined sequences.  FlattenSeq is the CHOOSE of a function that solves its  *)
(* equation; that there is one comes from partial solutions.                  *)

JoinsUpTo(q, n, T, f) ==
  /\ f \in [1..n -> Seq(T)]
  /\ n >= 1 => f[1] = q[1]
  /\ \A k \in 2..n : f[k] = f[k - 1] \o q[k]

Solution(q, f) == f = [i \in 1..Len(q) |-> IF i = 1 THEN q[i] ELSE f[i - 1] \o q[i]]

\* Concatenation is associative.
LEMMA JoinAgain ==
  \A T : \A a, b, c \in Seq(T) : (a \o b) \o c = a \o (b \o c)
BY ConcatAssociative

\* There is a partial solution up to each place,
LEMMA JoinsExist ==
  ASSUME NEW T, NEW q \in Seq(Seq(T)), NEW n \in 0..Len(q)
  PROVE  \E f : JoinsUpTo(q, n, T, f)
<1> DEFINE S == {m \in Nat : m \in 0..Len(q) => \E f : JoinsUpTo(q, m, T, f)}
<1>1. 0 \in S
  <2>1. JoinsUpTo(q, 0, T, [k \in 1..0 |-> <<>>])
    BY DEF JoinsUpTo
  <2> QED
    BY <2>1
<1>2. ASSUME NEW m \in Nat, m \in S
      PROVE  m + 1 \in S
  <2>1. SUFFICES ASSUME m + 1 \in 0..Len(q)
                 PROVE  \E f : JoinsUpTo(q, m + 1, T, f)
    OBVIOUS
  <2>2. m \in 0..Len(q) /\ Len(q) \in Nat
    BY <2>1
  <2>3. PICK f : JoinsUpTo(q, m, T, f)
    BY <1>2, <2>2
  <2>4. q[m + 1] \in Seq(T)
    BY <2>1, <2>2
  <2> DEFINE next == IF m = 0 THEN q[1] ELSE f[m] \o q[m + 1]
  <2>5. next \in Seq(T)
    BY <2>3, <2>4, ConcatProperties DEF JoinsUpTo
  <2> DEFINE g == [k \in 1..(m + 1) |-> IF k = m + 1 THEN next ELSE f[k]]
  <2>6. g \in [1..(m + 1) -> Seq(T)]
    BY <2>3, <2>5 DEF JoinsUpTo
  <2>7. g[1] = q[1]
    BY <2>3 DEF JoinsUpTo
  <2>8. ASSUME NEW k \in 2..(m + 1)
        PROVE  g[k] = g[k - 1] \o q[k]
    <3>1. k \in 1..(m + 1) /\ k - 1 \in 1..(m + 1) /\ k - 1 # m + 1
      OBVIOUS
    <3>2. g[k - 1] = f[k - 1]
      BY <3>1
    <3>3. CASE k = m + 1
      <4>1. m # 0 /\ k - 1 = m
        BY <3>3
      <4>2. g[k] = f[m] \o q[m + 1]
        BY <3>1, <3>3, <4>1
      <4> QED
        BY <3>2, <3>3, <4>1, <4>2
    <3>4. CASE k # m + 1
      <4>1. k \in 2..m
        BY <3>4
      <4>2. f[k] = f[k - 1] \o q[k]
        BY <2>3, <4>1 DEF JoinsUpTo
      <4>3. g[k] = f[k]
        BY <3>1, <3>4
      <4> QED
        BY <3>2, <4>2, <4>3
    <3> QED
      BY <3>3, <3>4
  <2>9. JoinsUpTo(q, m + 1, T, g)
    BY <2>6, <2>7, <2>8 DEF JoinsUpTo
  <2> QED
    BY <2>9
<1> HIDE DEF S
<1>3. \A m \in Nat : m \in S
  BY <1>1, <1>2, SetInduction
<1>4. n \in Nat /\ n \in S
  BY <1>3
<1> QED
  BY <1>4 DEF S

\* and so FlattenSeq is what its equation says.
LEMMA FlattenJoins ==
  ASSUME NEW T, NEW q \in Seq(Seq(T)), q # <<>>
  PROVE  \E f : JoinsUpTo(q, Len(q), T, f) /\ FlattenSeq(q) = f[Len(q)]
<1>1. Len(q) \in Nat \ {0}
  OBVIOUS
<1>2. PICK g : JoinsUpTo(q, Len(q), T, g)
  BY <1>1, JoinsExist
<1>3. Solution(q, g)
  <2>1. g = [i \in 1..Len(q) |-> g[i]]
    BY <1>2 DEF JoinsUpTo
  <2>2. \A i \in 1..Len(q) : g[i] = IF i = 1 THEN q[i] ELSE g[i - 1] \o q[i]
    <3>1. g[1] = q[1]
      BY <1>1, <1>2 DEF JoinsUpTo
    <3>2. \A i \in 2..Len(q) : g[i] = g[i - 1] \o q[i]
      BY <1>2 DEF JoinsUpTo
    <3>3. \A i \in 1..Len(q) : i # 1 => i \in 2..Len(q)
      OBVIOUS
    <3> QED
      BY <3>1, <3>2, <3>3
  <2> QED
    BY <2>1, <2>2 DEF Solution
<1> DEFINE f == CHOOSE p : Solution(q, p)
<1>4. Solution(q, f)
  BY <1>3
<1>5. FlattenSeq(q) = f[Len(q)]
  BY <1>1 DEF FlattenSeq, Solution
<1> HIDE DEF f
<1>6. \A i \in 1..Len(q) : f[i] = IF i = 1 THEN q[i] ELSE f[i - 1] \o q[i]
  BY <1>4 DEF Solution
<1> DEFINE S == {m \in Nat : m \in 1..Len(q) => f[m] \in Seq(T)}
<1>7. ASSUME NEW m \in Nat, m \in S
      PROVE  m + 1 \in S
  <2>1. SUFFICES ASSUME m + 1 \in 1..Len(q)
                 PROVE  f[m + 1] \in Seq(T)
    OBVIOUS
  <2>2. q[m + 1] \in Seq(T)
    BY <2>1
  <2>3. CASE m = 0
    BY <1>6, <2>1, <2>2, <2>3
  <2>4. CASE m # 0
    <3>1. f[m] \in Seq(T)
      BY <1>7, <2>1, <2>4
    <3>2. m + 1 # 1 /\ (m + 1) - 1 = m
      BY <2>4
    <3>3. f[m + 1] = f[m] \o q[m + 1]
      BY <1>6, <2>1, <3>2, Zenon
    <3> QED
      BY <2>2, <3>1, <3>3, ConcatProperties
  <2> QED
    BY <2>3, <2>4
<1>8. 0 \in S
  OBVIOUS
<1> HIDE DEF S
<1>9. \A m \in Nat : m \in S
  BY <1>7, <1>8, SetInduction
<1>10. \A m \in 1..Len(q) : f[m] \in Seq(T)
  BY <1>9 DEF S
<1>11. f = [i \in 1..Len(q) |-> f[i]]
  BY <1>4 DEF Solution
<1>12. JoinsUpTo(q, Len(q), T, f)
  <2>1. f \in [1..Len(q) -> Seq(T)]
    BY <1>10, <1>11
  <2>2. \A i \in 2..Len(q) : i \in 1..Len(q) /\ i # 1
    OBVIOUS
  <2>3. \A i \in 2..Len(q) : f[i] = f[i - 1] \o q[i]
    BY <1>6, <2>2, Zenon
  <2>4. f[1] = q[1]
    BY <1>1, <1>6
  <2> QED
    BY <2>1, <2>3, <2>4 DEF JoinsUpTo
<1> QED
  BY <1>5, <1>12

\* The elements of a joined sequence, and of one that is joined of many.
LEMMA ToSetConcat ==
  ASSUME NEW T, NEW a \in Seq(T), NEW b \in Seq(T)
  PROVE  a \o b \in Seq(T) /\ ToSet(a \o b) = ToSet(a) \cup ToSet(b)
<1>1. PICK c : c = a \o b
  OBVIOUS
<1>2. PICK n, k : n = Len(a) /\ k = Len(b)
  OBVIOUS
<1>3. /\ n \in Nat /\ k \in Nat /\ DOMAIN a = 1..n /\ DOMAIN b = 1..k
      /\ c \in Seq(T) /\ Len(c) = n + k /\ DOMAIN c = 1..(n + k)
      /\ \A i \in 1..(n + k) : c[i] = IF i <= n THEN a[i] ELSE b[i - n]
  <2>1. n \in Nat /\ k \in Nat /\ DOMAIN a = 1..n /\ DOMAIN b = 1..k
    BY <1>2
  <2>2. c \in Seq(T) /\ Len(c) = n + k
    BY <1>1, <1>2, ConcatProperties
  <2>3. c = [i \in 1..(n + k) |-> IF i <= n THEN a[i] ELSE b[i - n]]
    BY <1>1, <1>2, ConcatIs
  <2> QED
    BY <2>1, <2>2, <2>3
<1>4. ToSet(a) = {a[i] : i \in 1..n} /\ ToSet(b) = {b[i] : i \in 1..k} /\ ToSet(c) = {c[i] : i \in 1..(n + k)}
  BY <1>3 DEF ToSet
<1>5. \A i \in 1..n : i \in 1..(n + k) /\ i <= n
  BY <1>3
<1>6. \A i \in 1..k : n + i \in 1..(n + k) /\ ~ n + i <= n /\ (n + i) - n = i
  BY <1>3
<1>7. \A i \in 1..(n + k) : i \in 1..n \/ (~ i <= n /\ i - n \in 1..k)
  BY <1>3
<1>8. \A i \in 1..n : c[i] = a[i]
  BY <1>3, <1>5
<1>9. \A i \in 1..k : c[n + i] = b[i]
  BY <1>3, <1>6
<1>10. \A i \in 1..(n + k) : c[i] \in {a[j] : j \in 1..n} \cup {b[j] : j \in 1..k}
  BY <1>3, <1>7, <1>8
<1>11. \A i \in 1..n : a[i] \in {c[j] : j \in 1..(n + k)}
  BY <1>5, <1>8
<1>12. \A i \in 1..k : b[i] \in {c[j] : j \in 1..(n + k)}
  BY <1>6, <1>9
<1>13. ToSet(c) = ToSet(a) \cup ToSet(b)
  BY <1>4, <1>10, <1>11, <1>12
<1> QED
  BY <1>1, <1>3, <1>13

LEMMA FlattenHolds ==
  ASSUME NEW T, NEW q \in Seq(Seq(T))
  PROVE  FlattenSeq(q) \in Seq(T) /\ \A k \in 1..Len(q) : ToSet(q[k]) \subseteq ToSet(FlattenSeq(q))
<1>1. CASE q = <<>>
  <2>1. Len(q) = 0 /\ FlattenSeq(q) = q /\ 1..Len(q) = {} /\ q \in Seq(T)
    BY <1>1 DEF FlattenSeq
  <2> QED
    BY <2>1
<1>2. CASE q # <<>>
  <2>1. PICK f : JoinsUpTo(q, Len(q), T, f) /\ FlattenSeq(q) = f[Len(q)]
    BY <1>2, FlattenJoins
  <2>2. PICK n \in Nat \ {0} : n = Len(q)
    BY <1>2
  <2>3. /\ f \in [1..n -> Seq(T)] /\ f[1] = q[1]
        /\ \A k \in 2..n : f[k] = f[k - 1] \o q[k]
        /\ \A k \in 1..n : q[k] \in Seq(T)
    <3>1. JoinsUpTo(q, n, T, f) /\ n >= 1
      BY <2>1, <2>2
    <3>2. \A k \in 1..n : q[k] \in Seq(T)
      BY <2>2, ElementOfSeq
    <3> QED
      BY <3>1, <3>2 DEF JoinsUpTo
  <2> DEFINE S == {j \in Nat : \A k \in 1..n : k <= j /\ j <= n => ToSet(q[k]) \subseteq ToSet(f[j])}
  <2>4. 0 \in S
    OBVIOUS
  <2>5. ASSUME NEW j \in Nat, j \in S
        PROVE  j + 1 \in S
    <3>1. ASSUME NEW k \in 1..n, k <= j + 1, j + 1 <= n
          PROVE  ToSet(q[k]) \subseteq ToSet(f[j + 1])
      <4>1. CASE j = 0
        <5>1. k = 1 /\ j + 1 = 1
          BY <3>1, <4>1
        <5> QED
          BY <2>3, <5>1
      <4>2. CASE j # 0
        <5>1. PICK h : h = j + 1
          OBVIOUS
        <5>2. h \in 2..n /\ h - 1 = j /\ j \in 1..n /\ h \in 1..n
          BY <2>5, <3>1, <4>2, <5>1
        <5>3. f[h] = f[j] \o q[h] /\ f[j] \in Seq(T) /\ q[h] \in Seq(T)
          BY <2>3, <5>2
        <5>4. ToSet(f[h]) = ToSet(f[j]) \cup ToSet(q[h])
          BY <5>3, ToSetConcat
        <5>5. k = h \/ k <= j
          BY <2>5, <3>1, <5>1
        <5>6. k <= j => ToSet(q[k]) \subseteq ToSet(f[j])
          BY <2>5, <5>2
        <5> QED
          BY <5>1, <5>4, <5>5, <5>6
      <4> QED
        BY <4>1, <4>2
    <3> QED
      BY <3>1
  <2> HIDE DEF S
  <2>6. \A j \in Nat : j \in S
    BY <2>4, <2>5, SetInduction
  <2>7. n \in S
    BY <2>6
  <2>8. \A k \in 1..n : ToSet(q[k]) \subseteq ToSet(f[n])
    BY <2>7 DEF S
  <2>9. f[n] \in Seq(T)
    BY <2>3
  <2> QED
    BY <2>1, <2>2, <2>8, <2>9
<1> QED
  BY <1>1, <1>2

===============================================================================
