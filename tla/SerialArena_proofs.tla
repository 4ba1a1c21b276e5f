-------------------------- MODULE SerialArena_proofs --------------------------
(****************************************************************************)
(* What is proved of a serial arena.                                        *)
(*                                                                          *)
(* The space counters are exact, for any sizes, any number of blocks and    *)
(* any word that can hold what is given out.  The invariant says, at every  *)
(* place between two stores, what each counter that SpaceUsed loads stands  *)
(* for: the three terms add up to what is used, modulo Word, but for a      *)
(* string block that is counted twice (Accounts).  Counters wrap, so sums   *)
(* are reasoned about modulo Word (Same) and turned into equalities only    *)
(* where both sides are words (SameWord).                                   *)
(*                                                                          *)
(* An arena destroys what was constructed on it, in the promised order, for *)
(* any number of SerialArenas, objects and strings and chunks of any size.  *)
(* CleanupInv says what a cleanup list and the string blocks hold, and that *)
(* the walk over the chunks goes down from the newest SerialArena to the    *)
(* first.                                                                   *)
(*                                                                          *)
(* Recycled arrays have their memory to themselves, for any array sizes     *)
(* from 16 bytes on, any pointer no larger than the smallest array and any  *)
(* number of regions.  CachedInv says that a region is in one place of one  *)
(* free list, or in use, or holds the lists, and is as large as the size of *)
(* its list promises (CachedInvariant).                                     *)
(****************************************************************************)
EXTENDS SerialArenaSpace, ArenaCleanup, CachedBlocks, SequenceFacts, FiniteSetTheorems, SequenceTheorems,
        TLAPS

\* The table that FoldFunction computes with.
Solves(g, S, r) ==
  r = [s \in SUBSET S |-> IF s = {} THEN 0
                          ELSE Plus(g[CHOOSE x \in s : TRUE], r[s \ {CHOOSE x \in s : TRUE}])]

\* Equal as unsigned words.
Same(a, b) == \E k \in Int : a = b + k * Word

\* Multiples of the word are a word or more away from zero.
LEMMA WordTimes ==
  ASSUME NEW k \in Int
  PROVE  k * Word \in Int /\ (k >= 1 => k * Word >= Word) /\ (k <= -1 => k * Word <= -Word)
<1>1. Word \in Nat \ {0}
  BY SpaceSizesOK
<1>2. PICK w \in Nat \ {0} : w = Word
  BY <1>1
<1>3. k * w \in Int /\ (k >= 1 => k * w >= w) /\ (k <= -1 => k * w <= -w)
  BY SMT
<1> QED
  BY <1>2, <1>3

\* Numbers that agree modulo Word: their sums,
LEMMA SameSum ==
  ASSUME NEW a \in Int, NEW b \in Int, NEW c \in Int, NEW d \in Int, Same(a, b), Same(c, d)
  PROVE  Same(a + c, b + d)
<1>1. PICK j \in Int : a = b + j * Word
  BY DEF Same
<1>2. PICK k \in Int : c = d + k * Word
  BY DEF Same
<1>3. Word \in Int
  BY SpaceSizesOK
<1>4. a + c = b + d + (j + k) * Word
  BY <1>1, <1>2, <1>3
<1> QED
  BY <1>4 DEF Same

\* the other way round,
LEMMA SameBack ==
  ASSUME NEW a \in Int, NEW b \in Int, Same(a, b)
  PROVE  Same(b, a) /\ Same(-a, -b)
<1>1. PICK j \in Int : a = b + j * Word
  BY DEF Same
<1>2. Word \in Int
  BY SpaceSizesOK
<1>3. b = a + (-j) * Word /\ -a = -b + (-j) * Word /\ -j \in Int
  BY <1>1, <1>2
<1> QED
  BY <1>3 DEF Same

\* a number with itself,
LEMMA SameItself ==
  ASSUME NEW a \in Int
  PROVE  Same(a, a)
<1>1. Word \in Int /\ a = a + 0 * Word
  BY SpaceSizesOK
<1> QED
  BY <1>1 DEF Same

\* and with a third.
LEMMA SameOn ==
  ASSUME NEW a \in Int, NEW b \in Int, NEW c \in Int, Same(a, b), Same(b, c)
  PROVE  Same(a, c)
<1>1. PICK j \in Int : a = b + j * Word
  BY DEF Same
<1>2. PICK k \in Int : b = c + k * Word
  BY DEF Same
<1>3. Word \in Int
  BY SpaceSizesOK
<1>4. a = c + (j + k) * Word
  BY <1>1, <1>2, <1>3
<1> QED
  BY <1>4 DEF Same

\* Two words that agree modulo Word are equal.
LEMMA SameWord ==
  ASSUME NEW a \in 0..Word - 1, NEW b \in 0..Word - 1, Same(a, b)
  PROVE  a = b
<1>1. PICK j \in Int : a = b + j * Word
  BY DEF Same
<1>2. Word \in Nat \ {0}
  BY SpaceSizesOK
<1>3. j < 1 /\ j > -1
  BY <1>1, <1>2, WordTimes
<1> QED
  BY <1>1, <1>2, <1>3

\* A remainder agrees with the number it is of.
LEMMA Remainder ==
  ASSUME NEW a \in Int
  PROVE  a % Word \in 0..Word - 1 /\ Same(a % Word, a)
<1>1. PICK w \in Nat \ {0} : w = Word
  BY SpaceSizesOK
<1>2. a % w \in 0..w - 1
  OBVIOUS
<1>3. a = w * (a \div w) + (a % w) /\ a \div w \in Int
  OBVIOUS
<1>4. a % w = a + (-(a \div w)) * w /\ -(a \div w) \in Int
  BY <1>2, <1>3
<1> QED
  BY <1>1, <1>2, <1>4 DEF Same

\* Addition of unsigned words,
LEMMA PlusIs ==
  ASSUME NEW a \in Int, NEW b \in Int
  PROVE  Plus(a, b) \in 0..Word - 1 /\ Same(Plus(a, b), a + b)
BY Remainder DEF Plus

\* and their subtraction, which wraps below zero.
LEMMA MinusIs ==
  ASSUME NEW a \in Int, NEW b \in Int
  PROVE  Minus(a, b) \in 0..Word - 1 /\ Same(Minus(a, b), a - b)
<1>1. Word \in Nat \ {0}
  BY SpaceSizesOK
<1>2. b % Word \in 0..Word - 1 /\ Same(b % Word, b)
  BY Remainder
<1>3. PICK r \in Int : r = b % Word
  BY <1>1, <1>2
<1>4. Same(a + Word - r, a - b)
  <2>1. PICK j \in Int : r = b + j * Word
    BY <1>2, <1>3 DEF Same
  <2>2. a + Word - r = a - b + (1 - j) * Word /\ 1 - j \in Int
    BY <1>1, <2>1
  <2> QED
    BY <2>2 DEF Same
<1>5. a + Word - r \in Int /\ a - b \in Int
  BY <1>1
<1>6. (a + Word - r) % Word \in 0..Word - 1 /\ Same((a + Word - r) % Word, a + Word - r)
  BY <1>5, Remainder
<1>7. Same((a + Word - r) % Word, a - b)
  BY <1>1, <1>4, <1>5, <1>6, SameOn
<1> QED
  BY <1>3, <1>6, <1>7 DEF Minus

-------------------------------------------------------------------------------
(* Sums of sequences.  FoldFunction adds the elements in an order of its      *)
(* choice; that the order does not matter is what has to be shown.            *)

Adds(g, n, r) ==
  /\ r \in [SUBSET (1..n) -> 0..Word - 1] /\ r[{}] = 0
  /\ \A s \in SUBSET (1..n) : \A x \in s : r[s] = Plus(g[x], r[s \ {x}])

\* What is added first does not matter.
LEMMA PlusMoves ==
  ASSUME NEW a \in Int, NEW b \in Int, NEW c \in Int
  PROVE  Plus(a, Plus(b, c)) = Plus(b, Plus(a, c))
<1>1. Same(Plus(b, c), b + c) /\ Same(Plus(a, c), a + c)
  BY PlusIs
<1>2. PICK u \in Int, v \in Int : u = Plus(b, c) /\ v = Plus(a, c)
  <2>1. Plus(b, c) \in 0..Word - 1 /\ Plus(a, c) \in 0..Word - 1
    BY PlusIs
  <2>2. Plus(b, c) \in Int /\ Plus(a, c) \in Int
    BY <2>1, SpaceSizesOK
  <2> QED
    BY <2>2
<1>3. Same(a + u, a + (b + c)) /\ Same(b + v, b + (a + c))
  <2>1. Same(a, a) /\ Same(b, b) /\ Same(u, b + c) /\ Same(v, a + c)
    BY <1>1, <1>2, SameItself
  <2>2. b + c \in Int /\ a + c \in Int
    OBVIOUS
  <2> QED
    BY <2>1, <2>2, SameSum
<1>4. a + (b + c) = b + (a + c) /\ a + u \in Int /\ b + v \in Int /\ a + (b + c) \in Int
  OBVIOUS
<1>5. Same(Plus(a, u), a + u) /\ Same(Plus(b, v), b + v) /\ Plus(a, u) \in 0..Word - 1 /\ Plus(b, v) \in 0..Word - 1
  BY PlusIs
<1>6. Word \in Nat
  BY SpaceSizesOK
<1>7. PICK p \in 0..Word - 1, q \in 0..Word - 1, s \in Int : p = Plus(a, u) /\ q = Plus(b, v) /\ s = a + (b + c)
  BY <1>4, <1>5
<1>8. Same(p, s) /\ Same(q, s) /\ p \in Int /\ q \in Int
  BY <1>3, <1>4, <1>5, <1>7, <1>6, SameOn
<1>9. Same(s, q)
  BY <1>8, SameBack
<1>10. Same(p, q)
  BY <1>8, <1>9, SameOn
<1> QED
  BY <1>2, <1>7, <1>10, SameWord

\* A table of sums for one more element.
LEMMA AddsMore ==
  ASSUME NEW n \in Nat, NEW g \in [1..(n + 1) -> Nat], NEW f, \A i \in 1..n : f[i] = g[i],
         NEW r, Adds(f, n, r)
  PROVE  \E q : Adds(g, n + 1, q) /\ q[1..(n + 1)] = Plus(g[n + 1], r[1..n])
<1> DEFINE q == [s \in SUBSET (1..(n + 1)) |->
                   IF n + 1 \in s THEN Plus(g[n + 1], r[s \ {n + 1}]) ELSE r[s]]
<1>1. Word \in Nat \ {0} /\ g[n + 1] \in Nat
  BY SpaceSizesOK
<1>2. \A s \in SUBSET (1..(n + 1)) : s \ {n + 1} \in SUBSET (1..n) /\ (n + 1 \notin s => s \in SUBSET (1..n))
  BY SMT
<1>3. \A s \in SUBSET (1..n) : r[s] \in 0..Word - 1 /\ r[s] \in Int
  BY <1>1 DEF Adds
<1>4. q \in [SUBSET (1..(n + 1)) -> 0..Word - 1]
  <2> SUFFICES ASSUME NEW s \in SUBSET (1..(n + 1)) PROVE q[s] \in 0..Word - 1
    OBVIOUS
  <2>1. r[s \ {n + 1}] \in Int
    BY <1>2, <1>3
  <2>2. Plus(g[n + 1], r[s \ {n + 1}]) \in 0..Word - 1
    <3> g[n + 1] \in Int
      BY <1>1
    <3> QED
      BY <2>1, PlusIs
  <2> QED
    BY <1>2, <1>3, <2>2
<1>5. q[{}] = 0
  BY DEF Adds
<1>6. ASSUME NEW s \in SUBSET (1..(n + 1)), NEW x \in s
      PROVE  q[s] = Plus(g[x], q[s \ {x}])
  <2>1. CASE n + 1 \notin s
    <3>1. s \in SUBSET (1..n) /\ s \ {x} \in SUBSET (1..(n + 1)) /\ n + 1 \notin s \ {x} /\ f[x] = g[x]
      BY <1>2, <2>1
    <3>2. r[s] = Plus(f[x], r[s \ {x}])
      BY <3>1 DEF Adds
    <3> QED
      BY <2>1, <3>1, <3>2
  <2>2. CASE n + 1 \in s /\ x = n + 1
    <3>1. s \ {x} \in SUBSET (1..(n + 1)) /\ n + 1 \notin s \ {x}
      BY <2>2
    <3> QED
      BY <2>2, <3>1
  <2>3. CASE n + 1 \in s /\ x # n + 1
    <3> DEFINE t == s \ {n + 1}
    <3>1. t \in SUBSET (1..n) /\ x \in t /\ t \ {x} \in SUBSET (1..n) /\ f[x] = g[x] /\ g[x] \in Nat
      BY <1>2, <2>3
    <3>2. s \ {x} \in SUBSET (1..(n + 1)) /\ n + 1 \in s \ {x} /\ (s \ {x}) \ {n + 1} = t \ {x}
      BY <2>3
    <3>3. r[t] = Plus(g[x], r[t \ {x}])
      BY <3>1 DEF Adds
    <3>4. q[s] = Plus(g[n + 1], r[t]) /\ q[s \ {x}] = Plus(g[n + 1], r[t \ {x}])
      BY <2>3, <3>2
    <3>5. r[t \ {x}] \in Int /\ g[x] \in Int /\ g[n + 1] \in Int
      BY <1>1, <1>3, <3>1
    <3>6. Plus(g[n + 1], Plus(g[x], r[t \ {x}])) = Plus(g[x], Plus(g[n + 1], r[t \ {x}]))
      BY <3>5, PlusMoves
    <3> QED
      BY <3>3, <3>4, <3>6
  <2> QED
    BY <2>1, <2>2, <2>3
<1>7. q[1..(n + 1)] = Plus(g[n + 1], r[1..n])
  <2>1. n + 1 \in 1..(n + 1) /\ (1..(n + 1)) \ {n + 1} = 1..n
    BY SMT
  <2> QED
    BY <2>1
<1>8. Adds(g, n + 1, q)
  BY <1>4, <1>5, <1>6 DEF Adds
<1> QED
  BY <1>7, <1>8

\* Every sequence has a sum.
LEMMA AddsExists ==
  \A n \in Nat : \A g \in [1..n -> Nat] : \E r : Adds(g, n, r)
<1> DEFINE S == {n \in Nat : \A g \in [1..n -> Nat] : \E r : Adds(g, n, r)}
<1>1. 0 \in S
  <2> SUFFICES ASSUME NEW g PROVE \E r : Adds(g, 0, r)
    OBVIOUS
  <2>1. 1..0 = {} /\ SUBSET (1..0) = {{}} /\ Word \in Nat \ {0}
    BY SpaceSizesOK
  <2>2. Adds(g, 0, [s \in {{}} |-> 0])
    BY <2>1 DEF Adds
  <2> QED
    BY <2>2
<1>2. ASSUME NEW n \in Nat, n \in S
      PROVE  n + 1 \in S
  <2> SUFFICES ASSUME NEW g \in [1..(n + 1) -> Nat] PROVE \E r : Adds(g, n + 1, r)
    OBVIOUS
  <2> DEFINE f == [i \in 1..n |-> g[i]]
  <2>1. f \in [1..n -> Nat] /\ \A i \in 1..n : f[i] = g[i]
    OBVIOUS
  <2>2. PICK r : Adds(f, n, r)
    BY <1>2, <2>1
  <2> HIDE DEF f
  <2> QED
    BY <2>1, <2>2, AddsMore
<1> HIDE DEF S
<1>3. \A n \in Nat : n \in S
  BY <1>1, <1>2, SetInduction
<1> QED
  BY <1>3 DEF S

\* It is what FoldFunction computes.
LEMMA FoldAdds ==
  ASSUME NEW n \in Nat, NEW g \in [1..n -> Nat], NEW r, Adds(g, n, r)
  PROVE  FoldFunction(Plus, 0, g) = r[1..n]
<1>1. DOMAIN g = 1..n
  OBVIOUS
<1> DEFINE R == CHOOSE q : Solves(g, 1..n, q)
<1>2. Solves(g, 1..n, r)
  <2> SUFFICES ASSUME NEW s \in SUBSET (1..n)
               PROVE  r[s] = IF s = {} THEN 0
                             ELSE Plus(g[CHOOSE x \in s : TRUE], r[s \ {CHOOSE x \in s : TRUE}])
    BY DEF Solves, Adds
  <2>1. CASE s = {}
    BY <2>1 DEF Adds
  <2>2. CASE s # {}
    <3>1. PICK x \in s : x = CHOOSE y \in s : TRUE
      BY <2>2
    <3>2. r[s] = Plus(g[x], r[s \ {x}])
      BY DEF Adds
    <3> QED
      BY <2>2, <3>1, <3>2
  <2> QED
    BY <2>1, <2>2
<1>3. Solves(g, 1..n, R)
  BY <1>2
<1>4. FoldFunction(Plus, 0, g) = R[1..n]
  BY <1>1 DEF FoldFunction, FoldFunctionOnSet, MapThenFoldSet, Solves
<1>5. \A s \in SUBSET (1..n) : R[s] = r[s]
  <2> HIDE DEF R
  <2> DEFINE Wrong == {s \in SUBSET (1..n) : R[s] # r[s]}
             Cards == {Cardinality(s) : s \in Wrong}
  <2> SUFFICES ASSUME Wrong # {} PROVE FALSE
    OBVIOUS
  <2>1. IsFiniteSet(1..n)
    BY FS_Interval
  <2>2. \A s \in SUBSET (1..n) : IsFiniteSet(s) /\ Cardinality(s) \in Nat
    BY <2>1, FS_Subset, FS_CardinalityType
  <2>3. Cards \in SUBSET Nat /\ Cards # {}
    BY <2>2
  <2>4. PICK c \in Cards : \A d \in Cards : c <= d
    BY <2>3, LeastNatural
  <2>5. PICK s \in Wrong : c = Cardinality(s)
    BY <2>4
  <2>6. s # {}
    BY <1>2, <1>3, <2>5 DEF Solves
  <2>7. PICK x \in s : x = CHOOSE y \in s : TRUE
    BY <2>6
  <2>8. R[s] = Plus(g[x], R[s \ {x}]) /\ r[s] = Plus(g[x], r[s \ {x}])
    BY <1>2, <1>3, <2>5, <2>6, <2>7 DEF Solves
  <2>9. s \ {x} \in Wrong
    BY <2>5, <2>8
  <2>10. Cardinality(s \ {x}) = Cardinality(s) - 1
    BY <2>2, <2>5, FS_RemoveElement
  <2>11. Cardinality(s \ {x}) \in Cards
    BY <2>9
  <2>12. Cardinality(s) \in Nat /\ Cardinality(s) <= Cardinality(s \ {x})
    BY <2>2, <2>4, <2>5, <2>11
  <2> HIDE DEF Wrong, Cards
  <2> QED
    BY <2>10, <2>12
<1> QED
  BY <1>4, <1>5

\* One element more adds itself.
LEMMA SumGrows ==
  ASSUME NEW n \in Nat, NEW g \in [1..(n + 1) -> Nat], NEW f \in [1..n -> Nat],
         \A i \in 1..n : f[i] = g[i]
  PROVE  /\ FoldFunction(Plus, 0, f) \in 0..Word - 1
         /\ FoldFunction(Plus, 0, g) = Plus(g[n + 1], FoldFunction(Plus, 0, f))
<1>1. PICK r : Adds(f, n, r)
  BY AddsExists
<1>2. PICK q : Adds(g, n + 1, q) /\ q[1..(n + 1)] = Plus(g[n + 1], r[1..n])
  BY <1>1, AddsMore
<1>3. FoldFunction(Plus, 0, f) = r[1..n]
  BY <1>1, FoldAdds
<1>4. FoldFunction(Plus, 0, g) = q[1..(n + 1)]
  <2> n + 1 \in Nat
    OBVIOUS
  <2> QED
    BY <1>2, FoldAdds
<1>5. r[1..n] \in 0..Word - 1
  BY <1>1 DEF Adds
<1> QED
  BY <1>2, <1>3, <1>4, <1>5

\* A sum is a word.
LEMMA SumIs ==
  ASSUME NEW n \in Nat, NEW f \in [1..n -> Nat]
  PROVE  FoldFunction(Plus, 0, f) \in 0..Word - 1
<1> DEFINE g == [i \in 1..(n + 1) |-> IF i = n + 1 THEN 0 ELSE f[i]]
<1>1. g \in [1..(n + 1) -> Nat] /\ \A i \in 1..n : f[i] = g[i]
  OBVIOUS
<1> QED
  BY <1>1, SumGrows

\* The empty sequence adds up to zero.
LEMMA NoSum == ASSUME NEW f \in [1..0 -> Nat] PROVE FoldFunction(Plus, 0, f) = 0
<1>1. PICK r : Adds(f, 0, r)
  BY AddsExists
<1>2. 1..0 = {}
  OBVIOUS
<1> QED
  <2>1. FoldFunction(Plus, 0, f) = r[1..0]
    <3> 0 \in Nat
      OBVIOUS
    <3> QED
      BY <1>1, FoldAdds
  <2>2. r[{}] = 0
    BY <1>1 DEF Adds
  <2> QED
    BY <1>2, <2>1, <2>2

-------------------------------------------------------------------------------
(* The inductive invariant. *)

StringOK(s) ==
  /\ s.next >= MinStringBlock
  /\ \E k \in Nat \ {0} : s.size = StringHeaderSize + k * StringSize

\* Where the owner is, between which stores.
PlaceOK ==
  /\ opc \in {"idle", "allocated", "bump", "fallback", "correct", "string", "unused"} => head = Len(blocks)
  /\ opc \in {"range", "head"} => head + 1 = Len(blocks)
  /\ opc # "head" => at.block = head
  /\ opc = "head" => at.block = Len(blocks) /\ at.offset = kBlockHeaderSize
  /\ opc = "bump" => head # 0 /\ at.offset = kBlockHeaderSize
  /\ opc \in {"range", "head", "bump"} => kBlockHeaderSize + want <= blocks[Len(blocks)]
  /\ head # 0 /\ at.block = head => at.offset >= kBlockHeaderSize /\ at.offset <= blocks[head]

StringsOK ==
  /\ \A i \in DOMAIN strings : StringOK(strings[i])
  /\ opc \in {"correct", "string"} => stringBlock + 1 = Len(strings)
  /\ opc \notin {"correct", "string"} => stringBlock = Len(strings)
  /\ opc = "correct" => head # 0
  /\ opc = "unused" => stringBlock # 0
  /\ opc \in {"fallback", "correct", "string", "unused"} \/ stringBlock = 0 => unused = 0
  /\ \E k \in Nat : unused = k * StringSize
  /\ stringBlock # 0 => unused <= effective_size(stringBlock)

UsedOK ==
  /\ used <= MaxUsed
  /\ opc \in {"allocated", "range", "head", "bump"} => used + want <= MaxUsed
  /\ opc \in {"fallback", "correct", "string", "unused"} => used + StringSize <= MaxUsed

\* What each of the three terms of SpaceUsed stands for, at each place.
InStrings == IF opc \in {"fallback", "correct", "string", "unused"} \/ stringBlock = 0 THEN 0
             ELSE effective_size(stringBlock) - unused
InBlock == IF opc \in {"allocated", "range", "head"} \/ head = 0 THEN 0
           ELSE at.offset - kBlockHeaderSize
CountedTwice == IF opc = "correct" THEN NextSize(stringBlock) ELSE 0
Accounts == Same(InStrings + InBlock + spaceUsed, used + CountedTwice)

OnHeap == [i \in DOMAIN strings |-> IF strings[i].heap THEN strings[i].size ELSE 0]
Totals == spaceAllocated = Plus(FoldFunction(Plus, 0, blocks), FoldFunction(Plus, 0, OnHeap))

\* What a reader has added up so far, as it was when no block was exchanged.
ReaderOK ==
  /\ rpc \in {"unused"} => sb # 0
  /\ rpc \in {"ptr", "total"} => h # 0
  /\ rpc # "idle" /\ ~switched =>
       /\ opc = "idle" /\ usedBefore <= used
       /\ rpc \in {"block", "unused"} => sum = 0
       /\ rpc = "unused" => sb = stringBlock
       /\ rpc \in {"ptr", "total"} => h = head
       /\ rpc \in {"head", "ptr"} => \E n \in Nat :
            Same(sum, n) /\ n <= InStrings /\ usedBefore + InStrings <= used + n
       /\ rpc = "total" => \E n \in Nat :
            Same(sum, n) /\ n <= InStrings + InBlock /\ usedBefore + InStrings + InBlock <= used + n
       /\ rpc = "done" /\ h # 0 => usedBefore <= sum /\ sum <= used

IInv == TypeOK /\ PlaceOK /\ StringsOK /\ UsedOK /\ Accounts /\ Totals /\ ReaderOK

-------------------------------------------------------------------------------
(* Sizes. *)

\* What the proofs use of the constants.
LEMMA Constants ==
  /\ kBlockHeaderSize \in Nat /\ StringHeaderSize \in Nat /\ StringSize \in Nat \ {0}
  /\ StartBlockSize \in Nat /\ MaxBlockSize \in Nat /\ MaxUsed \in Nat /\ Word \in Nat \ {0}
  /\ MinStringBlock \in Nat /\ MaxStringBlock \in Nat /\ MaxStringBlock >= MinStringBlock
  /\ MinStringBlock >= StringHeaderSize + StringSize
  /\ \A n \in ObjectSizes : n \in Nat \ {0}
BY SpaceSizesOK

\* A new block is large enough for its header and the object that needs it.
LEMMA BlockSizeIs ==
  ASSUME NEW last \in Nat, NEW n \in Nat
  PROVE  BlockSize(last, n) \in Nat /\ BlockSize(last, n) >= kBlockHeaderSize + n
BY Constants DEF BlockSize, Larger, Smaller

\* A string block holds a whole number of strings, and at least one.
LEMMA Rounded ==
  ASSUME NEW n \in Nat, n >= MinStringBlock
  PROVE  /\ RoundedSize(n) \in Nat /\ RoundedSize(n) <= n
         /\ \E k \in Nat \ {0} : RoundedSize(n) = StringHeaderSize + k * StringSize
<1>1. PICK z \in Nat \ {0}, e \in Nat : z = StringSize /\ e = StringHeaderSize
  BY Constants
<1>2. PICK d \in Nat : d = n - e /\ d >= z
  <2>1. n - e \in Nat /\ n - e >= z
    BY <1>1, Constants
  <2> QED
    BY <2>1
<1>3. d % z \in 0..z - 1 /\ d = z * (d \div z) + (d % z) /\ d \div z \in Int
  OBVIOUS
<1>4. PICK k \in Int, m \in 0..z - 1 : k = d \div z /\ m = d % z /\ d = z * k + m
  BY <1>3
<1>5. k >= 1
  <2>1. ASSUME k <= 0 PROVE FALSE
    <3>1. z * k <= 0
      BY <2>1
    <3>2. z * k \in Int
      OBVIOUS
    <3> QED
      BY <1>2, <1>4, <3>1, <3>2
  <2> QED
    BY <2>1
<1>6. RoundedSize(n) = n - m
  BY <1>1, <1>2, <1>4 DEF RoundedSize
<1>7. n - m = e + k * z /\ n - m \in Nat /\ n - m <= n
  <2>1. z * k = k * z /\ k * z \in Int
    OBVIOUS
  <2> QED
    BY <1>2, <1>4, <2>1
<1> QED
  BY <1>1, <1>5, <1>6, <1>7

\* A number of strings, and one fewer.
LEMMA Multiple ==
  ASSUME NEW k \in Nat, NEW j \in Nat
  PROVE  /\ k * StringSize \in Nat
         /\ (k # 0 => k * StringSize >= StringSize /\ k * StringSize - StringSize = (k - 1) * StringSize)
         /\ (k = 0 => k * StringSize = 0)
<1>1. PICK z \in Nat \ {0} : z = StringSize
  BY Constants
<1>2. k * z \in Nat /\ (k # 0 => k * z >= z /\ k * z - z = (k - 1) * z) /\ (k = 0 => k * z = 0)
  BY SMT
<1> QED
  BY <1>1, <1>2

\* What the string block at hand, and the next one, are like.
LEMMA StringIs ==
  ASSUME TypeOK, StringsOK
  PROVE  /\ NextSize(stringBlock) \in Nat /\ NextSize(stringBlock) >= MinStringBlock
         /\ \A i \in DOMAIN strings : /\ strings[i].size \in Nat /\ effective_size(i) \in Nat
                                      /\ effective_size(i) >= StringSize
                                      /\ \E k \in Nat : effective_size(i) - StringSize = k * StringSize
<1>1. strings \in [1..Len(strings) -> [size : Nat, heap : BOOLEAN, next : Nat]]
      /\ DOMAIN strings = 1..Len(strings) /\ Len(strings) \in Nat
  <2>1. strings \in Seq([size : Nat, heap : BOOLEAN, next : Nat])
    BY DEF TypeOK
  <2> QED
    BY <2>1, LenProperties
<1>2. stringBlock # 0 => stringBlock \in DOMAIN strings
  BY <1>1 DEF TypeOK
<1>3. NextSize(stringBlock) \in Nat /\ NextSize(stringBlock) >= MinStringBlock
  <2>1. CASE stringBlock = 0
    BY <2>1, Constants DEF NextSize
  <2>2. CASE stringBlock # 0
    <3>1. StringOK(strings[stringBlock]) /\ strings[stringBlock].next \in Nat
      BY <1>1, <1>2, <2>2 DEF StringsOK
    <3> QED
      BY <2>2, <3>1 DEF NextSize, StringOK
  <2> QED
    BY <2>1, <2>2
<1>4. ASSUME NEW i \in DOMAIN strings
      PROVE  /\ strings[i].size \in Nat /\ effective_size(i) \in Nat /\ effective_size(i) >= StringSize
             /\ \E k \in Nat : effective_size(i) - StringSize = k * StringSize
  <2>1. PICK k \in Nat \ {0} : strings[i].size = StringHeaderSize + k * StringSize
    BY DEF StringsOK, StringOK
  <2>2. strings[i].size \in Nat
    BY <1>1
  <2>3. k * StringSize \in Nat /\ k * StringSize >= StringSize
        /\ k * StringSize - StringSize = (k - 1) * StringSize /\ k - 1 \in Nat
    BY Multiple
  <2>4. effective_size(i) = k * StringSize
    BY <2>1, <2>2, <2>3, Constants DEF effective_size
  <2> QED
    BY <2>2, <2>3, <2>4
<1> QED
  BY <1>3, <1>4

\* The string block made next.
LEMMA NewStringIs ==
  ASSUME TypeOK, StringsOK, NEW heap \in BOOLEAN, NEW s, s = NewString(heap)
  PROVE  /\ s \in [size : Nat, heap : BOOLEAN, next : Nat] /\ StringOK(s)
         /\ s.heap = heap /\ s.size = RoundedSize(NextSize(stringBlock))
<1>1. PICK n \in Nat : n = NextSize(stringBlock) /\ n >= MinStringBlock
  BY StringIs
<1>2. RoundedSize(n) \in Nat /\ \E k \in Nat \ {0} : RoundedSize(n) = StringHeaderSize + k * StringSize
  BY <1>1, Rounded
<1>3. s = [size |-> RoundedSize(n), heap |-> heap,
           next |-> IF stringBlock = 0 THEN MinStringBlock ELSE Smaller(2 * n, MaxStringBlock)]
  BY <1>1 DEF NewString
<1>4. s.next \in Nat /\ s.next >= MinStringBlock
  BY <1>1, <1>3, Constants DEF Smaller
<1> QED
  BY <1>1, <1>2, <1>3, <1>4 DEF StringOK

-------------------------------------------------------------------------------
(* Steps of the owner: where it is. *)

MemOK == TypeOK /\ PlaceOK /\ StringsOK /\ UsedOK

\* The blocks as a function.
LEMMA Blocks ==
  ASSUME TypeOK
  PROVE  /\ blocks \in [1..Len(blocks) -> Nat] /\ DOMAIN blocks = 1..Len(blocks) /\ Len(blocks) \in Nat
         /\ head \in Nat /\ head <= Len(blocks) /\ (head # 0 => blocks[head] \in Nat)
         /\ at \in [block : 0..Len(blocks), offset : Nat] /\ at.offset \in Nat /\ at.block \in Nat
<1>1. blocks \in Seq(Nat) /\ head \in 0..Len(blocks) /\ at \in [block : 0..Len(blocks), offset : Nat]
  BY DEF TypeOK
<1>2. blocks \in [1..Len(blocks) -> Nat] /\ DOMAIN blocks = 1..Len(blocks) /\ Len(blocks) \in Nat
  BY <1>1, LenProperties
<1> QED
  BY <1>1, <1>2

\* The string blocks as a function.
LEMMA StringBlocks ==
  ASSUME TypeOK
  PROVE  /\ strings \in [1..Len(strings) -> [size : Nat, heap : BOOLEAN, next : Nat]]
         /\ DOMAIN strings = 1..Len(strings) /\ Len(strings) \in Nat
         /\ stringBlock \in Nat /\ stringBlock <= Len(strings)
         /\ (stringBlock # 0 => stringBlock \in DOMAIN strings)
<1>1. strings \in Seq([size : Nat, heap : BOOLEAN, next : Nat]) /\ stringBlock \in 0..Len(strings)
  BY DEF TypeOK
<1>2. strings \in [1..Len(strings) -> [size : Nat, heap : BOOLEAN, next : Nat]]
      /\ DOMAIN strings = 1..Len(strings) /\ Len(strings) \in Nat
  BY <1>1, LenProperties
<1> QED
  BY <1>1, <1>2

\* The steps keep the owner's memory in order: in the current block,
LEMMA AlignedMem ==
  ASSUME MemOK, NEW n \in ObjectSizes, AllocateAligned(n)
  PROVE  MemOK'
<1>1. n \in Nat \ {0} /\ at.offset \in Nat /\ head # 0 /\ at.offset + n <= blocks[head] /\ at.block = head
      /\ at' = [block |-> at.block, offset |-> at.offset + n] /\ used \in Nat /\ kBlockHeaderSize \in Nat
      /\ blocks[head] \in Nat
  BY Constants, Blocks DEF MemOK, TypeOK, PlaceOK, AllocateAligned, Fits, Bumped
<1>2. TypeOK'
  <2>1. at' \in [block : 0..Len(blocks), offset : Nat] /\ used' \in Nat
    BY <1>1 DEF MemOK, TypeOK, AllocateAligned
  <2>2. at'.block = head => at'.offset \in kBlockHeaderSize..blocks[head]
    BY <1>1 DEF MemOK, PlaceOK
  <2> QED
    BY <1>1, <2>1, <2>2 DEF MemOK, TypeOK, AllocateAligned, owner, reader, effective_size
<1>3. PlaceOK'
  BY <1>1 DEF MemOK, PlaceOK, AllocateAligned, owner
<1>4. StringsOK' /\ UsedOK'
  BY <1>1 DEF MemOK, StringsOK, UsedOK, AllocateAligned, owner, effective_size
<1> QED
  BY <1>2, <1>3, <1>4 DEF MemOK

\* retiring it,
LEMMA RetireBlockMem ==
  ASSUME MemOK, NEW n \in ObjectSizes, RetireBlock(n)
  PROVE  MemOK'
<1>1. n \in Nat \ {0} /\ at.offset - kBlockHeaderSize \in Int /\ spaceUsed \in Int
  BY Constants, Blocks DEF MemOK, TypeOK
<1>2. spaceUsed' \in 0..Word - 1
  BY <1>1, PlusIs DEF RetireBlock, MemOK, TypeOK
<1>3. TypeOK'
  BY <1>1, <1>2 DEF MemOK, TypeOK, RetireBlock, reader, effective_size
<1>4. PlaceOK' /\ StringsOK' /\ UsedOK'
  BY <1>1 DEF MemOK, PlaceOK, StringsOK, UsedOK, RetireBlock, effective_size
<1> QED
  BY <1>3, <1>4 DEF MemOK

\* with a new one,
LEMMA AddSpaceAllocatedMem ==
  ASSUME MemOK, AddSpaceAllocated
  PROVE  MemOK'
<1> DEFINE n == BlockSize(SizeOf(head), want)
<1>1. SizeOf(head) \in Nat /\ want \in Nat
  BY Blocks DEF MemOK, TypeOK, SizeOf
<1>2. n \in Nat /\ n >= kBlockHeaderSize + want
  BY <1>1, BlockSizeIs
<1>3. spaceAllocated' \in 0..Word - 1
  <2>1. spaceAllocated \in Int
    BY Constants DEF MemOK, TypeOK
  <2> QED
    BY <1>2, <2>1, PlusIs DEF AddSpaceAllocated
<1> HIDE DEF n
<1>4. blocks' = Append(blocks, n) /\ opc = "allocated" /\ opc' = "range"
  BY DEF AddSpaceAllocated, n
<1>5. blocks' \in Seq(Nat) /\ Len(blocks') = Len(blocks) + 1 /\ blocks'[Len(blocks) + 1] = n
      /\ (\A i \in 1..Len(blocks) : blocks'[i] = blocks[i]) /\ Len(blocks) \in Nat
  <2>1. blocks \in Seq(Nat)
    BY DEF MemOK, TypeOK
  <2> QED
    BY <1>2, <1>4, <2>1, AppendProperties, LenProperties
<1>6. TypeOK'
  <2>1. head' \in 0..Len(blocks') /\ at' \in [block : 0..Len(blocks'), offset : Nat] /\ h' \in 0..Len(blocks')
    BY <1>5 DEF MemOK, TypeOK, AddSpaceAllocated, reader
  <2>2. head # 0 => blocks'[head] = blocks[head]
    BY <1>5, Blocks DEF MemOK
  <2> QED
    BY <1>3, <1>4, <1>5, <2>1, <2>2 DEF MemOK, TypeOK, AddSpaceAllocated, reader, effective_size
<1>7. PlaceOK'
  <2>1. head # 0 => blocks'[head] = blocks[head]
    BY <1>5, Blocks DEF MemOK
  <2> QED
    BY <1>1, <1>2, <1>4, <1>5, <2>1, Constants DEF MemOK, PlaceOK, AddSpaceAllocated
<1>8. StringsOK' /\ UsedOK'
  BY <1>4 DEF MemOK, StringsOK, UsedOK, AddSpaceAllocated, effective_size
<1> QED
  BY <1>6, <1>7, <1>8 DEF MemOK

\* with ptr_ in it,
LEMMA SetRangeMem ==
  ASSUME MemOK, SetRange
  PROVE  MemOK'
<1>1. kBlockHeaderSize \in Nat /\ Len(blocks) \in Nat /\ at' = [block |-> Len(blocks), offset |-> kBlockHeaderSize]
      /\ head + 1 = Len(blocks) /\ head \in Nat
  BY Constants, Blocks DEF MemOK, PlaceOK, SetRange
<1>2. TypeOK'
  BY <1>1 DEF MemOK, TypeOK, SetRange, reader, effective_size
<1>3. PlaceOK'
  BY <1>1 DEF MemOK, PlaceOK, SetRange
<1>4. StringsOK' /\ UsedOK'
  BY DEF MemOK, StringsOK, UsedOK, SetRange, effective_size
<1> QED
  BY <1>2, <1>3, <1>4 DEF MemOK

\* with head_ at it,
LEMMA StoreHeadMem ==
  ASSUME MemOK, StoreHead
  PROVE  MemOK'
<1>1. /\ kBlockHeaderSize \in Nat /\ Len(blocks) \in Nat /\ Len(blocks) # 0 /\ want \in Nat
      /\ at.block = Len(blocks) /\ at.offset = kBlockHeaderSize
      /\ kBlockHeaderSize + want <= blocks[Len(blocks)] /\ blocks[Len(blocks)] \in Nat
      /\ head + 1 = Len(blocks) /\ head \in Nat
  <2>1. head + 1 = Len(blocks) /\ head \in Nat /\ Len(blocks) \in Nat /\ at.block = Len(blocks)
    BY Blocks DEF MemOK, PlaceOK, StoreHead
  <2>2. blocks[Len(blocks)] \in Nat
    BY <2>1, Blocks DEF MemOK
  <2> QED
    BY <2>1, <2>2, Constants DEF MemOK, PlaceOK, StoreHead, TypeOK
<1>2. TypeOK'
  BY <1>1 DEF MemOK, TypeOK, StoreHead, reader, effective_size
<1>3. PlaceOK'
  BY <1>1 DEF MemOK, PlaceOK, StoreHead
<1>4. StringsOK' /\ UsedOK'
  BY <1>1 DEF MemOK, StringsOK, UsedOK, StoreHead, effective_size
<1> QED
  BY <1>2, <1>3, <1>4 DEF MemOK

\* and allocating from it;
LEMMA FromNewBlockMem ==
  ASSUME MemOK, AllocateFromNewBlock
  PROVE  MemOK'
<1>1. /\ want \in Nat /\ kBlockHeaderSize \in Nat /\ head # 0 /\ head = Len(blocks) /\ at.block = head
      /\ at.offset = kBlockHeaderSize /\ kBlockHeaderSize + want <= blocks[head] /\ blocks[head] \in Nat
      /\ at' = [block |-> at.block, offset |-> at.offset + want] /\ used \in Nat /\ used + want <= MaxUsed
  BY Constants, Blocks DEF MemOK, TypeOK, PlaceOK, UsedOK, AllocateFromNewBlock, Bumped
<1>2. TypeOK'
  BY <1>1 DEF MemOK, TypeOK, StringsOK, AllocateFromNewBlock, reader, effective_size
<1>3. PlaceOK'
  BY <1>1 DEF MemOK, PlaceOK, AllocateFromNewBlock
<1>4. StringsOK' /\ UsedOK'
  BY <1>1 DEF MemOK, StringsOK, UsedOK, AllocateFromNewBlock, effective_size
<1> QED
  BY <1>2, <1>3, <1>4 DEF MemOK

\* in the current string block,
LEMMA MaybeStringMem ==
  ASSUME MemOK, MaybeAllocateString
  PROVE  MemOK'
<1>1. PICK k \in Nat : unused = k * StringSize /\ k # 0
  <2>1. PICK k \in Nat : unused = k * StringSize
    BY DEF MemOK, StringsOK
  <2>2. k # 0
    BY <2>1, Multiple DEF MaybeAllocateString
  <2> QED
    BY <2>1, <2>2
<1>2. /\ StringSize \in Nat /\ unused \in Nat /\ unused >= StringSize /\ used \in Nat
      /\ unused' = unused - StringSize /\ unused' = (k - 1) * StringSize /\ k - 1 \in Nat
      /\ stringBlock # 0 /\ opc = "idle"
  <2>1. k * StringSize >= StringSize /\ k * StringSize - StringSize = (k - 1) * StringSize /\ k - 1 \in Nat
    BY <1>1, Multiple
  <2>2. unused \in Nat /\ used \in Nat /\ (stringBlock = 0 => unused = 0)
    BY DEF MemOK, TypeOK, StringsOK
  <2>3. unused' = unused - StringSize /\ unused # 0 /\ opc = "idle"
    BY DEF MaybeAllocateString
  <2> QED
    BY <1>1, <2>1, <2>2, <2>3, Constants
<1>3. effective_size(stringBlock) \in Nat
  BY <1>2, StringBlocks, StringIs DEF MemOK
<1>4. TypeOK'
  <2>1. unused' \in Nat /\ used' \in Nat
    BY <1>2 DEF MaybeAllocateString
  <2>2. unused' <= effective_size(stringBlock) /\ effective_size(stringBlock)' = effective_size(stringBlock)
    BY <1>2, <1>3 DEF MemOK, StringsOK, MaybeAllocateString, effective_size
  <2> QED
    BY <2>1, <2>2 DEF MemOK, TypeOK, MaybeAllocateString, owner, reader
<1>5. PlaceOK'
  BY DEF MemOK, PlaceOK, MaybeAllocateString, owner
<1>6. StringsOK'
  BY <1>2, <1>3 DEF MemOK, StringsOK, MaybeAllocateString, owner, effective_size
<1>7. UsedOK'
  BY <1>2 DEF MemOK, UsedOK, MaybeAllocateString, owner
<1> QED
  BY <1>4, <1>5, <1>6, <1>7 DEF MemOK

\* retiring it,
LEMMA RetireStringMem ==
  ASSUME MemOK, RetireStringBlock
  PROVE  MemOK'
<1>1. RetiredBytes \in Int /\ spaceUsed \in Int
  BY StringBlocks, StringIs, Constants DEF MemOK, TypeOK, RetiredBytes
<1>2. spaceUsed' \in 0..Word - 1
  BY <1>1, PlusIs DEF RetireStringBlock
<1>3. TypeOK'
  BY <1>2 DEF MemOK, TypeOK, RetireStringBlock, reader, effective_size
<1>4. PlaceOK' /\ StringsOK' /\ UsedOK'
  BY DEF MemOK, PlaceOK, StringsOK, UsedOK, RetireStringBlock, effective_size
<1> QED
  BY <1>3, <1>4 DEF MemOK

\* with a new one in the block or on the heap,
LEMMA PlaceStringMem ==
  ASSUME MemOK, PlaceStringBlock
  PROVE  MemOK'
<1>1. PICK n \in Nat : n = NextSize(stringBlock) /\ n >= MinStringBlock
  BY StringIs DEF MemOK
<1>2. PICK s : s = NewString(~Fits(n))
  OBVIOUS
<1>3. s \in [size : Nat, heap : BOOLEAN, next : Nat] /\ StringOK(s)
  BY <1>2, NewStringIs DEF MemOK, Fits
<1>4. strings' = Append(strings, s) /\ opc = "fallback" /\ opc' \in {"correct", "string"}
      /\ stringBlock = Len(strings) /\ stringBlock' = stringBlock /\ unused = 0 /\ unused' = 0
      /\ (opc' = "correct" => head # 0)
  BY <1>1, <1>2 DEF PlaceStringBlock, MemOK, StringsOK, Fits
<1>5. strings' \in Seq([size : Nat, heap : BOOLEAN, next : Nat]) /\ Len(strings') = Len(strings) + 1
      /\ strings'[Len(strings) + 1] = s /\ (\A i \in 1..Len(strings) : strings'[i] = strings[i])
      /\ Len(strings) \in Nat /\ DOMAIN strings' = 1..Len(strings) + 1 /\ DOMAIN strings = 1..Len(strings)
  <2>1. strings \in Seq([size : Nat, heap : BOOLEAN, next : Nat])
    BY DEF MemOK, TypeOK
  <2> QED
    BY <1>3, <1>4, <2>1, AppendProperties, LenProperties
<1>6. /\ at' \in [block : 0..Len(blocks), offset : Nat] /\ at'.block = at.block
      /\ at.block = head /\ head = Len(blocks)
      /\ (head # 0 => at'.offset >= kBlockHeaderSize /\ at'.offset <= blocks[head])
      /\ head' = head /\ blocks' = blocks
  <2>1. at.block = head /\ head = Len(blocks) /\ (head # 0 => at.offset >= kBlockHeaderSize /\ at.offset <= blocks[head])
    BY <1>4 DEF MemOK, PlaceOK
  <2>2. CASE Fits(n)
    <3>1. at' = [block |-> at.block, offset |-> at.offset + n] /\ head # 0 /\ at.offset + n <= blocks[head]
      BY <1>1, <2>2, Blocks DEF PlaceStringBlock, Fits, Bumped, MemOK
    <3> QED
      BY <2>1, <3>1, Blocks, Constants DEF PlaceStringBlock, MemOK
  <2>3. CASE ~Fits(n)
    BY <1>1, <2>1, <2>3, Blocks DEF PlaceStringBlock, MemOK
  <2> QED
    BY <2>2, <2>3
<1>7. spaceAllocated' \in 0..Word - 1
  <2>1. spaceAllocated \in Int /\ spaceAllocated \in 0..Word - 1 /\ HeapBytes(n) \in Int
    BY <1>1, Rounded, Constants DEF MemOK, TypeOK, HeapBytes
  <2> QED
    BY <1>1, <2>1, PlusIs DEF PlaceStringBlock
<1>8. stringBlock # 0 => effective_size(stringBlock) \in Nat /\ effective_size(stringBlock)' = effective_size(stringBlock)
  BY <1>4, <1>5, StringBlocks, StringIs DEF MemOK, effective_size
<1>9. TypeOK'
  <2>1. stringBlock' \in 0..Len(strings') /\ sb' \in 0..Len(strings')
    BY <1>4, <1>5 DEF MemOK, TypeOK, PlaceStringBlock, reader
  <2>2. head' # 0 /\ at'.block = head' => at'.offset \in kBlockHeaderSize..blocks'[head']
    BY <1>6, Blocks, Constants DEF MemOK
  <2>3. opc' \in {"idle", "allocated", "range", "head", "bump", "fallback", "correct", "string", "unused"}
    BY <1>4
  <2>4. stringBlock' # 0 => unused' <= effective_size(stringBlock)'
    BY <1>4, <1>8
  <2> QED
    BY <1>4, <1>5, <1>6, <1>7, <2>1, <2>2, <2>3, <2>4 DEF MemOK, TypeOK, PlaceStringBlock, reader
<1>10. PlaceOK'
  BY <1>4, <1>6 DEF PlaceOK
<1>11. StringsOK'
  <2>1. \A i \in DOMAIN strings' : StringOK(strings'[i])
    BY <1>3, <1>5 DEF MemOK, StringsOK
  <2>2. \E k \in Nat : unused' = k * StringSize
    BY <1>4 DEF MemOK, StringsOK
  <2>3. stringBlock' + 1 = Len(strings')
    BY <1>4, <1>5
  <2>4. stringBlock' # 0 => unused' <= effective_size(stringBlock)'
    BY <1>4, <1>8
  <2> QED
    BY <1>4, <1>6, <2>1, <2>2, <2>3, <2>4 DEF StringsOK
<1>12. UsedOK'
  BY <1>4 DEF MemOK, UsedOK, PlaceStringBlock
<1> QED
  BY <1>9, <1>10, <1>11, <1>12 DEF MemOK

\* corrected for the one in the block,
LEMMA CorrectMem ==
  ASSUME MemOK, CorrectSpaceUsed
  PROVE  MemOK'
<1>1. NextSize(stringBlock) \in Int /\ spaceUsed \in Int
  BY StringIs, Constants DEF MemOK, TypeOK
<1>2. spaceUsed' \in 0..Word - 1
  BY <1>1, MinusIs DEF CorrectSpaceUsed
<1>3. TypeOK'
  BY <1>2 DEF MemOK, TypeOK, CorrectSpaceUsed, reader, effective_size
<1>4. PlaceOK' /\ StringsOK' /\ UsedOK'
  BY DEF MemOK, PlaceOK, StringsOK, UsedOK, CorrectSpaceUsed, effective_size
<1> QED
  BY <1>3, <1>4 DEF MemOK

\* with string_block_ at it,
LEMMA StoreStringMem ==
  ASSUME MemOK, StoreStringBlock
  PROVE  MemOK'
<1>1. stringBlock + 1 = Len(strings) /\ stringBlock \in Nat /\ Len(strings) \in Nat /\ stringBlock' = Len(strings)
      /\ unused = 0 /\ DOMAIN strings = 1..Len(strings) /\ opc = "string" /\ opc' = "unused"
  BY StringBlocks DEF MemOK, StringsOK, StoreStringBlock
<1>2. effective_size(Len(strings)) \in Nat
  BY <1>1, StringIs DEF MemOK
<1>3. TypeOK'
  BY <1>1 DEF MemOK, TypeOK, StoreStringBlock, reader
<1>4. StringsOK'
  BY <1>1, <1>2 DEF MemOK, StringsOK, StoreStringBlock, effective_size
<1>5. PlaceOK' /\ UsedOK'
  BY DEF MemOK, PlaceOK, UsedOK, StoreStringBlock
<1> QED
  BY <1>3, <1>4, <1>5 DEF MemOK

\* and allocating from it.
LEMMA StoreUnusedMem ==
  ASSUME MemOK, StoreUnused
  PROVE  MemOK'
<1>1. stringBlock # 0 /\ stringBlock \in DOMAIN strings /\ opc = "unused" /\ opc' = "idle"
      /\ used \in Nat /\ StringSize \in Nat /\ used + StringSize <= MaxUsed
  BY StringBlocks, Constants DEF MemOK, StringsOK, StoreUnused, TypeOK, UsedOK
<1>2. PICK k \in Nat : effective_size(stringBlock) - StringSize = k * StringSize
  BY <1>1, StringIs DEF MemOK
<1>3. effective_size(stringBlock) \in Nat /\ effective_size(stringBlock) >= StringSize
  BY <1>1, StringIs DEF MemOK
<1>4. unused' = effective_size(stringBlock) - StringSize /\ effective_size(stringBlock)' = effective_size(stringBlock)
  BY DEF StoreUnused, UnusedOf, effective_size
<1>5. TypeOK'
  <2>1. unused' \in Nat /\ used' \in Nat /\ unused' <= effective_size(stringBlock)'
    BY <1>1, <1>3, <1>4 DEF StoreUnused
  <2> QED
    BY <1>1, <2>1 DEF MemOK, TypeOK, StoreUnused, reader
<1>6. StringsOK'
  <2>1. (\E n \in Nat : unused' = n * StringSize) /\ unused' <= effective_size(stringBlock)'
    BY <1>1, <1>2, <1>3, <1>4
  <2>2. UNCHANGED <<strings, stringBlock>> /\ stringBlock = Len(strings)
    BY <1>1 DEF MemOK, StringsOK, StoreUnused
  <2>3. \A i \in DOMAIN strings : StringOK(strings[i])
    BY DEF MemOK, StringsOK
  <2> QED
    BY <1>1, <2>1, <2>2, <2>3 DEF StringsOK
<1>7. PlaceOK' /\ UsedOK'
  BY <1>1 DEF MemOK, PlaceOK, UsedOK, StoreUnused
<1> QED
  BY <1>5, <1>6, <1>7 DEF MemOK

(* The reader changes nothing but what it has read. *)
LEMMA ReaderMem ==
  ASSUME MemOK, ReaderOK, Reader
  PROVE  MemOK' /\ UNCHANGED <<mem, used, owner>>
<1>1. UNCHANGED <<mem, used, owner>>
  BY DEF Reader, BeginSpaceUsed, LoadStringBlock, LoadUnused, LoadHead, LoadPtr, LoadSpaceUsed, Return
<1>2. PlaceOK' /\ StringsOK' /\ UsedOK'
  BY <1>1 DEF MemOK, PlaceOK, StringsOK, UsedOK, mem, owner, effective_size
<1>3. SUFFICES /\ rpc' \in {"idle", "block", "unused", "head", "ptr", "total", "done"}
               /\ sb' \in 0..Len(strings) /\ h' \in 0..Len(blocks) /\ sum' \in 0..Word - 1
               /\ usedBefore' \in Nat /\ switched' \in BOOLEAN
  BY <1>1, <1>2 DEF MemOK, TypeOK, mem, owner, effective_size
<1>4. 0 \in 0..Word - 1 /\ sum \in Int /\ spaceUsed \in Int /\ unused \in Int /\ used \in Nat
  BY Constants DEF MemOK, TypeOK
<1>5. 0 \in 0..Len(strings) /\ 0 \in 0..Len(blocks) /\ stringBlock \in 0..Len(strings) /\ head \in 0..Len(blocks)
  BY StringBlocks, Blocks DEF MemOK
<1>6. CASE BeginSpaceUsed
  BY <1>4, <1>6 DEF BeginSpaceUsed, MemOK, TypeOK
<1>7. CASE LoadStringBlock
  BY <1>5, <1>7 DEF LoadStringBlock, MemOK, TypeOK
<1>8. CASE LoadUnused
  <2>1. sb \in DOMAIN strings
    BY <1>8, StringBlocks DEF LoadUnused, MemOK, TypeOK, ReaderOK
  <2>2. effective_size(sb) \in Int
    BY <2>1, StringIs DEF MemOK
  <2>3. sum' \in 0..Word - 1
    BY <1>4, <1>8, <2>2, MinusIs DEF LoadUnused
  <2> QED
    BY <1>8, <2>3 DEF LoadUnused, MemOK, TypeOK
<1>9. CASE LoadHead
  BY <1>5, <1>9 DEF LoadHead, MemOK, TypeOK
<1>10. CASE LoadPtr
  <2>1. h \in DOMAIN blocks /\ blocks[h] \in Int /\ at.offset - kBlockHeaderSize \in Int
    <3>1. h \in 1..Len(blocks)
      BY <1>10, Blocks DEF LoadPtr, MemOK, TypeOK, ReaderOK
    <3> QED
      BY <3>1, Blocks, Constants DEF MemOK
  <2>2. UsedIn(h) \in Int
    BY <2>1 DEF UsedIn, Smaller
  <2>3. sum' \in 0..Word - 1
    BY <1>4, <1>10, <2>2, PlusIs DEF LoadPtr
  <2> QED
    BY <1>10, <2>3 DEF LoadPtr, MemOK, TypeOK
<1>11. CASE LoadSpaceUsed
  <2>1. sum' \in 0..Word - 1
    BY <1>4, <1>11, PlusIs DEF LoadSpaceUsed
  <2> QED
    BY <1>11, <2>1 DEF LoadSpaceUsed, MemOK, TypeOK
<1>12. CASE Return
  BY <1>4, <1>5, <1>12 DEF Return, MemOK, TypeOK
<1> QED
  BY <1>6, <1>7, <1>8, <1>9, <1>10, <1>11, <1>12 DEF Reader

\* Every step of the owner.
LEMMA OwnerMem ==
  ASSUME MemOK, Owner
  PROVE  MemOK'
BY AlignedMem, RetireBlockMem, AddSpaceAllocatedMem, SetRangeMem, StoreHeadMem, FromNewBlockMem, MaybeStringMem,
   RetireStringMem, PlaceStringMem, CorrectMem, StoreStringMem, StoreUnusedMem DEF Owner

-------------------------------------------------------------------------------
(* What is accounted for. *)

TermsOK ==
  InStrings \in Nat /\ InBlock \in Nat /\ CountedTwice \in Nat /\ spaceUsed \in Int /\ used \in Nat

\* The terms are numbers, and none is below zero,
LEMMA Terms == MemOK => TermsOK
<1> SUFFICES ASSUME MemOK PROVE TermsOK
  OBVIOUS
<1>1. CountedTwice \in Nat
  BY StringIs DEF MemOK, CountedTwice
<1>2. InStrings \in Nat
  <2>1. CASE stringBlock = 0
    BY <2>1 DEF InStrings
  <2>2. CASE stringBlock # 0
    <3>1. effective_size(stringBlock) \in Nat /\ unused \in Nat /\ unused <= effective_size(stringBlock)
      BY <2>2, StringBlocks, StringIs DEF MemOK, StringsOK, TypeOK
    <3> QED
      BY <3>1 DEF InStrings
  <2> QED
    BY <2>1, <2>2
<1>3. InBlock \in Nat
  <2>1. CASE opc \in {"allocated", "range", "head"} \/ head = 0
    BY <2>1 DEF InBlock
  <2>2. CASE ~(opc \in {"allocated", "range", "head"} \/ head = 0)
    <3>1. at.offset \in Nat /\ at.offset >= kBlockHeaderSize
      BY <2>2, Blocks DEF MemOK, PlaceOK
    <3> QED
      BY <2>2, <3>1, Constants DEF InBlock
  <2> QED
    BY <2>1, <2>2
<1> QED
  BY <1>1, <1>2, <1>3, Constants DEF MemOK, TypeOK, TermsOK

\* after a step as well.
LEMMA TermsNext == MemOK' => TermsOK'
BY Terms, PTL

\* A step that moves e bytes from the other terms to space_used_.
LEMMA AccountsMove ==
  ASSUME MemOK, Accounts, MemOK', NEW e \in Int, Same(spaceUsed', spaceUsed + e),
         InStrings' + InBlock' + e - used' - CountedTwice' = InStrings + InBlock - used - CountedTwice
  PROVE  Accounts'
<1>1. PICK a \in Int, b \in Int, u \in Int, v \in Int, r \in Int, s \in Int :
        /\ a = InStrings + InBlock /\ b = InStrings' + InBlock' /\ u = spaceUsed /\ v = spaceUsed'
        /\ r = used + CountedTwice /\ s = used' + CountedTwice'
  <2>1. TermsOK /\ TermsOK'
    BY Terms, TermsNext
  <2>2. /\ InStrings + InBlock \in Int /\ InStrings' + InBlock' \in Int /\ spaceUsed \in Int
        /\ spaceUsed' \in Int /\ used + CountedTwice \in Int /\ used' + CountedTwice' \in Int
    BY <2>1 DEF TermsOK
  <2> QED
    BY <2>2
<1>2. Same(a + u, r) /\ Same(v, u + e) /\ b + e - s = a - r
  <2>1. InStrings \in Int /\ InBlock \in Int /\ CountedTwice \in Int /\ used \in Int
        /\ InStrings' \in Int /\ InBlock' \in Int /\ CountedTwice' \in Int /\ used' \in Int
    BY Terms, TermsNext DEF TermsOK
  <2>2. b + e - s = InStrings' + InBlock' + e - used' - CountedTwice'
    BY <1>1, <2>1
  <2>3. a - r = InStrings + InBlock - used - CountedTwice
    BY <1>1, <2>1
  <2> QED
    BY <1>1, <2>2, <2>3 DEF Accounts
<1>3. Same(b + v, b + (u + e))
  <2>1. Same(b, b) /\ u + e \in Int
    BY SameItself
  <2> QED
    BY <1>2, <2>1, SameSum
<1>4. PICK d \in Int : d = s - r
  OBVIOUS
<1>5. Same((a + u) + d, r + d)
  <2>1. Same(d, d) /\ a + u \in Int
    BY SameItself
  <2> QED
    BY <1>2, <2>1, SameSum
<1>6. (a + u) + d = b + (u + e) /\ r + d = s
  BY <1>2, <1>4
<1>7. Same(b + v, s)
  BY <1>3, <1>5, <1>6, SameOn
<1> QED
  BY <1>1, <1>7 DEF Accounts

\* A step that leaves space_used_ moves nothing to it.
LEMMA Unmoved ==
  ASSUME MemOK, spaceUsed' = spaceUsed
  PROVE  Same(spaceUsed', spaceUsed + 0)
<1>1. spaceUsed \in Int /\ spaceUsed + 0 = spaceUsed
  BY Terms DEF TermsOK
<1> QED
  BY <1>1, SameItself

\* The terms add up to what is used while blocks are exchanged,
LEMMA BlockAccounts ==
  ASSUME MemOK, Accounts, MemOK',
         \/ \E n \in ObjectSizes : AllocateAligned(n) \/ RetireBlock(n)
         \/ AddSpaceAllocated \/ SetRange \/ StoreHead \/ AllocateFromNewBlock
  PROVE  Accounts'
<1>1. /\ kBlockHeaderSize \in Nat /\ at.offset \in Nat /\ want \in Nat /\ used \in Nat
      /\ InStrings \in Nat /\ InBlock \in Nat /\ CountedTwice \in Nat /\ spaceUsed \in Int
  BY Constants, Blocks, Terms DEF MemOK, TypeOK, TermsOK
<1>2. ASSUME NEW n \in ObjectSizes, AllocateAligned(n) PROVE Accounts'
  <2>1. InBlock' = InBlock + n /\ InStrings' = InStrings /\ CountedTwice' = CountedTwice /\ used' = used + n
    <3>1. n \in Nat /\ at'.offset = at.offset + n /\ head # 0 /\ head' = head /\ opc = "idle" /\ opc' = "idle"
      BY <1>2, Constants, Blocks DEF AllocateAligned, owner, Fits, Bumped, MemOK
    <3>2. InBlock' = InBlock + n
      BY <1>1, <3>1 DEF InBlock
    <3> QED
      BY <1>2, <3>1, <3>2 DEF AllocateAligned, InStrings, CountedTwice, effective_size
  <2>2. Same(spaceUsed', spaceUsed + 0)
    BY <1>2, Unmoved DEF AllocateAligned
  <2>3. n \in Nat
    BY Constants
  <2>4. InStrings' + InBlock' + 0 - used' - CountedTwice' = InStrings + InBlock - used - CountedTwice
    BY <1>1, <2>1, <2>3
  <2> QED
    BY <2>2, <2>4, AccountsMove
<1>3. ASSUME NEW n \in ObjectSizes, RetireBlock(n) PROVE Accounts'
  <2>1. /\ InBlock' = 0 /\ InStrings' = InStrings /\ CountedTwice' = CountedTwice /\ used' = used
    BY <1>3 DEF RetireBlock, InBlock, InStrings, CountedTwice, effective_size
  <2>2. Same(spaceUsed', spaceUsed + InBlock)
    <3>1. CASE head = 0
      <4>1. InBlock = 0
        BY <3>1 DEF InBlock
      <4> QED
        BY <1>3, <3>1, <4>1, Unmoved DEF RetireBlock
    <3>2. CASE head # 0
      <4>1. InBlock = at.offset - kBlockHeaderSize
        BY <1>3, <3>2 DEF RetireBlock, InBlock
      <4>2. spaceUsed' = Plus(spaceUsed, at.offset - kBlockHeaderSize)
        BY <1>3, <3>2 DEF RetireBlock
      <4> QED
        <5>1. at.offset - kBlockHeaderSize \in Int
          BY <1>1
        <5> QED
          BY <1>1, <4>1, <4>2, <5>1, PlusIs
    <3> QED
      BY <3>1, <3>2
  <2>3. InStrings' + InBlock' + InBlock - used' - CountedTwice' = InStrings + InBlock - used - CountedTwice
    BY <1>1, <2>1
  <2> QED
    BY <1>1, <2>2, <2>3, AccountsMove
<1>4. ASSUME AddSpaceAllocated \/ SetRange \/ StoreHead PROVE Accounts'
  <2>1. InBlock' = InBlock /\ InStrings' = InStrings /\ CountedTwice' = CountedTwice /\ used' = used
        /\ spaceUsed' = spaceUsed
    <3>1. CASE AddSpaceAllocated
      BY <3>1 DEF AddSpaceAllocated, InBlock, InStrings, CountedTwice, effective_size
    <3>2. CASE SetRange
      BY <3>2 DEF SetRange, InBlock, InStrings, CountedTwice, effective_size
    <3>3. CASE StoreHead
      <4>1. at.offset = kBlockHeaderSize
        BY <3>3 DEF MemOK, PlaceOK, StoreHead
      <4> QED
        BY <1>1, <3>3, <4>1 DEF StoreHead, InBlock, InStrings, CountedTwice, effective_size
    <3> QED
      BY <1>4, <3>1, <3>2, <3>3
  <2>2. InStrings' + InBlock' + 0 - used' - CountedTwice' = InStrings + InBlock - used - CountedTwice
    BY <1>1, <2>1
  <2> QED
    BY <2>1, <2>2, Unmoved, AccountsMove
<1>5. ASSUME AllocateFromNewBlock PROVE Accounts'
  <2>1. /\ at.offset = kBlockHeaderSize /\ at'.offset = kBlockHeaderSize + want /\ head # 0 /\ head' = head
        /\ opc = "bump" /\ opc' = "idle"
    BY <1>5, Blocks DEF AllocateFromNewBlock, Bumped, MemOK, PlaceOK
  <2>2. InBlock = 0 /\ InBlock' = want
    BY <1>1, <2>1 DEF InBlock
  <2>3. InStrings' = InStrings /\ CountedTwice' = CountedTwice /\ used' = used + want /\ spaceUsed' = spaceUsed
    BY <1>5 DEF AllocateFromNewBlock, InStrings, CountedTwice, effective_size
  <2>4. InStrings' + InBlock' + 0 - used' - CountedTwice' = InStrings + InBlock - used - CountedTwice
    BY <1>1, <2>2, <2>3
  <2> QED
    BY <2>3, <2>4, Unmoved, AccountsMove
<1> QED
  BY <1>2, <1>3, <1>4, <1>5

\* and while string blocks are, but for what is counted twice.
LEMMA StringAccounts ==
  ASSUME MemOK, Accounts, MemOK',
         \/ MaybeAllocateString \/ RetireStringBlock \/ PlaceStringBlock
         \/ CorrectSpaceUsed \/ StoreStringBlock \/ StoreUnused
  PROVE  Accounts'
<1>1. /\ kBlockHeaderSize \in Nat /\ at.offset \in Nat /\ used \in Nat /\ unused \in Nat /\ StringSize \in Nat
      /\ InStrings \in Nat /\ InBlock \in Nat /\ CountedTwice \in Nat /\ spaceUsed \in Int
      /\ (stringBlock # 0 => effective_size(stringBlock) \in Nat)
  BY Constants, Blocks, Terms, StringBlocks, StringIs DEF MemOK, TypeOK, TermsOK
<1>2. ASSUME MaybeAllocateString PROVE Accounts'
  <2>1. stringBlock # 0 /\ opc = "idle" /\ opc' = "idle" /\ stringBlock' = stringBlock
        /\ unused' = unused - StringSize /\ effective_size(stringBlock)' = effective_size(stringBlock)
    BY <1>2 DEF MaybeAllocateString, owner, MemOK, StringsOK, effective_size
  <2>2. InStrings' = InStrings + StringSize
    BY <1>1, <2>1 DEF InStrings
  <2>3. InBlock' = InBlock /\ CountedTwice' = CountedTwice /\ used' = used + StringSize /\ spaceUsed' = spaceUsed
    BY <1>2 DEF MaybeAllocateString, owner, InBlock, CountedTwice
  <2>4. InStrings' + InBlock' + 0 - used' - CountedTwice' = InStrings + InBlock - used - CountedTwice
    BY <1>1, <2>2, <2>3
  <2> QED
    BY <2>3, <2>4, Unmoved, AccountsMove
<1>3. ASSUME RetireStringBlock PROVE Accounts'
  <2>1. RetiredBytes = InStrings
    BY <1>1, <1>3 DEF RetireStringBlock, RetiredBytes, InStrings
  <2>2. Same(spaceUsed', spaceUsed + InStrings)
    BY <1>1, <1>3, <2>1, PlusIs DEF RetireStringBlock
  <2>3. InStrings' = 0 /\ InBlock' = InBlock /\ CountedTwice' = CountedTwice /\ used' = used
    BY <1>3 DEF RetireStringBlock, InStrings, InBlock, CountedTwice
  <2>4. InStrings' + InBlock' + InStrings - used' - CountedTwice' = InStrings + InBlock - used - CountedTwice
    BY <1>1, <2>3
  <2> QED
    BY <1>1, <2>2, <2>4, AccountsMove
<1>4. ASSUME PlaceStringBlock PROVE Accounts'
  <2>1. PICK n \in Nat : n = NextSize(stringBlock)
    BY StringIs DEF MemOK
  <2>2. InStrings = 0 /\ InStrings' = 0 /\ CountedTwice = 0 /\ used' = used /\ spaceUsed' = spaceUsed
        /\ head' = head /\ stringBlock' = stringBlock
    BY <1>4 DEF PlaceStringBlock, InStrings, CountedTwice
  <2>3. NextSize(stringBlock)' = n
    <3>1. PICK s : strings' = Append(strings, s)
      BY <1>4 DEF PlaceStringBlock
    <3>2. stringBlock # 0 => strings'[stringBlock] = strings[stringBlock]
      BY <3>1, StringBlocks DEF MemOK
    <3> QED
      BY <2>1, <2>2, <3>2 DEF NextSize
  <2>4. InBlock' - CountedTwice' = InBlock
    <3>1. CASE Fits(n)
      <4>1. at'.offset = at.offset + n /\ head # 0 /\ opc = "fallback" /\ opc' = "correct"
        BY <1>4, <2>1, <3>1, Blocks DEF PlaceStringBlock, Fits, Bumped, MemOK
      <4>2. InBlock = at.offset - kBlockHeaderSize /\ InBlock' = at'.offset - kBlockHeaderSize
            /\ CountedTwice' = n
        BY <2>2, <2>3, <4>1 DEF InBlock, CountedTwice
      <4> QED
        BY <1>1, <4>1, <4>2
    <3>2. CASE ~Fits(n)
      <4>1. at' = at /\ opc = "fallback" /\ opc' = "string"
        BY <1>4, <2>1, <3>2 DEF PlaceStringBlock
      <4>2. InBlock' = InBlock /\ CountedTwice' = 0
        BY <2>2, <4>1 DEF InBlock, CountedTwice
      <4> QED
        BY <1>1, <4>2
    <3> QED
      BY <3>1, <3>2
  <2>5. InStrings' + InBlock' + 0 - used' - CountedTwice' = InStrings + InBlock - used - CountedTwice
    <3>1. PICK b \in Int, c \in Int, a \in Int, u \in Int :
            b = InBlock' /\ c = CountedTwice' /\ a = InBlock /\ u = used
      <4>1. InBlock' \in Int /\ CountedTwice' \in Int
        BY TermsNext DEF TermsOK
      <4> QED
        BY <1>1, <4>1
    <3>2. b - c = a
      BY <2>4, <3>1
    <3>3. 0 + b + 0 - u - c = 0 + a - u - 0
      BY <3>2
    <3> QED
      BY <2>2, <3>1, <3>3
  <2> QED
    BY <2>2, <2>5, Unmoved, AccountsMove
<1>5. ASSUME CorrectSpaceUsed PROVE Accounts'
  <2>1. CountedTwice = NextSize(stringBlock) /\ CountedTwice' = 0
        /\ InStrings = 0 /\ InStrings' = 0 /\ InBlock' = InBlock /\ used' = used
    BY <1>5 DEF CorrectSpaceUsed, CountedTwice, InStrings, InBlock
  <2>2. Same(spaceUsed', spaceUsed + (-CountedTwice))
    <3>1. Same(spaceUsed', spaceUsed - CountedTwice)
      BY <1>1, <1>5, <2>1, MinusIs DEF CorrectSpaceUsed
    <3>2. spaceUsed - CountedTwice = spaceUsed + (-CountedTwice)
      BY <1>1
    <3> QED
      BY <3>1, <3>2
  <2>3. InStrings' + InBlock' + (-CountedTwice) - used' - CountedTwice' = InStrings + InBlock - used - CountedTwice
    BY <1>1, <2>1
  <2>4. -CountedTwice \in Int
    BY <1>1
  <2> QED
    BY <2>2, <2>3, <2>4, AccountsMove
<1>6. ASSUME StoreStringBlock PROVE Accounts'
  <2>1. CountedTwice' = CountedTwice /\ InStrings' = InStrings /\ InBlock' = InBlock /\ used' = used
        /\ spaceUsed' = spaceUsed
    BY <1>6 DEF StoreStringBlock, CountedTwice, InStrings, InBlock
  <2>2. InStrings' + InBlock' + 0 - used' - CountedTwice' = InStrings + InBlock - used - CountedTwice
    BY <1>1, <2>1
  <2> QED
    BY <2>1, <2>2, Unmoved, AccountsMove
<1>7. ASSUME StoreUnused PROVE Accounts'
  <2>1. /\ stringBlock # 0 /\ opc = "unused" /\ opc' = "idle" /\ stringBlock' = stringBlock
        /\ unused' = effective_size(stringBlock) - StringSize
        /\ effective_size(stringBlock)' = effective_size(stringBlock)
    BY <1>7 DEF StoreUnused, UnusedOf, MemOK, StringsOK, effective_size
  <2>2. InStrings = 0 /\ InStrings' = StringSize
    BY <1>1, <2>1 DEF InStrings
  <2>3. InBlock' = InBlock /\ CountedTwice' = CountedTwice /\ used' = used + StringSize /\ spaceUsed' = spaceUsed
    BY <1>7 DEF StoreUnused, InBlock, CountedTwice
  <2>4. InStrings' + InBlock' + 0 - used' - CountedTwice' = InStrings + InBlock - used - CountedTwice
    BY <1>1, <2>2, <2>3
  <2> QED
    BY <2>3, <2>4, Unmoved, AccountsMove
<1> QED
  BY <1>2, <1>3, <1>4, <1>5, <1>6, <1>7

\* Every step of the owner.
LEMMA OwnerAccounts ==
  ASSUME MemOK, Accounts, Owner
  PROVE  Accounts'
BY OwnerMem, BlockAccounts, StringAccounts DEF Owner

-------------------------------------------------------------------------------
(* What has been allocated. *)

\* The order of a sum does not matter.
LEMMA PlusCommutes == ASSUME NEW a \in Int, NEW b \in Int PROVE Plus(a, b) = Plus(b, a)
<1>1. a + b = b + a
  OBVIOUS
<1> QED
  BY <1>1 DEF Plus

\* Nothing added to a word.
LEMMA PlusNothing == ASSUME NEW a \in 0..Word - 1 PROVE Plus(0, a) = a
<1>1. PICK w \in Nat \ {0} : w = Word
  BY Constants
<1>2. a \in 0..w - 1 /\ 0 + a = a
  BY <1>1
<1>3. a % w = a
  BY <1>2
<1> QED
  BY <1>1, <1>2, <1>3 DEF Plus

\* Adding to a sum of two sums is adding to either of them.
LEMMA PlusInside ==
  ASSUME NEW a \in Int, NEW b \in Int, NEW c \in Int
  PROVE  Plus(Plus(a, b), c) = Plus(Plus(c, a), b) /\ Plus(Plus(a, b), c) = Plus(a, Plus(c, b))
<1>1. Plus(a, b) \in Int /\ Plus(b, a) \in Int /\ Plus(c, a) \in Int
  <2>1. Plus(a, b) \in 0..Word - 1 /\ Plus(b, a) \in 0..Word - 1 /\ Plus(c, a) \in 0..Word - 1
    BY PlusIs
  <2> QED
    BY <2>1, Constants
<1>2. Plus(Plus(a, b), c) = Plus(c, Plus(a, b)) /\ Plus(Plus(c, a), b) = Plus(b, Plus(c, a))
      /\ Plus(a, b) = Plus(b, a)
  BY <1>1, PlusCommutes
<1>3. Plus(c, Plus(a, b)) = Plus(a, Plus(c, b)) /\ Plus(b, Plus(c, a)) = Plus(c, Plus(b, a))
  BY PlusMoves
<1> QED
  BY <1>2, <1>3

\* The bytes of string blocks on the heap, as a function.
LEMMA HeapIs ==
  ASSUME TypeOK
  PROVE  OnHeap \in [1..Len(strings) -> Nat]
<1>1. \A i \in DOMAIN strings : strings[i].size \in Nat
  BY StringBlocks
<1> QED
  BY <1>1, StringBlocks DEF OnHeap

\* A new block adds its size,
LEMMA AddSpaceTotals ==
  ASSUME MemOK, Totals, AddSpaceAllocated
  PROVE  Totals'
<1>1. PICK n \in Nat : blocks' = Append(blocks, n) /\ spaceAllocated' = Plus(spaceAllocated, n)
  <2>1. SizeOf(head) \in Nat /\ want \in Nat
    BY Blocks DEF MemOK, TypeOK, SizeOf
  <2>2. BlockSize(SizeOf(head), want) \in Nat
    BY <2>1, BlockSizeIs
  <2> QED
    BY <2>2 DEF AddSpaceAllocated
<1>2. PICK m \in Nat : m = Len(blocks) /\ blocks \in [1..m -> Nat]
  BY Blocks DEF MemOK
<1>3. blocks' \in [1..(m + 1) -> Nat] /\ (\A i \in 1..m : blocks[i] = blocks'[i]) /\ blocks'[m + 1] = n
  <2>1. blocks \in Seq(Nat)
    BY DEF MemOK, TypeOK
  <2>2. /\ Append(blocks, n) \in Seq(Nat) /\ Len(Append(blocks, n)) = m + 1
        /\ \A i \in 1..m : Append(blocks, n)[i] = blocks[i]
        /\ Append(blocks, n)[m + 1] = n
    BY <1>2, <2>1, AppendProperties
  <2>3. Append(blocks, n) \in [1..(m + 1) -> Nat]
    BY <2>2, LenProperties
  <2> QED
    BY <1>1, <2>2, <2>3
<1>4. /\ FoldFunction(Plus, 0, blocks) \in 0..Word - 1
      /\ FoldFunction(Plus, 0, blocks') = Plus(n, FoldFunction(Plus, 0, blocks))
  BY <1>2, <1>3, SumGrows
<1>5. OnHeap' = OnHeap
  BY DEF AddSpaceAllocated, OnHeap
<1>6. FoldFunction(Plus, 0, OnHeap) \in 0..Word - 1
  BY HeapIs, SumIs, StringBlocks DEF MemOK
<1>7. PICK a \in Int, b \in Int : a = FoldFunction(Plus, 0, blocks) /\ b = FoldFunction(Plus, 0, OnHeap)
  BY <1>4, <1>6, Constants
<1>8. spaceAllocated = Plus(a, b)
  BY <1>7 DEF Totals
<1>9. spaceAllocated' = Plus(Plus(n, a), b)
  BY <1>1, <1>8, PlusInside
<1> QED
  BY <1>4, <1>5, <1>7, <1>9 DEF Totals

\* a new string block its size on the heap and nothing in a block,
LEMMA PlaceStringTotals ==
  ASSUME MemOK, Totals, PlaceStringBlock
  PROVE  Totals'
<1>1. PICK n \in Nat : n = NextSize(stringBlock) /\ n >= MinStringBlock
  BY StringIs DEF MemOK
<1>2. PICK s : /\ strings' = Append(strings, s) /\ s \in [size : Nat, heap : BOOLEAN, next : Nat]
               /\ s.heap = ~Fits(n) /\ s.size = RoundedSize(n)
  <2>1. (~Fits(n)) \in BOOLEAN
    BY DEF Fits
  <2> DEFINE s == NewString(~Fits(n))
  <2>2. s \in [size : Nat, heap : BOOLEAN, next : Nat] /\ s.heap = ~Fits(n) /\ s.size = RoundedSize(n)
    BY <1>1, <2>1, NewStringIs DEF MemOK
  <2>3. strings' = Append(strings, s)
    BY <1>1 DEF PlaceStringBlock
  <2> QED
    BY <2>2, <2>3
<1>3. PICK m \in Nat : m = Len(strings) /\ OnHeap \in [1..m -> Nat]
  BY HeapIs, StringBlocks DEF MemOK
<1>4. DOMAIN strings = 1..m /\ DOMAIN (strings') = 1..(m + 1)
      /\ (\A i \in 1..m : strings'[i] = strings[i]) /\ strings'[m + 1] = s
  <2>1. strings \in Seq([size : Nat, heap : BOOLEAN, next : Nat])
    BY DEF MemOK, TypeOK
  <2>2. /\ Append(strings, s) \in Seq([size : Nat, heap : BOOLEAN, next : Nat])
        /\ Len(Append(strings, s)) = m + 1
        /\ \A i \in 1..m : Append(strings, s)[i] = strings[i]
        /\ Append(strings, s)[m + 1] = s
    BY <1>2, <1>3, <2>1, AppendProperties
  <2>3. DOMAIN Append(strings, s) = 1..(m + 1)
    BY <2>2, LenProperties
  <2> QED
    BY <1>2, <1>3, <2>2, <2>3, StringBlocks DEF MemOK
<1>5. OnHeap' = [i \in 1..(m + 1) |-> IF strings'[i].heap THEN strings'[i].size ELSE 0]
  BY <1>4 DEF OnHeap
<1>6. /\ OnHeap' \in [1..(m + 1) -> Nat] /\ (\A i \in 1..m : OnHeap[i] = OnHeap'[i])
      /\ OnHeap'[m + 1] = IF Fits(n) THEN 0 ELSE RoundedSize(n)
  <2>1. \A i \in 1..m : OnHeap[i] = (IF strings[i].heap THEN strings[i].size ELSE 0)
    BY <1>4 DEF OnHeap
  <2>2. \A i \in 1..m : OnHeap'[i] = OnHeap[i]
    BY <1>4, <1>5, <2>1
  <2>3. OnHeap'[m + 1] = IF Fits(n) THEN 0 ELSE RoundedSize(n)
    BY <1>2, <1>4, <1>5
  <2>4. \A i \in 1..(m + 1) : OnHeap'[i] \in Nat
    <3>1. RoundedSize(n) \in Nat
      BY <1>1, Rounded
    <3>2. \A i \in 1..(m + 1) : i \in 1..m \/ i = m + 1
      OBVIOUS
    <3>3. \A i \in 1..m : OnHeap[i] \in Nat
      BY <1>3
    <3> QED
      BY <2>2, <2>3, <3>1, <3>2, <3>3
  <2> QED
    BY <1>5, <2>2, <2>3, <2>4
<1>7. PICK e \in Nat : e = OnHeap'[m + 1] /\ e = IF Fits(n) THEN 0 ELSE RoundedSize(n)
  <2>1. m + 1 \in 1..(m + 1)
    OBVIOUS
  <2> QED
    BY <1>6, <2>1
<1>8. /\ FoldFunction(Plus, 0, OnHeap) \in 0..Word - 1
      /\ FoldFunction(Plus, 0, OnHeap') = Plus(e, FoldFunction(Plus, 0, OnHeap))
  BY <1>3, <1>6, <1>7, SumGrows
<1>9. FoldFunction(Plus, 0, blocks) \in 0..Word - 1
  BY Blocks, SumIs DEF MemOK
<1>10. PICK a \in Int, b \in 0..Word - 1 :
         a = FoldFunction(Plus, 0, blocks) /\ b = FoldFunction(Plus, 0, OnHeap) /\ b \in Int
  BY <1>8, <1>9, Constants
<1>11. spaceAllocated = Plus(a, b)
  BY <1>10 DEF Totals
<1>12. spaceAllocated' = Plus(a, Plus(e, b))
  <2>1. CASE Fits(n)
    <3>1. spaceAllocated' = spaceAllocated /\ e = 0
      BY <1>1, <1>7, <2>1 DEF PlaceStringBlock
    <3> QED
      BY <1>10, <1>11, <3>1, PlusNothing
  <2>2. CASE ~Fits(n)
    <3>1. spaceAllocated' = Plus(spaceAllocated, e)
      BY <1>1, <1>7, <2>2 DEF PlaceStringBlock, HeapBytes
    <3>2. e \in Int
      OBVIOUS
    <3>3. Plus(Plus(a, b), e) = Plus(a, Plus(e, b))
      BY <1>10, <3>2, PlusInside
    <3> QED
      BY <1>11, <3>1, <3>3
  <2> QED
    BY <2>1, <2>2
<1>13. blocks' = blocks
  BY DEF PlaceStringBlock
<1> QED
  BY <1>8, <1>10, <1>12, <1>13 DEF Totals

\* and nothing else is added.
LEMMA OwnerTotals ==
  ASSUME MemOK, Totals, Owner
  PROVE  Totals'
<1>1. CASE AddSpaceAllocated
  BY <1>1, AddSpaceTotals
<1>2. CASE PlaceStringBlock
  BY <1>2, PlaceStringTotals
<1>3. CASE ~AddSpaceAllocated /\ ~PlaceStringBlock
  <2>1. UNCHANGED <<blocks, strings, spaceAllocated>>
    BY <1>3 DEF Owner, AllocateAligned, RetireBlock, SetRange, StoreHead, AllocateFromNewBlock,
                MaybeAllocateString, RetireStringBlock, CorrectSpaceUsed, StoreStringBlock, StoreUnused
  <2> QED
    BY <2>1 DEF Totals, OnHeap
<1> QED
  BY <1>1, <1>2, <1>3

-------------------------------------------------------------------------------
(* What a reader has added up. *)

\* Only a switch of blocks takes the owner away from "idle" under a reader.
LEMMA SteadyOwner ==
  ASSUME ReaderOK, Owner, rpc' # "idle", ~switched'
  PROVE  (\E n \in ObjectSizes : AllocateAligned(n)) \/ MaybeAllocateString
<1>1. ASSUME opc # "idle" PROVE FALSE
  <2>1. UNCHANGED <<rpc, switched>>
    BY <1>1 DEF Owner, AllocateAligned, RetireBlock, AddSpaceAllocated, SetRange, StoreHead,
                AllocateFromNewBlock, MaybeAllocateString, RetireStringBlock, PlaceStringBlock,
                CorrectSpaceUsed, StoreStringBlock, StoreUnused, reader
  <2> QED
    BY <1>1, <2>1 DEF ReaderOK
<1>2. ASSUME NEW n \in ObjectSizes, RetireBlock(n) PROVE FALSE
  BY <1>2 DEF RetireBlock
<1>3. ~RetireStringBlock
  BY DEF RetireStringBlock
<1> QED
  BY <1>1, <1>2, <1>3 DEF Owner, AddSpaceAllocated, SetRange, StoreHead, AllocateFromNewBlock,
                          PlaceStringBlock, CorrectSpaceUsed, StoreStringBlock, StoreUnused

\* What the owner gives out meanwhile adds to what is used and to one term.
LEMMA SteadyTerms ==
  ASSUME MemOK, (\E n \in ObjectSizes : AllocateAligned(n)) \/ MaybeAllocateString
  PROVE  /\ UNCHANGED <<head, stringBlock, reader, switched>> /\ opc' = "idle"
         /\ \E d \in Nat, e \in Nat : InStrings' = InStrings + d /\ InBlock' = InBlock + e /\ used' = used + d + e
<1>1. /\ kBlockHeaderSize \in Nat /\ at.offset \in Nat /\ used \in Nat /\ unused \in Nat /\ StringSize \in Nat
      /\ InStrings \in Nat /\ InBlock \in Nat
      /\ (stringBlock # 0 => effective_size(stringBlock) \in Nat)
  BY Constants, Blocks, Terms, StringBlocks, StringIs DEF MemOK, TypeOK, TermsOK
<1>2. ASSUME NEW n \in ObjectSizes, AllocateAligned(n)
      PROVE  n \in Nat /\ InStrings' = InStrings + 0 /\ InBlock' = InBlock + n /\ used' = used + 0 + n
  <2>1. n \in Nat /\ at'.offset = at.offset + n /\ head # 0 /\ head' = head /\ opc = "idle" /\ opc' = "idle"
    BY <1>2, Constants, Blocks DEF AllocateAligned, owner, Fits, Bumped, MemOK
  <2>2. InBlock' = InBlock + n
    BY <1>1, <2>1 DEF InBlock
  <2>3. InStrings' = InStrings
    BY <1>2 DEF AllocateAligned, owner, InStrings, effective_size
  <2> QED
    BY <1>1, <1>2, <2>1, <2>2, <2>3 DEF AllocateAligned
<1>3. ASSUME MaybeAllocateString
      PROVE  InStrings' = InStrings + StringSize /\ InBlock' = InBlock + 0 /\ used' = used + StringSize + 0
  <2>1. stringBlock # 0 /\ opc = "idle" /\ opc' = "idle" /\ stringBlock' = stringBlock
        /\ unused' = unused - StringSize /\ effective_size(stringBlock)' = effective_size(stringBlock)
    BY <1>3 DEF MaybeAllocateString, owner, MemOK, StringsOK, effective_size
  <2>2. InStrings' = InStrings + StringSize
    BY <1>1, <2>1 DEF InStrings
  <2>3. InBlock' = InBlock
    BY <1>3 DEF MaybeAllocateString, owner, InBlock
  <2> QED
    BY <1>1, <1>3, <2>2, <2>3 DEF MaybeAllocateString
<1>4. \E d \in Nat, e \in Nat : InStrings' = InStrings + d /\ InBlock' = InBlock + e /\ used' = used + d + e
  <2>1. CASE \E n \in ObjectSizes : AllocateAligned(n)
    <3>1. PICK n \in ObjectSizes : AllocateAligned(n)
      BY <2>1
    <3>2. n \in Nat /\ 0 \in Nat
      BY <1>2, <3>1
    <3> QED
      BY <1>2, <3>1, <3>2
  <2>2. CASE MaybeAllocateString
    <3>1. 0 \in Nat
      OBVIOUS
    <3> QED
      BY <1>1, <1>3, <2>2, <3>1
  <2> QED
    BY <2>1, <2>2
<1> QED
  BY <1>4 DEF AllocateAligned, MaybeAllocateString, owner

\* The owner leaves what a reader has added up true.
LEMMA OwnerReader ==
  ASSUME MemOK, ReaderOK, Owner
  PROVE  ReaderOK'
<1>1. UNCHANGED <<rpc, sb, h, sum, usedBefore>>
  BY DEF Owner, AllocateAligned, RetireBlock, AddSpaceAllocated, SetRange, StoreHead, AllocateFromNewBlock,
         MaybeAllocateString, RetireStringBlock, PlaceStringBlock, CorrectSpaceUsed, StoreStringBlock,
         StoreUnused, reader
<1>2. CASE rpc' = "idle" \/ switched'
  BY <1>1, <1>2 DEF ReaderOK
<1>3. CASE rpc' # "idle" /\ ~switched'
  <2>1. (\E n \in ObjectSizes : AllocateAligned(n)) \/ MaybeAllocateString
    BY <1>3, SteadyOwner
  <2>2. UNCHANGED <<head, stringBlock, reader, switched>> /\ opc' = "idle"
    BY <2>1, SteadyTerms
  <2>3. PICK d \in Nat, e \in Nat :
          InStrings' = InStrings + d /\ InBlock' = InBlock + e /\ used' = used + d + e
    BY <2>1, SteadyTerms
  <2>4. PICK i \in Nat, b \in Nat, u \in Nat, v \in Nat, s \in Int :
          i = InStrings /\ b = InBlock /\ u = used /\ v = usedBefore /\ s = sum
    <3>1. InStrings \in Nat /\ InBlock \in Nat /\ used \in Nat /\ usedBefore \in Nat /\ sum \in Int
      BY Terms, Constants DEF TermsOK, MemOK, TypeOK
    <3> QED
      BY <3>1
  <2>5. v <= u /\ v <= u + d + e
    <3>1. v <= u
      BY <1>1, <1>3, <2>2, <2>4 DEF ReaderOK
    <3> QED
      BY <3>1
  <2>6. rpc \in {"head", "ptr"} => \E n \in Nat : Same(sum, n) /\ n <= i + d /\ v + (i + d) <= (u + d + e) + n
    <3> SUFFICES ASSUME rpc \in {"head", "ptr"}
                 PROVE  \E n \in Nat : Same(sum, n) /\ n <= i + d /\ v + (i + d) <= (u + d + e) + n
      OBVIOUS
    <3>1. PICK n \in Nat : Same(sum, n) /\ n <= i /\ v + i <= u + n
      BY <1>1, <1>3, <2>2, <2>4 DEF ReaderOK
    <3>2. n <= i + d /\ v + (i + d) <= (u + d + e) + n
      BY <3>1
    <3> QED
      BY <3>1, <3>2
  <2>7. rpc = "total" => \E n \in Nat : Same(sum, n) /\ n <= (i + d) + (b + e)
                                        /\ v + (i + d) + (b + e) <= (u + d + e) + n
    <3> SUFFICES ASSUME rpc = "total"
                 PROVE  \E n \in Nat : Same(sum, n) /\ n <= (i + d) + (b + e)
                                       /\ v + (i + d) + (b + e) <= (u + d + e) + n
      OBVIOUS
    <3>1. PICK n \in Nat : Same(sum, n) /\ n <= i + b /\ v + i + b <= u + n
      BY <1>1, <1>3, <2>2, <2>4 DEF ReaderOK
    <3>2. n <= (i + d) + (b + e) /\ v + (i + d) + (b + e) <= (u + d + e) + n
      BY <3>1
    <3> QED
      BY <3>1, <3>2
  <2>8. rpc = "done" /\ h # 0 => v <= s /\ s <= u + d + e
    <3>1. rpc = "done" /\ h # 0 => v <= s /\ s <= u
      BY <1>1, <1>3, <2>2, <2>4 DEF ReaderOK
    <3> QED
      BY <3>1
  <2> QED
    BY <1>1, <1>3, <2>2, <2>3, <2>4, <2>5, <2>6, <2>7, <2>8 DEF ReaderOK
<1> QED
  BY <1>2, <1>3

\* A reader moves none of the owner's counters.
LEMMA ReaderUnmoved ==
  ASSUME MemOK, Accounts, Totals, ReaderOK, Reader
  PROVE  /\ Accounts' /\ Totals' /\ UNCHANGED <<mem, used, owner>>
         /\ InStrings' = InStrings /\ InBlock' = InBlock
<1>1. UNCHANGED <<mem, used, owner>>
  BY ReaderMem
<1> QED
  BY <1>1 DEF mem, owner, Accounts, Totals, InStrings, InBlock, CountedTwice, OnHeap, NextSize, effective_size

\* The third load completes the sum: space_used_ and the terms read before it
\* add up to what was used when the block was read, or to a little more.
LEMMA SumIsUsed ==
  ASSUME MemOK, Accounts, opc = "idle", usedBefore <= used,
         NEW n \in Nat, Same(sum, n), n <= InStrings + InBlock, usedBefore + InStrings + InBlock <= used + n
  PROVE  usedBefore <= Plus(sum, spaceUsed) /\ Plus(sum, spaceUsed) <= used
<1>1. MaxUsed < Word /\ Word \in Nat \ {0} /\ MaxUsed \in Nat
  BY SpaceSizesOK
<1>2. PICK i \in Int, b \in Int, u \in Nat, w \in Int, s \in Int, v \in Nat :
        /\ i = InStrings /\ b = InBlock /\ u = used /\ w = spaceUsed /\ s = sum /\ v = usedBefore
  <2>1. InStrings \in Int /\ InBlock \in Int /\ used \in Nat /\ usedBefore \in Nat /\ sum \in Int
        /\ spaceUsed \in Int
    BY <1>1, Terms DEF TermsOK, MemOK, TypeOK
  <2> QED
    BY <2>1
<1>3. Same(i + b + w, u)
  <2>1. CountedTwice = 0
    BY DEF CountedTwice
  <2> QED
    BY <1>2, <2>1 DEF Accounts
<1>4. PICK x \in Int : x = u - (i + b - n) /\ v <= x /\ x <= u
  <2>1. n <= i + b /\ v + i + b <= u + n
    BY <1>2
  <2>2. v <= u - (i + b - n) /\ u - (i + b - n) <= u
    BY <2>1
  <2> QED
    BY <2>2
<1>5. Same(s + w, x)
  <2>1. Same(s + w, n + w)
    <3>1. Same(w, w) /\ Same(s, n)
      BY <1>1, <1>2, SameItself
    <3> QED
      BY <1>1, <3>1, SameSum
  <2>2. PICK y \in Int : y = n - (i + b)
    OBVIOUS
  <2>3. Same((i + b + w) + y, u + y)
    <3>1. Same(y, y) /\ i + b + w \in Int
      BY <1>1, SameItself
    <3> QED
      BY <1>1, <1>3, <3>1, SameSum
  <2>4. (i + b + w) + y = n + w /\ u + y = x /\ s + w \in Int /\ n + w \in Int
    BY <1>4, <2>2
  <2> QED
    BY <1>1, <2>1, <2>3, <2>4, SameOn
<1>6. PICK z \in 0..Word - 1 : z = Plus(s, w) /\ Same(z, s + w)
  BY <1>1, PlusIs
<1>7. Same(z, x)
  <2>1. z \in Int /\ s + w \in Int
    BY <1>1
  <2> QED
    BY <1>1, <1>5, <1>6, <2>1, SameOn
<1>8. x \in 0..Word - 1
  <2>1. u <= MaxUsed
    BY <1>2 DEF MemOK, UsedOK
  <2> QED
    BY <1>1, <1>4, <2>1
<1>9. z = x
  BY <1>1, <1>7, <1>8, SameWord
<1> QED
  BY <1>2, <1>4, <1>6, <1>9

\* Each load adds what it should.
LEMMA ReaderReader ==
  ASSUME MemOK, Accounts, Totals, ReaderOK, Reader
  PROVE  ReaderOK'
<1>1. UNCHANGED <<mem, used, owner>> /\ InStrings' = InStrings /\ InBlock' = InBlock
  BY ReaderUnmoved
<1>2. head' = head /\ stringBlock' = stringBlock /\ opc' = opc /\ used' = used
  BY <1>1 DEF mem, owner
<1>3. InStrings \in Nat /\ InBlock \in Nat /\ used \in Nat /\ usedBefore \in Nat /\ sum \in Int
      /\ unused \in Nat
  BY Terms, Constants DEF TermsOK, MemOK, TypeOK
<1>4. CASE BeginSpaceUsed
  <2>1. rpc' = "block" /\ sum' = 0 /\ usedBefore' = used /\ switched' = (opc # "idle")
    BY <1>4 DEF BeginSpaceUsed
  <2>2. ~switched' => opc = "idle"
    BY <2>1, Zenon
  <2>3. used <= used
    BY <1>3
  <2> QED
    BY <1>2, <2>1, <2>2, <2>3 DEF ReaderOK
<1>5. CASE LoadStringBlock
  <2>1. CASE stringBlock = 0
    <3>1. rpc = "block" /\ rpc' = "head" /\ UNCHANGED <<h, sum, usedBefore, switched>>
      BY <1>5, <2>1 DEF LoadStringBlock
    <3>2. InStrings' = 0 /\ 0 \in Nat /\ Same(0, 0)
      BY <1>1, <2>1, SameItself DEF InStrings
    <3>3. ~switched => sum = 0 /\ usedBefore <= used /\ opc = "idle"
      BY <3>1 DEF ReaderOK
    <3>4. ~switched => Same(sum', 0) /\ 0 <= InStrings' /\ usedBefore' + InStrings' <= used' + 0
      BY <1>2, <1>3, <3>1, <3>2, <3>3
    <3> QED
      BY <1>2, <3>1, <3>2, <3>3, <3>4 DEF ReaderOK
  <2>2. CASE stringBlock # 0
    <3>1. rpc = "block" /\ rpc' = "unused" /\ sb' = stringBlock /\ UNCHANGED <<h, sum, usedBefore, switched>>
      BY <1>5, <2>2 DEF LoadStringBlock
    <3> QED
      BY <1>2, <2>2, <3>1 DEF ReaderOK
  <2> QED
    BY <2>1, <2>2
<1>6. CASE LoadUnused
  <2>1. rpc = "unused" /\ rpc' = "head" /\ sum' = Minus(effective_size(sb), unused)
        /\ UNCHANGED <<sb, h, usedBefore, switched>>
    BY <1>6 DEF LoadUnused
  <2>2. ASSUME ~switched
        PROVE  Same(sum', InStrings) /\ usedBefore <= used /\ opc = "idle"
    <3>1. sb # 0 /\ sb = stringBlock /\ opc = "idle" /\ usedBefore <= used
      BY <2>1, <2>2 DEF ReaderOK
    <3>2. effective_size(sb) \in Int
      BY <3>1, StringBlocks, StringIs DEF MemOK
    <3>3. InStrings = effective_size(sb) - unused
      BY <3>1 DEF InStrings
    <3>4. unused \in Int
      BY <1>3
    <3> QED
      BY <2>1, <3>1, <3>2, <3>3, <3>4, MinusIs
  <2>3. ~switched => Same(sum', InStrings) /\ InStrings <= InStrings'
                     /\ usedBefore' + InStrings' <= used' + InStrings
    BY <1>1, <1>2, <1>3, <2>1, <2>2
  <2> QED
    BY <1>2, <1>3, <2>1, <2>2, <2>3 DEF ReaderOK
<1>7. CASE LoadHead
  <2>1. rpc = "head" /\ h' = head /\ rpc' = (IF head = 0 THEN "done" ELSE "ptr")
        /\ UNCHANGED <<sb, sum, usedBefore, switched>>
    BY <1>7 DEF LoadHead
  <2> QED
    BY <1>1, <1>2, <2>1 DEF ReaderOK
<1>8. CASE LoadPtr
  <2>1. rpc = "ptr" /\ rpc' = "total" /\ sum' = Plus(sum, UsedIn(h)) /\ h # 0
        /\ UNCHANGED <<sb, h, usedBefore, switched>>
    BY <1>8 DEF LoadPtr, ReaderOK
  <2>2. ASSUME ~switched
        PROVE  /\ opc = "idle" /\ usedBefore <= used /\ h = head
               /\ \E n \in Nat : Same(sum', n) /\ n <= InStrings + InBlock
                                 /\ usedBefore + InStrings + InBlock <= used + n
    <3>1. opc = "idle" /\ usedBefore <= used /\ h = head
      BY <2>1, <2>2 DEF ReaderOK
    <3>2. UsedIn(h) = InBlock
      <4>1. head # 0 /\ at.block = head /\ at.offset >= kBlockHeaderSize /\ at.offset <= blocks[head]
        BY <2>1, <3>1 DEF MemOK, PlaceOK
      <4>2. at.offset \in Nat /\ blocks[head] \in Nat /\ kBlockHeaderSize \in Nat
        BY <4>1, Blocks, Constants DEF MemOK
      <4>3. UsedIn(h) = at.offset - kBlockHeaderSize
        BY <3>1, <4>1, <4>2 DEF UsedIn, Smaller
      <4> QED
        BY <3>1, <4>1, <4>3 DEF InBlock
    <3>3. PICK n \in Nat : Same(sum, n) /\ n <= InStrings /\ usedBefore + InStrings <= used + n
      BY <2>1, <2>2 DEF ReaderOK
    <3>4. Same(sum + InBlock, n + InBlock)
      <4>1. InBlock \in Int
        BY <1>3
      <4>2. Same(InBlock, InBlock)
        BY <4>1, SameItself
      <4> QED
        BY <1>3, <3>3, <4>1, <4>2, SameSum
    <3>5. Same(sum', sum + InBlock) /\ sum' \in Int
      <4>1. InBlock \in Int
        BY <1>3
      <4>2. Plus(sum, InBlock) \in 0..Word - 1 /\ Same(Plus(sum, InBlock), sum + InBlock)
        BY <1>3, <4>1, PlusIs
      <4> QED
        BY <2>1, <3>2, <4>2, Constants
    <3>6. Same(sum', n + InBlock)
      <4>1. sum + InBlock \in Int /\ n + InBlock \in Int
        BY <1>3
      <4> QED
        BY <3>4, <3>5, <4>1, SameOn
    <3>7. n + InBlock \in Nat /\ n + InBlock <= InStrings + InBlock
          /\ usedBefore + InStrings + InBlock <= used + (n + InBlock)
      BY <1>3, <3>3
    <3> QED
      BY <3>1, <3>6, <3>7
  <2> QED
    BY <1>1, <1>2, <2>1, <2>2 DEF ReaderOK
<1>9. CASE LoadSpaceUsed
  <2>1. rpc = "total" /\ rpc' = "done" /\ sum' = Plus(sum, spaceUsed)
        /\ UNCHANGED <<sb, h, usedBefore, switched>>
    BY <1>9 DEF LoadSpaceUsed
  <2>2. ASSUME ~switched
        PROVE  opc = "idle" /\ usedBefore <= used /\ usedBefore <= sum' /\ sum' <= used
    <3>1. opc = "idle" /\ usedBefore <= used
      BY <2>1, <2>2 DEF ReaderOK
    <3>2. PICK n \in Nat : Same(sum, n) /\ n <= InStrings + InBlock
                           /\ usedBefore + InStrings + InBlock <= used + n
      BY <2>1, <2>2 DEF ReaderOK
    <3> QED
      BY <2>1, <3>1, <3>2, SumIsUsed
  <2> QED
    BY <1>2, <2>1, <2>2 DEF ReaderOK
<1>10. CASE Return
  BY <1>10 DEF Return, ReaderOK
<1> QED
  BY <1>4, <1>5, <1>6, <1>7, <1>8, <1>9, <1>10 DEF Reader

-------------------------------------------------------------------------------
(* The theorems. *)

\* The invariant holds at first,
LEMMA InitOK == ASSUME SpaceInit PROVE IInv
<1>1. <<>> \in Seq(Nat) /\ <<>> \in Seq([size : Nat, heap : BOOLEAN, next : Nat])
      /\ Len(<<>>) = 0 /\ DOMAIN <<>> = {}
  BY EmptySeq
<1>2. 0 \in 0..Word - 1 /\ 0 \in Nat
  BY Constants
<1>3. TypeOK
  <2>1. at \in [block : 0..Len(blocks), offset : Nat]
    BY <1>1 DEF SpaceInit
  <2>2. sum \in 0..Word - 1 /\ spaceUsed \in 0..Word - 1 /\ spaceAllocated \in 0..Word - 1
    BY <1>2 DEF SpaceInit
  <2>3. switched \in BOOLEAN /\ head = 0 /\ stringBlock = 0
    BY DEF SpaceInit
  <2> QED
    BY <1>1, <1>2, <2>1, <2>2, <2>3 DEF SpaceInit, TypeOK
<1>4. PlaceOK
  BY <1>1 DEF SpaceInit, PlaceOK
<1>5. StringsOK
  <2>1. 0 = 0 * StringSize
    BY Constants
  <2> QED
    BY <1>1, <1>2, <2>1 DEF SpaceInit, StringsOK
<1>6. UsedOK
  BY Constants DEF SpaceInit, UsedOK
<1>7. Accounts
  <2>1. InStrings = 0 /\ InBlock = 0 /\ CountedTwice = 0 /\ spaceUsed = 0 /\ used = 0
    BY DEF SpaceInit, InStrings, InBlock, CountedTwice
  <2>2. 0 + 0 + 0 = 0 /\ 0 + 0 = 0 /\ Same(0, 0)
    BY SameItself
  <2> QED
    BY <2>1, <2>2 DEF Accounts
<1>8. Totals
  <2>1. blocks \in [1..0 -> Nat] /\ OnHeap \in [1..0 -> Nat]
    BY <1>1, <1>3, Blocks, StringBlocks, HeapIs DEF SpaceInit
  <2>2. FoldFunction(Plus, 0, blocks) = 0 /\ FoldFunction(Plus, 0, OnHeap) = 0
    BY <2>1, NoSum
  <2> QED
    BY <1>2, <2>2, PlusNothing DEF Totals, SpaceInit
<1>9. ReaderOK
  BY DEF SpaceInit, ReaderOK
<1> QED
  BY <1>3, <1>4, <1>5, <1>6, <1>7, <1>8, <1>9 DEF IInv

\* and every step keeps it.
LEMMA NextOK == ASSUME IInv, [SpaceNext]_spaceVars PROVE IInv'
<1>1. MemOK /\ Accounts /\ Totals /\ ReaderOK
  BY DEF IInv, MemOK
<1>2. CASE Owner
  BY <1>1, <1>2, OwnerMem, OwnerAccounts, OwnerTotals, OwnerReader DEF IInv, MemOK
<1>3. CASE Reader
  BY <1>1, <1>3, ReaderMem, ReaderUnmoved, ReaderReader DEF IInv, MemOK
<1>4. CASE UNCHANGED spaceVars
  <2>1. TypeOK' /\ PlaceOK'
    BY <1>1, <1>4 DEF spaceVars, MemOK, TypeOK, PlaceOK, effective_size
  <2>2. StringsOK' /\ UsedOK'
    BY <1>1, <1>4 DEF spaceVars, MemOK, StringsOK, UsedOK, effective_size
  <2>3. InStrings' = InStrings /\ InBlock' = InBlock /\ CountedTwice' = CountedTwice
    BY <1>4 DEF spaceVars, InStrings, InBlock, CountedTwice, NextSize, effective_size
  <2>4. Accounts' /\ Totals' /\ ReaderOK'
    BY <1>1, <1>4, <2>3 DEF spaceVars, Accounts, Totals, ReaderOK, OnHeap
  <2> QED
    BY <2>1, <2>2, <2>4 DEF IInv
<1> QED
  BY <1>2, <1>3, <1>4 DEF SpaceNext

\* The inductive invariant holds always.
THEOREM SpaceInvariant == SpaceSpec => []IInv
<1>1. SpaceInit => IInv
  BY InitOK
<1>2. IInv /\ [SpaceNext]_spaceVars => IInv'
  BY NextOK
<1> QED
  BY <1>1, <1>2, PTL DEF SpaceSpec

\* The type invariant, and allocations that never run past the end of the
\* block or string block they are made in, holds always.
THEOREM TypeCorrect == SpaceSpec => []TypeOK
<1>1. IInv => TypeOK
  BY DEF IInv
<1> QED
  BY <1>1, SpaceInvariant, PTL

\* What SpaceUsed adds up in an arena at rest that has a block.
LEMMA ReportedIsUsed ==
  ASSUME IInv, opc = "idle", head # 0
  PROVE  Reported = used
<1>1. MaxUsed < Word /\ Word \in Nat \ {0} /\ MaxUsed \in Nat
  BY SpaceSizesOK
<1>2. MemOK /\ Accounts
  BY DEF IInv, MemOK
<1>3. PICK i \in Int, b \in Int, u \in Nat, w \in Int :
        /\ i = InStrings /\ b = InBlock /\ u = used /\ w = spaceUsed
  <2>1. InStrings \in Int /\ InBlock \in Int /\ used \in Nat /\ spaceUsed \in Int
    BY <1>1, <1>2, Terms DEF TermsOK
  <2> QED
    BY <2>1
<1>4. UsedIn(head) = b
  <2>1. at.block = head /\ at.offset >= kBlockHeaderSize /\ at.offset <= blocks[head]
    BY <1>2 DEF MemOK, PlaceOK
  <2>2. at.offset \in Nat /\ blocks[head] \in Nat /\ kBlockHeaderSize \in Nat
    BY <1>1, <1>2, Blocks, Constants DEF MemOK
  <2>3. UsedIn(head) = at.offset - kBlockHeaderSize
    BY <2>1, <2>2 DEF UsedIn, Smaller
  <2> QED
    BY <1>3, <2>3 DEF InBlock
<1> DEFINE s == IF stringBlock = 0 THEN 0 ELSE Minus(effective_size(stringBlock), unused)
<1>5. s \in Int /\ Same(s, i)
  <2>1. CASE stringBlock = 0
    <3>1. i = 0 /\ s = 0
      BY <1>3, <2>1 DEF InStrings
    <3> QED
      BY <1>1, <3>1, SameItself
  <2>2. CASE stringBlock # 0
    <3>1. effective_size(stringBlock) \in Int /\ unused \in Int
      BY <1>1, <1>2, <2>2, StringBlocks, StringIs DEF MemOK, TypeOK
    <3>2. i = effective_size(stringBlock) - unused
      BY <1>3, <2>2 DEF InStrings
    <3>3. s = Minus(effective_size(stringBlock), unused)
      BY <2>2
    <3>4. s \in 0..Word - 1 /\ Same(s, i)
      BY <1>1, <3>1, <3>2, <3>3, MinusIs
    <3> QED
      BY <1>1, <3>4
  <2> QED
    BY <2>1, <2>2
<1>6. Reported = Plus(Plus(s, b), w)
  BY <1>3, <1>4 DEF Reported
<1> HIDE DEF s
<1>7. PICK p \in Int : p = Plus(s, b) /\ Same(p, i + b)
  <2>1. Plus(s, b) \in 0..Word - 1 /\ Same(Plus(s, b), s + b)
    BY <1>1, <1>5, PlusIs
  <2>2. Same(b, b)
    BY <1>1, SameItself
  <2>3. Same(s + b, i + b)
    BY <1>1, <1>5, <2>2, SameSum
  <2>4. Plus(s, b) \in Int /\ s + b \in Int /\ i + b \in Int
    BY <1>1, <1>5, <2>1
  <2> QED
    BY <1>1, <2>1, <2>3, <2>4, SameOn
<1>8. PICK z \in 0..Word - 1 : z = Plus(p, w) /\ Same(z, p + w)
  BY <1>1, PlusIs
<1>9. Same(p + w, i + b + w)
  <2>1. Same(w, w) /\ i + b \in Int
    BY <1>1, SameItself
  <2> QED
    BY <1>1, <1>7, <2>1, SameSum
<1>10. Same(i + b + w, u)
  <2>1. CountedTwice = 0
    BY DEF CountedTwice
  <2> QED
    BY <1>2, <1>3, <2>1 DEF Accounts
<1>11. Same(z, u)
  <2>1. z \in Int /\ p + w \in Int /\ i + b + w \in Int
    BY <1>1
  <2>2. Same(z, i + b + w)
    BY <1>1, <1>8, <1>9, <2>1, SameOn
  <2> QED
    BY <1>1, <1>10, <2>1, <2>2, SameOn
<1>12. u \in 0..Word - 1
  <2>1. u <= MaxUsed
    BY <1>2, <1>3 DEF MemOK, UsedOK
  <2> QED
    BY <1>1, <2>1
<1>13. z = u
  BY <1>1, <1>11, <1>12, SameWord
<1> QED
  BY <1>3, <1>6, <1>7, <1>8, <1>13

\* Between two allocations an arena that has a block accounts for exactly the
\* bytes it gave out, and space_allocated_ is what its blocks and its string
\* blocks on the heap add up to, for any sizes and any number of blocks.
THEOREM CountersAreExactAlways == SpaceSpec => []CountersAreExact
<1>1. IInv => CountersAreExact
  <2> SUFFICES ASSUME IInv, opc = "idle" PROVE CountersAreExact
    BY DEF CountersAreExact
  <2>1. head # 0 => Reported = used
    BY ReportedIsUsed
  <2>2. spaceAllocated = Plus(FoldFunction(Plus, 0, blocks),
          FoldFunction(Plus, 0, [i \in DOMAIN strings |-> IF strings[i].heap THEN strings[i].size ELSE 0]))
    BY DEF IInv, Totals, OnHeap
  <2> QED
    BY <2>1, <2>2 DEF CountersAreExact
<1> QED
  BY <1>1, SpaceInvariant, PTL

\* A SpaceUsed that runs while the owner exchanges no block returns a number
\* between what was used when it began and what is used when it ends, whatever
\* the owner allocates between its loads.
THEOREM SteadyReadIsBracketedAlways == SpaceSpec => []SteadyReadIsBracketed
<1>1. IInv => SteadyReadIsBracketed
  BY DEF IInv, ReaderOK, SteadyReadIsBracketed
<1> QED
  BY <1>1, SpaceInvariant, PTL

-------------------------------------------------------------------------------
(* Joined sequences.                                                          *)

\* Two ways in which a sequence of sequences grows at its front.
Lengthened(q, a, r) ==
  Len(r) = Len(q) /\ r[1] = a \o q[1] /\ \A k \in 2..Len(q) : r[k] = q[k]
Extended(q, a, r) ==
  Len(r) = Len(q) + 1 /\ r[1] = a /\ \A k \in 1..Len(q) : r[k + 1] = q[k]

\* What is put before the first of the joined sequences is before all of them.
LEMMA JoinsWithMore ==
  ASSUME NEW T, NEW q \in Seq(Seq(T)), q # <<>>, NEW a \in Seq(T), NEW r \in Seq(Seq(T)),
         Lengthened(q, a, r)
  PROVE  FlattenSeq(r) = a \o FlattenSeq(q) /\ FlattenSeq(q) \in Seq(T)
<1>1. Len(q) \in Nat \ {0} /\ Len(r) = Len(q) /\ r # <<>>
  BY DEF Lengthened
<1>2. PICK f : JoinsUpTo(q, Len(q), T, f) /\ FlattenSeq(q) = f[Len(q)]
  BY FlattenJoins
<1>3. PICK g : JoinsUpTo(r, Len(r), T, g) /\ FlattenSeq(r) = g[Len(r)]
  BY <1>1, FlattenJoins
<1> DEFINE S == {m \in Nat : m \in 1..Len(q) => g[m] = a \o f[m]}
<1>4. 0 \in S
  OBVIOUS
<1>5. ASSUME NEW m \in Nat, m \in S
      PROVE  m + 1 \in S
  <2>1. SUFFICES ASSUME m + 1 \in 1..Len(q)
                 PROVE  g[m + 1] = a \o f[m + 1]
    OBVIOUS
  <2>2. CASE m = 0
    BY <1>1, <1>2, <1>3, <2>2 DEF JoinsUpTo, Lengthened
  <2>3. CASE m # 0
    <3>1. m \in 1..Len(q) /\ m + 1 \in 2..Len(q) /\ (m + 1) - 1 = m
      BY <2>1, <2>3
    <3>2. g[m] = a \o f[m]
      BY <1>5, <3>1
    <3>3. f[m] \in Seq(T) /\ q[m + 1] \in Seq(T)
      <4>1. f \in [1..Len(q) -> Seq(T)]
        BY <1>2 DEF JoinsUpTo
      <4>2. q[m + 1] \in Seq(T)
        BY <2>1
      <4> QED
        BY <3>1, <4>1, <4>2, Zenon
    <3>4. g[m + 1] = g[m] \o q[m + 1] /\ f[m + 1] = f[m] \o q[m + 1]
      BY <1>1, <1>2, <1>3, <3>1 DEF JoinsUpTo, Lengthened
    <3>5. (a \o f[m]) \o q[m + 1] = a \o (f[m] \o q[m + 1])
      <4>1. PICK x \in Seq(T) : x = f[m]
        BY <3>3
      <4>2. PICK y \in Seq(T) : y = q[m + 1]
        BY <3>3
      <4>3. (a \o x) \o y = a \o (x \o y)
        BY JoinAgain
      <4> QED
        BY <4>1, <4>2, <4>3
    <3> QED
      BY <3>2, <3>4, <3>5
  <2> QED
    BY <2>2, <2>3
<1> HIDE DEF S
<1>6. \A m \in Nat : m \in S
  BY <1>4, <1>5, SetInduction
<1>7. g[Len(q)] = a \o f[Len(q)]
  BY <1>1, <1>6 DEF S
<1>8. f[Len(q)] \in Seq(T)
  <2>1. f \in [1..Len(q) -> Seq(T)]
    BY <1>2 DEF JoinsUpTo
  <2>2. Len(q) \in 1..Len(q)
    BY <1>1
  <2> QED
    BY <2>1, <2>2, Zenon
<1> QED
  BY <1>1, <1>2, <1>3, <1>7, <1>8

\* One more sequence, before the others.
LEMMA JoinsOneMore ==
  ASSUME NEW T, NEW q \in Seq(Seq(T)), NEW a \in Seq(T), NEW r \in Seq(Seq(T)),
         Extended(q, a, r)
  PROVE  FlattenSeq(r) = a \o FlattenSeq(q) /\ FlattenSeq(q) \in Seq(T)
<1>1. Len(q) \in Nat /\ Len(r) = Len(q) + 1 /\ r # <<>>
  BY DEF Extended
<1>2. PICK g : JoinsUpTo(r, Len(r), T, g) /\ FlattenSeq(r) = g[Len(r)]
  BY <1>1, FlattenJoins
<1>3. CASE q = <<>>
  <2>1. FlattenSeq(q) = <<>> /\ Len(q) = 0
    BY <1>3 DEF FlattenSeq
  <2>2. g[Len(r)] = a
    BY <1>1, <1>2, <2>1 DEF JoinsUpTo, Extended
  <2> QED
    BY <1>2, <2>1, <2>2, ConcatEmptySeq
<1>4. CASE q # <<>>
  <2>1. PICK f : JoinsUpTo(q, Len(q), T, f) /\ FlattenSeq(q) = f[Len(q)]
    BY <1>4, FlattenJoins
  <2>2. Len(q) # 0
    BY <1>4
  <2> DEFINE S == {m \in Nat : m \in 1..Len(q) => g[m + 1] = a \o f[m]}
  <2>3. 0 \in S
    OBVIOUS
  <2>4. ASSUME NEW m \in Nat, m \in S
        PROVE  m + 1 \in S
    <3>1. SUFFICES ASSUME m + 1 \in 1..Len(q)
                   PROVE  g[(m + 1) + 1] = a \o f[m + 1]
      OBVIOUS
    <3>2. (m + 1) + 1 \in 2..Len(r) /\ ((m + 1) + 1) - 1 = m + 1 /\ r[(m + 1) + 1] = q[m + 1]
      BY <1>1, <3>1 DEF Extended
    <3>3. g[(m + 1) + 1] = g[m + 1] \o q[m + 1]
      BY <1>2, <3>2 DEF JoinsUpTo
    <3>4. CASE m = 0
      <4>1. g[m + 1] = a /\ f[m + 1] = q[m + 1]
        BY <1>2, <2>1, <2>2, <3>4, <1>1 DEF JoinsUpTo, Extended
      <4> QED
        BY <3>3, <4>1
    <3>5. CASE m # 0
      <4>1. m \in 1..Len(q) /\ m + 1 \in 2..Len(q) /\ (m + 1) - 1 = m
        BY <3>1, <3>5, <1>1
      <4>2. g[m + 1] = a \o f[m]
        BY <2>4, <4>1
      <4>3. f[m] \in Seq(T) /\ q[m + 1] \in Seq(T) /\ f[m + 1] = f[m] \o q[m + 1]
        <5>1. f \in [1..Len(q) -> Seq(T)] /\ \A k \in 2..Len(q) : f[k] = f[k - 1] \o q[k]
          BY <2>1 DEF JoinsUpTo
        <5>2. f[m + 1] = f[(m + 1) - 1] \o q[m + 1]
          BY <4>1, <5>1, Zenon
        <5>3. q[m + 1] \in Seq(T) /\ f[m + 1] = f[m] \o q[m + 1]
          BY <3>1, <4>1, <5>2
        <5>4. f[m] \in Seq(T)
          BY <4>1, <5>1, Zenon
        <5> QED
          BY <5>3, <5>4
      <4>4. (a \o f[m]) \o q[m + 1] = a \o (f[m] \o q[m + 1])
        <5>1. PICK x \in Seq(T) : x = f[m]
          BY <4>3
        <5>2. PICK y \in Seq(T) : y = q[m + 1]
          BY <4>3
        <5>3. (a \o x) \o y = a \o (x \o y)
          BY JoinAgain
        <5> QED
          BY <5>1, <5>2, <5>3
      <4> QED
        BY <3>3, <4>2, <4>3, <4>4
    <3> QED
      BY <3>4, <3>5
  <2> HIDE DEF S
  <2>5. \A m \in Nat : m \in S
    BY <2>3, <2>4, SetInduction
  <2>6. g[Len(r)] = a \o f[Len(q)]
    BY <1>1, <2>2, <2>5 DEF S
  <2>7. f[Len(q)] \in Seq(T)
    <3>1. f \in [1..Len(q) -> Seq(T)]
      BY <2>1 DEF JoinsUpTo
    <3>2. Len(q) \in 1..Len(q)
      BY <1>1, <2>2
    <3> QED
      BY <3>1, <3>2, Zenon
  <2> QED
    BY <1>1, <1>2, <2>1, <2>6, <2>7
<1> QED
  BY <1>3, <1>4

-------------------------------------------------------------------------------
(* The walk.  A new SerialArena comes first, whether it is put at the end of  *)
(* the newest chunk or into a new one.                                        *)

\* From k down to 1.
Countdown(k) == [i \in 1..k |-> k + 1 - i]

Reversed(c) == [i \in DOMAIN c |-> Reverse(c[i])]

\* What was appended last comes first.
LEMMA ReverseOfAppend ==
  ASSUME NEW c \in Seq(Nat), NEW n \in Nat
  PROVE  Reverse(c) \in Seq(Nat) /\ Reverse(Append(c, n)) = <<n>> \o Reverse(c)
<1>1. Reverse(c) \in Seq(Nat) /\ Len(Reverse(c)) = Len(c)
      /\ \A i \in 1..Len(c) : Reverse(c)[i] = c[Len(c) - i + 1]
  BY DEF Reverse
<1> DEFINE d == Append(c, n)
<1>2. d \in Seq(Nat) /\ Len(d) = Len(c) + 1 /\ d[Len(c) + 1] = n
      /\ \A i \in 1..Len(c) : d[i] = c[i]
  OBVIOUS
<1> HIDE DEF d
<1>3. Reverse(d) \in Seq(Nat) /\ Len(Reverse(d)) = Len(d)
      /\ \A i \in 1..Len(d) : Reverse(d)[i] = d[Len(d) - i + 1]
  BY <1>2 DEF Reverse
<1> DEFINE e == <<n>> \o Reverse(c)
<1>4. e \in Seq(Nat) /\ Len(e) = Len(c) + 1 /\ e[1] = n
      /\ \A i \in 2..Len(c) + 1 : e[i] = Reverse(c)[i - 1]
  BY <1>1
<1> HIDE DEF e
<1>5. ASSUME NEW i \in 1..Len(d)
      PROVE  Reverse(d)[i] = e[i]
  <2>1. CASE i = 1
    <3>1. Len(d) - i + 1 = Len(c) + 1 /\ Len(c) \in Nat
      BY <1>2, <2>1
    <3>2. Reverse(d)[i] = d[Len(d) - i + 1]
      BY <1>3
    <3> QED
      BY <1>2, <1>4, <2>1, <3>1, <3>2
  <2>2. CASE i # 1
    <3>1. i - 1 \in 1..Len(c) /\ Len(d) - i + 1 = Len(c) - (i - 1) + 1
          /\ Len(d) - i + 1 \in 1..Len(c) /\ i \in 2..Len(c) + 1
      BY <1>2, <2>2
    <3>2. Reverse(d)[i] = c[Len(d) - i + 1]
      BY <1>2, <1>3, <3>1
    <3>3. e[i] = c[Len(c) - (i - 1) + 1]
      BY <1>1, <1>4, <3>1
    <3> QED
      BY <3>1, <3>2, <3>3
  <2> QED
    BY <2>1, <2>2
<1>6. Reverse(d) = e
  BY <1>2, <1>3, <1>4, <1>5, SeqEqual
<1> QED
  BY <1>1, <1>6 DEF d, e

\* Each chunk from its end.
LEMMA ReversedAre ==
  ASSUME NEW c \in Seq(Seq(Nat))
  PROVE  /\ Reversed(c) \in Seq(Seq(Nat)) /\ Len(Reversed(c)) = Len(c)
         /\ \A i \in 1..Len(c) : Reversed(c)[i] = Reverse(c[i])
<1>1. \A i \in 1..Len(c) : Reverse(c[i]) \in Seq(Nat)
  <2>1. SUFFICES ASSUME NEW i \in 1..Len(c)
                 PROVE  Reverse(c[i]) \in Seq(Nat)
    OBVIOUS
  <2>2. c[i] \in Seq(Nat) /\ 0 \in Nat
    OBVIOUS
  <2> QED
    BY <2>2, ReverseOfAppend, Zenon
<1>2. DOMAIN c = 1..Len(c) /\ Len(c) \in Nat
  OBVIOUS
<1>3. Reversed(c) \in [1..Len(c) -> Seq(Nat)]
  BY <1>1, <1>2 DEF Reversed
<1> QED
  BY <1>2, <1>3 DEF Reversed

\* Countdown is a sequence,
LEMMA Counts ==
  ASSUME NEW k \in Nat
  PROVE  /\ Countdown(k) \in Seq(Nat) /\ Len(Countdown(k)) = k
         /\ \A i \in 1..k : Countdown(k)[i] = k + 1 - i
<1>1. Countdown(k) \in [1..k -> Nat]
  BY DEF Countdown
<1> QED
  BY <1>1 DEF Countdown

\* which one more number extends at its head.
LEMMA CountsOneMore ==
  ASSUME NEW k \in Nat
  PROVE  <<k + 1>> \o Countdown(k) = Countdown(k + 1) /\ Tail(Countdown(k + 1)) = Countdown(k)
         /\ Head(Countdown(k + 1)) = k + 1
<1> DEFINE c == Countdown(k)
           d == Countdown(k + 1)
<1>1. c \in Seq(Nat) /\ Len(c) = k /\ \A i \in 1..k : c[i] = k + 1 - i
  BY Counts
<1>2. d \in Seq(Nat) /\ Len(d) = k + 1 /\ \A i \in 1..(k + 1) : d[i] = (k + 1) + 1 - i
  BY Counts
<1> HIDE DEF c, d
<1>3. <<k + 1>> \o c \in Seq(Nat) /\ Len(<<k + 1>> \o c) = k + 1
      /\ (<<k + 1>> \o c)[1] = k + 1
      /\ \A i \in 2..(k + 1) : (<<k + 1>> \o c)[i] = c[i - 1]
  BY <1>1
<1>4. \A i \in 1..(k + 1) : (<<k + 1>> \o c)[i] = d[i]
  BY <1>1, <1>2, <1>3
<1>5. <<k + 1>> \o c = d
  BY <1>2, <1>3, <1>4, SeqEqual
<1>6. d # <<>> /\ Tail(d) \in Seq(Nat) /\ Len(Tail(d)) = k /\ \A i \in 1..k : Tail(d)[i] = d[i + 1]
  BY <1>2, HeadTailProperties
<1>7. \A i \in 1..k : Tail(d)[i] = c[i]
  BY <1>1, <1>2, <1>6
<1>8. Tail(d) = c
  BY <1>1, <1>6, <1>7, SeqEqual
<1>9. Head(d) = k + 1
  BY <1>2
<1> QED
  BY <1>5, <1>8, <1>9 DEF c, d

\* The chunks after NewSerialArena and the walk over them.
Chunked(c, n) ==
  IF c # <<>> /\ Len(Head(c)) < ChunkSerials
  THEN [c EXCEPT ![1] = Append(@, n)]
  ELSE <<<<n>>>> \o c
WalkOver(c) == FlattenSeq(Reversed(c)) \o <<1>>

\* It begins with the new SerialArena and goes on as before.
LEMMA WalkOverMore ==
  ASSUME NEW c \in Seq(Seq(Nat)), NEW n \in Nat
  PROVE  Chunked(c, n) \in Seq(Seq(Nat)) /\ WalkOver(Chunked(c, n)) = <<n>> \o WalkOver(c)
<1> DEFINE d == Chunked(c, n)
<1>1. /\ Reversed(c) \in Seq(Seq(Nat)) /\ Len(Reversed(c)) = Len(c)
      /\ \A i \in 1..Len(c) : Reversed(c)[i] = Reverse(c[i])
  BY ReversedAre
<1>2. <<n>> \in Seq(Nat)
  OBVIOUS
<1>3. d \in Seq(Seq(Nat)) /\ FlattenSeq(Reversed(d)) = <<n>> \o FlattenSeq(Reversed(c))
      /\ FlattenSeq(Reversed(c)) \in Seq(Nat)
  <2>1. CASE c # <<>> /\ Len(Head(c)) < ChunkSerials
    <3>1. d = [c EXCEPT ![1] = Append(c[1], n)]
      BY <2>1 DEF Chunked
    <3>2. Len(c) \in Nat \ {0} /\ 1 \in 1..Len(c) /\ c[1] \in Seq(Nat) /\ Append(c[1], n) \in Seq(Nat)
      BY <2>1
    <3>3. d \in Seq(Seq(Nat)) /\ Len(d) = Len(c) /\ d[1] = Append(c[1], n)
          /\ \A k \in 2..Len(c) : d[k] = c[k]
      BY <3>1, <3>2
    <3> HIDE DEF d
    <3>4. /\ Reversed(d) \in Seq(Seq(Nat)) /\ Len(Reversed(d)) = Len(d)
          /\ \A i \in 1..Len(d) : Reversed(d)[i] = Reverse(d[i])
      BY <3>3, ReversedAre
    <3>5. Reversed(d)[1] = <<n>> \o Reversed(c)[1]
      BY <1>1, <3>2, <3>3, <3>4, ReverseOfAppend
    <3>6. Lengthened(Reversed(c), <<n>>, Reversed(d))
      BY <1>1, <3>3, <3>4, <3>5 DEF Lengthened
    <3>7. Reversed(c) # <<>>
      BY <1>1, <3>2
    <3> QED
      BY <1>1, <1>2, <3>3, <3>4, <3>6, <3>7, JoinsWithMore
  <2>2. CASE ~(c # <<>> /\ Len(Head(c)) < ChunkSerials)
    <3>1. d = <<<<n>>>> \o c
      BY <2>2, Zenon DEF Chunked
    <3>2. d \in Seq(Seq(Nat)) /\ Len(d) = Len(c) + 1 /\ d[1] = <<n>>
          /\ \A k \in 1..Len(c) : d[k + 1] = c[k]
      BY <1>2, <3>1
    <3> HIDE DEF d
    <3>3. /\ Reversed(d) \in Seq(Seq(Nat)) /\ Len(Reversed(d)) = Len(d)
          /\ \A i \in 1..Len(d) : Reversed(d)[i] = Reverse(d[i])
      BY <3>2, ReversedAre
    <3>4. Reverse(<<n>>) = <<n>>
      BY DEF Reverse
    <3>5. Len(c) \in Nat
      OBVIOUS
    <3>6. Extended(Reversed(c), <<n>>, Reversed(d))
      <4>1. Reversed(d)[1] = <<n>>
        <5>1. 1 \in 1..Len(d)
          BY <3>2, <3>5
        <5>2. Reversed(d)[1] = Reverse(d[1])
          BY <3>3, <5>1
        <5> QED
          BY <3>2, <3>4, <5>2
      <4>2. ASSUME NEW k \in 1..Len(c)
            PROVE  Reversed(d)[k + 1] = Reversed(c)[k]
        <5>1. k + 1 \in 1..Len(d)
          BY <3>2, <3>5
        <5>2. Reversed(d)[k + 1] = Reverse(d[k + 1])
          BY <3>3, <5>1
        <5> QED
          BY <1>1, <3>2, <5>2
      <4> QED
        BY <1>1, <3>2, <3>3, <4>1, <4>2 DEF Extended
    <3> QED
      BY <1>1, <1>2, <3>2, <3>3, <3>6, JoinsOneMore
  <2> QED
    BY <2>1, <2>2
<1> HIDE DEF d
<1>4. PICK f \in Seq(Nat) : f = FlattenSeq(Reversed(c))
  BY <1>3
<1>5. <<1>> \in Seq(Nat)
  OBVIOUS
<1>6. (<<n>> \o f) \o <<1>> = <<n>> \o (f \o <<1>>)
  BY <1>2, <1>5, JoinAgain
<1>7. WalkOver(d) = (<<n>> \o f) \o <<1>> /\ WalkOver(c) = f \o <<1>>
  BY <1>3, <1>4 DEF WalkOver
<1> QED
  BY <1>3, <1>6, <1>7 DEF d

-------------------------------------------------------------------------------
(* The invariant. *)

\* Objects and strings, cleanup chunks and string blocks.
Thing == [kind : {"object", "string"}, serial : Nat, n : Nat]
Chunk == [size : Nat, nodes : Seq(Thing)]
Block == [1..StringsPerBlock -> Thing \cup {NoString}]

CleanupTypeOK ==
  /\ chunks \in Seq(Seq(Nat))
  /\ lists \in Seq(Seq(Chunk)) /\ Len(lists) >= 1
  /\ sblocks \in Seq(Seq(Block)) /\ Len(sblocks) = Len(lists)
  /\ unusedStrings \in Seq(0..StringsPerBlock) /\ Len(unusedStrings) = Len(lists)
  /\ constructed \in SUBSET Thing /\ IsFiniteSet(constructed)
  /\ freed \in SUBSET Nat
  /\ phase \in {"using", "cleanup", "free"}
  /\ walk \in Seq(Nat) /\ Len(walk) <= Len(lists) /\ walk = Countdown(Len(walk))

\* A cleanup list holds these things: no chunk of it is empty, and the numbers fall
\* from the end of the newest chunk to the beginning of the oldest.
ListedIn(list) == UNION {ToSet(list[i].nodes) : i \in DOMAIN list}
ReverseOrder(list) ==
  \A i \in DOMAIN list, k \in DOMAIN list :
    \A j \in DOMAIN list[i].nodes, l \in DOMAIN list[k].nodes :
      i < k \/ (i = k /\ l < j) => list[k].nodes[l].n < list[i].nodes[j].n
Holds(list, things) ==
  /\ \A i \in DOMAIN list : list[i].nodes # <<>>
  /\ ReverseOrder(list)
  /\ ListedIn(list) = things

\* The strings taken from string blocks: those of the newest block lie at its end.
OfSerial(things, s) == {x \in things : x.serial = s}
TakenFrom(held, spare) ==
  UNION {{held[i][j] : j \in (IF i = 1 THEN spare + 1 ELSE 1)..StringsPerBlock} :
           i \in DOMAIN held}

\* While the arena is used, numbers are given out in order.
Numbered ==
  \A x \in constructed :
    x.serial \in Serials /\ (phase = "using" => x.n <= Cardinality(constructed))
\* Each cleanup list holds the objects of its SerialArena, the string blocks its
\* strings.
ObjectsAreListed == \A s \in Serials : Holds(lists[s], OfSerial(Objects, s))
StringsAreTaken ==
  \A s \in Serials :
    /\ TakenFrom(sblocks[s], unusedStrings[s]) = OfSerial(Strings, s)
    /\ sblocks[s] = <<>> => unusedStrings[s] = 0
\* A SerialArena that a pass has left behind has no destructor to run any more, or no
\* string.
Progress ==
  /\ phase = "using" => walk = <<>>
  /\ phase # "free" => freed = {}
  /\ \A s \in Serials :
       /\ (phase = "cleanup" /\ s > Len(walk)) \/ phase = "free" => lists[s] = <<>>
       /\ phase = "free" /\ s > Len(walk) => sblocks[s] = <<>>

\* The walk visits every SerialArena once, newer ones first.
WalkIsDown == Walk = Countdown(Len(lists))

CleanupInv ==
  /\ CleanupTypeOK /\ WalkIsDown /\ Numbered
  /\ ObjectsAreListed /\ StringsAreTaken /\ Progress

-------------------------------------------------------------------------------
(* Cleanup lists. *)

\* What is in a cleanup list is at some place of it.
LEMMA Listed ==
  ASSUME NEW list, NEW y
  PROVE  y \in ListedIn(list) <=>
           \E i \in DOMAIN list : \E j \in DOMAIN list[i].nodes : y = list[i].nodes[j]
BY DEF ListedIn, ToSet

\* A cleanup list as a function.
LEMMA ChunksOf ==
  ASSUME NEW list \in Seq(Chunk)
  PROVE  /\ Len(list) \in Nat /\ DOMAIN list = 1..Len(list)
         /\ \A i \in 1..Len(list) : list[i] \in Chunk /\ list[i].nodes \in Seq(Thing)
<1>1. Len(list) \in Nat /\ DOMAIN list = 1..Len(list) /\ \A i \in 1..Len(list) : list[i] \in Chunk
  OBVIOUS
<1>2. \A c \in Chunk : c.nodes \in Seq(Thing)
  BY DEF Chunk
<1> QED
  BY <1>1, <1>2

\* ChunkList::Add puts a newer object where the list is newest.
LEMMA ListGrows ==
  ASSUME NEW list \in Seq(Chunk), NEW things, Holds(list, things),
         NEW x \in Thing, \A y \in things : y.n < x.n
  PROVE  Added(list, x) \in Seq(Chunk) /\ Holds(Added(list, x), things \cup {x})
<1> DEFINE d == Added(list, x)
<1>1. Len(list) \in Nat /\ DOMAIN list = 1..Len(list)
      /\ \A i \in 1..Len(list) : list[i] \in Chunk /\ list[i].nodes \in Seq(Thing)
  BY ChunksOf
<1>2. \A i \in 1..Len(list) :
        Len(list[i].nodes) \in Nat \ {0} /\ DOMAIN list[i].nodes = 1..Len(list[i].nodes)
  <2>1. SUFFICES ASSUME NEW i \in 1..Len(list)
                 PROVE  /\ Len(list[i].nodes) \in Nat \ {0}
                        /\ DOMAIN list[i].nodes = 1..Len(list[i].nodes)
    OBVIOUS
  <2>2. list[i].nodes \in Seq(Thing) /\ list[i].nodes # <<>>
    BY <1>1 DEF Holds
  <2> QED
    BY <2>2
<1>3. \A i \in 1..Len(list) : \A j \in 1..Len(list[i].nodes) : list[i].nodes[j].n < x.n
  <2>1. SUFFICES ASSUME NEW i \in 1..Len(list), NEW j \in 1..Len(list[i].nodes)
                 PROVE  list[i].nodes[j].n < x.n
    OBVIOUS
  <2>2. list[i].nodes[j] \in things
    BY <1>1, <1>2, Listed DEF Holds
  <2> QED
    BY <2>2
<1>4. \A i, k \in 1..Len(list) : \A j \in 1..Len(list[i].nodes), l \in 1..Len(list[k].nodes) :
        i < k \/ (i = k /\ l < j) => list[k].nodes[l].n < list[i].nodes[j].n
  BY <1>1, <1>2 DEF Holds, ReverseOrder
<1>5. CASE list # <<>> /\ Len(Head(list).nodes) < Head(list).size
  <2> DEFINE nodes == Append(list[1].nodes, x)
             len == Len(list[1].nodes)
  <2>1. 1 \in 1..Len(list)
    BY <1>1, <1>5
  <2>2. d = [list EXCEPT ![1] = [list[1] EXCEPT !.nodes = nodes]]
    BY <1>5, <2>1 DEF Added
  <2>3. /\ nodes \in Seq(Thing) /\ Len(nodes) = len + 1 /\ len \in Nat /\ nodes[len + 1] = x
        /\ \A j \in 1..len : nodes[j] = list[1].nodes[j]
        /\ nodes # <<>> /\ DOMAIN nodes = 1..len + 1
    BY <1>1, <2>1
  <2> HIDE DEF nodes, len
  <2>4. [list[1] EXCEPT !.nodes = nodes] \in Chunk
        /\ [list[1] EXCEPT !.nodes = nodes].nodes = nodes
    BY <1>1, <2>1, <2>3 DEF Chunk
  <2>5. d \in Seq(Chunk) /\ Len(d) = Len(list) /\ d[1].nodes = nodes
        /\ \A i \in 2..Len(list) : d[i] = list[i]
    BY <1>1, <2>1, <2>2, <2>4
  <2> HIDE DEF d
  <2>6. DOMAIN d = 1..Len(list)
    BY <2>5
  <2>7. \A i \in DOMAIN d : d[i].nodes # <<>> /\ (i # 1 => i \in 2..Len(list) /\ d[i] = list[i])
    <3>1. SUFFICES ASSUME NEW i \in 1..Len(list)
                   PROVE  d[i].nodes # <<>> /\ (i # 1 => i \in 2..Len(list) /\ d[i] = list[i])
      BY <2>6
    <3>2. CASE i = 1
      BY <2>3, <2>5, <3>2
    <3>3. CASE i # 1
      <4>1. i \in 2..Len(list)
        BY <3>3
      <4> QED
        BY <1>1, <2>5, <4>1 DEF Holds
    <3> QED
      BY <3>2, <3>3
  <2>8. ReverseOrder(d)
    <3>1. SUFFICES ASSUME NEW i \in DOMAIN d, NEW k \in DOMAIN d,
                          NEW j \in DOMAIN d[i].nodes, NEW l \in DOMAIN d[k].nodes,
                          i < k \/ (i = k /\ l < j)
                   PROVE  d[k].nodes[l].n < d[i].nodes[j].n
      BY DEF ReverseOrder
    <3>2. i \in 1..Len(list) /\ k \in 1..Len(list)
      BY <2>6
    <3>3. /\ k # 1 => d[k] = list[k] /\ l \in 1..Len(list[k].nodes)
          /\ k = 1 => i = 1 /\ l < j /\ l \in 1..len /\ d[k].nodes[l] = list[k].nodes[l]
      <4>1. CASE k # 1
        BY <1>2, <2>7, <3>2, <4>1
      <4>2. CASE k = 1
        BY <2>3, <2>5, <3>1, <3>2, <4>2
      <4> QED
        BY <4>1, <4>2
    <3>4. l \in 1..Len(list[k].nodes) /\ d[k].nodes[l] = list[k].nodes[l]
      BY <3>3 DEF len
    <3>5. CASE i = 1 /\ j = len + 1
      <4>1. d[i].nodes[j] = x
        BY <2>3, <2>5, <3>5
      <4> QED
        BY <1>3, <3>2, <3>4, <4>1
    <3>6. CASE ~(i = 1 /\ j = len + 1)
      <4>1. j \in 1..Len(list[i].nodes) /\ d[i].nodes[j] = list[i].nodes[j]
        <5>1. CASE i = 1
          <6>1. j \in 1..len
            BY <2>3, <2>5, <3>6, <5>1
          <6> QED
            BY <2>3, <2>5, <5>1, <6>1 DEF len
        <5>2. CASE i # 1
          BY <1>2, <2>7, <3>2, <5>2
        <5> QED
          BY <5>1, <5>2
      <4> QED
        BY <1>4, <3>1, <3>2, <3>4, <4>1
    <3> QED
      BY <3>5, <3>6
  <2>9. ListedIn(d) = things \cup {x}
    <3>1. ASSUME NEW y \in ListedIn(d)
          PROVE  y \in things \cup {x}
      <4>1. PICK i \in DOMAIN d : \E j \in DOMAIN d[i].nodes : y = d[i].nodes[j]
        BY <3>1, Listed
      <4>2. PICK j \in DOMAIN d[i].nodes : y = d[i].nodes[j]
        BY <4>1
      <4>3. CASE i = 1 /\ j = len + 1
        BY <2>3, <2>5, <4>2, <4>3
      <4>4. CASE i = 1 /\ j # len + 1
        <5>1. j \in 1..len /\ y = list[1].nodes[j]
          BY <2>3, <2>5, <4>2, <4>4
        <5>2. j \in DOMAIN list[1].nodes
          BY <1>2, <2>1, <5>1 DEF len
        <5> QED
          BY <1>1, <2>1, <5>1, <5>2, Listed DEF Holds
      <4>5. CASE i # 1
        <5>1. d[i] = list[i] /\ i \in DOMAIN list
          BY <1>1, <2>6, <2>7, <4>5
        <5> QED
          BY <4>2, <5>1, Listed DEF Holds
      <4> QED
        BY <4>3, <4>4, <4>5
    <3>2. ASSUME NEW y \in things
          PROVE  y \in ListedIn(d)
      <4>1. PICK i \in DOMAIN list : \E j \in DOMAIN list[i].nodes : y = list[i].nodes[j]
        BY <3>2, Listed DEF Holds
      <4>2. PICK j \in DOMAIN list[i].nodes : y = list[i].nodes[j]
        BY <4>1
      <4>3. j \in DOMAIN d[i].nodes /\ y = d[i].nodes[j]
        <5>1. CASE i = 1
          <6>1. j \in 1..len
            BY <1>2, <2>1, <4>2, <5>1 DEF len
          <6> QED
            BY <2>3, <2>5, <4>2, <5>1, <6>1
        <5>2. CASE i # 1
          BY <1>1, <2>6, <2>7, <4>2, <5>2
        <5> QED
          BY <5>1, <5>2
      <4> QED
        BY <1>1, <2>6, <4>3, Listed
    <3>3. x \in ListedIn(d)
      <4>1. len + 1 \in DOMAIN d[1].nodes /\ d[1].nodes[len + 1] = x
        BY <2>3, <2>5
      <4> QED
        BY <2>1, <2>6, <4>1, Listed
    <3> QED
      BY <3>1, <3>2, <3>3
  <2> QED
    BY <2>5, <2>7, <2>8, <2>9 DEF Holds, d
<1>6. CASE ~(list # <<>> /\ Len(Head(list).nodes) < Head(list).size)
  <2> DEFINE room == IF list = <<>> THEN FirstNodes ELSE Doubled(Head(list).size)
             new == [size |-> room, nodes |-> <<x>>]
  <2>1. d = <<new>> \o list
    BY <1>6, Zenon DEF Added
  <2>2. room \in Nat
    <3>1. FirstNodes \in Nat /\ MaxNodes \in Nat
      BY CleanupBoundsOK
    <3>2. list # <<>> => Head(list).size \in Nat
      BY <1>1 DEF Chunk
    <3> QED
      BY <3>1, <3>2 DEF Doubled
  <2> HIDE DEF room
  <2>3. new \in Chunk /\ new.nodes = <<x>>
    BY <2>2 DEF Chunk
  <2> HIDE DEF new
  <2>4. d \in Seq(Chunk) /\ Len(d) = Len(list) + 1 /\ d[1].nodes = <<x>>
        /\ \A i \in 1..Len(list) : d[i + 1] = list[i]
    BY <1>1, <2>1, <2>3
  <2> HIDE DEF d
  <2>5. DOMAIN d = 1..Len(list) + 1 /\ DOMAIN d[1].nodes = {1} /\ d[1].nodes[1] = x
    BY <2>4
  <2>6. \A i \in DOMAIN d : i # 1 => i - 1 \in 1..Len(list) /\ d[i] = list[i - 1]
    <3>1. SUFFICES ASSUME NEW i \in 1..Len(list) + 1, i # 1
                   PROVE  i - 1 \in 1..Len(list) /\ d[i] = list[i - 1]
      BY <2>5
    <3>2. i - 1 \in 1..Len(list) /\ (i - 1) + 1 = i
      BY <1>1, <3>1
    <3> QED
      BY <2>4, <3>2
  <2>7. \A i \in DOMAIN d : d[i].nodes # <<>>
    <3>1. SUFFICES ASSUME NEW i \in DOMAIN d
                   PROVE  d[i].nodes # <<>>
      OBVIOUS
    <3>2. CASE i = 1
      BY <2>5, <3>2
    <3>3. CASE i # 1
      BY <1>1, <2>6, <3>3 DEF Holds
    <3> QED
      BY <3>2, <3>3
  <2>8. ReverseOrder(d)
    <3>1. SUFFICES ASSUME NEW i \in DOMAIN d, NEW k \in DOMAIN d,
                          NEW j \in DOMAIN d[i].nodes, NEW l \in DOMAIN d[k].nodes,
                          i < k \/ (i = k /\ l < j)
                   PROVE  d[k].nodes[l].n < d[i].nodes[j].n
      BY DEF ReverseOrder
    <3>2. k # 1
      <4>1. SUFFICES ASSUME k = 1
                     PROVE  FALSE
        OBVIOUS
      <4>2. i = 1 /\ l < j
        BY <1>1, <2>5, <3>1, <4>1
      <4> QED
        BY <2>5, <4>1, <4>2
    <3>3. k - 1 \in 1..Len(list) /\ d[k] = list[k - 1] /\ l \in 1..Len(list[k - 1].nodes)
      BY <1>2, <2>6, <3>2
    <3>4. CASE i = 1
      <4>1. d[i].nodes[j] = x
        BY <2>5, <3>4
      <4> QED
        BY <1>3, <3>3, <4>1
    <3>5. CASE i # 1
      <4>1. i - 1 \in 1..Len(list) /\ d[i] = list[i - 1] /\ j \in 1..Len(list[i - 1].nodes)
        BY <1>2, <2>6, <3>5
      <4>2. i - 1 < k - 1 \/ (i - 1 = k - 1 /\ l < j)
        BY <1>1, <2>5, <3>1
      <4> QED
        BY <1>4, <3>3, <4>1, <4>2
    <3> QED
      BY <3>4, <3>5
  <2>9. ListedIn(d) = things \cup {x}
    <3>1. ASSUME NEW y \in ListedIn(d)
          PROVE  y \in things \cup {x}
      <4>1. PICK i \in DOMAIN d : \E j \in DOMAIN d[i].nodes : y = d[i].nodes[j]
        BY <3>1, Listed
      <4>2. CASE i = 1
        BY <2>5, <4>1, <4>2
      <4>3. CASE i # 1
        <5>1. i - 1 \in DOMAIN list /\ d[i] = list[i - 1]
          BY <1>1, <2>6, <4>3
        <5> QED
          BY <4>1, <5>1, Listed DEF Holds
      <4> QED
        BY <4>2, <4>3
    <3>2. ASSUME NEW y \in things
          PROVE  y \in ListedIn(d)
      <4>1. PICK i \in DOMAIN list : \E j \in DOMAIN list[i].nodes : y = list[i].nodes[j]
        BY <3>2, Listed DEF Holds
      <4>2. i + 1 \in DOMAIN d /\ d[i + 1] = list[i]
        BY <1>1, <2>4, <2>5
      <4> QED
        BY <4>1, <4>2, Listed
    <3>3. x \in ListedIn(d)
      <4>1. 1 \in DOMAIN d
        BY <1>1, <2>5
      <4> QED
        BY <2>5, <4>1, Listed
    <3> QED
      BY <3>1, <3>2, <3>3
  <2> QED
    BY <2>4, <2>7, <2>8, <2>9 DEF Holds, d
<1> QED
  BY <1>5, <1>6

\* ChunkList::Cleanup takes the newest node; then the chunk, if that was its first.
Without(list) ==
  LET next == LastNode(Head(list))
  IN  IF next.rest.nodes = <<>> THEN Tail(list) ELSE <<next.rest>> \o Tail(list)

\* It is the newest of all, and the list holds the others.
LEMMA ListShrinks ==
  ASSUME NEW list \in Seq(Chunk), list # <<>>, NEW things, Holds(list, things)
  PROVE  LET x == LastNode(Head(list)).node IN
         /\ x \in things /\ \A y \in things \ {x} : y.n < x.n
         /\ Without(list) \in Seq(Chunk) /\ Holds(Without(list), things \ {x})
<1> DEFINE nodes == list[1].nodes
           len == Len(nodes)
           x == nodes[len]
           d == Without(list)
<1>1. Len(list) \in Nat /\ DOMAIN list = 1..Len(list)
      /\ \A i \in 1..Len(list) : list[i] \in Chunk /\ list[i].nodes \in Seq(Thing)
  BY ChunksOf
<1>2. \A i \in 1..Len(list) :
        Len(list[i].nodes) \in Nat \ {0} /\ DOMAIN list[i].nodes = 1..Len(list[i].nodes)
  <2>1. SUFFICES ASSUME NEW i \in 1..Len(list)
                 PROVE  /\ Len(list[i].nodes) \in Nat \ {0}
                        /\ DOMAIN list[i].nodes = 1..Len(list[i].nodes)
    OBVIOUS
  <2>2. list[i].nodes \in Seq(Thing) /\ list[i].nodes # <<>>
    BY <1>1 DEF Holds
  <2> QED
    BY <2>2
<1>3. 1 \in 1..Len(list) /\ Head(list) = list[1] /\ Len(list) # 0
  BY <1>1
<1>4. nodes \in Seq(Thing) /\ len \in Nat \ {0} /\ DOMAIN nodes = 1..len
  BY <1>1, <1>2, <1>3
<1>5. LastNode(Head(list)).node = x
  BY <1>3 DEF LastNode, Last
<1>6. x \in things
  BY <1>3, <1>4, Listed DEF Holds
<1>7. \A i, k \in 1..Len(list) : \A j \in 1..Len(list[i].nodes), l \in 1..Len(list[k].nodes) :
        i < k \/ (i = k /\ l < j) => list[k].nodes[l].n < list[i].nodes[j].n
  BY <1>1, <1>2 DEF Holds, ReverseOrder
\* Every other node is older than x.
<1>8. \A k \in 1..Len(list) : \A l \in 1..Len(list[k].nodes) :
        ~(k = 1 /\ l = len) => list[k].nodes[l].n < x.n
  <2>1. SUFFICES ASSUME NEW k \in 1..Len(list), NEW l \in 1..Len(list[k].nodes),
                        ~(k = 1 /\ l = len)
                 PROVE  list[k].nodes[l].n < x.n
    OBVIOUS
  <2>2. 1 < k \/ (1 = k /\ l < len)
    BY <1>4, <2>1
  <2> QED
    BY <1>3, <1>4, <1>7, <2>2
<1>9. \A y \in things \ {x} : y.n < x.n
  <2>1. SUFFICES ASSUME NEW y \in things, y # x
                 PROVE  y.n < x.n
    OBVIOUS
  <2>2. PICK k \in DOMAIN list : \E l \in DOMAIN list[k].nodes : y = list[k].nodes[l]
    BY Listed DEF Holds
  <2>3. PICK l \in DOMAIN list[k].nodes : y = list[k].nodes[l]
    BY <2>2
  <2> QED
    BY <1>1, <1>2, <1>8, <2>1, <2>3
<1>10. x \in Thing /\ \A y \in Thing : ~ y.n < y.n
  <2>1. \A y \in Thing : y.n \in Nat
    BY DEF Thing
  <2> QED
    BY <1>4, <2>1
<1> DEFINE rest == [list[1] EXCEPT !.nodes = Front(nodes)]
<1>11. Front(nodes) \in Seq(Thing) /\ Len(Front(nodes)) = len - 1
       /\ \A j \in 1..len - 1 : Front(nodes)[j] = nodes[j]
  <2>1. \A j \in 1..len - 1 : nodes[j] \in Thing
    BY <1>4
  <2> QED
    BY <1>4, <2>1, SubSeqProperties DEF Front
<1>12. rest \in Chunk /\ rest.nodes = Front(nodes)
  BY <1>1, <1>3, <1>11 DEF Chunk
<1>13. d = IF Front(nodes) = <<>> THEN Tail(list) ELSE <<rest>> \o Tail(list)
  BY <1>3, <1>12 DEF LastNode, Without
<1>14. Tail(list) \in Seq(Chunk) /\ Len(Tail(list)) = Len(list) - 1
       /\ \A k \in 1..Len(list) - 1 : Tail(list)[k] = list[k + 1]
  BY HeadTailProperties
<1> HIDE DEF nodes, len, x, d, rest
\* Where each node stands afterwards.
<1>15. /\ d \in Seq(Chunk)
       /\ \A k \in DOMAIN d : d[k].nodes # <<>>
       /\ \E b \in {0, 1} :
            /\ \A k \in DOMAIN d : \A l \in DOMAIN d[k].nodes :
                 /\ k + b \in DOMAIN list /\ l \in DOMAIN list[k + b].nodes
                 /\ d[k].nodes[l] = list[k + b].nodes[l] /\ ~(k + b = 1 /\ l = len)
            /\ \A k \in DOMAIN list : \A l \in DOMAIN list[k].nodes : ~(k = 1 /\ l = len) =>
                 k - b \in DOMAIN d /\ l \in DOMAIN d[k - b].nodes
                 /\ d[k - b].nodes[l] = list[k].nodes[l]
  <2>1. CASE Front(nodes) = <<>>
    <3>1. len = 1
      BY <1>4, <1>11, <2>1
    <3>2. d = Tail(list)
      BY <1>13, <2>1
    <3>3. d \in Seq(Chunk) /\ Len(d) = Len(list) - 1 /\ DOMAIN d = 1..Len(list) - 1
      BY <1>14, <3>2
    <3>4. \A k \in DOMAIN d : k + 1 \in DOMAIN list /\ d[k] = list[k + 1] /\ k + 1 # 1
      BY <1>1, <1>14, <3>2, <3>3
    <3>5. \A k \in DOMAIN d : d[k].nodes # <<>>
      BY <1>1, <3>4 DEF Holds
    <3>6. ASSUME NEW k \in DOMAIN list, NEW l \in DOMAIN list[k].nodes, ~(k = 1 /\ l = len)
          PROVE  k - 1 \in DOMAIN d /\ d[k - 1] = list[k]
      <4>1. k # 1
        BY <1>4, <3>1, <3>6 DEF nodes
      <4>2. k - 1 \in 1..Len(list) - 1 /\ (k - 1) + 1 = k
        BY <1>1, <4>1
      <4> QED
        BY <3>3, <3>4, <4>2
    <3> QED
      BY <3>3, <3>4, <3>5, <3>6
  <2>2. CASE Front(nodes) # <<>>
    <3>1. len > 1
      BY <1>4, <1>11, <2>2
    <3>2. d = <<rest>> \o Tail(list)
      BY <1>13, <2>2
    <3>3. d \in Seq(Chunk) /\ Len(d) = Len(list) /\ DOMAIN d = 1..Len(list) /\ d[1] = rest
          /\ \A k \in 2..Len(list) : d[k] = Tail(list)[k - 1]
      BY <1>1, <1>3, <1>12, <1>14, <3>2
    <3>4. \A k \in 1..Len(list) : k # 1 => d[k] = list[k]
      <4>1. SUFFICES ASSUME NEW k \in 1..Len(list), k # 1
                     PROVE  d[k] = list[k]
        OBVIOUS
      <4>2. k \in 2..Len(list) /\ k - 1 \in 1..Len(list) - 1 /\ (k - 1) + 1 = k
        BY <1>1, <4>1
      <4> QED
        BY <1>14, <3>3, <4>2
    <3>5. d[1].nodes = Front(nodes) /\ DOMAIN d[1].nodes = 1..len - 1
      BY <1>4, <1>11, <1>12, <3>3
    <3>6. \A k \in DOMAIN d : d[k].nodes # <<>>
      <4>1. SUFFICES ASSUME NEW k \in 1..Len(list)
                     PROVE  d[k].nodes # <<>>
        BY <3>3
      <4>2. CASE k = 1
        BY <2>2, <3>5, <4>2
      <4>3. CASE k # 1
        BY <1>1, <3>4, <4>3 DEF Holds
      <4> QED
        BY <4>2, <4>3
    <3>7. ASSUME NEW k \in DOMAIN d, NEW l \in DOMAIN d[k].nodes
          PROVE  k \in DOMAIN list /\ l \in DOMAIN list[k].nodes
                 /\ d[k].nodes[l] = list[k].nodes[l] /\ ~(k = 1 /\ l = len)
      <4>1. CASE k = 1
        <5>1. l \in 1..len - 1
          BY <3>5, <4>1
        <5>2. l \in DOMAIN nodes /\ l # len /\ d[k].nodes[l] = nodes[l]
          BY <1>4, <1>11, <3>5, <4>1, <5>1
        <5> QED
          BY <1>1, <1>3, <4>1, <5>2 DEF nodes
      <4>2. CASE k # 1
        BY <1>1, <3>3, <3>4, <4>2
      <4> QED
        BY <4>1, <4>2
    <3>8. ASSUME NEW k \in DOMAIN list, NEW l \in DOMAIN list[k].nodes, ~(k = 1 /\ l = len)
          PROVE  k \in DOMAIN d /\ l \in DOMAIN d[k].nodes /\ d[k].nodes[l] = list[k].nodes[l]
      <4>1. CASE k = 1
        <5>1. l \in 1..len
          BY <1>4, <4>1 DEF nodes
        <5>2. l \in 1..len - 1
          BY <1>4, <3>8, <4>1, <5>1
        <5> QED
          BY <1>1, <1>11, <3>3, <3>5, <4>1, <5>2 DEF nodes
      <4>2. CASE k # 1
        BY <1>1, <3>3, <3>4, <4>2
      <4> QED
        BY <4>1, <4>2
    <3>9. \A k \in 1..Len(list) : k + 0 = k /\ k - 0 = k
      OBVIOUS
    <3> QED
      BY <1>1, <3>3, <3>6, <3>7, <3>8, <3>9
  <2> QED
    BY <2>1, <2>2
<1>16. PICK b \in {0, 1} :
         /\ \A k \in DOMAIN d : \A l \in DOMAIN d[k].nodes :
              /\ k + b \in DOMAIN list /\ l \in DOMAIN list[k + b].nodes
              /\ d[k].nodes[l] = list[k + b].nodes[l] /\ ~(k + b = 1 /\ l = len)
         /\ \A k \in DOMAIN list : \A l \in DOMAIN list[k].nodes : ~(k = 1 /\ l = len) =>
              k - b \in DOMAIN d /\ l \in DOMAIN d[k - b].nodes
              /\ d[k - b].nodes[l] = list[k].nodes[l]
  BY <1>15
<1>17. ReverseOrder(d)
  <2>1. SUFFICES ASSUME NEW i \in DOMAIN d, NEW k \in DOMAIN d,
                        NEW j \in DOMAIN d[i].nodes, NEW l \in DOMAIN d[k].nodes,
                        i < k \/ (i = k /\ l < j)
                 PROVE  d[k].nodes[l].n < d[i].nodes[j].n
    BY DEF ReverseOrder
  <2>2. i + b < k + b \/ (i + b = k + b /\ l < j)
    <3>1. DOMAIN d = 1..Len(d) /\ i \in Nat /\ k \in Nat
      BY <1>15
    <3> QED
      BY <2>1, <3>1
  <2> QED
    <3>1. i + b \in 1..Len(list) /\ k + b \in 1..Len(list) /\ j \in 1..Len(list[i + b].nodes)
          /\ l \in 1..Len(list[k + b].nodes) /\ d[i].nodes[j] = list[i + b].nodes[j]
          /\ d[k].nodes[l] = list[k + b].nodes[l]
      BY <1>1, <1>2, <1>16
    <3>2. list[k + b].nodes[l].n < list[i + b].nodes[j].n
      BY <1>7, <2>2, <3>1, Zenon
    <3> QED
      BY <3>1, <3>2
<1>18. ListedIn(d) = things \ {x}
  <2>1. ASSUME NEW y \in ListedIn(d)
        PROVE  y \in things \ {x}
    <3>1. PICK k \in DOMAIN d : \E l \in DOMAIN d[k].nodes : y = d[k].nodes[l]
      BY <2>1, Listed
    <3>2. PICK l \in DOMAIN d[k].nodes : y = d[k].nodes[l]
      BY <3>1
    <3>3. k + b \in DOMAIN list /\ l \in DOMAIN list[k + b].nodes
          /\ y = list[k + b].nodes[l] /\ ~(k + b = 1 /\ l = len)
      BY <1>16, <3>2
    <3>4. y \in things
      BY <3>3, Listed DEF Holds
    <3>5. y.n < x.n
      BY <1>1, <1>2, <1>8, <3>3
    <3> QED
      BY <1>10, <3>4, <3>5
  <2>2. ASSUME NEW y \in things, y # x
        PROVE  y \in ListedIn(d)
    <3>1. PICK k \in DOMAIN list : \E l \in DOMAIN list[k].nodes : y = list[k].nodes[l]
      BY Listed DEF Holds
    <3>2. PICK l \in DOMAIN list[k].nodes : y = list[k].nodes[l]
      BY <3>1
    <3>3. ~(k = 1 /\ l = len)
      BY <2>2, <3>2 DEF x, nodes
    <3>4. k - b \in DOMAIN d /\ l \in DOMAIN d[k - b].nodes /\ y = d[k - b].nodes[l]
      BY <1>16, <3>2, <3>3
    <3> QED
      BY <3>4, Listed
  <2> QED
    BY <2>1, <2>2
<1>19. Holds(d, things \ {x})
  BY <1>15, <1>17, <1>18 DEF Holds
<1> QED
  BY <1>5, <1>6, <1>9, <1>15, <1>19 DEF d

-------------------------------------------------------------------------------
(* String blocks. *)

\* What is taken is at some place of a block.
LEMMA Taken ==
  ASSUME NEW held, NEW spare, NEW y
  PROVE  y \in TakenFrom(held, spare) <=>
           \E i \in DOMAIN held :
             \E j \in (IF i = 1 THEN spare + 1 ELSE 1)..StringsPerBlock : y = held[i][j]
BY DEF TakenFrom

\* Another first element.
LEMMA FirstReplaced ==
  ASSUME NEW S, NEW q \in Seq(S), q # <<>>, NEW e \in S
  PROVE  /\ [q EXCEPT ![1] = e] \in Seq(S) /\ Len([q EXCEPT ![1] = e]) = Len(q)
         /\ [q EXCEPT ![1] = e][1] = e
         /\ \A i \in 2..Len(q) : [q EXCEPT ![1] = e][i] = q[i]
<1>1. 1 \in 1..Len(q) /\ Len(q) \in Nat
  OBVIOUS
<1> QED
  BY <1>1

\* AllocateFromStringBlock hands out one string more.
LEMMA StringIsTaken ==
  ASSUME NEW held \in Seq(Block), NEW spare \in 0..StringsPerBlock,
         held = <<>> => spare = 0, NEW x \in Thing
  PROVE  LET before == IF spare = 0 THEN <<NewBlock>> \o held ELSE held
             place == IF spare = 0 THEN StringsPerBlock ELSE spare
             after == [before EXCEPT ![1][place] = x]
         IN
         /\ after \in Seq(Block) /\ after # <<>> /\ place - 1 \in 0..StringsPerBlock
         /\ TakenFrom(after, place - 1) = TakenFrom(held, spare) \cup {x}
<1> DEFINE before == IF spare = 0 THEN <<NewBlock>> \o held ELSE held
           place == IF spare = 0 THEN StringsPerBlock ELSE spare
           after == [before EXCEPT ![1][place] = x]
<1>1. StringsPerBlock \in Nat \ {0}
  BY CleanupBoundsOK
<1>2. place \in 1..StringsPerBlock /\ place - 1 \in 0..StringsPerBlock /\ (place - 1) + 1 = place
  BY <1>1
<1>3. NewBlock \in Block
  BY DEF NewBlock, Block
<1>4. before \in Seq(Block) /\ before # <<>>
  BY <1>3
<1> HIDE DEF before, place
<1>5. Len(before) \in Nat \ {0} /\ DOMAIN before = 1..Len(before) /\ before[1] \in Block
  BY <1>4
<1> DEFINE first == [before[1] EXCEPT ![place] = x]
<1>6. first \in Block
  BY <1>2, <1>5 DEF Block
<1>7. after = [before EXCEPT ![1] = first]
  OBVIOUS
<1> HIDE DEF first
<1>8. /\ after \in Seq(Block) /\ Len(after) = Len(before)
      /\ after[1] = [before[1] EXCEPT ![place] = x]
      /\ \A i \in 2..Len(before) : after[i] = before[i]
  BY <1>4, <1>6, <1>7, FirstReplaced DEF first
<1> HIDE DEF after
<1>9. DOMAIN after = 1..Len(before) /\ after # <<>> /\ DOMAIN before[1] = 1..StringsPerBlock
  BY <1>5, <1>8 DEF Block
<1>10. after[1][place] = x /\ \A j \in 1..StringsPerBlock : j # place => after[1][j] = before[1][j]
  BY <1>2, <1>8, <1>9
<1>11. \A y : y \in TakenFrom(after, place - 1) <=>
         y = x \/ (\E j \in (place + 1)..StringsPerBlock : y = before[1][j])
               \/ \E i \in 2..Len(before) : \E j \in 1..StringsPerBlock : y = before[i][j]
  <2>1. ASSUME NEW y, y \in TakenFrom(after, place - 1)
        PROVE  y = x \/ (\E j \in (place + 1)..StringsPerBlock : y = before[1][j])
                     \/ \E i \in 2..Len(before) : \E j \in 1..StringsPerBlock : y = before[i][j]
    <3>1. PICK i \in DOMAIN after :
            \E j \in (IF i = 1 THEN (place - 1) + 1 ELSE 1)..StringsPerBlock : y = after[i][j]
      BY <2>1, Taken
    <3>2. PICK j \in (IF i = 1 THEN place ELSE 1)..StringsPerBlock : y = after[i][j]
      BY <1>2, <3>1
    <3>3. CASE i = 1 /\ j = place
      BY <1>10, <3>2, <3>3
    <3>4. CASE i = 1 /\ j # place
      <4>1. j \in (place + 1)..StringsPerBlock /\ j \in 1..StringsPerBlock
        BY <1>1, <1>2, <3>4
      <4> QED
        BY <1>10, <3>2, <3>4, <4>1
    <3>5. CASE i # 1
      <4>1. i \in 2..Len(before)
        BY <1>5, <1>9, <3>5
      <4> QED
        BY <1>8, <3>2, <3>5, <4>1
    <3> QED
      BY <3>3, <3>4, <3>5
  <2>2. x \in TakenFrom(after, place - 1)
    <3>1. 1 \in DOMAIN after /\ place \in ((place - 1) + 1)..StringsPerBlock
      BY <1>1, <1>2, <1>5, <1>9
    <3> QED
      BY <1>10, <3>1, Taken
  <2>3. ASSUME NEW y, NEW j \in (place + 1)..StringsPerBlock, y = before[1][j]
        PROVE  y \in TakenFrom(after, place - 1)
    <3>1. 1 \in DOMAIN after /\ j \in ((place - 1) + 1)..StringsPerBlock
          /\ j \in 1..StringsPerBlock /\ j # place
      BY <1>1, <1>2, <1>5, <1>9
    <3> QED
      BY <1>10, <2>3, <3>1, Taken
  <2>4. ASSUME NEW y, NEW i \in 2..Len(before), NEW j \in 1..StringsPerBlock, y = before[i][j]
        PROVE  y \in TakenFrom(after, place - 1)
    <3>1. i \in DOMAIN after /\ i # 1 /\ after[i] = before[i]
      BY <1>5, <1>8, <1>9
    <3> QED
      BY <2>4, <3>1, Taken
  <2>5. SUFFICES ASSUME NEW y
                 PROVE  y \in TakenFrom(after, place - 1) <=>
                          y = x \/ (\E j \in (place + 1)..StringsPerBlock : y = before[1][j])
                                \/ \E i \in 2..Len(before) :
                                     \E j \in 1..StringsPerBlock : y = before[i][j]
    OBVIOUS
  <2>6. ASSUME y = x \/ (\E j \in (place + 1)..StringsPerBlock : y = before[1][j])
                     \/ \E i \in 2..Len(before) : \E j \in 1..StringsPerBlock : y = before[i][j]
        PROVE  y \in TakenFrom(after, place - 1)
    BY <2>2, <2>3, <2>4, <2>6
  <2> QED
    BY <2>1, <2>6
<1>12. \A y : y \in TakenFrom(held, spare) <=>
         \/ \E j \in (place + 1)..StringsPerBlock : y = before[1][j]
         \/ \E i \in 2..Len(before) : \E j \in 1..StringsPerBlock : y = before[i][j]
  <2>1. CASE spare = 0
    <3>1. before = <<NewBlock>> \o held /\ place = StringsPerBlock
      BY <2>1 DEF before, place
    <3>2. Len(held) \in Nat /\ DOMAIN held = 1..Len(held) /\ Len(before) = Len(held) + 1
          /\ \A i \in 1..Len(held) : before[i + 1] = held[i]
      BY <1>3, <3>1
    <3>3. ~ \E j \in (place + 1)..StringsPerBlock : TRUE
      BY <1>1, <3>1
    <3>4. ASSUME NEW y, y \in TakenFrom(held, spare)
          PROVE  \E i \in 2..Len(before) : \E j \in 1..StringsPerBlock : y = before[i][j]
      <4>1. PICK i \in DOMAIN held :
              \E j \in (IF i = 1 THEN spare + 1 ELSE 1)..StringsPerBlock : y = held[i][j]
        BY <3>4, Taken
      <4>2. \E j \in 1..StringsPerBlock : y = held[i][j]
        BY <2>1, <4>1
      <4>3. i + 1 \in 2..Len(before) /\ before[i + 1] = held[i]
        BY <3>2
      <4> QED
        BY <4>2, <4>3
    <3>5. ASSUME NEW y, NEW i \in 2..Len(before), NEW j \in 1..StringsPerBlock, y = before[i][j]
          PROVE  y \in TakenFrom(held, spare)
      <4>1. i - 1 \in DOMAIN held /\ (i - 1) + 1 = i
        BY <3>2
      <4>2. y = held[i - 1][j]
        BY <3>2, <3>5, <4>1
      <4>3. j \in (IF i - 1 = 1 THEN spare + 1 ELSE 1)..StringsPerBlock
        BY <2>1
      <4> QED
        BY <4>1, <4>2, <4>3, Taken
    <3> QED
      BY <3>3, <3>4, <3>5
  <2>2. CASE spare # 0
    <3>1. before = held /\ place = spare
      BY <2>2 DEF before, place
    <3>2. ASSUME NEW y, y \in TakenFrom(held, spare)
          PROVE  \/ \E j \in (place + 1)..StringsPerBlock : y = before[1][j]
                 \/ \E i \in 2..Len(before) : \E j \in 1..StringsPerBlock : y = before[i][j]
      <4>1. PICK i \in DOMAIN held :
              \E j \in (IF i = 1 THEN spare + 1 ELSE 1)..StringsPerBlock : y = held[i][j]
        BY <3>2, Taken
      <4>2. i # 1 => i \in 2..Len(before)
        BY <1>5, <3>1
      <4> QED
        BY <3>1, <4>1, <4>2
    <3>3. ASSUME NEW y, NEW j \in (place + 1)..StringsPerBlock, y = before[1][j]
          PROVE  y \in TakenFrom(held, spare)
      <4>1. 1 \in DOMAIN held
        BY <1>5, <3>1
      <4> QED
        BY <3>1, <3>3, <4>1, Taken
    <3>4. ASSUME NEW y, NEW i \in 2..Len(before), NEW j \in 1..StringsPerBlock, y = before[i][j]
          PROVE  y \in TakenFrom(held, spare)
      <4>1. i \in DOMAIN held /\ i # 1
        BY <1>5, <3>1
      <4> QED
        BY <3>1, <3>4, <4>1, Taken
    <3> QED
      BY <3>2, <3>3, <3>4
  <2> QED
    BY <2>1, <2>2
<1>13. TakenFrom(after, place - 1) = TakenFrom(held, spare) \cup {x}
  BY <1>11, <1>12
<1> QED
  BY <1>2, <1>8, <1>9, <1>13 DEF after, before, place

-------------------------------------------------------------------------------
(* The invariant holds. *)

\* The types, for each SerialArena.
LEMMA CleanupTypes ==
  ASSUME CleanupTypeOK
  PROVE  /\ Serials = 1..Len(lists) /\ Len(lists) \in Nat \ {0}
         /\ \A s \in Serials : lists[s] \in Seq(Chunk) /\ sblocks[s] \in Seq(Block)
                               /\ unusedStrings[s] \in 0..StringsPerBlock
         /\ Objects \in SUBSET Thing /\ Strings \in SUBSET Thing
         /\ Cardinality(constructed) \in Nat
         /\ DOMAIN sblocks = Serials /\ DOMAIN unusedStrings = Serials
<1>1. Len(lists) \in Nat \ {0} /\ Serials = 1..Len(lists)
  BY DEF CleanupTypeOK, Serials
<1>2. \A s \in Serials : lists[s] \in Seq(Chunk)
  BY DEF CleanupTypeOK, Serials
<1>3. DOMAIN sblocks = Serials /\ DOMAIN unusedStrings = Serials
  BY <1>1 DEF CleanupTypeOK
<1>4. \A s \in Serials : sblocks[s] \in Seq(Block)
  <2>1. sblocks \in Seq(Seq(Block)) /\ Serials = 1..Len(sblocks)
    BY <1>1 DEF CleanupTypeOK
  <2> QED
    BY <2>1, ElementOfSeq
<1>5. \A s \in Serials : unusedStrings[s] \in 0..StringsPerBlock
  <2>1. unusedStrings \in Seq(0..StringsPerBlock) /\ Serials = 1..Len(unusedStrings)
    BY <1>1 DEF CleanupTypeOK
  <2> QED
    BY <2>1, ElementOfSeq
<1>6. Cardinality(constructed) \in Nat
  BY FS_CardinalityType DEF CleanupTypeOK
<1>7. Objects \in SUBSET Thing /\ Strings \in SUBSET Thing
  BY DEF CleanupTypeOK, Objects, Strings
<1> QED
  BY <1>1, <1>2, <1>3, <1>4, <1>5, <1>6, <1>7

\* Nothing is in an empty cleanup list, or in no string block.
LEMMA NothingHeld ==
  Holds(<<>>, {}) /\ TakenFrom(<<>>, 0) = {}
<1>1. DOMAIN <<>> = {}
  OBVIOUS
<1>2. Holds(<<>>, {})
  BY <1>1 DEF Holds, ReverseOrder, ListedIn
<1>3. TakenFrom(<<>>, 0) = {}
  BY <1>1 DEF TakenFrom
<1> QED
  BY <1>2, <1>3

\* A walk over no chunk visits the first SerialArena alone.
LEMMA FirstWalk == WalkOver(<<>>) = Countdown(1)
<1>1. Reversed(<<>>) = <<>> /\ FlattenSeq(<<>>) = <<>>
  BY DEF Reversed, FlattenSeq
<1>2. Countdown(1) = <<1>>
  BY DEF Countdown
<1>3. <<>> \o <<1>> = <<1>>
  OBVIOUS
<1> QED
  BY <1>1, <1>2, <1>3 DEF WalkOver

\* The walk is the one over the chunks.
LEMMA WalkIs == Walk = WalkOver(chunks) /\ Walk' = WalkOver(chunks')
BY DEF Walk, NewestFirst, WalkOver, Reversed

\* The arena begins with one SerialArena and nothing on it.
LEMMA CleanupStarts == CleanupInit => CleanupInv
<1> SUFFICES ASSUME CleanupInit
             PROVE  CleanupInv
  OBVIOUS
<1>1. /\ chunks = <<>> /\ lists = <<<<>>>> /\ sblocks = <<<<>>>> /\ unusedStrings = <<0>>
      /\ constructed = {} /\ freed = {} /\ phase = "using" /\ walk = <<>>
  BY DEF CleanupInit
<1>2. Serials = {1} /\ lists[1] = <<>> /\ sblocks[1] = <<>> /\ unusedStrings[1] = 0 /\ Len(lists) = 1
  BY <1>1 DEF Serials
<1>3. CleanupTypeOK
  <2>1. StringsPerBlock \in Nat
    BY CleanupBoundsOK
  <2>2. <<>> = Countdown(0) /\ Len(<<>>) = 0
    BY DEF Countdown
  <2>3. IsFiniteSet({})
    BY FS_EmptySet
  <2> QED
    BY <1>1, <2>1, <2>2, <2>3 DEF CleanupTypeOK
<1>4. Objects = {} /\ Strings = {}
  BY <1>1 DEF Objects, Strings
<1>5. WalkIsDown
  BY <1>1, <1>2, FirstWalk, WalkIs DEF WalkIsDown
<1>6. OfSerial({}, 1) = {}
  BY DEF OfSerial
<1> QED
  BY <1>1, <1>2, <1>3, <1>4, <1>5, <1>6, NothingHeld
  DEF CleanupInv, Numbered, ObjectsAreListed, StringsAreTaken, Progress

\* A new SerialArena is the first of the walk and has nothing on it.
LEMMA NewSerialArenaKeeps ==
  ASSUME CleanupInv, NewSerialArena
  PROVE  CleanupInv'
<1> DEFINE s == Len(lists) + 1
<1>1. CleanupTypeOK /\ WalkIsDown /\ Numbered /\ ObjectsAreListed /\ StringsAreTaken /\ Progress
  BY DEF CleanupInv
<1>2. /\ phase = "using" /\ lists' = Append(lists, <<>>) /\ sblocks' = Append(sblocks, <<>>)
      /\ unusedStrings' = Append(unusedStrings, 0) /\ chunks' = Chunked(chunks, s)
      /\ constructed' = constructed /\ freed' = freed /\ phase' = phase /\ walk' = walk
  BY DEF NewSerialArena, Chunked
<1>3. Len(lists) \in Nat \ {0} /\ Serials = 1..Len(lists) /\ s \in Nat
  BY <1>1, CleanupTypes
<1>4. /\ lists' \in Seq(Seq(Chunk)) /\ Len(lists') = s /\ lists'[s] = <<>>
      /\ \A t \in Serials : lists'[t] = lists[t]
  BY <1>1, <1>2, <1>3 DEF CleanupTypeOK
<1>5. /\ sblocks' \in Seq(Seq(Block)) /\ Len(sblocks') = s /\ sblocks'[s] = <<>>
      /\ \A t \in Serials : sblocks'[t] = sblocks[t]
  <2>1. sblocks \in Seq(Seq(Block)) /\ Serials = 1..Len(sblocks) /\ Len(sblocks) + 1 = s
    BY <1>1, <1>3 DEF CleanupTypeOK
  <2>2. <<>> \in Seq(Block)
    OBVIOUS
  <2> QED
    BY <1>2, <2>1, <2>2, AppendProperties
<1>6. /\ unusedStrings' \in Seq(0..StringsPerBlock) /\ Len(unusedStrings') = s
      /\ unusedStrings'[s] = 0 /\ \A t \in Serials : unusedStrings'[t] = unusedStrings[t]
  <2>1. StringsPerBlock \in Nat /\ 0 \in 0..StringsPerBlock
    BY CleanupBoundsOK
  <2> QED
    BY <1>1, <1>2, <1>3, <2>1 DEF CleanupTypeOK
<1>7. Serials' = Serials \cup {s} /\ s \notin Serials
  BY <1>3, <1>4 DEF Serials
<1>8. chunks' \in Seq(Seq(Nat)) /\ Walk' = <<s>> \o Walk
  BY <1>1, <1>2, <1>3, WalkOverMore, WalkIs DEF CleanupTypeOK
<1>9. CleanupTypeOK'
  <2>1. Len(walk) <= Len(lists')
    BY <1>1, <1>3, <1>4 DEF CleanupTypeOK
  <2> QED
    BY <1>1, <1>2, <1>3, <1>4, <1>5, <1>6, <1>8, <2>1 DEF CleanupTypeOK
<1>10. WalkIsDown'
  BY <1>1, <1>3, <1>4, <1>8, CountsOneMore DEF WalkIsDown
<1>11. Numbered'
  BY <1>1, <1>2, <1>7 DEF Numbered
<1>12. Objects' = Objects /\ Strings' = Strings
  BY <1>2 DEF Objects, Strings
<1>13. OfSerial(Objects, s) = {} /\ OfSerial(Strings, s) = {}
  BY <1>1, <1>7 DEF Numbered, OfSerial, Objects, Strings
<1>14. ObjectsAreListed'
  BY <1>1, <1>4, <1>7, <1>12, <1>13, NothingHeld DEF ObjectsAreListed
<1>15. StringsAreTaken'
  BY <1>1, <1>5, <1>6, <1>7, <1>12, <1>13, NothingHeld DEF StringsAreTaken
<1>16. Progress'
  BY <1>1, <1>2 DEF Progress
<1> QED
  BY <1>9, <1>10, <1>11, <1>14, <1>15, <1>16 DEF CleanupInv

\* One more object or string, with a number that none has.
LEMMA OneMore ==
  ASSUME CleanupTypeOK, Numbered, phase = "using", phase' = "using", Serials' = Serials,
         NEW x, x \in Thing, x.serial \in Serials, x.n = Cardinality(constructed) + 1,
         constructed' = constructed \cup {x}
  PROVE  /\ \A y \in constructed : y.n < x.n
         /\ constructed' \in SUBSET Thing /\ IsFiniteSet(constructed') /\ Numbered'
<1>1. Cardinality(constructed) \in Nat
  BY CleanupTypes
<1>2. \A y \in constructed : y.n \in Nat /\ y.n <= Cardinality(constructed)
  BY DEF CleanupTypeOK, Numbered, Thing
<1>3. \A y \in constructed : y.n < x.n
  BY <1>1, <1>2
<1>4. x \notin constructed
  BY <1>1, <1>2
<1>5. IsFiniteSet(constructed') /\ Cardinality(constructed') = Cardinality(constructed) + 1
  BY <1>4, FS_AddElement DEF CleanupTypeOK
<1>6. constructed' \in SUBSET Thing
  BY DEF CleanupTypeOK
<1>7. Numbered'
  <2>1. ASSUME NEW y \in constructed'
        PROVE  y.serial \in Serials' /\ y.n <= Cardinality(constructed')
    <3>1. CASE y = x
      BY <1>1, <1>5, <3>1
    <3>2. CASE y \in constructed
      BY <1>1, <1>2, <1>5, <3>2 DEF Numbered
    <3> QED
      BY <3>1, <3>2
  <2> QED
    BY <2>1 DEF Numbered
<1> QED
  BY <1>3, <1>5, <1>6, <1>7

\* The new object is newer than all in the list.
LEMMA AddCleanupKeeps ==
  ASSUME CleanupInv, NEW s \in Serials, AddCleanup(s)
  PROVE  CleanupInv'
<1> DEFINE x == Object(s, Cardinality(constructed) + 1)
<1>1. CleanupTypeOK /\ WalkIsDown /\ Numbered /\ ObjectsAreListed /\ StringsAreTaken /\ Progress
  BY DEF CleanupInv
<1>2. /\ phase = "using" /\ lists' = [lists EXCEPT ![s] = Added(lists[s], x)]
      /\ constructed' = constructed \cup {x} /\ chunks' = chunks /\ sblocks' = sblocks
      /\ unusedStrings' = unusedStrings /\ freed' = freed /\ phase' = phase /\ walk' = walk
  BY DEF AddCleanup
<1>3. Serials = 1..Len(lists) /\ Cardinality(constructed) \in Nat /\ lists[s] \in Seq(Chunk)
      /\ Len(lists) \in Nat
  BY <1>1, CleanupTypes
<1>4. x \in Thing /\ x.serial = s /\ x.n = Cardinality(constructed) + 1 /\ x.kind = "object"
  BY <1>3 DEF Thing, Object
<1> HIDE DEF x
<1>5. /\ \A t \in OfSerial(Objects, s) : t \in constructed
      /\ Holds(lists[s], OfSerial(Objects, s))
  BY <1>1 DEF OfSerial, Objects, ObjectsAreListed
<1>6. Serials' = Serials
  BY <1>2 DEF Serials
<1>7. /\ \A y \in constructed : y.n < x.n
      /\ constructed' \in SUBSET Thing /\ IsFiniteSet(constructed') /\ Numbered'
  BY <1>1, <1>2, <1>4, <1>6, OneMore
<1>8. Added(lists[s], x) \in Seq(Chunk) /\ Holds(Added(lists[s], x), OfSerial(Objects, s) \cup {x})
  BY <1>3, <1>4, <1>5, <1>7, ListGrows
<1>9. /\ lists' \in Seq(Seq(Chunk)) /\ Len(lists') = Len(lists) /\ lists'[s] = Added(lists[s], x)
      /\ \A t \in Serials : t # s => lists'[t] = lists[t]
  BY <1>1, <1>2, <1>3, <1>8 DEF CleanupTypeOK
<1>10. CleanupTypeOK'
  BY <1>1, <1>2, <1>7, <1>9 DEF CleanupTypeOK
<1>11. WalkIsDown'
  BY <1>1, <1>2, <1>9, WalkIs DEF WalkIsDown
<1>12. Objects' = Objects \cup {x} /\ Strings' = Strings
  BY <1>2, <1>4 DEF Objects, Strings
<1>13. /\ OfSerial(Objects', s) = OfSerial(Objects, s) \cup {x}
       /\ \A t \in Serials : t # s => OfSerial(Objects', t) = OfSerial(Objects, t)
  BY <1>4, <1>12 DEF OfSerial
<1>14. ObjectsAreListed'
  BY <1>1, <1>6, <1>8, <1>9, <1>13 DEF ObjectsAreListed
<1>15. StringsAreTaken'
  BY <1>1, <1>2, <1>6, <1>12 DEF StringsAreTaken
<1>16. Progress'
  BY <1>1, <1>2 DEF Progress
<1> QED
  BY <1>7, <1>10, <1>11, <1>14, <1>15, <1>16 DEF CleanupInv

\* The new string is taken from the string blocks.
LEMMA AllocateStringKeeps ==
  ASSUME CleanupInv, NEW s \in Serials, AllocateString(s)
  PROVE  CleanupInv'
<1> DEFINE x == String(s, Cardinality(constructed) + 1)
           before == IF unusedStrings[s] = 0 THEN <<NewBlock>> \o sblocks[s] ELSE sblocks[s]
           place == IF unusedStrings[s] = 0 THEN StringsPerBlock ELSE unusedStrings[s]
           after == [before EXCEPT ![1][place] = x]
<1>1. CleanupTypeOK /\ WalkIsDown /\ Numbered /\ ObjectsAreListed /\ StringsAreTaken /\ Progress
  BY DEF CleanupInv
<1>2. /\ phase = "using" /\ sblocks' = [sblocks EXCEPT ![s] = after]
      /\ unusedStrings' = [unusedStrings EXCEPT ![s] = place - 1]
      /\ constructed' = constructed \cup {x} /\ chunks' = chunks /\ lists' = lists
      /\ freed' = freed /\ phase' = phase /\ walk' = walk
  BY DEF AllocateString
<1>3. /\ Serials = 1..Len(lists) /\ Cardinality(constructed) \in Nat /\ sblocks[s] \in Seq(Block)
      /\ unusedStrings[s] \in 0..StringsPerBlock /\ Len(lists) \in Nat
  BY <1>1, CleanupTypes
<1>4. x \in Thing /\ x.serial = s /\ x.n = Cardinality(constructed) + 1 /\ x.kind = "string"
  BY <1>3 DEF Thing, String
<1> HIDE DEF x
<1>5. /\ TakenFrom(sblocks[s], unusedStrings[s]) = OfSerial(Strings, s)
      /\ sblocks[s] = <<>> => unusedStrings[s] = 0
  BY <1>1 DEF StringsAreTaken
<1>6. /\ after \in Seq(Block) /\ after # <<>> /\ place - 1 \in 0..StringsPerBlock
      /\ TakenFrom(after, place - 1) = TakenFrom(sblocks[s], unusedStrings[s]) \cup {x}
  BY <1>3, <1>4, <1>5, StringIsTaken, Zenon
<1> HIDE DEF after, place, before
<1>7. Serials' = Serials
  BY <1>2 DEF Serials
<1>8. constructed' \in SUBSET Thing /\ IsFiniteSet(constructed') /\ Numbered'
  BY <1>1, <1>2, <1>4, <1>7, OneMore
<1>9. /\ sblocks' \in Seq(Seq(Block)) /\ Len(sblocks') = Len(sblocks) /\ sblocks'[s] = after
      /\ \A t \in Serials : t # s => sblocks'[t] = sblocks[t]
  BY <1>1, <1>2, <1>3, <1>6 DEF CleanupTypeOK
<1>10. /\ unusedStrings' \in Seq(0..StringsPerBlock) /\ Len(unusedStrings') = Len(unusedStrings)
       /\ unusedStrings'[s] = place - 1
       /\ \A t \in Serials : t # s => unusedStrings'[t] = unusedStrings[t]
  BY <1>1, <1>2, <1>3, <1>6 DEF CleanupTypeOK
<1>11. CleanupTypeOK'
  BY <1>1, <1>2, <1>8, <1>9, <1>10 DEF CleanupTypeOK
<1>12. WalkIsDown'
  BY <1>1, <1>2, WalkIs DEF WalkIsDown
<1>13. Strings' = Strings \cup {x} /\ Objects' = Objects
  BY <1>2, <1>4 DEF Objects, Strings
<1>14. /\ OfSerial(Strings', s) = OfSerial(Strings, s) \cup {x}
       /\ \A t \in Serials : t # s => OfSerial(Strings', t) = OfSerial(Strings, t)
  BY <1>4, <1>13 DEF OfSerial
<1>15. ObjectsAreListed'
  BY <1>1, <1>2, <1>7, <1>13 DEF ObjectsAreListed
<1>16. StringsAreTaken'
  <2>1. SUFFICES ASSUME NEW t \in Serials
                 PROVE  /\ TakenFrom(sblocks'[t], unusedStrings'[t]) = OfSerial(Strings', t)
                        /\ sblocks'[t] = <<>> => unusedStrings'[t] = 0
    BY <1>7 DEF StringsAreTaken
  <2>2. CASE t = s
    BY <1>5, <1>6, <1>9, <1>10, <1>14, <2>2
  <2>3. CASE t # s
    BY <1>1, <1>9, <1>10, <1>14, <2>3 DEF StringsAreTaken
  <2> QED
    BY <2>2, <2>3
<1>17. Progress'
  BY <1>1, <1>2 DEF Progress
<1> QED
  BY <1>8, <1>11, <1>12, <1>15, <1>16, <1>17 DEF CleanupInv

\* The walk goes down by one.
LEMMA WalkGoesOn ==
  ASSUME CleanupTypeOK, walk # <<>>
  PROVE  /\ Head(walk) \in Serials /\ Head(walk) = Len(walk) /\ Tail(walk) \in Seq(Nat)
         /\ Len(Tail(walk)) = Len(walk) - 1 /\ Tail(walk) = Countdown(Len(Tail(walk)))
<1>1. Len(walk) \in Nat \ {0} /\ Len(walk) <= Len(lists) /\ walk = Countdown(Len(walk))
      /\ walk \in Seq(Nat)
  BY DEF CleanupTypeOK
<1>2. PICK k \in Nat : Len(walk) = k + 1
  <2>1. Len(walk) - 1 \in Nat /\ Len(walk) = (Len(walk) - 1) + 1
    BY <1>1
  <2> QED
    BY <2>1
<1>3. Head(walk) = k + 1 /\ Tail(walk) = Countdown(k)
  BY <1>1, <1>2, CountsOneMore
<1>4. Countdown(k) \in Seq(Nat) /\ Len(Countdown(k)) = k
  BY Counts
<1>5. Serials = 1..Len(lists) /\ Len(lists) \in Nat
  BY CleanupTypes
<1> QED
  BY <1>1, <1>2, <1>3, <1>4, <1>5

\* Before a pass the walk over every SerialArena.
LEMMA WalkBegins ==
  ASSUME CleanupTypeOK, WalkIsDown
  PROVE  Walk \in Seq(Nat) /\ Len(Walk) = Len(lists) /\ Walk = Countdown(Len(Walk))
<1>1. Len(lists) \in Nat
  BY CleanupTypes
<1> QED
  BY <1>1, Counts DEF WalkIsDown

\* The passes begin with the whole walk,
LEMMA StartDestructionKeeps ==
  ASSUME CleanupInv, StartDestruction
  PROVE  CleanupInv'
<1>1. CleanupTypeOK /\ WalkIsDown /\ Numbered /\ ObjectsAreListed /\ StringsAreTaken /\ Progress
  BY DEF CleanupInv
<1>2. /\ phase = "using" /\ phase' = "cleanup" /\ walk' = Walk /\ chunks' = chunks
      /\ lists' = lists /\ sblocks' = sblocks /\ unusedStrings' = unusedStrings
      /\ constructed' = constructed /\ freed' = freed
  BY DEF StartDestruction
<1>3. Serials' = Serials /\ Objects' = Objects /\ Strings' = Strings /\ Walk' = Walk
  BY <1>2, WalkIs DEF Serials, Objects, Strings
<1>4. Walk \in Seq(Nat) /\ Len(Walk) = Len(lists) /\ Walk = Countdown(Len(Walk))
  BY <1>1, WalkBegins
<1>5. Serials = 1..Len(lists) /\ Len(lists) \in Nat
  BY <1>1, CleanupTypes
<1>6. CleanupTypeOK'
  BY <1>1, <1>2, <1>4, <1>5 DEF CleanupTypeOK
<1>7. WalkIsDown' /\ ObjectsAreListed' /\ StringsAreTaken'
  BY <1>1, <1>2, <1>3 DEF WalkIsDown, ObjectsAreListed, StringsAreTaken
<1>8. Numbered'
  BY <1>1, <1>2, <1>3 DEF Numbered
<1>9. Progress'
  <2>1. \A s \in Serials : ~ s > Len(walk')
    BY <1>2, <1>4, <1>5
  <2> QED
    BY <1>1, <1>2, <1>3, <2>1 DEF Progress
<1> QED
  BY <1>6, <1>7, <1>8, <1>9 DEF CleanupInv

\* What CleanupNode destroys: the newest object of the SerialArena it is at.
LEMMA CleanupNodeIs ==
  ASSUME CleanupInv, CleanupNode
  PROVE  \E x \in Objects :
           /\ x.serial = Head(walk) /\ constructed' = constructed \ {x}
           /\ \A y \in OfSerial(Objects, Head(walk)) \ {x} : y.n < x.n
           /\ Without(lists[Head(walk)]) \in Seq(Chunk)
           /\ Holds(Without(lists[Head(walk)]), OfSerial(Objects, Head(walk)) \ {x})
<1> DEFINE s == Head(walk)
           x == LastNode(Head(lists[s])).node
<1>1. CleanupTypeOK /\ ObjectsAreListed
  BY DEF CleanupInv
<1>2. walk # <<>> /\ lists[s] # <<>> /\ constructed' = constructed \ {x}
  BY DEF CleanupNode
<1>3. s \in Serials
  BY <1>1, <1>2, WalkGoesOn
<1>4. lists[s] \in Seq(Chunk)
  BY <1>1, <1>3, CleanupTypes
<1>5. Holds(lists[s], OfSerial(Objects, s))
  BY <1>1, <1>3 DEF ObjectsAreListed
<1>6. /\ x \in OfSerial(Objects, s) /\ \A y \in OfSerial(Objects, s) \ {x} : y.n < x.n
      /\ Without(lists[s]) \in Seq(Chunk)
      /\ Holds(Without(lists[s]), OfSerial(Objects, s) \ {x})
  BY <1>2, <1>4, <1>5, ListShrinks
<1>7. x \in Objects /\ x.serial = s
  BY <1>6 DEF OfSerial
<1> QED
  BY <1>2, <1>6, <1>7

\* Destroying one object leaves the others in their lists.
LEMMA CleanupNodeKeeps ==
  ASSUME CleanupInv, CleanupNode
  PROVE  CleanupInv'
<1> DEFINE s == Head(walk)
<1>1. CleanupTypeOK /\ WalkIsDown /\ Numbered /\ ObjectsAreListed /\ StringsAreTaken /\ Progress
  BY DEF CleanupInv
<1>2. /\ phase = "cleanup" /\ walk # <<>> /\ lists' = [lists EXCEPT ![s] = Without(lists[s])]
      /\ chunks' = chunks /\ sblocks' = sblocks /\ unusedStrings' = unusedStrings
      /\ freed' = freed /\ phase' = phase /\ walk' = walk
  BY DEF CleanupNode, Without
<1>3. PICK x \in Objects :
        /\ x.serial = s /\ constructed' = constructed \ {x}
        /\ Without(lists[s]) \in Seq(Chunk)
        /\ Holds(Without(lists[s]), OfSerial(Objects, s) \ {x})
  BY CleanupNodeIs
<1>4. s \in Serials /\ Serials = 1..Len(lists) /\ Len(lists) \in Nat /\ s = Len(walk)
  BY <1>1, <1>2, WalkGoesOn, CleanupTypes
<1>5. /\ lists' \in Seq(Seq(Chunk)) /\ Len(lists') = Len(lists) /\ lists'[s] = Without(lists[s])
      /\ \A t \in Serials : t # s => lists'[t] = lists[t]
  BY <1>1, <1>2, <1>3, <1>4 DEF CleanupTypeOK
<1>6. Serials' = Serials
  BY <1>4, <1>5 DEF Serials
<1>7. constructed' \in SUBSET constructed /\ IsFiniteSet(constructed')
  BY <1>1, <1>3, FS_Subset DEF CleanupTypeOK
<1>8. CleanupTypeOK'
  BY <1>1, <1>2, <1>5, <1>7 DEF CleanupTypeOK
<1>9. WalkIsDown'
  BY <1>1, <1>2, <1>5, WalkIs DEF WalkIsDown
<1>10. Numbered'
  BY <1>1, <1>2, <1>6, <1>7 DEF Numbered
<1>11. Objects' = Objects \ {x} /\ Strings' = Strings
  BY <1>3 DEF Objects, Strings
<1>12. /\ OfSerial(Objects', s) = OfSerial(Objects, s) \ {x}
       /\ \A t \in Serials : t # s => OfSerial(Objects', t) = OfSerial(Objects, t)
  BY <1>3, <1>11 DEF OfSerial
<1>13. ObjectsAreListed'
  BY <1>1, <1>3, <1>5, <1>6, <1>12 DEF ObjectsAreListed
<1>14. StringsAreTaken'
  BY <1>1, <1>2, <1>6, <1>11 DEF StringsAreTaken
<1>15. Progress'
  <2>1. \A t \in Serials : t > Len(walk) => lists'[t] = lists[t]
    BY <1>4, <1>5
  <2> QED
    BY <1>1, <1>2, <1>6, <2>1 DEF Progress
<1> QED
  BY <1>8, <1>9, <1>10, <1>13, <1>14, <1>15 DEF CleanupInv

\* A list left behind is empty.
LEMMA CleanupListDoneKeeps ==
  ASSUME CleanupInv, CleanupListDone
  PROVE  CleanupInv'
<1>1. CleanupTypeOK /\ WalkIsDown /\ Numbered /\ ObjectsAreListed /\ StringsAreTaken /\ Progress
  BY DEF CleanupInv
<1>2. /\ phase = "cleanup" /\ walk # <<>> /\ lists[Head(walk)] = <<>> /\ walk' = Tail(walk)
      /\ chunks' = chunks /\ lists' = lists /\ sblocks' = sblocks
      /\ unusedStrings' = unusedStrings /\ constructed' = constructed /\ freed' = freed
      /\ phase' = phase
  BY DEF CleanupListDone
<1>3. Serials' = Serials /\ Objects' = Objects /\ Strings' = Strings /\ Walk' = Walk
  BY <1>2, WalkIs DEF Serials, Objects, Strings
<1>4. /\ Head(walk) \in Serials /\ Head(walk) = Len(walk) /\ Tail(walk) \in Seq(Nat)
      /\ Len(Tail(walk)) = Len(walk) - 1 /\ Tail(walk) = Countdown(Len(Tail(walk)))
  BY <1>1, <1>2, WalkGoesOn
<1>5. Serials = 1..Len(lists) /\ Len(lists) \in Nat
  BY <1>1, CleanupTypes
<1>6. CleanupTypeOK'
  <2>1. Len(walk) \in Nat /\ Len(walk) <= Len(lists)
    BY <1>1 DEF CleanupTypeOK
  <2>2. Len(walk') <= Len(lists')
    BY <1>2, <1>4, <1>5, <2>1
  <2> QED
    BY <1>1, <1>2, <1>4, <2>2 DEF CleanupTypeOK
<1>7. WalkIsDown' /\ ObjectsAreListed' /\ StringsAreTaken'
  BY <1>1, <1>2, <1>3 DEF WalkIsDown, ObjectsAreListed, StringsAreTaken
<1>8. Numbered'
  BY <1>1, <1>2, <1>3 DEF Numbered
<1>9. Progress'
  <2>1. ASSUME NEW t \in Serials, t > Len(walk')
        PROVE  lists[t] = <<>>
    <3>1. Len(walk') = Len(walk) - 1 /\ Len(walk) \in Nat
      BY <1>2, <1>4, <1>5
    <3>2. t \in Nat
      BY <1>5
    <3>3. t = Len(walk) \/ t > Len(walk)
      BY <2>1, <3>1, <3>2
    <3> QED
      BY <1>1, <1>2, <1>4, <3>3 DEF Progress
  <2> QED
    BY <1>1, <1>2, <1>3, <2>1 DEF Progress
<1> QED
  BY <1>6, <1>7, <1>8, <1>9 DEF CleanupInv

\* which is repeated when every list is empty.
LEMMA StartFreeKeeps ==
  ASSUME CleanupInv, StartFree
  PROVE  CleanupInv'
<1>1. CleanupTypeOK /\ WalkIsDown /\ Numbered /\ ObjectsAreListed /\ StringsAreTaken /\ Progress
  BY DEF CleanupInv
<1>2. /\ phase = "cleanup" /\ walk = <<>> /\ phase' = "free" /\ walk' = Walk /\ chunks' = chunks
      /\ lists' = lists /\ sblocks' = sblocks /\ unusedStrings' = unusedStrings
      /\ constructed' = constructed /\ freed' = freed
  BY DEF StartFree
<1>3. Serials' = Serials /\ Objects' = Objects /\ Strings' = Strings /\ Walk' = Walk
  BY <1>2, WalkIs DEF Serials, Objects, Strings
<1>4. Walk \in Seq(Nat) /\ Len(Walk) = Len(lists) /\ Walk = Countdown(Len(Walk))
  BY <1>1, WalkBegins
<1>5. Serials = 1..Len(lists) /\ Len(lists) \in Nat
  BY <1>1, CleanupTypes
<1>6. CleanupTypeOK'
  BY <1>1, <1>2, <1>4, <1>5 DEF CleanupTypeOK
<1>7. WalkIsDown' /\ ObjectsAreListed' /\ StringsAreTaken'
  BY <1>1, <1>2, <1>3 DEF WalkIsDown, ObjectsAreListed, StringsAreTaken
<1>8. Numbered'
  BY <1>1, <1>2, <1>3 DEF Numbered
<1>9. Progress'
  <2>1. \A s \in Serials : ~ s > Len(walk') /\ s > Len(walk)
    BY <1>2, <1>4, <1>5
  <2> QED
    BY <1>1, <1>2, <1>3, <2>1 DEF Progress
<1> QED
  BY <1>6, <1>7, <1>8, <1>9 DEF CleanupInv

\* The pass frees the strings that were taken and no others.
LEMMA FreedStrings ==
  ASSUME CleanupInv, NEW s \in Serials
  PROVE  FreeStringBlocks(s) = OfSerial(Strings, s)
BY DEF FreeStringBlocks, HandedOut, TakenFrom, CleanupInv, StringsAreTaken

\* Freeing a SerialArena destroys its strings.
LEMMA FreeKeeps ==
  ASSUME CleanupInv, Free
  PROVE  CleanupInv'
<1> DEFINE s == Head(walk)
<1>1. CleanupTypeOK /\ WalkIsDown /\ Numbered /\ ObjectsAreListed /\ StringsAreTaken /\ Progress
  BY DEF CleanupInv
<1>2. /\ phase = "free" /\ walk # <<>> /\ constructed' = constructed \ FreeStringBlocks(s)
      /\ sblocks' = [sblocks EXCEPT ![s] = <<>>]
      /\ unusedStrings' = [unusedStrings EXCEPT ![s] = 0] /\ freed' = freed \cup {s}
      /\ walk' = Tail(walk) /\ chunks' = chunks /\ lists' = lists /\ phase' = phase
  BY DEF Free
<1>3. /\ s \in Serials /\ s = Len(walk) /\ Tail(walk) \in Seq(Nat)
      /\ Len(Tail(walk)) = Len(walk) - 1 /\ Tail(walk) = Countdown(Len(Tail(walk)))
  BY <1>1, <1>2, WalkGoesOn
<1>4. Serials = 1..Len(lists) /\ Len(lists) \in Nat /\ Strings \in SUBSET Thing
  BY <1>1, CleanupTypes
<1>5. Serials' = Serials
  BY <1>2 DEF Serials
<1>6. constructed' = constructed \ OfSerial(Strings, s)
  BY <1>2, <1>3, FreedStrings
<1>7. constructed' \in SUBSET constructed /\ IsFiniteSet(constructed')
  BY <1>1, <1>6, FS_Subset DEF CleanupTypeOK
<1>8. /\ sblocks' \in Seq(Seq(Block)) /\ Len(sblocks') = Len(sblocks) /\ sblocks'[s] = <<>>
      /\ \A t \in Serials : t # s => sblocks'[t] = sblocks[t]
  <2>1. sblocks \in Seq(Seq(Block)) /\ Serials = 1..Len(sblocks) /\ s \in 1..Len(sblocks)
    BY <1>1, <1>3, <1>4 DEF CleanupTypeOK
  <2>2. <<>> \in Seq(Block)
    OBVIOUS
  <2> QED
    BY <1>2, <2>1, <2>2, ExceptSeq
<1>9. /\ unusedStrings' \in Seq(0..StringsPerBlock) /\ Len(unusedStrings') = Len(unusedStrings)
      /\ unusedStrings'[s] = 0 /\ \A t \in Serials : t # s => unusedStrings'[t] = unusedStrings[t]
  <2>1. 0 \in 0..StringsPerBlock
    BY CleanupBoundsOK
  <2> QED
    BY <1>1, <1>2, <1>3, <1>4, <2>1 DEF CleanupTypeOK
<1>10. CleanupTypeOK'
  <2>1. Len(walk) \in Nat /\ Len(walk) <= Len(lists)
    BY <1>1 DEF CleanupTypeOK
  <2>2. Len(walk') <= Len(lists')
    BY <1>2, <1>3, <1>4, <2>1
  <2>3. freed' \in SUBSET Nat
    <3>1. freed \in SUBSET Nat /\ s \in Nat /\ freed' = freed \cup {s}
      BY <1>1, <1>2, <1>3, <1>4 DEF CleanupTypeOK
    <3> HIDE DEF s
    <3> QED
      BY <3>1
  <2> QED
    BY <1>1, <1>2, <1>3, <1>7, <1>8, <1>9, <2>2, <2>3 DEF CleanupTypeOK
<1>11. WalkIsDown'
  BY <1>1, <1>2, WalkIs DEF WalkIsDown
<1>12. Numbered'
  BY <1>1, <1>2, <1>5, <1>7 DEF Numbered
<1>13. Objects' = Objects /\ Strings' = Strings \ OfSerial(Strings, s)
  BY <1>6 DEF Objects, Strings, OfSerial
<1>14. /\ OfSerial(Strings', s) = {}
       /\ \A t \in Serials : t # s => OfSerial(Strings', t) = OfSerial(Strings, t)
  BY <1>13 DEF OfSerial
<1>15. ObjectsAreListed'
  BY <1>1, <1>2, <1>5, <1>13 DEF ObjectsAreListed
<1>16. StringsAreTaken'
  <2>1. SUFFICES ASSUME NEW t \in Serials
                 PROVE  /\ TakenFrom(sblocks'[t], unusedStrings'[t]) = OfSerial(Strings', t)
                        /\ sblocks'[t] = <<>> => unusedStrings'[t] = 0
    BY <1>5 DEF StringsAreTaken
  <2>2. CASE t = s
    BY <1>8, <1>9, <1>14, <2>2, NothingHeld
  <2>3. CASE t # s
    BY <1>1, <1>8, <1>9, <1>14, <2>3 DEF StringsAreTaken
  <2> QED
    BY <2>2, <2>3
<1>17. Progress'
  <2>1. ASSUME NEW t \in Serials, t > Len(walk')
        PROVE  sblocks'[t] = <<>>
    <3>1. t = s \/ (t # s /\ t > Len(walk))
      BY <1>2, <1>3, <1>4, <2>1
    <3> QED
      BY <1>1, <1>2, <1>8, <3>1 DEF Progress
  <2> QED
    BY <1>1, <1>2, <1>5, <2>1 DEF Progress
<1> QED
  BY <1>10, <1>11, <1>12, <1>15, <1>16, <1>17 DEF CleanupInv

\* When both passes are over nothing is left.
LEMMA NothingIsLeft ==
  ASSUME CleanupInv, phase = "free"
  PROVE  Objects = {} /\ (walk = <<>> => constructed = {})
<1>1. CleanupTypeOK /\ Numbered /\ ObjectsAreListed /\ StringsAreTaken /\ Progress
  BY DEF CleanupInv
<1>2. Objects = {}
  <2>1. SUFFICES ASSUME NEW x \in Objects
                 PROVE  FALSE
    OBVIOUS
  <2>2. x.serial \in Serials /\ x \in OfSerial(Objects, x.serial)
    BY <1>1 DEF Objects, Numbered, OfSerial
  <2>3. lists[x.serial] = <<>> /\ Holds(lists[x.serial], OfSerial(Objects, x.serial))
    BY <1>1, <2>2 DEF Progress, ObjectsAreListed
  <2>4. ListedIn(<<>>) = {}
    BY NothingHeld DEF Holds
  <2> QED
    BY <2>2, <2>3, <2>4 DEF Holds
<1>3. ASSUME walk = <<>>
      PROVE  constructed = {}
  <2>1. SUFFICES ASSUME NEW x \in constructed
                 PROVE  FALSE
    OBVIOUS
  <2>2. x \in Thing /\ x.serial \in Serials
    BY <1>1 DEF Numbered, CleanupTypeOK
  <2>3. x \in Strings /\ x \in OfSerial(Strings, x.serial)
    BY <1>2, <2>2 DEF Objects, Strings, OfSerial, Thing
  <2>4. Serials = 1..Len(lists) /\ Len(lists) \in Nat /\ Len(walk) = 0
    BY <1>1, <1>3, CleanupTypes
  <2>5. x.serial > Len(walk)
    BY <2>2, <2>4
  <2>6. sblocks[x.serial] = <<>>
    BY <1>1, <2>2, <2>5 DEF Progress
  <2>7. OfSerial(Strings, x.serial) = TakenFrom(<<>>, 0)
    BY <1>1, <2>2, <2>6 DEF StringsAreTaken
  <2> QED
    BY <2>3, <2>7, NothingHeld
<1> QED
  BY <1>2, <1>3

\* The arena begins again, with nothing on it.
LEMMA ResetArenaKeeps ==
  ASSUME CleanupInv, ResetArena
  PROVE  CleanupInv'
<1>1. CleanupTypeOK
  BY DEF CleanupInv
<1>2. /\ phase = "free" /\ walk = <<>> /\ chunks' = <<>> /\ lists' = <<<<>>>>
      /\ sblocks' = <<<<>>>> /\ unusedStrings' = <<0>> /\ freed' = {} /\ phase' = "using"
      /\ constructed' = constructed /\ walk' = walk
  BY DEF ResetArena
<1>3. constructed' = {}
  BY <1>2, NothingIsLeft
<1>4. Serials' = {1} /\ lists'[1] = <<>> /\ sblocks'[1] = <<>> /\ unusedStrings'[1] = 0
      /\ Len(lists') = 1
  BY <1>2 DEF Serials
<1>5. CleanupTypeOK'
  <2>1. StringsPerBlock \in Nat
    BY CleanupBoundsOK
  <2>2. <<>> = Countdown(0) /\ Len(<<>>) = 0
    BY DEF Countdown
  <2>3. IsFiniteSet({})
    BY FS_EmptySet
  <2> QED
    BY <1>2, <1>3, <2>1, <2>2, <2>3 DEF CleanupTypeOK
<1>6. Objects' = {} /\ Strings' = {}
  BY <1>3 DEF Objects, Strings
<1>7. WalkIsDown'
  BY <1>2, <1>4, FirstWalk, WalkIs DEF WalkIsDown
<1>8. OfSerial({}, 1) = {}
  BY DEF OfSerial
<1>9. Numbered' /\ Progress'
  BY <1>2, <1>3, <1>4 DEF Numbered, Progress
<1>10. ObjectsAreListed' /\ StringsAreTaken'
  BY <1>4, <1>6, <1>8, NothingHeld DEF ObjectsAreListed, StringsAreTaken
<1> QED
  BY <1>5, <1>7, <1>9, <1>10 DEF CleanupInv

\* Every step keeps the invariant.
LEMMA CleanupStep == CleanupInv /\ [CleanupNext]_cleanupVars => CleanupInv'
<1> SUFFICES ASSUME CleanupInv, [CleanupNext]_cleanupVars
             PROVE  CleanupInv'
  OBVIOUS
<1>1. CASE NewSerialArena
  BY <1>1, NewSerialArenaKeeps
<1>2. CASE \E s \in Serials : AddCleanup(s) \/ AllocateString(s)
  <2>1. PICK s \in Serials : AddCleanup(s) \/ AllocateString(s)
    BY <1>2
  <2>2. CASE AddCleanup(s)
    BY <2>2, AddCleanupKeeps
  <2>3. CASE AllocateString(s)
    BY <2>3, AllocateStringKeeps
  <2> QED
    BY <2>1, <2>2, <2>3
<1>3. CASE StartDestruction
  BY <1>3, StartDestructionKeeps
<1>4. CASE CleanupNode
  BY <1>4, CleanupNodeKeeps
<1>5. CASE CleanupListDone
  BY <1>5, CleanupListDoneKeeps
<1>6. CASE StartFree
  BY <1>6, StartFreeKeeps
<1>7. CASE Free
  BY <1>7, FreeKeeps
<1>8. CASE ResetArena
  BY <1>8, ResetArenaKeeps
<1>9. CASE UNCHANGED cleanupVars
  BY <1>9 DEF cleanupVars, CleanupInv, CleanupTypeOK, WalkIsDown, Walk, NewestFirst, Numbered,
     ObjectsAreListed, StringsAreTaken, Progress, Serials, Objects, Strings
<1> QED
  BY <1>1, <1>2, <1>3, <1>4, <1>5, <1>6, <1>7, <1>8, <1>9 DEF CleanupNext

\* The inductive invariant of what an arena destroys.
THEOREM CleanupInvariant == CleanupSpec => []CleanupInv
BY CleanupStarts, CleanupStep, PTL DEF CleanupSpec

-------------------------------------------------------------------------------
(* The properties. *)

\* The invariant says what the second pass finds.
LEMMA CleanupInvImplies == CleanupInv => ConstructedIsDestroyed
<1> SUFFICES ASSUME CleanupInv, phase = "free"
             PROVE  /\ Objects = {}
                    /\ \A s \in Serials : FreeStringBlocks(s) = {x \in Strings : x.serial = s}
                    /\ walk = <<>> => constructed = {}
  BY DEF ConstructedIsDestroyed
<1>1. \A s \in Serials : FreeStringBlocks(s) = {x \in Strings : x.serial = s}
  BY FreedStrings DEF OfSerial
<1> QED
  BY <1>1, NothingIsLeft

\* What is destroyed is what was constructed: no object is alive when memory is
\* freed, then the strings that were handed out are destroyed and no place that was
\* not, and nothing is left (ThreadSafeArena::Reset and its destructor).
THEOREM ConstructedIsDestroyedAlways == CleanupSpec => []ConstructedIsDestroyed
BY CleanupInvariant, CleanupInvImplies, PTL

\* Only CleanupNode destroys an object.
LEMMA OnlyCleanupNode ==
  ASSUME CleanupInv, [CleanupNext]_cleanupVars, ~ CleanupNode
  PROVE  Objects \subseteq Objects' /\ (phase # "using" => Objects' = Objects)
<1>1. CASE \E s \in Serials : AddCleanup(s) \/ AllocateString(s)
  BY <1>1 DEF AddCleanup, AllocateString, Objects
<1>2. CASE Free
  <2>1. walk # <<>> /\ CleanupTypeOK
    BY <1>2 DEF Free, CleanupInv
  <2>2. constructed' = constructed \ OfSerial(Strings, Head(walk))
    BY <1>2, <2>1, WalkGoesOn, FreedStrings DEF Free
  <2> QED
    BY <2>2 DEF Objects, Strings, OfSerial
<1>3. CASE NewSerialArena \/ StartDestruction \/ CleanupListDone \/ StartFree \/ ResetArena
  BY <1>3 DEF NewSerialArena, StartDestruction, CleanupListDone, StartFree, ResetArena, Objects
<1>4. CASE UNCHANGED cleanupVars
  BY <1>4 DEF cleanupVars, Objects
<1> QED
  BY <1>1, <1>2, <1>3, <1>4 DEF CleanupNext

\* And it destroys the newest object there is, while everything else is alive.
LEMMA StepDestroysInOrder ==
  ASSUME CleanupInv, [CleanupNext]_cleanupVars
  PROVE  /\ Objects' # Objects /\ phase # "using" => freed' = {} /\ Strings' = Strings
         /\ \A x \in Objects \ Objects' :
              \A y \in Objects' : y.serial < x.serial \/ (y.serial = x.serial /\ y.n < x.n)
<1>1. CASE ~ CleanupNode
  BY <1>1, OnlyCleanupNode
<1>2. CASE CleanupNode
  <2>1. CleanupTypeOK /\ Numbered /\ ObjectsAreListed /\ Progress
    BY DEF CleanupInv
  <2>2. phase = "cleanup" /\ walk # <<>> /\ freed' = freed
    BY <1>2 DEF CleanupNode
  <2>3. PICK x \in Objects :
          /\ x.serial = Head(walk) /\ constructed' = constructed \ {x}
          /\ \A y \in OfSerial(Objects, Head(walk)) \ {x} : y.n < x.n
    BY <1>2, CleanupNodeIs
  <2>4. Objects' = Objects \ {x} /\ Strings' = Strings /\ Objects \ Objects' = {x}
    BY <2>3 DEF Objects, Strings
  <2>5. freed' = {}
    BY <2>1, <2>2 DEF Progress
  <2>6. Head(walk) = Len(walk) /\ Serials = 1..Len(lists) /\ Len(lists) \in Nat /\ Len(walk) \in Nat
    BY <2>1, <2>2, WalkGoesOn, CleanupTypes DEF CleanupTypeOK
  <2>7. ASSUME NEW y \in Objects'
        PROVE  y.serial < x.serial \/ (y.serial = x.serial /\ y.n < x.n)
    <3>1. y \in Objects /\ y # x /\ y.serial \in Serials /\ y \in OfSerial(Objects, y.serial)
      BY <2>1, <2>4 DEF Objects, Numbered, OfSerial
    <3>2. lists[y.serial] # <<>>
      <4>1. Holds(lists[y.serial], OfSerial(Objects, y.serial))
        BY <2>1, <3>1 DEF ObjectsAreListed
      <4>2. ListedIn(<<>>) = {}
        BY NothingHeld DEF Holds
      <4> QED
        BY <3>1, <4>1, <4>2 DEF Holds
    <3>3. ~ y.serial > Len(walk)
      BY <2>1, <2>2, <3>1, <3>2 DEF Progress
    <3>4. y.serial < x.serial \/ y.serial = x.serial
      BY <2>3, <2>6, <3>1, <3>3
    <3> QED
      BY <2>3, <3>1, <3>4
  <2> QED
    BY <2>4, <2>5, <2>7
<1> QED
  BY <1>1, <1>2

\* Destructors run while all memory and every string is still there, and the objects
\* of an arena are destroyed in the reverse order of their registration
\* (ThreadSafeArena::CleanupList, ChunkList::Cleanup).
THEOREM DestroyedInOrderAlways == CleanupSpec => DestroyedInOrder
<1>1. CleanupInv /\ [CleanupNext]_cleanupVars =>
        [Objects' # Objects /\ phase # "using" => freed' = {} /\ Strings' = Strings]_cleanupVars
  BY StepDestroysInOrder
<1>2. CleanupInv /\ [CleanupNext]_cleanupVars =>
        [\A x \in Objects \ Objects' :
           \A y \in Objects' :
             \/ y.serial < x.serial
             \/ y.serial = x.serial /\ y.n < x.n]_cleanupVars
  BY StepDestroysInOrder
<1>3. CleanupSpec => DestructorsSeeLiveMemory
  BY <1>1, CleanupInvariant, PTL DEF CleanupSpec, DestructorsSeeLiveMemory
<1>4. CleanupSpec => DestroyedInReverse
  BY <1>2, CleanupInvariant, PTL DEF CleanupSpec, DestroyedInReverse
<1> QED
  BY <1>3, <1>4, PTL DEF DestroyedInOrder

-------------------------------------------------------------------------------
(* Powers of two.  A recursive function is the CHOOSE of a function that      *)
(* solves its equation; that one exists is what has to be shown, from partial *)
(* solutions, of which there is one for each n.                               *)

Doubles(g, n) == g \in [0..n -> Nat] /\ g[0] = 1 /\ \A k \in 1..n : g[k] = 2 * g[k - 1]

LEMMA DoublesExists == \A n \in Nat : \E g : Doubles(g, n)
  <1> DEFINE S == {n \in Nat : \E g : Doubles(g, n)}
  <1>1. 0 \in S
    <2>1. Doubles([k \in 0..0 |-> 1], 0)
      BY DEF Doubles
    <2>2. QED  BY <2>1
  <1>2. ASSUME NEW n \in Nat, n \in S
        PROVE  n + 1 \in S
    <2>1. PICK g : Doubles(g, n)
      BY <1>2
    <2> DEFINE h2 == [k \in 0..(n + 1) |-> IF k = n + 1 THEN 2 * g[n] ELSE g[k]]
    <2>2. Doubles(h2, n + 1)
      BY <2>1 DEF Doubles
    <2>3. QED  BY <2>2
  <1> HIDE DEF S
  <1>3. \A n \in Nat : n \in S
    BY <1>1, <1>2, SetInduction
  <1>4. QED  BY <1>3 DEF S

LEMMA DoublesUnique ==
  ASSUME NEW n \in Nat, NEW m \in Nat, NEW g, Doubles(g, n), NEW h2, Doubles(h2, m),
         NEW k \in 0..n, k \in 0..m
  PROVE  g[k] = h2[k]
  <1> DEFINE Differ == {j \in 0..k : g[j] # h2[j]}
  <1>1. SUFFICES ASSUME Differ # {}
                 PROVE  FALSE
    OBVIOUS
  <1>2. PICK j \in Differ : \A i \in Differ : j <= i
    <2>1. Differ \in SUBSET Nat
      OBVIOUS
    <2>2. QED  BY <1>1, <2>1, LeastNatural
  <1>3. j # 0
    BY DEF Doubles
  <1>4. j - 1 \in 0..k /\ j - 1 \notin Differ
    BY <1>2, <1>3
  <1>5. g[j - 1] = h2[j - 1]
    BY <1>4
  <1>6. g[j] = h2[j]
    BY <1>3, <1>5 DEF Doubles
  <1>7. QED  BY <1>6

\* The equations of TwoToThe.
LEMMA Powers ==
  /\ TwoToThe \in [Nat -> Nat]
  /\ TwoToThe[0] = 1
  /\ \A n \in Nat : TwoToThe[n + 1] = 2 * TwoToThe[n]
  <1> DEFINE G(n) == CHOOSE g : Doubles(g, n)
             F == [n \in Nat |-> G(n)[n]]
             E(f) == [n \in Nat |-> IF n = 0 THEN 1 ELSE 2 * f[n - 1]]
  <1>1. \A n \in Nat : Doubles(G(n), n)
    BY DoublesExists
  <1> HIDE DEF G
  <1>2. F \in [Nat -> Nat] /\ F[0] = 1
    BY <1>1 DEF Doubles
  <1>3. ASSUME NEW n \in Nat, n # 0
        PROVE  F[n] = 2 * F[n - 1]
    <2>1. n - 1 \in Nat /\ n - 1 \in 0..(n - 1) /\ n - 1 \in 0..n /\ n \in 1..n
      BY <1>3
    <2>2. G(n)[n - 1] = G(n - 1)[n - 1]
      BY <1>1, <2>1, DoublesUnique
    <2>3. G(n)[n] = 2 * G(n)[n - 1]
      BY <1>1, <2>1 DEF Doubles
    <2>4. QED  BY <2>1, <2>2, <2>3
  <1> HIDE DEF F
  <1>4. F = E(F)
    <2>1. F = [n \in Nat |-> F[n]]
      BY <1>2
    <2>2. \A n \in Nat : F[n] = IF n = 0 THEN 1 ELSE 2 * F[n - 1]
      BY <1>2, <1>3
    <2>3. QED  BY <2>1, <2>2
  <1>5. TwoToThe = E(TwoToThe)
    BY <1>4 DEF TwoToThe
  <1>6. TwoToThe[0] = 1 /\ \A n \in Nat : TwoToThe[n + 1] = 2 * TwoToThe[n]
    <2>1. \A n \in Nat : TwoToThe[n] = IF n = 0 THEN 1 ELSE 2 * TwoToThe[n - 1]
      BY <1>5
    <2>2. \A n \in Nat : n + 1 \in Nat /\ n + 1 # 0 /\ (n + 1) - 1 = n
      OBVIOUS
    <2>3. QED  BY <2>1, <2>2
  <1> DEFINE S == {n \in Nat : TwoToThe[n] \in Nat}
  <1>7. \A n \in Nat : n \in S
    <2>1. 0 \in S /\ \A n \in Nat : n \in S => n + 1 \in S
      BY <1>6
    <2> HIDE DEF S
    <2>2. QED  BY <2>1, SetInduction
  <1>8. QED
    <2>1. \A n \in Nat : TwoToThe[n] \in Nat
      BY <1>7
    <2>2. TwoToThe = [n \in Nat |-> TwoToThe[n]]
      BY <1>5
    <2>3. QED  BY <1>6, <2>1, <2>2

LEMMA PowersGrow == \A n \in Nat : n < TwoToThe[n] /\ 16 * (n + 1) <= TwoToThe[n + 4]
  <1> DEFINE S == {n \in Nat : n < TwoToThe[n] /\ 16 * (n + 1) <= TwoToThe[n + 4]}
  <1>1. 0 \in S
    <2>1. TwoToThe[0 + 1] = 2 /\ TwoToThe[1 + 1] = 4 /\ TwoToThe[2 + 1] = 8 /\ TwoToThe[3 + 1] = 16
      BY Powers
    <2>2. QED  BY <2>1, Powers
  <1>2. ASSUME NEW n \in Nat, n \in S
        PROVE  n + 1 \in S
    <2>1. TwoToThe[n + 1] = 2 * TwoToThe[n] /\ TwoToThe[(n + 4) + 1] = 2 * TwoToThe[n + 4]
      BY Powers
    <2>2. (n + 4) + 1 = (n + 1) + 4 /\ TwoToThe[n] \in Nat /\ TwoToThe[n + 4] \in Nat
      BY Powers
    <2>3. QED  BY <1>2, <2>1, <2>2
  <1> HIDE DEF S
  <1>3. \A n \in Nat : n \in S
    BY <1>1, <1>2, SetInduction
  <1>4. QED  BY <1>3 DEF S

\* What absl::bit_width promises, of the definition of it here.
LEMMA BitWidth ==
  ASSUME NEW n \in Nat, n # 0
  PROVE  /\ bit_width(n) \in 1..n
         /\ TwoToThe[bit_width(n) - 1] <= n /\ n < TwoToThe[bit_width(n)]
  <1> DEFINE Above == {w \in Nat : n < TwoToThe[w]}
  <1>1. n \in Above
    BY PowersGrow
  <1>2. PICK w \in Above : \A v \in Above : w <= v
    BY <1>1, LeastNatural
  <1>3. w # 0
    BY <1>2, Powers
  <1>4. w - 1 \in Nat /\ w - 1 \notin Above
    BY <1>2, <1>3
  <1>5. TwoToThe[w - 1] <= n
    BY <1>4, Powers
  <1>6. w \in 1..n /\ n < TwoToThe[w]
    BY <1>1, <1>2, <1>3
  <1>7. QED  BY <1>5, <1>6 DEF bit_width

\* No array is too small for the free lists to have an index for it.
LEMMA SmallWidths ==
  ASSUME NEW n \in Nat
  PROVE  /\ n >= 15 => bit_width(n) >= 4
         /\ n >= 16 => bit_width(n) >= 5
  <1>1. /\ TwoToThe[1] = 2 /\ TwoToThe[2] = 4 /\ TwoToThe[3] = 8 /\ TwoToThe[4] = 16
    <2>1. TwoToThe[0 + 1] = 2 /\ TwoToThe[1 + 1] = 4 /\ TwoToThe[2 + 1] = 8 /\ TwoToThe[3 + 1] = 16
      BY Powers
    <2>2. QED  BY <2>1
  <1>2. SUFFICES ASSUME n >= 15
                 PROVE  bit_width(n) >= 4 /\ (n >= 16 => bit_width(n) >= 5)
    OBVIOUS
  <1>3. bit_width(n) \in Nat /\ n < TwoToThe[bit_width(n)]
    BY <1>2, BitWidth
  <1>4. bit_width(n) \notin {0, 1, 2, 3} /\ (n >= 16 => bit_width(n) # 4)
    BY <1>1, <1>2, <1>3, Powers
  <1>5. QED  BY <1>3, <1>4

-------------------------------------------------------------------------------
(* The inductive invariant.  OnePlace says of all places what OneUse says of  *)
(* those within the bounds.                                                   *)

CachedTypeOK ==
  /\ size \in Seq(Nat)
  /\ InUse \subseteq Region /\ live \in [InUse -> {n \in Nat : n >= 16}]
  /\ cached_blocks \in Seq(Seq(Region))
  /\ list_memory \in Region \cup {0}

OnePlace ==
  /\ \A i, k \in DOMAIN cached_blocks :
       \A j \in DOMAIN cached_blocks[i], l \in DOMAIN cached_blocks[k] :
         cached_blocks[i][j] = cached_blocks[k][l] => i = k /\ j = l
  /\ \A i \in DOMAIN cached_blocks : \A j \in DOMAIN cached_blocks[i] :
       cached_blocks[i][j] \notin InUse \cup {list_memory}
  /\ list_memory \notin InUse

CachedInv == CachedTypeOK /\ EverythingFits /\ OnePlace

\* The size class that serves an array is large enough for it, the one it is
\* returned to is not too large.
LEMMA Widths ==
  ASSUME NEW n \in Nat, n >= 16
  PROVE  /\ AlignUp(n) \in Nat /\ AlignUp(n) >= n
         /\ IndexToTake(AlignUp(n)) \in Nat \ {0}
         /\ n <= TwoToThe[IndexToTake(AlignUp(n)) + 3]
         /\ IndexToReturn(n) \in Nat \ {0}
         /\ TwoToThe[IndexToReturn(n) + 3] <= n
         /\ 16 * IndexToReturn(n) <= n
  <1> DEFINE a == AlignUp(n)
             w == bit_width(a - 1)
             v == bit_width(n)
  <1>1. a \in Nat /\ a >= n
    BY DEF AlignUp
  <1>2. a - 1 \in Nat /\ a - 1 >= 15 /\ a - 1 # 0
    BY <1>1
  <1> HIDE DEF a
  <1>3. w \in Nat /\ w >= 4 /\ a - 1 < TwoToThe[w]
    BY <1>2, BitWidth, SmallWidths
  <1>4. v \in Nat /\ v >= 5 /\ TwoToThe[v - 1] <= n
    BY BitWidth, SmallWidths
  <1>5. 16 * (v - 4) <= TwoToThe[v - 1]
    <2>1. v - 5 \in Nat /\ (v - 5) + 4 = v - 1 /\ (v - 5) + 1 = v - 4
      BY <1>4
    <2>2. 16 * ((v - 5) + 1) <= TwoToThe[(v - 5) + 4]
      BY <2>1, PowersGrow
    <2>3. QED  BY <2>1, <2>2
  <1> HIDE DEF w, v
  <1>6. (w - 3) + 3 = w /\ (v - 4) + 3 = v - 1 /\ v - 1 \in Nat
    BY <1>3, <1>4
  <1>7. n <= TwoToThe[w] /\ 16 * (v - 4) <= n
    <2>1. TwoToThe[w] \in Nat /\ TwoToThe[v - 1] \in Nat
      BY <1>3, <1>6, Powers
    <2>2. QED  BY <1>1, <1>3, <1>4, <1>5, <2>1
  <1>8. QED
    BY <1>1, <1>3, <1>4, <1>6, <1>7 DEF IndexToTake, IndexToReturn, a, w, v

LEMMA Cap ==
  ASSUME NEW n \in Nat, n <= MaxLength
  PROVE  n \in 0..MaxLength
  BY DEF MaxLength

\* The array of lists fits into the region that it is made of, and is no shorter
\* than any that had no list for that region.
LEMMA EntriesFit ==
  ASSUME NEW n \in Nat, n >= 16
  PROVE  /\ Entries(n) \in 0..MaxLength /\ Entries(n) * PointerSize <= n
         /\ \A k \in 0..MaxLength : k <= IndexToReturn(n) => k <= Entries(n)
  <1> DEFINE m == n \div PointerSize
  <1>1. PointerSize \in 1..16
    BY BoundsOK
  <1>2. m \in Nat /\ m * PointerSize <= n /\ n < (m + 1) * PointerSize
    BY <1>1
  <1>3. m * PointerSize < 16 * m + 1 /\ n < 16 * (m + 1)
    BY <1>1, <1>2
  <1>4. IndexToReturn(n) \in Nat /\ IndexToReturn(n) <= m
    BY <1>2, <1>3, Widths
  <1> HIDE DEF m
  <1>5. Entries(n) = IF m < MaxLength THEN m ELSE MaxLength
    BY DEF Entries, m
  <1>6. CASE m < MaxLength
    BY <1>2, <1>4, <1>5, <1>6 DEF MaxLength
  <1>7. CASE ~ m < MaxLength
    <2>1. MaxLength * PointerSize <= m * PointerSize
      BY <1>1, <1>2, <1>7 DEF MaxLength
    <2>2. m * PointerSize \in Nat /\ MaxLength * PointerSize \in Nat
      BY <1>1, <1>2 DEF MaxLength
    <2>3. QED  BY <1>2, <1>5, <1>7, <2>1, <2>2 DEF MaxLength
  <1>8. QED  BY <1>6, <1>7

\* The three ways the free lists change: a region is taken from one ...
LEMMA HeadTaken ==
  ASSUME CachedTypeOK, NEW i \in DOMAIN cached_blocks, cached_blocks[i] # <<>>,
         cached_blocks' = WithoutHead(i)
  PROVE  /\ cached_blocks' \in Seq(Seq(Region)) /\ Len(cached_blocks') = Len(cached_blocks)
         /\ \A k \in DOMAIN cached_blocks : k # i => cached_blocks'[k] = cached_blocks[k]
         /\ 1 \in DOMAIN cached_blocks[i] /\ Head(cached_blocks[i]) = cached_blocks[i][1]
         /\ \A j \in DOMAIN cached_blocks'[i] :
              j + 1 \in DOMAIN cached_blocks[i] /\ j + 1 # 1
              /\ cached_blocks'[i][j] = cached_blocks[i][j + 1]
         /\ \A j \in DOMAIN cached_blocks[i] :
              j # 1 => j - 1 \in DOMAIN cached_blocks'[i]
                       /\ cached_blocks'[i][j - 1] = cached_blocks[i][j]
  <1> DEFINE old == cached_blocks[i]
  <1>1. cached_blocks \in Seq(Seq(Region)) /\ old \in Seq(Region)
    BY DEF CachedTypeOK
  <1>2. cached_blocks'[i] = Tail(old) /\ Tail(old) \in Seq(Region)
    BY <1>1 DEF WithoutHead
  <1>3. /\ cached_blocks' \in Seq(Seq(Region)) /\ Len(cached_blocks') = Len(cached_blocks)
        /\ \A k \in DOMAIN cached_blocks : k # i => cached_blocks'[k] = cached_blocks[k]
    BY <1>1, <1>2 DEF WithoutHead
  <1> HIDE DEF old
  <1>4. /\ Len(old) \in Nat \ {0} /\ DOMAIN old = 1..Len(old) /\ Head(old) = old[1]
        /\ DOMAIN Tail(old) = 1..(Len(old) - 1)
        /\ \A j \in 1..(Len(old) - 1) : Tail(old)[j] = old[j + 1]
    BY <1>1 DEF old
  <1>5. \A j \in DOMAIN Tail(old) : j + 1 \in DOMAIN old /\ j + 1 # 1 /\ Tail(old)[j] = old[j + 1]
    BY <1>4
  <1>6. ASSUME NEW j \in DOMAIN old, j # 1
        PROVE  j - 1 \in DOMAIN Tail(old) /\ Tail(old)[j - 1] = old[j]
    <2>1. j - 1 \in 1..(Len(old) - 1) /\ (j - 1) + 1 = j
      BY <1>4, <1>6
    <2>2. QED  BY <1>4, <2>1
  <1>7. QED  BY <1>2, <1>3, <1>4, <1>5, <1>6 DEF old

\* ... is added to one ...
LEMMA HeadAdded ==
  ASSUME CachedTypeOK, NEW i \in DOMAIN cached_blocks, NEW r \in Region,
         cached_blocks' = [cached_blocks EXCEPT ![i] = <<r>> \o @]
  PROVE  /\ cached_blocks' \in Seq(Seq(Region)) /\ Len(cached_blocks') = Len(cached_blocks)
         /\ \A k \in DOMAIN cached_blocks : k # i => cached_blocks'[k] = cached_blocks[k]
         /\ \A j \in DOMAIN cached_blocks'[i] :
              \/ j = 1 /\ cached_blocks'[i][j] = r
              \/ j - 1 \in DOMAIN cached_blocks[i]
                 /\ cached_blocks'[i][j] = cached_blocks[i][j - 1]
         /\ \A j \in DOMAIN cached_blocks[i] :
              j + 1 \in DOMAIN cached_blocks'[i] /\ cached_blocks'[i][j + 1] = cached_blocks[i][j]
  <1> DEFINE old == cached_blocks[i]
  <1>1. cached_blocks \in Seq(Seq(Region)) /\ old \in Seq(Region)
    BY DEF CachedTypeOK
  <1>2. cached_blocks'[i] = <<r>> \o old /\ <<r>> \o old \in Seq(Region)
    BY <1>1
  <1>3. /\ cached_blocks' \in Seq(Seq(Region)) /\ Len(cached_blocks') = Len(cached_blocks)
        /\ \A k \in DOMAIN cached_blocks : k # i => cached_blocks'[k] = cached_blocks[k]
    BY <1>1, <1>2
  <1> HIDE DEF old
  <1>4. /\ Len(old) \in Nat /\ DOMAIN old = 1..Len(old)
        /\ DOMAIN (<<r>> \o old) = 1..(Len(old) + 1) /\ (<<r>> \o old)[1] = r
        /\ \A j \in 2..(Len(old) + 1) : (<<r>> \o old)[j] = old[j - 1]
    BY <1>1
  <1>5. \A j \in DOMAIN (<<r>> \o old) :
          \/ j = 1 /\ (<<r>> \o old)[j] = r
          \/ j - 1 \in DOMAIN old /\ (<<r>> \o old)[j] = old[j - 1]
    BY <1>4
  <1>6. ASSUME NEW j \in DOMAIN old
        PROVE  j + 1 \in DOMAIN (<<r>> \o old) /\ (<<r>> \o old)[j + 1] = old[j]
    <2>1. j + 1 \in 2..(Len(old) + 1) /\ (j + 1) - 1 = j
      BY <1>4
    <2>2. QED  BY <1>4, <2>1
  <1>7. QED  BY <1>2, <1>3, <1>5, <1>6 DEF old

\* ... and the lists move to other memory.
LEMMA ListsMoved ==
  ASSUME CachedTypeOK, EverythingFits, NEW r \in InUse,
         IndexToReturn(live[r]) > Len(cached_blocks), cached_blocks' = Relist(r)
  PROVE  /\ cached_blocks' \in Seq(Seq(Region)) /\ Len(cached_blocks') = Entries(live[r])
         /\ \A k \in DOMAIN cached_blocks :
              k \in DOMAIN cached_blocks' /\ cached_blocks'[k] = cached_blocks[k]
         /\ \A k \in DOMAIN cached_blocks' :
              k \notin DOMAIN cached_blocks => cached_blocks'[k] = <<>>
  <1> DEFINE e == Entries(live[r])
  <1>1. live[r] \in Nat /\ live[r] >= 16
    BY DEF CachedTypeOK
  <1>2. e \in Nat /\ Len(cached_blocks) \in 0..e
    <2>1. Len(cached_blocks) \in 0..MaxLength
      <3>1. Len(cached_blocks) \in Nat
        BY DEF CachedTypeOK
      <3>2. Len(cached_blocks) <= MaxLength
        BY DEF EverythingFits
      <3>3. QED  BY <3>1, <3>2, Cap
    <2>2. IndexToReturn(live[r]) \in Nat
      BY <1>1, Widths
    <2>3. Len(cached_blocks) <= IndexToReturn(live[r])
      BY <2>1, <2>2
    <2>4. Len(cached_blocks) <= e
      BY <1>1, <2>1, <2>3, EntriesFit
    <2>5. e \in Nat /\ Len(cached_blocks) \in Nat
      BY <1>1, EntriesFit DEF CachedTypeOK
    <2> HIDE DEF e
    <2>6. QED  BY <2>4, <2>5
  <1> HIDE DEF e
  <1>3. cached_blocks' = [i \in 1..e |-> IF i <= Len(cached_blocks) THEN cached_blocks[i] ELSE <<>>]
    BY DEF Relist, ReplacesLists, e
  <1>4. cached_blocks \in Seq(Seq(Region)) /\ <<>> \in Seq(Region)
    BY DEF CachedTypeOK
  <1>5. DOMAIN cached_blocks = 1..Len(cached_blocks)
    BY <1>4
  <1>6. \A i \in 1..e : (IF i <= Len(cached_blocks) THEN cached_blocks[i] ELSE <<>>) \in Seq(Region)
    BY <1>2, <1>4, <1>5
  <1>7. cached_blocks' \in Seq(Seq(Region)) /\ Len(cached_blocks') = e /\ DOMAIN cached_blocks' = 1..e
    BY <1>2, <1>3, <1>6
  <1>8. QED  BY <1>2, <1>3, <1>5, <1>7 DEF e

-------------------------------------------------------------------------------
(* Every step keeps the invariant.                                            *)

ListsFit ==
  \A i \in DOMAIN cached_blocks : \A j \in DOMAIN cached_blocks[i] :
    size[cached_blocks[i][j]] >= TwoToThe[i + 3]

LEMMA FitsByPlace ==
  EverythingFits <=>
    /\ \A r \in InUse : live[r] <= size[r]
    /\ ListsFit
    /\ Len(cached_blocks) <= MaxLength
    /\ list_memory # 0 => Len(cached_blocks) * PointerSize <= size[list_memory]
  BY DEF EverythingFits, ListsFit, ToSet

LEMMA Regions ==
  ASSUME CachedTypeOK
  PROVE  /\ Len(size) \in Nat /\ Region = 1..Len(size) /\ \A r \in Region : size[r] \in Nat
         /\ DOMAIN cached_blocks = 1..Len(cached_blocks) /\ Len(cached_blocks) \in Nat
         /\ \A i \in DOMAIN cached_blocks :
              i \in Nat \ {0} /\ TwoToThe[i + 3] \in Nat /\ cached_blocks[i] \in Seq(Region)
              /\ \A j \in DOMAIN cached_blocks[i] : j \in Nat \ {0} /\ cached_blocks[i][j] \in Region
  <1>1. /\ Len(size) \in Nat /\ Region = 1..Len(size) /\ \A r \in Region : size[r] \in Nat
    BY DEF CachedTypeOK, Region
  <1>2. DOMAIN cached_blocks = 1..Len(cached_blocks) /\ Len(cached_blocks) \in Nat
    BY DEF CachedTypeOK
  <1>3. ASSUME NEW i \in DOMAIN cached_blocks
        PROVE  /\ i \in Nat \ {0} /\ TwoToThe[i + 3] \in Nat /\ cached_blocks[i] \in Seq(Region)
               /\ \A j \in DOMAIN cached_blocks[i] :
                    j \in Nat \ {0} /\ cached_blocks[i][j] \in Region
    <2>1. i \in Nat \ {0} /\ i + 3 \in Nat
      BY <1>2
    <2>2. cached_blocks[i] \in Seq(Region)
      BY DEF CachedTypeOK
    <2> DEFINE c == cached_blocks[i]
    <2>3. \A j \in DOMAIN c : j \in Nat \ {0} /\ c[j] \in Region
      <3> HIDE DEF c
      <3>1. c \in Seq(Region)
        BY <2>2 DEF c
      <3>2. QED  BY <3>1
    <2>4. TwoToThe[i + 3] \in Nat
      BY <2>1, Powers
    <2>5. QED  BY <2>1, <2>2, <2>3, <2>4
  <1>4. QED  BY <1>1, <1>2, <1>3

LEMMA CachedInvInit ==
  ASSUME Init
  PROVE  CachedInv
  <1>1. CachedTypeOK
    BY DEF Init, CachedTypeOK, InUse, Region
  <1>2. EverythingFits
    BY <1>1, FitsByPlace DEF Init, InUse, ListsFit, MaxLength
  <1>3. OnePlace
    BY DEF Init, OnePlace, InUse
  <1>4. QED  BY <1>1, <1>2, <1>3 DEF CachedInv

LEMMA ResetStep ==
  ASSUME Reset
  PROVE  CachedInv'
  <1>1. CachedTypeOK'
    BY DEF Reset, CachedTypeOK, InUse, Region
  <1>2. /\ (\A r \in InUse : live[r] <= size[r])'
        /\ ListsFit'
        /\ (Len(cached_blocks) <= MaxLength)'
        /\ (list_memory = 0)'
    BY DEF Reset, InUse, ListsFit, MaxLength
  <1>3. EverythingFits'
    BY <1>2 DEF EverythingFits, ListsFit, ToSet
  <1>4. OnePlace'
    BY DEF Reset, OnePlace, InUse
  <1>5. QED  BY <1>1, <1>3, <1>4 DEF CachedInv

LEMMA NewRegionStep ==
  ASSUME CachedInv, NEW n \in Sizes, MaybeAllocateAligned(n)
  PROVE  CachedInv'
  <1> USE DEF CachedInv
  <1> DEFINE r == Len(size) + 1
  <1>1. n \in Nat /\ n >= 16 /\ AlignUp(n) \in Nat /\ AlignUp(n) >= n
    BY SizesOK, Widths
  <1>2. /\ size' \in Seq(Nat) /\ Region' = Region \cup {r} /\ r \notin Region /\ r # 0
        /\ size'[r] = AlignUp(n) /\ \A q \in Region : size'[q] = size[q]
    BY <1>1 DEF MaybeAllocateAligned, CachedTypeOK, Region
  <1>3. /\ InUse' = InUse \cup {r} /\ live'[r] = n /\ \A q \in InUse : q # r /\ live'[q] = live[q]
        /\ live' \in [InUse' -> {k \in Nat : k >= 16}]
    <2>1. live' = [q \in InUse \cup {r} |-> IF q = r THEN n ELSE live[q]] /\ r \notin InUse
      BY <1>2 DEF MaybeAllocateAligned, With, InUse, CachedTypeOK
    <2>2. QED  BY <1>1, <2>1 DEF InUse, CachedTypeOK
  <1>4. cached_blocks' = cached_blocks /\ list_memory' = list_memory
    BY DEF MaybeAllocateAligned
  <1>5. CachedTypeOK'
    <2>1. cached_blocks \in Seq(Seq(Region \cup {r}))
      <3>1. \A s : s \in Seq(Region) => s \in Seq(Region \cup {r})
        OBVIOUS
      <3>2. cached_blocks \in Seq(Seq(Region))
        BY DEF CachedTypeOK
      <3>3. QED  BY <3>1, <3>2
    <2>2. QED  BY <1>2, <1>3, <1>4, <2>1 DEF CachedTypeOK
  <1>6. EverythingFits'
    <2>1. \A q \in InUse' : live'[q] <= size'[q]
      BY <1>1, <1>2, <1>3, FitsByPlace DEF CachedTypeOK
    <2>2. ListsFit'
      BY <1>2, <1>4, Regions, FitsByPlace DEF ListsFit
    <2>3. list_memory' # 0 => Len(cached_blocks') * PointerSize <= size'[list_memory']
      BY <1>2, <1>4, FitsByPlace DEF CachedTypeOK
    <2>4. (Len(cached_blocks) <= MaxLength)'
      BY <1>4, FitsByPlace DEF MaxLength
    <2>5. QED  BY <2>1, <2>2, <2>3, <2>4 DEF EverythingFits, ListsFit, ToSet
  <1>7. OnePlace'
    BY <1>2, <1>3, <1>4, Regions DEF OnePlace, CachedTypeOK
  <1>8. QED  BY <1>5, <1>6, <1>7

LEMMA TakenStep ==
  ASSUME CachedInv, NEW n \in Sizes, TryAllocateFromCachedBlock(n)
  PROVE  CachedInv'
  <1> USE DEF CachedInv
  <1> DEFINE i == IndexToTake(AlignUp(n))
             r == Head(cached_blocks[i])
  <1>1. n \in Nat /\ n >= 16 /\ i \in Nat \ {0} /\ n <= TwoToThe[i + 3]
    BY SizesOK, Widths
  <1>2. i <= Len(cached_blocks) /\ cached_blocks[i] # <<>> /\ cached_blocks' = WithoutHead(i)
    BY DEF TryAllocateFromCachedBlock, IsCached
  <1>3. live' = With(live, r, n) /\ size' = size /\ list_memory' = list_memory
    BY DEF TryAllocateFromCachedBlock
  <1> HIDE DEF i, r
  <1>4. i \in DOMAIN cached_blocks
    BY <1>1, <1>2, Regions
  <1>5. /\ cached_blocks' \in Seq(Seq(Region)) /\ Len(cached_blocks') = Len(cached_blocks)
        /\ \A k \in DOMAIN cached_blocks : k # i => cached_blocks'[k] = cached_blocks[k]
        /\ 1 \in DOMAIN cached_blocks[i] /\ Head(cached_blocks[i]) = cached_blocks[i][1]
        /\ \A j \in DOMAIN cached_blocks'[i] :
              j + 1 \in DOMAIN cached_blocks[i] /\ j + 1 # 1
              /\ cached_blocks'[i][j] = cached_blocks[i][j + 1]
    BY <1>2, <1>4, HeadTaken
  <1>6. r = cached_blocks[i][1] /\ r \in Region /\ r \notin InUse /\ r # list_memory
    <2>1. r = cached_blocks[i][1]
      BY <1>5 DEF r
    <2>2. QED  BY <2>1, <1>4, <1>5, Regions DEF OnePlace
  <1>7. /\ InUse' = InUse \cup {r} /\ live'[r] = n /\ \A q \in InUse : q # r /\ live'[q] = live[q]
        /\ live' \in [InUse' -> {k \in Nat : k >= 16}] /\ Region' = Region
    <2>1. live' = [q \in InUse \cup {r} |-> IF q = r THEN n ELSE live[q]]
      BY <1>3 DEF With, InUse
    <2>2. Region' = Region
      BY <1>3 DEF Region
    <2>3. InUse' = InUse \cup {r}
      BY <2>1 DEF InUse
    <2>4. live \in [InUse -> {k \in Nat : k >= 16}]
      BY DEF CachedTypeOK
    <2>5. QED  BY <1>1, <1>6, <2>1, <2>2, <2>3, <2>4
  <1>8. DOMAIN cached_blocks' = DOMAIN cached_blocks
    BY <1>5, Regions
  <1>9. CachedTypeOK'
    BY <1>3, <1>5, <1>6, <1>7 DEF CachedTypeOK
  \* What is left of each list was in that list, in another place.
  <1>10. ASSUME NEW k \in DOMAIN cached_blocks, NEW j \in DOMAIN cached_blocks'[k]
         PROVE  \E l \in DOMAIN cached_blocks[k] :
                  /\ cached_blocks'[k][j] = cached_blocks[k][l]
                  /\ l = IF k = i THEN j + 1 ELSE j
                  /\ cached_blocks'[k][j] # r
    <2>1. CASE k = i
      <3>1. j + 1 \in DOMAIN cached_blocks[i] /\ j + 1 # 1
            /\ cached_blocks'[i][j] = cached_blocks[i][j + 1]
        BY <1>5, <2>1
      <3>2. cached_blocks[i][j + 1] # r
        BY <1>4, <1>5, <1>6, <3>1 DEF OnePlace
      <3>3. QED  BY <2>1, <3>1, <3>2
    <2>2. CASE k # i
      <3>1. cached_blocks'[k] = cached_blocks[k]
        BY <1>5, <2>2
      <3>2. cached_blocks[k][j] # r
        BY <1>4, <1>5, <1>6, <2>2, <3>1 DEF OnePlace
      <3>3. QED  BY <2>2, <3>1, <3>2
    <2>3. QED  BY <2>1, <2>2
  <1>11. EverythingFits'
    <2>1. \A q \in InUse' : live'[q] <= size'[q]
      <3>1. size[r] >= TwoToThe[i + 3]
        BY <1>4, <1>5, <1>6, FitsByPlace DEF ListsFit
      <3>2. n <= size[r]
        BY <1>1, <1>4, <1>6, <3>1, Regions
      <3>3. QED  BY <1>3, <1>7, <3>2, FitsByPlace
    <2>2. ListsFit'
      BY <1>3, <1>8, <1>10, FitsByPlace DEF ListsFit
    <2>3. list_memory' # 0 => Len(cached_blocks') * PointerSize <= size'[list_memory']
      BY <1>3, <1>5, FitsByPlace
    <2>4. (Len(cached_blocks) <= MaxLength)'
      BY <1>5, FitsByPlace DEF MaxLength
    <2>5. QED  BY <2>1, <2>2, <2>3, <2>4 DEF EverythingFits, ListsFit, ToSet
  <1>12. OnePlace'
    <2>1. ASSUME NEW k \in DOMAIN cached_blocks, NEW j \in DOMAIN cached_blocks'[k],
                 NEW k2 \in DOMAIN cached_blocks, NEW j2 \in DOMAIN cached_blocks'[k2],
                 cached_blocks'[k][j] = cached_blocks'[k2][j2]
          PROVE  k = k2 /\ j = j2
      <3>1. PICK l \in DOMAIN cached_blocks[k] :
              /\ cached_blocks'[k][j] = cached_blocks[k][l] /\ l = IF k = i THEN j + 1 ELSE j
        BY <1>10
      <3>2. PICK l2 \in DOMAIN cached_blocks[k2] :
              /\ cached_blocks'[k2][j2] = cached_blocks[k2][l2] /\ l2 = IF k2 = i THEN j2 + 1 ELSE j2
        BY <1>10
      <3>3. cached_blocks[k][l] = cached_blocks[k2][l2]
        BY <2>1, <3>1, <3>2
      <3>4. k = k2 /\ l = l2
        BY <3>3 DEF OnePlace
      <3>5. j \in Nat /\ j2 \in Nat
        <4>1. cached_blocks'[k] \in Seq(Region) /\ cached_blocks'[k2] \in Seq(Region)
          BY <1>5, <1>8
        <4>2. QED  BY <4>1
      <3>6. QED  BY <3>1, <3>2, <3>4, <3>5
    <2>2. ASSUME NEW k \in DOMAIN cached_blocks, NEW j \in DOMAIN cached_blocks'[k]
          PROVE  cached_blocks'[k][j] \notin InUse' \cup {list_memory'}
      BY <1>3, <1>7, <1>10 DEF OnePlace
    <2>3. list_memory' \notin InUse'
      BY <1>3, <1>6, <1>7 DEF OnePlace
    <2>4. QED  BY <1>8, <2>1, <2>2, <2>3 DEF OnePlace
  <1>13. QED  BY <1>9, <1>11, <1>12

\* A returned array leaves the arrays in use and nothing else changes there.
LEMMA Returned ==
  ASSUME CachedInv, NEW r \in InUse, live' = Restrict(live, InUse \ {r}), size' = size
  PROVE  /\ InUse' = InUse \ {r} /\ Region' = Region /\ r \in Region /\ r # 0
         /\ live' \in [InUse' -> {k \in Nat : k >= 16}]
         /\ \A q \in InUse' : live'[q] <= size'[q]
         /\ live[r] \in Nat /\ live[r] >= 16 /\ live[r] <= size[r]
         /\ r # list_memory /\ \A k \in DOMAIN cached_blocks :
              \A j \in DOMAIN cached_blocks[k] : cached_blocks[k][j] # r
  <1> USE DEF CachedInv
  <1>1. live' = [q \in InUse \ {r} |-> live[q]]
    BY DEF Restrict
  <1>2. InUse' = InUse \ {r} /\ Region' = Region
    BY <1>1 DEF InUse, Region
  <1>3. /\ live \in [InUse -> {k \in Nat : k >= 16}] /\ InUse \subseteq Region
        /\ \A q \in InUse : live[q] <= size[q]
    BY FitsByPlace DEF CachedTypeOK
  <1>4. r \in Region /\ r # 0
    BY <1>3, Regions
  <1>5. live' \in [InUse' -> {k \in Nat : k >= 16}] /\ \A q \in InUse' : live'[q] <= size'[q]
    BY <1>1, <1>2, <1>3
  <1>6. r # list_memory /\ \A k \in DOMAIN cached_blocks :
          \A j \in DOMAIN cached_blocks[k] : cached_blocks[k][j] # r
    BY DEF OnePlace
  <1>7. QED  BY <1>2, <1>3, <1>4, <1>5, <1>6

LEMMA ReturnedToListStep ==
  ASSUME CachedInv, NEW r \in InUse, ReturnToList(r)
  PROVE  CachedInv'
  <1> USE DEF CachedInv
  <1> DEFINE i == IndexToReturn(live[r])
  <1>1. /\ InUse' = InUse \ {r} /\ Region' = Region /\ r \in Region /\ r # 0
        /\ live' \in [InUse' -> {k \in Nat : k >= 16}]
        /\ \A q \in InUse' : live'[q] <= size'[q]
        /\ live[r] \in Nat /\ live[r] >= 16 /\ live[r] <= size[r]
        /\ r # list_memory /\ \A k \in DOMAIN cached_blocks :
             \A j \in DOMAIN cached_blocks[k] : cached_blocks[k][j] # r
    BY Returned DEF ReturnToList
  <1>2. i \in Nat \ {0} /\ TwoToThe[i + 3] <= live[r] /\ i <= Len(cached_blocks)
    BY <1>1, Widths DEF ReturnToList
  <1>3. cached_blocks' = [cached_blocks EXCEPT ![i] = <<r>> \o @]
    BY DEF ReturnToList
  <1>4. size' = size /\ list_memory' = list_memory
    BY DEF ReturnToList
  <1> HIDE DEF i
  <1>5. i \in DOMAIN cached_blocks
    BY <1>2, Regions
  <1>6. /\ cached_blocks' \in Seq(Seq(Region)) /\ Len(cached_blocks') = Len(cached_blocks)
        /\ \A k \in DOMAIN cached_blocks : k # i => cached_blocks'[k] = cached_blocks[k]
        /\ \A j \in DOMAIN cached_blocks'[i] :
              \/ j = 1 /\ cached_blocks'[i][j] = r
              \/ j - 1 \in DOMAIN cached_blocks[i]
                 /\ cached_blocks'[i][j] = cached_blocks[i][j - 1]
    BY <1>1, <1>3, <1>5, HeadAdded
  <1>7. DOMAIN cached_blocks' = DOMAIN cached_blocks
    BY <1>6, Regions
  <1>8. CachedTypeOK'
    BY <1>1, <1>4, <1>6 DEF CachedTypeOK
  \* What is in a list is the returned array, or was in that list before.
  <1>9. ASSUME NEW k \in DOMAIN cached_blocks, NEW j \in DOMAIN cached_blocks'[k]
        PROVE  \/ k = i /\ j = 1 /\ cached_blocks'[k][j] = r
               \/ \E l \in DOMAIN cached_blocks[k] :
                    /\ cached_blocks'[k][j] = cached_blocks[k][l]
                    /\ l = IF k = i THEN j - 1 ELSE j
    <2>1. CASE k = i
      BY <1>6, <2>1
    <2>2. CASE k # i
      BY <1>6, <2>2
    <2>3. QED  BY <2>1, <2>2
  <1>10. EverythingFits'
    <2>1. ListsFit'
      <3>1. ASSUME NEW k \in DOMAIN cached_blocks, NEW j \in DOMAIN cached_blocks'[k]
            PROVE  size[cached_blocks'[k][j]] >= TwoToThe[k + 3]
        <4>1. size[r] >= TwoToThe[i + 3]
          <5>1. size[r] \in Nat /\ TwoToThe[i + 3] \in Nat
            BY <1>1, <1>5, Regions
          <5>2. QED  BY <1>1, <1>2, <5>1
        <4>2. QED  BY <1>9, <4>1, FitsByPlace DEF ListsFit
      <3>2. QED  BY <1>4, <1>7, <3>1 DEF ListsFit
    <2>2. list_memory' # 0 => Len(cached_blocks') * PointerSize <= size'[list_memory']
      BY <1>4, <1>6, FitsByPlace
    <2>3. (Len(cached_blocks) <= MaxLength)'
      BY <1>6, FitsByPlace DEF MaxLength
    <2>4. QED  BY <1>1, <2>1, <2>2, <2>3 DEF EverythingFits, ListsFit, ToSet
  <1>11. OnePlace'
    <2>1. ASSUME NEW k \in DOMAIN cached_blocks, NEW j \in DOMAIN cached_blocks'[k],
                 NEW k2 \in DOMAIN cached_blocks, NEW j2 \in DOMAIN cached_blocks'[k2],
                 cached_blocks'[k][j] = cached_blocks'[k2][j2]
          PROVE  k = k2 /\ j = j2
      <3>1. j \in Nat /\ j2 \in Nat
        <4>1. cached_blocks'[k] \in Seq(Region) /\ cached_blocks'[k2] \in Seq(Region)
          BY <1>6, <1>7
        <4>2. QED  BY <4>1
      <3>2. CASE cached_blocks'[k][j] = r
        <4>1. k = i /\ j = 1
          BY <1>1, <1>9, <3>2
        <4>2. cached_blocks'[k2][j2] = r
          BY <2>1, <3>2
        <4>3. k2 = i /\ j2 = 1
          BY <1>1, <1>9, <4>2
        <4>4. QED  BY <4>1, <4>3
      <3>3. CASE cached_blocks'[k][j] # r
        <4>1. PICK l \in DOMAIN cached_blocks[k] :
                /\ cached_blocks'[k][j] = cached_blocks[k][l] /\ l = IF k = i THEN j - 1 ELSE j
          BY <1>9, <3>3
        <4>2. PICK l2 \in DOMAIN cached_blocks[k2] :
                /\ cached_blocks'[k2][j2] = cached_blocks[k2][l2]
                /\ l2 = IF k2 = i THEN j2 - 1 ELSE j2
          BY <1>9, <2>1, <3>3
        <4>3. cached_blocks[k][l] = cached_blocks[k2][l2]
          BY <2>1, <4>1, <4>2
        <4>4. k = k2 /\ l = l2
          BY <4>3 DEF OnePlace
        <4>5. QED  BY <3>1, <4>1, <4>2, <4>4
      <3>4. QED  BY <3>2, <3>3
    <2>2. ASSUME NEW k \in DOMAIN cached_blocks, NEW j \in DOMAIN cached_blocks'[k]
          PROVE  cached_blocks'[k][j] \notin InUse' \cup {list_memory'}
      BY <1>1, <1>4, <1>9 DEF OnePlace
    <2>3. list_memory' \notin InUse'
      BY <1>1, <1>4 DEF OnePlace
    <2>4. QED  BY <1>7, <2>1, <2>2, <2>3 DEF OnePlace
  <1>12. QED  BY <1>8, <1>10, <1>11

LEMMA ReturnedAsListsStep ==
  ASSUME CachedInv, NEW r \in InUse, ReturnAsLists(r)
  PROVE  CachedInv'
  <1> USE DEF CachedInv
  <1>1. /\ InUse' = InUse \ {r} /\ Region' = Region /\ r \in Region /\ r # 0
        /\ live' \in [InUse' -> {k \in Nat : k >= 16}]
        /\ \A q \in InUse' : live'[q] <= size'[q]
        /\ live[r] \in Nat /\ live[r] >= 16 /\ live[r] <= size[r]
        /\ r # list_memory /\ \A k \in DOMAIN cached_blocks :
             \A j \in DOMAIN cached_blocks[k] : cached_blocks[k][j] # r
    BY Returned DEF ReturnAsLists
  <1>2. /\ cached_blocks' \in Seq(Seq(Region)) /\ Len(cached_blocks') = Entries(live[r])
        /\ \A k \in DOMAIN cached_blocks :
              k \in DOMAIN cached_blocks' /\ cached_blocks'[k] = cached_blocks[k]
        /\ \A k \in DOMAIN cached_blocks' :
              k \notin DOMAIN cached_blocks => cached_blocks'[k] = <<>>
    BY ListsMoved DEF ReturnAsLists
  <1>3. list_memory' = r /\ size' = size
    BY DEF ReturnAsLists
  <1>4. Entries(live[r]) \in 0..MaxLength /\ Entries(live[r]) * PointerSize <= live[r]
    BY <1>1, EntriesFit
  <1>5. CachedTypeOK'
    BY <1>1, <1>2, <1>3 DEF CachedTypeOK
  \* No list has gained anything.
  <1>6. ASSUME NEW k \in DOMAIN cached_blocks', NEW j \in DOMAIN cached_blocks'[k]
        PROVE  /\ k \in DOMAIN cached_blocks /\ j \in DOMAIN cached_blocks[k]
               /\ cached_blocks'[k][j] = cached_blocks[k][j]
    <2>1. k \in DOMAIN cached_blocks
      BY <1>2
    <2>2. QED  BY <1>2, <2>1
  <1>7. EverythingFits'
    <2>1. ListsFit'
      BY <1>3, <1>6, FitsByPlace DEF ListsFit
    <2>2. Len(cached_blocks') * PointerSize <= size'[list_memory']
      <3>1. Len(cached_blocks') * PointerSize <= live[r] /\ live[r] <= size[r]
        BY <1>1, <1>2, <1>4
      <3>2. Len(cached_blocks') \in Nat /\ PointerSize \in Nat /\ size[r] \in Nat
        BY <1>1, <1>2, BoundsOK, Regions
      <3>3. QED  BY <1>1, <1>3, <3>1, <3>2
    <2>3. Entries(live[r]) <= MaxLength
      BY <1>4 DEF MaxLength
    <2>4. (Len(cached_blocks) <= MaxLength)'
      BY <1>2, <2>3 DEF MaxLength
    <2>5. QED  BY <1>1, <2>1, <2>2, <2>4 DEF EverythingFits, ListsFit, ToSet
  <1>8. OnePlace'
    BY <1>1, <1>3, <1>6 DEF OnePlace
  <1>9. QED  BY <1>5, <1>7, <1>8

-------------------------------------------------------------------------------
(***************************************************************************)
(* The invariant, and what it says.                                        *)
(***************************************************************************)
LEMMA Stutter == CachedInv /\ UNCHANGED vars => CachedInv'
  BY DEF CachedInv, CachedTypeOK, EverythingFits, OnePlace, vars, InUse, Region, MaxLength

LEMMA CachedInvStep == CachedInv /\ [Next]_vars => CachedInv'
  <1> SUFFICES ASSUME CachedInv, [Next]_vars
               PROVE  CachedInv'
    OBVIOUS
  <1>1. CASE Reset
    BY <1>1, ResetStep
  <1>2. ASSUME NEW n \in Sizes, TryAllocateFromCachedBlock(n)
        PROVE  CachedInv'
    BY <1>2, TakenStep
  <1>3. ASSUME NEW n \in Sizes, MaybeAllocateAligned(n)
        PROVE  CachedInv'
    BY <1>3, NewRegionStep
  <1>4. ASSUME NEW r \in InUse, ReturnToList(r)
        PROVE  CachedInv'
    BY <1>4, ReturnedToListStep
  <1>5. ASSUME NEW r \in InUse, ReturnAsLists(r)
        PROVE  CachedInv'
    BY <1>5, ReturnedAsListsStep
  <1>6. CASE UNCHANGED vars
    BY <1>6, Stutter
  <1>7. QED  BY <1>1, <1>2, <1>3, <1>4, <1>5, <1>6 DEF Next

\* After any sequence of allocations, returns and Resets every array and every cached
\* region is large enough for its use, and no two uses share a region.
THEOREM CachedInvariant == Spec => []CachedInv
  <1>1. Init => CachedInv
    BY CachedInvInit
  <1>2. QED  BY <1>1, CachedInvStep, PTL DEF Spec

LEMMA OneUseFollows == CachedInv => OneUse
  <1> SUFFICES ASSUME CachedInv, NEW r \in Region
               PROVE  /\ \A p, q \in Places(r) : p = q
                      /\ r \in InUse => Places(r) = {} /\ r # list_memory
                      /\ r = list_memory => Places(r) = {}
    BY DEF OneUse
  <1>1. ASSUME NEW p \in Places(r)
        PROVE  /\ p = <<p[1], p[2]>> /\ p[1] \in DOMAIN cached_blocks
               /\ p[2] \in DOMAIN cached_blocks[p[1]] /\ cached_blocks[p[1]][p[2]] = r
    BY DEF Places
  <1>2. QED  BY <1>1 DEF CachedInv, OnePlace

\* Whatever sizes of arrays are asked for and returned, in whatever order, an array has
\* memory of its own and enough of it ...
THEOREM ArraysHaveTheirMemoryAlways == Spec => []ArraysHaveTheirMemory
  <1>1. CachedInv => ArraysHaveTheirMemory
    BY OneUseFollows DEF CachedInv, ArraysHaveTheirMemory
  <1>2. QED  BY <1>1, CachedInvariant, PTL

LEMMA CachedByPlace ==
  \A r : r \in Cached <=>
    \E i \in DOMAIN cached_blocks : \E j \in DOMAIN cached_blocks[i] : r = cached_blocks[i][j]
  BY DEF Cached, ToSet

LEMMA CachedUntilReusedStep ==
  ASSUME CachedInv, Next, size' # <<>>, NEW r \in Cached
  PROVE  r \in Cached' \cup InUse'
  <1>k. PICK k \in DOMAIN cached_blocks : \E j \in DOMAIN cached_blocks[k] : r = cached_blocks[k][j]
    BY CachedByPlace
  <1>1. PICK j \in DOMAIN cached_blocks[k] : r = cached_blocks[k][j]
    BY <1>k
  <1>2. \A q : (\E i \in DOMAIN cached_blocks' : \E l \in DOMAIN cached_blocks'[i] :
                 q = cached_blocks'[i][l]) => q \in Cached'
    BY DEF Cached, ToSet
  <1>3. ~ Reset
    BY DEF Reset
  <1>4. CachedTypeOK /\ EverythingFits
    BY DEF CachedInv
  <1>5. ASSUME NEW n \in Sizes, TryAllocateFromCachedBlock(n)
        PROVE  r \in Cached' \cup InUse'
    <2> DEFINE i == IndexToTake(AlignUp(n))
    <2>1. /\ i <= Len(cached_blocks) /\ cached_blocks[i] # <<>> /\ cached_blocks' = WithoutHead(i)
          /\ InUse' = InUse \cup {Head(cached_blocks[i])}
      BY <1>5 DEF TryAllocateFromCachedBlock, IsCached, With, InUse
    <2>2. n \in Nat /\ n >= 16 /\ i \in Nat \ {0}
      BY SizesOK, Widths
    <2> HIDE DEF i
    <2>3. i \in DOMAIN cached_blocks
      BY <1>4, <2>1, <2>2, Regions
    <2>4. /\ Len(cached_blocks') = Len(cached_blocks) /\ cached_blocks' \in Seq(Seq(Region))
          /\ \A m \in DOMAIN cached_blocks : m # i => cached_blocks'[m] = cached_blocks[m]
          /\ Head(cached_blocks[i]) = cached_blocks[i][1]
          /\ \A l \in DOMAIN cached_blocks[i] :
               l # 1 => l - 1 \in DOMAIN cached_blocks'[i]
                        /\ cached_blocks'[i][l - 1] = cached_blocks[i][l]
      BY <1>4, <2>1, <2>3, HeadTaken
    <2>5. DOMAIN cached_blocks' = DOMAIN cached_blocks
      BY <1>4, <2>4, Regions
    <2>6. CASE k = i /\ j = 1
      BY <1>1, <2>1, <2>4, <2>6
    <2>7. CASE k = i /\ j # 1
      BY <1>1, <1>2, <2>4, <2>5, <2>7
    <2>8. CASE k # i
      BY <1>1, <1>2, <2>4, <2>5, <2>8
    <2>9. QED  BY <2>6, <2>7, <2>8
  <1>6. ASSUME NEW n \in Sizes, MaybeAllocateAligned(n)
        PROVE  r \in Cached' \cup InUse'
    BY <1>1, <1>2, <1>6 DEF MaybeAllocateAligned
  <1>7. ASSUME NEW q \in InUse, ReturnToList(q)
        PROVE  r \in Cached' \cup InUse'
    <2> DEFINE i == IndexToReturn(live[q])
    <2>1. live[q] \in Nat /\ live[q] >= 16 /\ q \in Region
      BY <1>4 DEF CachedTypeOK
    <2>2. i \in Nat \ {0}
      BY <2>1, Widths
    <2>3. i <= Len(cached_blocks) /\ cached_blocks' = [cached_blocks EXCEPT ![i] = <<q>> \o @]
      BY <1>7 DEF ReturnToList
    <2> HIDE DEF i
    <2>4. i \in DOMAIN cached_blocks
      BY <1>4, <2>2, <2>3, Regions
    <2>5. /\ Len(cached_blocks') = Len(cached_blocks) /\ cached_blocks' \in Seq(Seq(Region))
          /\ \A m \in DOMAIN cached_blocks : m # i => cached_blocks'[m] = cached_blocks[m]
          /\ \A l \in DOMAIN cached_blocks[i] :
               l + 1 \in DOMAIN cached_blocks'[i] /\ cached_blocks'[i][l + 1] = cached_blocks[i][l]
      BY <1>4, <2>1, <2>3, <2>4, HeadAdded
    <2>6. DOMAIN cached_blocks' = DOMAIN cached_blocks
      BY <1>4, <2>5, Regions
    <2>7. CASE k = i
      BY <1>1, <1>2, <2>5, <2>6, <2>7
    <2>8. CASE k # i
      BY <1>1, <1>2, <2>5, <2>6, <2>8
    <2>9. QED  BY <2>7, <2>8
  <1>8. ASSUME NEW q \in InUse, ReturnAsLists(q)
        PROVE  r \in Cached' \cup InUse'
    <2>1. k \in DOMAIN cached_blocks' /\ cached_blocks'[k] = cached_blocks[k]
      BY <1>4, <1>8, ListsMoved DEF ReturnAsLists
    <2>2. QED  BY <1>1, <1>2, <2>1
  <1>9. QED  BY <1>3, <1>5, <1>6, <1>7, <1>8 DEF Next

\* ... and a cached region is found in the lists until it is an array again, however
\* often the lists move into memory that was returned.
THEOREM CachedUntilReusedAlways == Spec => CachedUntilReused
  <1>1. CachedInv /\ [Next]_vars =>
          [size' # <<>> => \A r \in Cached : r \in Cached' \cup InUse']_vars
    BY CachedUntilReusedStep
  <1>2. QED  BY <1>1, CachedInvariant, PTL DEF Spec, CachedUntilReused

===============================================================================
