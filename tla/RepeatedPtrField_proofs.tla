------------------------ MODULE RepeatedPtrField_proofs ------------------------
(****************************************************************************)
(* What is proved of RepeatedPtrField, for any finite number of fields, of  *)
(* any sizes, wherever they are: every object has one owner, and the fields *)
(* are the lists that RepeatedLists describes.                              *)
(*                                                                          *)
(* Owned is the invariant of the memory.  It holds between the calls of a   *)
(* method, too, with the temporary field of a swap on the arena of one of   *)
(* the two fields, so it has the arenas of the fields as a parameter.  For  *)
(* each method there is a lemma that says that it keeps Owned, what the     *)
(* list of its field is afterwards, and that no other list has changed.     *)
(****************************************************************************)
EXTENDS RepeatedPtrField, SequenceFacts, FiniteSetTheorems, SequenceTheorems, TLAPS

Fields == Field \cup {"temp"}
Place == {"heap"} \cup {where[f] : where \in Where, f \in Field}
Val == Value \cup {Empty}
Object == [at : Place, val : Val]
Rep == [capacity : Nat, elems : Seq(Nat), size : Nat]

\* What the theorems assume of the constants: there are finitely many fields, each
\* on the heap or on an arena, and none is the temporary of a swap.
ConstantsOK ==
  /\ IsFiniteSet(Field) /\ "temp" \notin Field
  /\ \A where \in Where : where = [f \in Field |-> where[f]]
  /\ MaxSize \in Nat

-------------------------------------------------------------------------------
(* The invariant.                                                             *)

IsMemory(s) == s = [obj |-> s.obj, user |-> s.user, wrong |-> s.wrong, field |-> s.field]

ObjectsOK(o) == o \in [DOMAIN o -> Object] /\ \E b \in Nat : DOMAIN o \subseteq 1..b

\* The elements of a field are different objects on its arena, and those that are
\* left from before are cleared.
FieldOK(o, F, at) ==
  /\ F \in Rep
  /\ F.size <= Len(F.elems) /\ Len(F.elems) <= F.capacity
  /\ IsInjective(F.elems)
  /\ \A i \in 1..Len(F.elems) : /\ F.elems[i] \in DOMAIN o /\ o[F.elems[i]].at = at
                                /\ i > F.size => o[F.elems[i]].val = Empty

Elems(s, f) == ToSet(s.field[f].elems)

Owned(s, w) ==
  /\ IsMemory(s) /\ ~s.wrong
  /\ ObjectsOK(s.obj)
  /\ s.field \in [Fields -> Rep]
  /\ \A f \in Fields : FieldOK(s.obj, s.field[f], w[f])
  /\ \A f, g \in Fields : f # g => Elems(s, f) \cap Elems(s, g) = {}
  /\ s.user \subseteq DOMAIN s.obj
  /\ \A f \in Fields : Elems(s, f) \cap s.user = {}
  /\ \A id \in DOMAIN s.obj :
       s.obj[id].at = "heap" => id \in s.user \/ \E f \in Fields : id \in Elems(s, f)

\* Where the fields are, the temporary included.
Homes(at) == [f \in Fields |-> IF f = "temp" THEN at ELSE arena[f]]

IInv ==
  /\ arena \in Where
  /\ Owned(m, Homes("heap"))
  /\ m.field["temp"] = NoElements

-------------------------------------------------------------------------------
(* Objects.                                                                   *)

\* The greatest name of an object is one.
LEMMA HighestIs ==
  ASSUME NEW s, ObjectsOK(s.obj)
  PROVE  Highest(s) \in Nat /\ \A i \in DOMAIN s.obj : i \in 1..Highest(s)
<1> DEFINE D == DOMAIN s.obj \cup {0}
           T == {b \in Nat : \A i \in D : i <= b}
<1>1. PICK b \in Nat : DOMAIN s.obj \subseteq 1..b
  BY DEF ObjectsOK
<1>2. D \subseteq Nat /\ b \in T
  BY <1>1
<1>3. PICK n \in T : \A k \in T : n <= k
  <2>1. T \in SUBSET Nat /\ T # {}
    BY <1>2
  <2> QED
    BY <2>1, LeastNatural
<1>4. n \in D
  <2>1. SUFFICES ASSUME n \notin D
                 PROVE  FALSE
    OBVIOUS
  <2>2. n \in Nat /\ n # 0
    BY <2>1
  <2>3. \A i \in D : i <= n - 1
    BY <1>2, <2>1, <2>2
  <2>4. n - 1 \in T
    BY <2>2, <2>3
  <2> QED
    BY <1>3, <2>2, <2>4
<1>5. \A y \in D : n >= y
  BY <1>2, <1>3
<1>6. Max(D) \in D /\ \A y \in D : Max(D) >= y
  BY <1>4, <1>5 DEF Max
<1> QED
  BY <1>1, <1>2, <1>6 DEF Highest

\* New objects get new names, and nothing else changes.
OnlyNew(s, t, at, vals) ==
  LET n == Highest(s) IN
  /\ n \in Nat
  /\ IsMemory(t) /\ t.user = s.user /\ t.wrong = s.wrong /\ t.field = s.field
  /\ ObjectsOK(t.obj)
  /\ DOMAIN t.obj = DOMAIN s.obj \cup (n + 1)..(n + Len(vals))
  /\ \A i \in DOMAIN s.obj : t.obj[i] = s.obj[i] /\ i \notin (n + 1)..(n + Len(vals))
  /\ \A k \in 1..Len(vals) : t.obj[n + k] = [at |-> at, val |-> vals[k]]

LEMMA NewIs ==
  ASSUME NEW s, IsMemory(s), ObjectsOK(s.obj), NEW at \in Place, NEW vals \in Seq(Val),
         NEW t, t = New(s, at, vals)
  PROVE  OnlyNew(s, t, at, vals)
<1> DEFINE n == Highest(s)
           news == (n + 1)..(n + Len(vals))
           o == [i \in DOMAIN s.obj \cup news |->
                   IF i <= n THEN s.obj[i] ELSE [at |-> at, val |-> vals[i - n]]]
<1>1. n \in Nat /\ \A i \in DOMAIN s.obj : i \in 1..n
  BY HighestIs
<1>2. t = [obj |-> o, user |-> s.user, wrong |-> s.wrong, field |-> s.field]
  BY DEF IsMemory, New
<1>3. Len(vals) \in Nat
  OBVIOUS
<1> HIDE DEF n
<1>4. \A i \in news : i - n \in 1..Len(vals) /\ ~ i <= n /\ i \in 1..(n + Len(vals))
  BY <1>1, <1>3
<1>5. \A i \in news : vals[i - n] \in Val
  BY <1>4, ElementOfSeq
<1>6. \A i \in news : o[i] = [at |-> at, val |-> vals[i - n]] /\ o[i] \in Object
  BY <1>4, <1>5 DEF Object
<1>7. \A i \in DOMAIN s.obj : o[i] = s.obj[i] /\ i \notin news /\ o[i] \in Object
  BY <1>1, <1>3 DEF ObjectsOK
<1>8. DOMAIN o = DOMAIN s.obj \cup news
  OBVIOUS
<1>9. ObjectsOK(o)
  <2>1. o \in [DOMAIN o -> Object]
    BY <1>6, <1>7
  <2>2. DOMAIN o \subseteq 1..(n + Len(vals)) /\ n + Len(vals) \in Nat
    BY <1>1, <1>3, <1>4
  <2> QED
    BY <2>1, <2>2 DEF ObjectsOK
<1>10. \A k \in 1..Len(vals) : n + k \in news /\ (n + k) - n = k
  BY <1>1, <1>3
<1> HIDE DEF o, news
<1>11. \A k \in 1..Len(vals) : o[n + k] = [at |-> at, val |-> vals[k]]
  BY <1>6, <1>10
<1>12. t.obj = o /\ t.user = s.user /\ t.wrong = s.wrong /\ t.field = s.field /\ IsMemory(t)
  BY <1>2 DEF IsMemory
<1> QED
  BY <1>1, <1>7, <1>8, <1>9, <1>11, <1>12 DEF n, news, OnlyNew

\* Set changes values only,
OnlySets(s, t, ids, vals) ==
  /\ IsMemory(t) /\ t.user = s.user /\ t.wrong = s.wrong /\ t.field = s.field
  /\ ObjectsOK(t.obj) /\ DOMAIN t.obj = DOMAIN s.obj
  /\ \A i \in DOMAIN s.obj : t.obj[i].at = s.obj[i].at
  /\ \A i \in DOMAIN s.obj \ ToSet(ids) : t.obj[i] = s.obj[i]
  /\ \A k \in 1..Len(ids) : ids[k] \in DOMAIN s.obj => t.obj[ids[k]].val = vals[k]

LEMMA SetIs ==
  ASSUME NEW s, IsMemory(s), ObjectsOK(s.obj), NEW ids \in Seq(Nat), IsInjective(ids),
         NEW vals \in Seq(Val), Len(vals) = Len(ids),
         NEW t, t = Set(s, ids, vals)
  PROVE  OnlySets(s, t, ids, vals)
<1> DEFINE o == [i \in DOMAIN s.obj |->
                   IF i \in ToSet(ids) THEN [s.obj[i] EXCEPT !.val = vals[CHOOSE k \in DOMAIN ids : ids[k] = i]]
                   ELSE s.obj[i]]
<1>1. t = [obj |-> o, user |-> s.user, wrong |-> s.wrong, field |-> s.field]
  BY DEF IsMemory, Set
<1>2. DOMAIN ids = 1..Len(ids) /\ DOMAIN o = DOMAIN s.obj
  OBVIOUS
<1>3. \A i \in DOMAIN s.obj : s.obj[i] \in Object
  BY DEF ObjectsOK
<1>4. ASSUME NEW k \in 1..Len(ids), ids[k] \in DOMAIN s.obj
      PROVE  o[ids[k]] = [s.obj[ids[k]] EXCEPT !.val = vals[k]]
  <2>1. ids[k] \in ToSet(ids)
    BY <1>2 DEF ToSet
  <2>2. (CHOOSE l \in DOMAIN ids : ids[l] = ids[k]) = k
    BY <1>2 DEF IsInjective
  <2> QED
    BY <1>4, <2>1, <2>2
<1>5. \A k \in 1..Len(ids) : vals[k] \in Val
  OBVIOUS
<1>6. \A i \in ToSet(ids) : \E k \in 1..Len(ids) : i = ids[k]
  BY <1>2 DEF ToSet
<1>7. \A i \in DOMAIN s.obj \ ToSet(ids) : o[i] = s.obj[i]
  OBVIOUS
<1> HIDE DEF o
<1>8. \A k \in 1..Len(ids) : ids[k] \in DOMAIN s.obj =>
        o[ids[k]].val = vals[k] /\ o[ids[k]].at = s.obj[ids[k]].at /\ o[ids[k]] \in Object
  BY <1>3, <1>4, <1>5 DEF Object
<1>9. \A i \in DOMAIN s.obj : o[i] \in Object /\ o[i].at = s.obj[i].at
  BY <1>3, <1>6, <1>7, <1>8
<1>10. ObjectsOK(o)
  <2>1. o \in [DOMAIN o -> Object]
    BY <1>1, <1>2, <1>9 DEF o
  <2> QED
    BY <2>1, <1>2 DEF ObjectsOK
<1>11. t.obj = o /\ t.user = s.user /\ t.wrong = s.wrong /\ t.field = s.field /\ IsMemory(t)
  BY <1>1 DEF IsMemory
<1> QED
  BY <1>2, <1>7, <1>8, <1>9, <1>10, <1>11 DEF OnlySets

LEMMA SetSingleIs ==
  ASSUME NEW s, IsMemory(s), ObjectsOK(s.obj), NEW id \in DOMAIN s.obj, id \in Nat, NEW val \in Val,
         NEW t, t = Set(s, <<id>>, <<val>>)
  PROVE  OnlySets(s, t, <<id>>, <<val>>)
<1>1. PICK ids : ids = <<id>>
  OBVIOUS
<1>2. PICK vals : vals = <<val>>
  OBVIOUS
<1>3. ids \in Seq(Nat) /\ IsInjective(ids) /\ vals \in Seq(Val) /\ Len(vals) = Len(ids)
  BY <1>1, <1>2 DEF IsInjective
<1>4. t = Set(s, ids, vals)
  BY <1>1, <1>2
<1>5. OnlySets(s, t, ids, vals)
  BY <1>3, <1>4, SetIs
<1> QED
  BY <1>1, <1>2, <1>5

\* and Delete is right about objects on the heap.
OnlyDeletes(s, t, ids) ==
  /\ IsMemory(t) /\ t.user = s.user /\ ~t.wrong /\ t.field = s.field
  /\ ObjectsOK(t.obj) /\ DOMAIN t.obj = DOMAIN s.obj \ ToSet(ids)
  /\ \A i \in DOMAIN s.obj \ ToSet(ids) : t.obj[i] = s.obj[i]

LEMMA DeleteIs ==
  ASSUME NEW s, IsMemory(s), ObjectsOK(s.obj), NEW ids \in Seq(Nat), IsInjective(ids),
         \A k \in 1..Len(ids) : ids[k] \in DOMAIN s.obj /\ s.obj[ids[k]].at = "heap",
         NEW t, t = Delete(s, ids), ~s.wrong
  PROVE  OnlyDeletes(s, t, ids)
<1> DEFINE o == [i \in DOMAIN s.obj \ ToSet(ids) |-> s.obj[i]]
           wrong == \/ s.wrong \/ ~IsInjective(ids)
                    \/ \E id \in ToSet(ids) : id \notin DOMAIN s.obj \/ s.obj[id].at # "heap"
<1>1. t = [obj |-> o, user |-> s.user, wrong |-> wrong, field |-> s.field]
  BY DEF IsMemory, Delete
<1>2. ~wrong
  BY DEF ToSet
<1>3. ObjectsOK(o)
  BY DEF ObjectsOK
<1> HIDE DEF wrong
<1>4. t.obj = o /\ t.user = s.user /\ ~t.wrong /\ t.field = s.field /\ IsMemory(t)
  BY <1>1, <1>2 DEF IsMemory
<1> QED
  BY <1>3, <1>4 DEF OnlyDeletes

LEMMA DeleteKeeps ==
  ASSUME NEW s, IsMemory(s), NEW ids
  PROVE  IsMemory(Delete(s, ids)) /\ Delete(s, ids).field = s.field
<1> DEFINE o == [i \in DOMAIN s.obj \ ToSet(ids) |-> s.obj[i]]
           wrong == \/ s.wrong \/ ~IsInjective(ids)
                    \/ \E id \in ToSet(ids) : id \notin DOMAIN s.obj \/ s.obj[id].at # "heap"
<1>1. PICK t : t = Delete(s, ids)
  OBVIOUS
<1>2. t = [obj |-> o, user |-> s.user, wrong |-> wrong, field |-> s.field]
  BY <1>1 DEF IsMemory, Delete
<1> HIDE DEF o, wrong
<1>3. IsMemory(t) /\ t.field = s.field
  BY <1>2 DEF IsMemory
<1> QED
  BY <1>1, <1>3

-------------------------------------------------------------------------------
(* Fields.                                                                    *)

\* The list of a field.
ListOf(o, F) == [i \in 1..F.size |-> o[F.elems[i]].val]

\* A field whose elements stay as they are stays as it is.
LEMMA FieldStays ==
  ASSUME NEW o, NEW p, NEW F, NEW at, FieldOK(o, F, at),
         \A id \in ToSet(F.elems) : id \in DOMAIN p /\ p[id] = o[id]
  PROVE  FieldOK(p, F, at) /\ ListOf(p, F) = ListOf(o, F)
<1>1. F.elems \in Seq(Nat) /\ F.size \in Nat /\ F.size <= Len(F.elems)
  BY DEF FieldOK, Rep
<1>2. DOMAIN F.elems = 1..Len(F.elems) /\ Len(F.elems) \in Nat
  BY <1>1
<1>3. \A i \in 1..Len(F.elems) : F.elems[i] \in DOMAIN p /\ p[F.elems[i]] = o[F.elems[i]]
  BY <1>2 DEF ToSet
<1>4. FieldOK(p, F, at)
  BY <1>3 DEF FieldOK
<1>5. \A i \in 1..F.size : i \in 1..Len(F.elems)
  BY <1>1, <1>2
<1> QED
  BY <1>3, <1>4, <1>5 DEF ListOf

\* Everything but one field, the user and objects that are no other's stays as it is.
Beside(s, t, f) ==
  /\ IsMemory(t) /\ ~t.wrong
  /\ t.field = [s.field EXCEPT ![f] = t.field[f]]
  /\ \A g \in Fields \ {f} : \A id \in Elems(s, g) :
       id \in DOMAIN t.obj /\ t.obj[id] = s.obj[id] /\ id \notin t.user /\ id \notin Elems(t, f)

\* A method keeps the invariant, makes this the list of f, and leaves all other lists.
SameLists(s, t, f) == \A g \in Fields \ {f} : Values(t, g) = Values(s, g) /\ t.field[g] = s.field[g]
Makes(w, s, t, f, list) == Owned(t, w) /\ SameLists(s, t, f) /\ Values(t, f) = list

LEMMA OneField ==
  ASSUME NEW w, NEW s, NEW t, NEW f \in Fields, Owned(s, w), Beside(s, t, f),
         ObjectsOK(t.obj), FieldOK(t.obj, t.field[f], w[f]),
         t.user \subseteq DOMAIN t.obj, Elems(t, f) \cap t.user = {},
         \A id \in DOMAIN t.obj : t.obj[id].at = "heap" =>
           \/ id \in t.user \/ id \in Elems(t, f)
           \/ \E g \in Fields \ {f} : id \in Elems(s, g)
  PROVE  Owned(t, w) /\ SameLists(s, t, f)
<1>1. \A g \in Fields \ {f} : t.field[g] = s.field[g] /\ Elems(t, g) = Elems(s, g)
  BY DEF Beside, Owned, Elems
<1>2. t.field \in [Fields -> Rep]
  BY DEF Beside, Owned, FieldOK
<1>3. ASSUME NEW g \in Fields \ {f}
      PROVE  FieldOK(t.obj, t.field[g], w[g]) /\ Values(t, g) = Values(s, g)
  <2>1. FieldOK(s.obj, s.field[g], w[g])
    BY DEF Owned
  <2>2. \A id \in ToSet(s.field[g].elems) : id \in DOMAIN t.obj /\ t.obj[id] = s.obj[id]
    BY DEF Beside, Elems
  <2>3. FieldOK(t.obj, s.field[g], w[g]) /\ ListOf(t.obj, s.field[g]) = ListOf(s.obj, s.field[g])
    BY <2>1, <2>2, FieldStays
  <2> QED
    BY <1>1, <2>3 DEF Values, ListOf
<1>4. \A g \in Fields : FieldOK(t.obj, t.field[g], w[g])
  BY <1>3
<1>5. \A g, h \in Fields : g # h => Elems(t, g) \cap Elems(t, h) = {}
  <2>1. \A g \in Fields \ {f} : Elems(t, g) \cap Elems(t, f) = {}
    BY <1>1 DEF Beside
  <2>2. \A g, h \in Fields \ {f} : g # h => Elems(t, g) \cap Elems(t, h) = {}
    BY <1>1 DEF Owned
  <2> QED
    BY <2>1, <2>2
<1>6. \A g \in Fields : Elems(t, g) \cap t.user = {}
  BY <1>1 DEF Beside
<1>7. \A id \in DOMAIN t.obj :
        t.obj[id].at = "heap" => id \in t.user \/ \E g \in Fields : id \in Elems(t, g)
  BY <1>1
<1>8. IsMemory(t) /\ ~t.wrong
  BY DEF Beside
<1>9. Owned(t, w)
  BY <1>2, <1>4, <1>5, <1>6, <1>7, <1>8 DEF Owned
<1> QED
  BY <1>1, <1>3, <1>9 DEF SameLists

\* What the invariant says of one field.
LEMMA FieldIs ==
  ASSUME NEW w, NEW s, Owned(s, w), NEW f \in Fields, NEW F, F = s.field[f]
  PROVE  /\ FieldOK(s.obj, F, w[f])
         /\ F = [capacity |-> F.capacity, elems |-> F.elems, size |-> F.size]
         /\ F.capacity \in Nat /\ F.elems \in Seq(Nat) /\ F.size \in Nat
         /\ Len(F.elems) \in Nat /\ F.size <= Len(F.elems) /\ Len(F.elems) <= F.capacity
         /\ DOMAIN F.elems = 1..Len(F.elems)
         /\ Elems(s, f) = ToSet(F.elems)
         /\ \A i \in 1..Len(F.elems) : /\ F.elems[i] \in Elems(s, f) /\ F.elems[i] \in DOMAIN s.obj
                                       /\ F.elems[i] \in Nat /\ s.obj[F.elems[i]] \in Object
         /\ \A g \in Fields \ {f} : \A id \in Elems(s, g) :
              id \in DOMAIN s.obj /\ id \notin s.user /\ id \notin Elems(s, f)
         /\ Values(s, f) \in Seq(Val) /\ Len(Values(s, f)) = F.size
         /\ \A i \in 1..F.size : Values(s, f)[i] = s.obj[F.elems[i]].val
<1>1. FieldOK(s.obj, F, w[f]) /\ F \in Rep
  BY DEF Owned, FieldOK
<1>2. /\ F = [capacity |-> F.capacity, elems |-> F.elems, size |-> F.size]
      /\ F.capacity \in Nat /\ F.elems \in Seq(Nat) /\ F.size \in Nat
      /\ F.size <= Len(F.elems) /\ Len(F.elems) <= F.capacity
  BY <1>1 DEF FieldOK, Rep
<1>3. Len(F.elems) \in Nat /\ DOMAIN F.elems = 1..Len(F.elems) /\ Elems(s, f) = ToSet(F.elems)
  BY <1>2 DEF Elems
<1>4. \A i \in 1..Len(F.elems) : /\ F.elems[i] \in Elems(s, f) /\ F.elems[i] \in DOMAIN s.obj
                                 /\ F.elems[i] \in Nat /\ s.obj[F.elems[i]] \in Object
  <2>1. \A i \in 1..Len(F.elems) : F.elems[i] \in Elems(s, f) /\ F.elems[i] \in Nat
    BY <1>2, <1>3 DEF ToSet
  <2>2. \A i \in 1..Len(F.elems) : F.elems[i] \in DOMAIN s.obj
    BY <1>1 DEF FieldOK
  <2>3. \A id \in DOMAIN s.obj : s.obj[id] \in Object
    BY DEF Owned, ObjectsOK
  <2> QED
    BY <2>1, <2>2, <2>3
<1>5. ASSUME NEW g \in Fields \ {f}, NEW id \in Elems(s, g)
      PROVE  id \in DOMAIN s.obj /\ id \notin s.user /\ id \notin Elems(s, f)
  <2>1. FieldOK(s.obj, s.field[g], w[g])
    BY DEF Owned
  <2>2. PICK i \in DOMAIN s.field[g].elems : id = s.field[g].elems[i]
    BY DEF Elems, ToSet
  <2>3. id \in DOMAIN s.obj
    BY <2>1, <2>2 DEF FieldOK, Rep
  <2> QED
    BY <2>3 DEF Owned
<1>6. \A i \in 1..F.size : i \in 1..Len(F.elems)
  BY <1>2, <1>3
<1>7. /\ Values(s, f) \in Seq(Val) /\ Len(Values(s, f)) = F.size
      /\ \A i \in 1..F.size : Values(s, f)[i] = s.obj[F.elems[i]].val
  BY <1>2, <1>4, <1>6 DEF Values, Object
<1> QED
  BY <1>1, <1>2, <1>3, <1>4, <1>5, <1>7

FieldFacts(w, s, f, F) ==
  /\ F = s.field[f]
  /\ FieldOK(s.obj, F, w[f])
  /\ F = [capacity |-> F.capacity, elems |-> F.elems, size |-> F.size]
  /\ F.capacity \in Nat /\ F.elems \in Seq(Nat) /\ F.size \in Nat
  /\ Len(F.elems) \in Nat /\ F.size <= Len(F.elems) /\ Len(F.elems) <= F.capacity
  /\ DOMAIN F.elems = 1..Len(F.elems) /\ Elems(s, f) = ToSet(F.elems)
  /\ \A i \in 1..Len(F.elems) : /\ F.elems[i] \in Elems(s, f) /\ F.elems[i] \in DOMAIN s.obj
                                /\ F.elems[i] \in Nat /\ s.obj[F.elems[i]] \in Object
                                /\ s.obj[F.elems[i]].at = w[f]
                                /\ i > F.size => s.obj[F.elems[i]].val = Empty
  /\ \A i, j \in 1..Len(F.elems) : F.elems[i] = F.elems[j] => i = j
  /\ Values(s, f) \in Seq(Val) /\ Len(Values(s, f)) = F.size
  /\ \A i \in 1..F.size : Values(s, f)[i] = s.obj[F.elems[i]].val

LEMMA FieldFactsAre ==
  ASSUME NEW w, NEW s, Owned(s, w), NEW f \in Fields
  PROVE  \E F : FieldFacts(w, s, f, F)
<1>1. PICK F : F = s.field[f]
  OBVIOUS
<1>2. /\ FieldOK(s.obj, F, w[f])
      /\ F = [capacity |-> F.capacity, elems |-> F.elems, size |-> F.size]
      /\ F.capacity \in Nat /\ F.elems \in Seq(Nat) /\ F.size \in Nat
      /\ Len(F.elems) \in Nat /\ F.size <= Len(F.elems) /\ Len(F.elems) <= F.capacity
      /\ DOMAIN F.elems = 1..Len(F.elems) /\ Elems(s, f) = ToSet(F.elems)
  BY <1>1, FieldIs
<1>3. \A i \in 1..Len(F.elems) : /\ F.elems[i] \in Elems(s, f) /\ F.elems[i] \in DOMAIN s.obj
                                 /\ F.elems[i] \in Nat /\ s.obj[F.elems[i]] \in Object
  BY <1>1, FieldIs
<1>4. Values(s, f) \in Seq(Val) /\ Len(Values(s, f)) = F.size
  BY <1>1, FieldIs
<1>5. \A i \in 1..F.size : Values(s, f)[i] = s.obj[F.elems[i]].val
  BY <1>1, FieldIs
<1>6. /\ \A i \in 1..Len(F.elems) : s.obj[F.elems[i]].at = w[f] /\ (i > F.size => s.obj[F.elems[i]].val = Empty)
      /\ \A i, j \in 1..Len(F.elems) : F.elems[i] = F.elems[j] => i = j
  BY <1>2 DEF FieldOK, IsInjective
<1> QED
  BY <1>1, <1>2, <1>3, <1>4, <1>5, <1>6 DEF FieldFacts

\* An array that grows changes nothing else.
LEMMA ReservedIs ==
  ASSUME NEW o, NEW F, NEW at, FieldOK(o, F, at), NEW n \in Nat, NEW R, R = Reserved(F, n)
  PROVE  /\ R = [capacity |-> R.capacity, elems |-> F.elems, size |-> F.size]
         /\ R.capacity \in Nat /\ R.capacity >= n /\ R.capacity >= F.capacity
BY DEF FieldOK, Rep, Reserved, Greatest

LEMMA ReserveIs ==
  ASSUME NEW w, NEW s, Owned(s, w), NEW f \in Fields, NEW n \in Nat,
         NEW t, t = [s EXCEPT !.field[f] = Reserved(@, n)]
  PROVE  Makes(w, s, t, f, Values(s, f))
<1> DEFINE F == s.field[f]
           R == Reserved(F, n)
<1>1. IsMemory(s) /\ ~s.wrong /\ ObjectsOK(s.obj) /\ s.user \subseteq DOMAIN s.obj
      /\ Elems(s, f) \cap s.user = {} /\ s.field \in [Fields -> Rep]
  BY DEF Owned
<1>2. t = [obj |-> s.obj, user |-> s.user, wrong |-> s.wrong, field |-> [s.field EXCEPT ![f] = R]]
  BY <1>1 DEF IsMemory
<1>3. FieldOK(s.obj, F, w[f]) /\ F.capacity \in Nat /\ F.elems \in Seq(Nat) /\ F.size \in Nat
  BY FieldIs
<1>4. /\ R = [capacity |-> R.capacity, elems |-> F.elems, size |-> F.size]
      /\ R.capacity \in Nat /\ R.capacity >= F.capacity
  BY <1>3, ReservedIs
<1> HIDE DEF R
<1>5. FieldOK(s.obj, R, w[f])
  BY <1>3, <1>4 DEF FieldOK, Rep
<1>6. t.field[f] = R /\ t.obj = s.obj /\ t.user = s.user /\ IsMemory(t) /\ ~t.wrong
  BY <1>1, <1>2 DEF IsMemory
<1>7. Elems(t, f) = Elems(s, f) /\ Values(t, f) = Values(s, f)
  BY <1>4, <1>6 DEF Elems, Values
<1>8. Beside(s, t, f)
  <2>1. \A g \in Fields \ {f} : \A id \in Elems(s, g) :
          id \in DOMAIN s.obj /\ id \notin s.user /\ id \notin Elems(s, f)
    BY FieldIs
  <2>2. t.field = [s.field EXCEPT ![f] = t.field[f]]
    BY <1>2, <1>6
  <2> QED
    BY <1>6, <1>7, <2>1, <2>2 DEF Beside
<1>9. \A id \in DOMAIN s.obj : s.obj[id].at = "heap" =>
        id \in s.user \/ id \in Elems(s, f) \/ \E g \in Fields \ {f} : id \in Elems(s, g)
  BY DEF Owned
<1> QED
  BY <1>1, <1>5, <1>6, <1>7, <1>8, <1>9, OneField DEF Makes

\* One element is written to.
LEMMA SetOneIs ==
  ASSUME NEW w, NEW s, Owned(s, w), NEW f \in Fields,
         NEW i \in 1..s.field[f].size, NEW val \in Val,
         NEW t, t = Set(s, <<s.field[f].elems[i]>>, <<val>>)
  PROVE  Makes(w, s, t, f, [Values(s, f) EXCEPT ![i] = val])
<1> DEFINE F == s.field[f]
           id == F.elems[i]
<1>1. IsMemory(s) /\ ~s.wrong /\ ObjectsOK(s.obj) /\ s.user \subseteq DOMAIN s.obj
      /\ Elems(s, f) \cap s.user = {} /\ s.field \in [Fields -> Rep]
  BY DEF Owned
<1>2. /\ FieldOK(s.obj, F, w[f]) /\ F.elems \in Seq(Nat) /\ F.size \in Nat
      /\ Len(F.elems) \in Nat /\ F.size <= Len(F.elems)
      /\ DOMAIN F.elems = 1..Len(F.elems) /\ Elems(s, f) = ToSet(F.elems)
  BY FieldIs
<1>3. i \in 1..Len(F.elems)
  BY <1>2
<1>4. id \in Elems(s, f) /\ id \in DOMAIN s.obj /\ id \in Nat
  BY <1>3, FieldIs
<1>5. /\ IsMemory(t) /\ t.user = s.user /\ t.wrong = s.wrong /\ t.field = s.field
      /\ ObjectsOK(t.obj) /\ DOMAIN t.obj = DOMAIN s.obj
      /\ \A j \in DOMAIN s.obj : t.obj[j].at = s.obj[j].at
      /\ \A j \in DOMAIN s.obj \ {id} : t.obj[j] = s.obj[j]
      /\ t.obj[id].val = val
  <2>1. OnlySets(s, t, <<id>>, <<val>>)
    BY <1>1, <1>4, SetSingleIs
  <2>2. ToSet(<<id>>) = {id} /\ 1 \in 1..Len(<<id>>) /\ <<id>>[1] = id /\ <<val>>[1] = val
    BY DEF ToSet
  <2> QED
    BY <1>4, <2>1, <2>2 DEF OnlySets
<1>7. \A j \in 1..Len(F.elems) : j # i => F.elems[j] # id
  BY <1>2, <1>3 DEF FieldOK, IsInjective
<1>8. \A j \in 1..Len(F.elems) : F.elems[j] \in DOMAIN s.obj
  BY FieldIs
<1>9. t.field[f] = F /\ FieldOK(t.obj, F, w[f])
  <2>1. ASSUME NEW j \in 1..Len(F.elems)
        PROVE  /\ F.elems[j] \in DOMAIN t.obj /\ t.obj[F.elems[j]].at = w[f]
               /\ j > F.size => t.obj[F.elems[j]].val = Empty
    <3>1. s.obj[F.elems[j]].at = w[f] /\ (j > F.size => s.obj[F.elems[j]].val = Empty)
      BY <1>2 DEF FieldOK
    <3>2. j > F.size => j # i
      BY <1>2
    <3>3. j # i => F.elems[j] \in DOMAIN s.obj \ {id}
      BY <1>7, <1>8
    <3>4. j > F.size => t.obj[F.elems[j]] = s.obj[F.elems[j]]
      BY <1>5, <3>2, <3>3
    <3> QED
      BY <1>5, <1>8, <3>1, <3>4
  <2> QED
    BY <1>2, <1>5, <2>1 DEF FieldOK
<1>10. Values(t, f) = [Values(s, f) EXCEPT ![i] = val]
  <2>1. \A j \in 1..F.size : j \in 1..Len(F.elems)
    BY <1>2
  <2>2. \A j \in 1..F.size : t.obj[F.elems[j]].val = IF j = i THEN val ELSE s.obj[F.elems[j]].val
    BY <1>5, <1>7, <1>8, <2>1
  <2> QED
    BY <1>5, <2>2 DEF Values
<1>11. Beside(s, t, f)
  <2>1. \A g \in Fields \ {f} : \A j \in Elems(s, g) : j \in DOMAIN s.obj \ {id} /\ j \notin s.user /\ j \notin Elems(s, f)
    BY <1>4, FieldIs
  <2>2. Elems(t, f) = Elems(s, f) /\ t.field = [s.field EXCEPT ![f] = t.field[f]]
    BY <1>1, <1>5 DEF Elems
  <2> QED
    BY <1>1, <1>5, <2>1, <2>2 DEF Beside
<1>12. \A j \in DOMAIN s.obj : s.obj[j].at = "heap" =>
         j \in s.user \/ j \in Elems(s, f) \/ \E g \in Fields \ {f} : j \in Elems(s, g)
  BY DEF Owned
<1>13. Elems(t, f) = Elems(s, f)
  BY <1>5 DEF Elems
<1> QED
  BY <1>1, <1>5, <1>9, <1>10, <1>11, <1>12, <1>13, OneField DEF Makes

\* What every lemma about a method starts from.
LEMMA OwnedIs ==
  ASSUME NEW w, NEW s, Owned(s, w)
  PROVE  /\ IsMemory(s) /\ ~s.wrong /\ ObjectsOK(s.obj) /\ s.user \subseteq DOMAIN s.obj
         /\ s.field \in [Fields -> Rep] /\ s.obj \in [DOMAIN s.obj -> Object]
         /\ \A id \in DOMAIN s.obj : s.obj[id] \in Object /\ id \in Nat
         /\ \A f \in Fields : Elems(s, f) \cap s.user = {}
         /\ \A f \in Fields : \A id \in DOMAIN s.obj : s.obj[id].at = "heap" =>
              id \in s.user \/ id \in Elems(s, f) \/ \E g \in Fields \ {f} : id \in Elems(s, g)
BY DEF Owned, ObjectsOK

\* A list is cut off: the elements that are left over are cleared.
CutOff(s, t, f, k) ==
  LET F == s.field[f] IN
  /\ IsMemory(t) /\ t.wrong = s.wrong /\ t.user = s.user
  /\ t.field = [s.field EXCEPT ![f] = [capacity |-> F.capacity, elems |-> F.elems, size |-> k]]
  /\ ObjectsOK(t.obj) /\ DOMAIN t.obj = DOMAIN s.obj
  /\ \A id \in DOMAIN s.obj : t.obj[id].at = s.obj[id].at
  /\ \A id \in DOMAIN s.obj \ {F.elems[i] : i \in (k + 1)..F.size} : t.obj[id] = s.obj[id]
  /\ \A i \in (k + 1)..F.size : t.obj[F.elems[i]].val = Empty

LEMMA CutOffIs ==
  ASSUME NEW w, NEW s, Owned(s, w), NEW f \in Fields, NEW k \in 0..s.field[f].size,
         NEW t, CutOff(s, t, f, k)
  PROVE  Makes(w, s, t, f, SubSeq(Values(s, f), 1, k))
<1> DEFINE F == s.field[f]
           G == [capacity |-> F.capacity, elems |-> F.elems, size |-> k]
           cut == {F.elems[i] : i \in (k + 1)..F.size}
<1>1. /\ FieldOK(s.obj, F, w[f]) /\ F.capacity \in Nat /\ F.elems \in Seq(Nat) /\ F.size \in Nat
      /\ Len(F.elems) \in Nat /\ F.size <= Len(F.elems) /\ Len(F.elems) <= F.capacity
      /\ DOMAIN F.elems = 1..Len(F.elems) /\ Elems(s, f) = ToSet(F.elems)
      /\ \A i \in 1..Len(F.elems) : F.elems[i] \in Elems(s, f) /\ F.elems[i] \in DOMAIN s.obj
      /\ Values(s, f) \in Seq(Val) /\ Len(Values(s, f)) = F.size
      /\ \A i \in 1..F.size : Values(s, f)[i] = s.obj[F.elems[i]].val
  BY FieldIs
<1>2. \A g \in Fields \ {f} : \A id \in Elems(s, g) :
        id \in DOMAIN s.obj /\ id \notin s.user /\ id \notin Elems(s, f)
  BY FieldIs
<1>3. t.field = [s.field EXCEPT ![f] = G] /\ t.field[f] = G /\ Elems(t, f) = Elems(s, f)
  BY <1>1, OwnedIs DEF CutOff, Elems
<1>4. /\ IsMemory(t) /\ ~t.wrong /\ t.user = s.user /\ ObjectsOK(t.obj) /\ DOMAIN t.obj = DOMAIN s.obj
      /\ \A id \in DOMAIN s.obj : t.obj[id].at = s.obj[id].at
      /\ \A id \in DOMAIN s.obj \ cut : t.obj[id] = s.obj[id]
      /\ \A i \in (k + 1)..F.size : t.obj[F.elems[i]].val = Empty
  BY OwnedIs DEF CutOff
<1>5. k \in Nat /\ k <= F.size
  BY <1>1
<1>6. \A i \in 1..Len(F.elems) : i \notin (k + 1)..F.size => F.elems[i] \in DOMAIN s.obj \ cut
  <2>1. \A i, j \in 1..Len(F.elems) : F.elems[i] = F.elems[j] => i = j
    BY <1>1 DEF FieldOK, IsInjective
  <2>2. \A j \in (k + 1)..F.size : j \in 1..Len(F.elems)
    BY <1>1, <1>5
  <2> QED
    BY <1>1, <2>1, <2>2
<1>7. FieldOK(t.obj, G, w[f])
  <2>1. ASSUME NEW i \in 1..Len(F.elems)
        PROVE  /\ F.elems[i] \in DOMAIN t.obj /\ t.obj[F.elems[i]].at = w[f]
               /\ i > k => t.obj[F.elems[i]].val = Empty
    <3>1. s.obj[F.elems[i]].at = w[f] /\ (i > F.size => s.obj[F.elems[i]].val = Empty)
      BY <1>1 DEF FieldOK
    <3>2. i > k => i \in (k + 1)..F.size \/ i > F.size
      BY <1>1, <1>5
    <3>3. i > F.size => t.obj[F.elems[i]] = s.obj[F.elems[i]]
      <4>1. i > F.size => i \notin (k + 1)..F.size
        BY <1>1, <1>5
      <4> QED
        BY <1>4, <1>6, <4>1
    <3> QED
      BY <1>1, <1>4, <3>1, <3>2, <3>3
  <2>2. G \in Rep /\ G.size <= Len(G.elems) /\ G.elems = F.elems /\ G.size = k /\ G.capacity = F.capacity
    BY <1>1, <1>5 DEF Rep
  <2>3. IsInjective(F.elems)
    BY <1>1 DEF FieldOK
  <2> QED
    BY <1>1, <2>1, <2>2, <2>3 DEF FieldOK
<1>8. Values(t, f) = SubSeq(Values(s, f), 1, k)
  <2>1. \A i \in 1..k : i \in 1..F.size /\ i \in 1..Len(F.elems) /\ i \notin (k + 1)..F.size
    BY <1>1, <1>5
  <2>2. \A i \in 1..k : t.obj[F.elems[i]] = s.obj[F.elems[i]]
    BY <1>4, <1>6, <2>1
  <2>3. Values(t, f) = [i \in 1..k |-> t.obj[F.elems[i]].val]
    BY <1>3 DEF Values
  <2>4. SubSeq(Values(s, f), 1, k) = [i \in 1..k |-> Values(s, f)[i]]
    <3>1. PICK v \in Seq(Val) : v = Values(s, f)
      BY <1>1
    <3>2. SubSeq(v, 1, k) = [i \in 1..k |-> v[i]]
      BY <1>1, <1>5, <3>1
    <3> QED
      BY <3>1, <3>2
  <2>5. ASSUME NEW i \in 1..k
        PROVE  t.obj[F.elems[i]].val = Values(s, f)[i]
    <3>1. Values(s, f)[i] = s.obj[F.elems[i]].val
      BY <1>1, <2>1
    <3> QED
      BY <2>2, <3>1
  <2> HIDE DEF F
  <2> QED
    BY <2>3, <2>4, <2>5
<1>9. Beside(s, t, f)
  <2>1. cut \subseteq Elems(s, f)
    BY <1>1, <1>5
  <2> QED
    BY <1>2, <1>3, <1>4, <2>1 DEF Beside
<1> QED
  BY <1>3, <1>4, <1>7, <1>8, <1>9, OneField, OwnedIs DEF Makes

LEMMA RemoveLastIs ==
  ASSUME NEW w, NEW s, Owned(s, w), NEW f \in Fields, s.field[f].size > 0,
         NEW t, t = RemoveLast(s, f)
  PROVE  Makes(w, s, t, f, SubSeq(Values(s, f), 1, s.field[f].size - 1))
<1> DEFINE F == s.field[f]
           k == F.size - 1
           G == [capacity |-> F.capacity, elems |-> F.elems, size |-> k]
           u == [s EXCEPT !.field[f].size = @ - 1]
           id == F.elems[F.size]
<1>1. /\ F = [capacity |-> F.capacity, elems |-> F.elems, size |-> F.size]
      /\ F.elems \in Seq(Nat) /\ F.size \in Nat /\ Len(F.elems) \in Nat /\ F.size <= Len(F.elems)
      /\ \A i \in 1..Len(F.elems) : F.elems[i] \in DOMAIN s.obj /\ F.elems[i] \in Nat
  BY FieldIs
<1>2. id \in DOMAIN s.obj /\ id \in Nat /\ k \in 0..F.size /\ (k + 1)..F.size = {F.size}
  BY <1>1
<1>3. u = [obj |-> s.obj, user |-> s.user, wrong |-> s.wrong, field |-> [s.field EXCEPT ![f] = G]]
  <2>1. IsMemory(s) /\ s.field \in [Fields -> Rep]
    BY OwnedIs
  <2>2. [F EXCEPT !.size = @ - 1] = G
    BY <1>1
  <2>3. u = [s EXCEPT !.field = [s.field EXCEPT ![f] = [F EXCEPT !.size = @ - 1]]]
    BY <2>1 DEF IsMemory
  <2> QED
    BY <2>1, <2>2, <2>3 DEF IsMemory
<1>4. IsMemory(u) /\ u.obj = s.obj /\ u.user = s.user /\ u.wrong = s.wrong
      /\ u.field = [s.field EXCEPT ![f] = G]
  BY <1>3 DEF IsMemory
<1>5. t = Set(u, <<id>>, <<Empty>>)
  <2>1. [i \in DOMAIN <<id>> |-> Empty] = <<Empty>>
    OBVIOUS
  <2> QED
    BY <2>1 DEF RemoveLast, ClearEach
<1> HIDE DEF u, id
<1>6. OnlySets(u, t, <<id>>, <<Empty>>)
  <2>1. Empty \in Val /\ ObjectsOK(s.obj)
    BY OwnedIs DEF Val
  <2> QED
    BY <1>2, <1>4, <1>5, <2>1, SetSingleIs
<1>7. ToSet(<<id>>) = {id} /\ 1 \in 1..Len(<<id>>) /\ <<id>>[1] = id /\ <<Empty>>[1] = Empty
  BY DEF ToSet
<1>8. {F.elems[i] : i \in (k + 1)..F.size} = {id}
  BY <1>2 DEF id
<1>9. CutOff(s, t, f, k)
  BY <1>2, <1>4, <1>6, <1>7, <1>8 DEF OnlySets, CutOff, id
<1> QED
  BY <1>2, <1>9, CutOffIs

\* The objects that are neither the field's nor the user's.
Rest(s, f) == {id \in DOMAIN s.obj : id \notin Elems(s, f) /\ id \notin s.user}

\* A method of f leaves those alone, and what it leaves on the heap has an owner.
FieldTo(s, t, f, G) ==
  /\ IsMemory(t) /\ ~t.wrong /\ ObjectsOK(t.obj)
  /\ t.field = [s.field EXCEPT ![f] = G]
  /\ \A id \in Rest(s, f) : id \in DOMAIN t.obj /\ t.obj[id] = s.obj[id] /\ id \notin t.user /\ id \notin ToSet(G.elems)
  /\ t.user \subseteq DOMAIN t.obj /\ ToSet(G.elems) \cap t.user = {}
  /\ \A id \in DOMAIN t.obj : t.obj[id].at = "heap" => id \in t.user \/ id \in ToSet(G.elems) \/ id \in Rest(s, f)

LEMMA FieldBecomes ==
  ASSUME NEW w, NEW s, Owned(s, w), NEW f \in Fields, NEW G, NEW t, FieldTo(s, t, f, G),
         FieldOK(t.obj, G, w[f])
  PROVE  /\ Owned(t, w) /\ SameLists(s, t, f)
         /\ t.field[f] = G /\ Values(t, f) = ListOf(t.obj, G)
<1>1. IsMemory(t) /\ ~t.wrong /\ ObjectsOK(t.obj) /\ t.field = [s.field EXCEPT ![f] = G]
  BY DEF FieldTo
<1>2. t.field[f] = G
  BY <1>1, OwnedIs
<1>3. Elems(t, f) = ToSet(G.elems) /\ Values(t, f) = ListOf(t.obj, G)
  BY <1>2 DEF Elems, Values, ListOf
<1>4. \A g \in Fields \ {f} : \A id \in Elems(s, g) : id \in Rest(s, f)
  BY FieldIs DEF Rest
<1>5. Beside(s, t, f)
  BY <1>1, <1>2, <1>3, <1>4 DEF FieldTo, Beside
<1>6. t.user \subseteq DOMAIN t.obj /\ Elems(t, f) \cap t.user = {}
  BY <1>3 DEF FieldTo
<1>7. ASSUME NEW id \in DOMAIN t.obj, t.obj[id].at = "heap"
      PROVE  \/ id \in t.user \/ id \in Elems(t, f)
             \/ \E g \in Fields \ {f} : id \in Elems(s, g)
  <2>1. CASE id \in Rest(s, f)
    <3>1. t.obj[id] = s.obj[id] /\ id \in DOMAIN s.obj /\ id \notin Elems(s, f) /\ id \notin s.user
      BY <2>1 DEF FieldTo, Rest
    <3> QED
      BY <1>7, <3>1, OwnedIs
  <2> QED
    BY <1>3, <1>7, <2>1 DEF FieldTo
<1> QED
  BY <1>1, <1>2, <1>3, <1>5, <1>6, <1>7, OneField

\* One field becomes another.
OnlyField(s, t, f, G) ==
  /\ IsMemory(t) /\ t.obj = s.obj /\ t.user = s.user /\ t.wrong = s.wrong
  /\ t.field = [s.field EXCEPT ![f] = G] /\ t.field[f] = G

LEMMA WithField ==
  ASSUME NEW s, IsMemory(s), NEW X, s.field \in [Fields -> X], NEW f \in Fields, NEW G,
         NEW t, t = [s EXCEPT !.field = [s.field EXCEPT ![f] = G]]
  PROVE  OnlyField(s, t, f, G)
<1>1. t = [obj |-> s.obj, user |-> s.user, wrong |-> s.wrong, field |-> [s.field EXCEPT ![f] = G]]
  BY DEF IsMemory
<1> QED
  BY <1>1 DEF IsMemory, OnlyField

\* Cleared elements are used again.
Reused(s, t, f, vals) ==
  LET F == s.field[f] IN
  /\ IsMemory(t) /\ t.wrong = s.wrong /\ t.user = s.user
  /\ t.field = [s.field EXCEPT ![f] = [capacity |-> F.capacity, elems |-> F.elems, size |-> F.size + Len(vals)]]
  /\ ObjectsOK(t.obj) /\ DOMAIN t.obj = DOMAIN s.obj
  /\ \A id \in DOMAIN s.obj : t.obj[id].at = s.obj[id].at
  /\ \A id \in DOMAIN s.obj \ {F.elems[F.size + k] : k \in 1..Len(vals)} : t.obj[id] = s.obj[id]
  /\ \A k \in 1..Len(vals) : t.obj[F.elems[F.size + k]].val = vals[k]

LEMMA ReusedIs ==
  ASSUME NEW w, NEW s, Owned(s, w), NEW f \in Fields, NEW vals \in Seq(Val),
         s.field[f].size + Len(vals) <= Len(s.field[f].elems),
         NEW t, Reused(s, t, f, vals)
  PROVE  Makes(w, s, t, f, Values(s, f) \o vals)
<1>1. PICK F : FieldFacts(w, s, f, F)
  BY FieldFactsAre
<1>2. /\ F = s.field[f] /\ F.capacity \in Nat /\ F.elems \in Seq(Nat) /\ F.size \in Nat
      /\ Len(F.elems) \in Nat /\ F.size <= Len(F.elems) /\ Len(F.elems) <= F.capacity
      /\ DOMAIN F.elems = 1..Len(F.elems) /\ Elems(s, f) = ToSet(F.elems)
  BY <1>1 DEF FieldFacts
<1>3. /\ \A i \in 1..Len(F.elems) : F.elems[i] \in Elems(s, f) /\ F.elems[i] \in DOMAIN s.obj
      /\ \A i, j \in 1..Len(F.elems) : F.elems[i] = F.elems[j] => i = j
  BY <1>1 DEF FieldFacts
<1>4. PICK L : L = Len(vals) /\ L \in Nat
  OBVIOUS
<1> DEFINE G == [capacity |-> F.capacity, elems |-> F.elems, size |-> F.size + L]
           used == {F.elems[F.size + k] : k \in 1..L}
<1>5. F.size + L \in Nat /\ F.size + L <= Len(F.elems)
  BY <1>2, <1>4
<1>6. /\ IsMemory(t) /\ ~t.wrong /\ t.user = s.user /\ ObjectsOK(t.obj) /\ DOMAIN t.obj = DOMAIN s.obj
      /\ t.field = [s.field EXCEPT ![f] = G]
      /\ \A id \in DOMAIN s.obj : t.obj[id].at = s.obj[id].at
      /\ \A id \in DOMAIN s.obj \ used : t.obj[id] = s.obj[id]
      /\ \A k \in 1..L : t.obj[F.elems[F.size + k]].val = vals[k]
  BY <1>2, <1>4, OwnedIs DEF Reused
<1>7. \A k \in 1..L : F.size + k \in 1..Len(F.elems) /\ F.size + k > F.size /\ ~ F.size + k > F.size + L
  <2>1. PICK z, n : z = F.size /\ n = Len(F.elems) /\ z \in Nat /\ n \in Nat /\ L \in Nat /\ z + L <= n
    BY <1>2, <1>4, <1>5
  <2>2. \A k \in 1..L : z + k \in 1..n /\ z + k > z /\ ~ z + k > z + L
    BY <2>1
  <2> QED
    BY <2>1, <2>2
<1>8. \A i \in 1..Len(F.elems) : i <= F.size \/ i > F.size + L => F.elems[i] \in DOMAIN s.obj \ used
  <2>1. \A i \in 1..Len(F.elems) : i <= F.size \/ i > F.size + L => \A k \in 1..L : i # F.size + k
    BY <1>2, <1>4, <1>5, <1>7
  <2> QED
    BY <1>3, <1>7, <2>1
<1>9. FieldOK(t.obj, G, w[f])
  <2>1. ASSUME NEW i \in 1..Len(F.elems)
        PROVE  /\ F.elems[i] \in DOMAIN t.obj /\ t.obj[F.elems[i]].at = w[f]
               /\ i > F.size + L => t.obj[F.elems[i]].val = Empty
    <3>1. s.obj[F.elems[i]].at = w[f] /\ (i > F.size => s.obj[F.elems[i]].val = Empty)
      BY <1>1 DEF FieldFacts
    <3>2. i > F.size + L => i > F.size
      BY <1>2, <1>4
    <3> QED
      BY <1>3, <1>6, <1>8, <3>1, <3>2
  <2>2. G \in Rep /\ G.size <= Len(G.elems) /\ G.elems = F.elems /\ G.size = F.size + L /\ G.capacity = F.capacity
    BY <1>2, <1>5 DEF Rep
  <2>3. IsInjective(F.elems)
    BY <1>1 DEF FieldFacts, FieldOK
  <2> QED
    BY <1>2, <2>1, <2>2, <2>3 DEF FieldOK
<1>10. FieldTo(s, t, f, G)
  <2>1. used \subseteq Elems(s, f)
    BY <1>3, <1>7
  <2>2. ToSet(G.elems) = Elems(s, f)
    BY <1>2
  <2>3. Elems(s, f) \cap s.user = {} /\ s.user \subseteq DOMAIN s.obj
    BY OwnedIs
  <2> QED
    BY <1>6, <2>1, <2>2, <2>3 DEF FieldTo, Rest
<1>11. ListOf(t.obj, G) = Values(s, f) \o vals
  <2>1. ListOf(t.obj, G) = [i \in 1..(F.size + L) |-> t.obj[F.elems[i]].val]
    BY DEF ListOf
  <2>2. PICK v \in Seq(Val) : v = Values(s, f)
    BY <1>1 DEF FieldFacts
  <2>3. Len(v) = F.size /\ \A i \in 1..F.size : v[i] = s.obj[F.elems[i]].val
    BY <1>1, <2>2 DEF FieldFacts
  <2>4. v \o vals = [i \in 1..(F.size + L) |-> IF i <= F.size THEN v[i] ELSE vals[i - F.size]]
    <3>1. v \o vals = [i \in 1..(Len(v) + L) |-> IF i <= Len(v) THEN v[i] ELSE vals[i - Len(v)]]
      BY <1>4, ConcatIs
    <3> QED
      BY <2>3, <3>1
  <2>5. ASSUME NEW i \in 1..(F.size + L)
        PROVE  t.obj[F.elems[i]].val = IF i <= F.size THEN v[i] ELSE vals[i - F.size]
    <3>1. CASE i <= F.size
      <4>1. i \in 1..F.size /\ i \in 1..Len(F.elems)
        BY <1>2, <1>4, <3>1
      <4>2. t.obj[F.elems[i]] = s.obj[F.elems[i]]
        BY <1>6, <1>8, <3>1, <4>1
      <4> QED
        BY <2>3, <3>1, <4>1, <4>2
    <3>2. CASE ~ i <= F.size
      <4>1. i - F.size \in 1..L /\ F.size + (i - F.size) = i
        <5>1. PICK z : z = F.size /\ z \in Nat /\ L \in Nat /\ i \in 1..(z + L) /\ ~ i <= z
          BY <1>2, <1>4, <3>2
        <5>2. i - z \in 1..L /\ z + (i - z) = i
          BY <5>1
        <5> QED
          BY <5>1, <5>2
      <4> QED
        BY <1>6, <3>2, <4>1
    <3> QED
      BY <3>1, <3>2
  <2> QED
    BY <2>1, <2>2, <2>4, <2>5
<1> QED
  BY <1>9, <1>10, <1>11, FieldBecomes DEF Makes

\* New elements are appended.
Grown(s, t, f, at, vals, capacity) ==
  LET F == s.field[f]  n == Highest(s) IN
  /\ OnlyNew(s, [t EXCEPT !.field = s.field], at, vals)
  /\ IsMemory(t)
  /\ t.field = [s.field EXCEPT ![f] = [capacity |-> capacity, elems |-> F.elems \o [k \in 1..Len(vals) |-> n + k],
                                       size |-> F.size + Len(vals)]]

LEMMA GrownIs ==
  ASSUME NEW w, NEW s, Owned(s, w), NEW f \in Fields, NEW vals \in Seq(Val), NEW capacity \in Nat,
         vals # <<>> => s.field[f].size = Len(s.field[f].elems),
         Len(s.field[f].elems) + Len(vals) <= capacity,
         NEW t, Grown(s, t, f, w[f], vals, capacity)
  PROVE  Makes(w, s, t, f, Values(s, f) \o vals)
<1>1. PICK F : FieldFacts(w, s, f, F)
  BY FieldFactsAre
<1>2. /\ F = s.field[f] /\ F.capacity \in Nat /\ F.elems \in Seq(Nat) /\ F.size \in Nat
      /\ DOMAIN F.elems = 1..Len(F.elems) /\ Elems(s, f) = ToSet(F.elems)
  BY <1>1 DEF FieldFacts
<1>3. /\ \A i \in 1..Len(F.elems) : F.elems[i] \in Elems(s, f) /\ F.elems[i] \in DOMAIN s.obj
      /\ \A i, j \in 1..Len(F.elems) : F.elems[i] = F.elems[j] => i = j
  BY <1>1 DEF FieldFacts
<1>4. PICK L : L = Len(vals) /\ L \in Nat
  OBVIOUS
<1>5. PICK e : e = Len(F.elems) /\ e \in Nat /\ F.size <= e /\ e + L <= capacity
  BY <1>1, <1>2, <1>4 DEF FieldFacts
<1>6. L # 0 => F.size = e
  BY <1>2, <1>4, <1>5
<1>7. PICK n : n = Highest(s) /\ n \in Nat
  BY OwnedIs, HighestIs
<1>8. PICK news : news = [k \in 1..L |-> n + k]
  OBVIOUS
<1>9. news \in Seq(Nat) /\ Len(news) = L /\ \A k \in 1..L : news[k] = n + k
  BY <1>4, <1>7, <1>8
<1>10. PICK G : G = [capacity |-> capacity, elems |-> F.elems \o news, size |-> F.size + L]
  OBVIOUS
<1>11. /\ G.capacity = capacity /\ G.size = F.size + L /\ G.elems = F.elems \o news
       /\ G.elems \in Seq(Nat) /\ Len(G.elems) = e + L
  BY <1>2, <1>5, <1>9, <1>10, ConcatProperties
<1>12. ASSUME NEW i \in 1..(e + L)
       PROVE  /\ G.elems[i] = IF i <= e THEN F.elems[i] ELSE n + (i - e)
              /\ i <= e => i \in 1..e
              /\ ~ i <= e => i - e \in 1..L
  <2>1. (F.elems \o news)[i] = IF i <= Len(F.elems) THEN F.elems[i] ELSE news[i - Len(F.elems)]
    <3>1. F.elems \in Seq(Nat) /\ news \in Seq(Nat) /\ i \in 1..(Len(F.elems) + Len(news))
      BY <1>2, <1>5, <1>9
    <3> QED
      BY <3>1, ConcatProperties
  <2>2. (i <= e => i \in 1..e) /\ (~ i <= e => i - e \in 1..L)
    BY <1>4, <1>5
  <2> QED
    BY <1>5, <1>9, <1>11, <2>1, <2>2
<1>13. PICK u : u = [t EXCEPT !.field = s.field]
  OBVIOUS
<1>14. t.obj = u.obj /\ t.user = u.user /\ t.wrong = u.wrong
  BY <1>13 DEF Grown, IsMemory
<1>15. OnlyNew(s, u, w[f], vals)
  BY <1>13 DEF Grown
<1>16. /\ IsMemory(t) /\ ~t.wrong /\ t.user = s.user /\ ObjectsOK(t.obj)
       /\ t.field = [s.field EXCEPT ![f] = G]
       /\ DOMAIN t.obj = DOMAIN s.obj \cup (n + 1)..(n + L)
       /\ \A id \in DOMAIN s.obj : t.obj[id] = s.obj[id] /\ id \notin (n + 1)..(n + L)
       /\ \A k \in 1..L : t.obj[n + k] = [at |-> w[f], val |-> vals[k]]
  <2>1. t.user = s.user /\ ~t.wrong /\ ObjectsOK(t.obj) /\ DOMAIN t.obj = DOMAIN s.obj \cup (n + 1)..(n + L)
    BY <1>4, <1>7, <1>14, <1>15, OwnedIs DEF OnlyNew
  <2>2. \A id \in DOMAIN s.obj : t.obj[id] = s.obj[id] /\ id \notin (n + 1)..(n + L)
    BY <1>4, <1>7, <1>14, <1>15 DEF OnlyNew
  <2>3. \A k \in 1..L : t.obj[n + k] = [at |-> w[f], val |-> vals[k]]
    BY <1>4, <1>7, <1>14, <1>15 DEF OnlyNew
  <2>4. IsMemory(t) /\ t.field = [s.field EXCEPT ![f] = G]
    BY <1>2, <1>4, <1>7, <1>8, <1>10 DEF Grown
  <2> QED
    BY <2>1, <2>2, <2>3, <2>4
<1>17. \A k \in 1..L : n + k \in (n + 1)..(n + L)
  BY <1>4, <1>7
<1>18. FieldOK(t.obj, G, w[f])
  <2>1. G \in Rep /\ G.size <= Len(G.elems) /\ Len(G.elems) <= G.capacity
    <3>1. G.size <= Len(G.elems) /\ Len(G.elems) <= G.capacity /\ G.size \in Nat
      <4>1. PICK z, q, l : z = F.size /\ q = G.size /\ l = Len(G.elems) /\ z \in Nat /\ q = z + L /\ l = e + L
        BY <1>2, <1>11
      <4>2. q <= l /\ l <= capacity /\ q \in Nat
        BY <1>4, <1>5, <4>1
      <4> QED
        BY <1>11, <4>1, <4>2
    <3> QED
      BY <1>10, <1>11, <3>1 DEF Rep
  <2>2. ASSUME NEW i \in 1..(e + L)
        PROVE  G.elems[i] \in DOMAIN t.obj /\ t.obj[G.elems[i]].at = w[f]
               /\ (i > G.size => t.obj[G.elems[i]].val = Empty)
    <3>1. CASE i <= e
      <4>1. i \in 1..e /\ G.elems[i] = F.elems[i]
        BY <1>12, <3>1
      <4>2. s.obj[F.elems[i]].at = w[f] /\ (i > F.size => s.obj[F.elems[i]].val = Empty)
        BY <1>1, <1>5, <4>1 DEF FieldFacts
      <4>3. i > G.size => i > F.size
        BY <1>2, <1>4, <1>11
      <4>4. F.elems[i] \in DOMAIN s.obj
        BY <1>3, <1>5, <4>1
      <4> QED
        BY <1>16, <4>1, <4>2, <4>3, <4>4
    <3>2. CASE ~ i <= e
      <4>1. PICK k : k = i - e /\ k \in 1..L /\ G.elems[i] = n + k
        BY <1>12, <3>2
      <4>2. ~ i > G.size
        <5>1. L # 0
          BY <1>4, <4>1
        <5> QED
          BY <1>4, <1>5, <1>6, <1>11, <5>1
      <4>3. t.obj[n + k] = [at |-> w[f], val |-> vals[k]] /\ n + k \in DOMAIN t.obj
        BY <1>16, <1>17, <4>1
      <4> QED
        BY <4>1, <4>2, <4>3
    <3> QED
      BY <3>1, <3>2
  <2>3. \A i, j \in 1..(e + L) : G.elems[i] = G.elems[j] => i = j
    <3>1. SUFFICES ASSUME NEW i \in 1..(e + L), NEW j \in 1..(e + L), G.elems[i] = G.elems[j]
                   PROVE  i = j
      OBVIOUS
    <3>2. CASE i <= e /\ j <= e
      BY <1>3, <1>5, <1>12, <3>1, <3>2
    <3>3. CASE ~ i <= e /\ ~ j <= e
      <4>1. n + (i - e) = n + (j - e)
        BY <1>12, <3>1, <3>3
      <4> QED
        BY <1>5, <1>7, <4>1
    <3>4. ASSUME NEW k \in 1..(e + L), NEW l \in 1..(e + L), k <= e, ~ l <= e
          PROVE  G.elems[k] # G.elems[l]
      <4>1. G.elems[k] \in DOMAIN s.obj
        BY <1>3, <1>5, <1>12, <3>4
      <4>2. G.elems[l] \in (n + 1)..(n + L)
        BY <1>12, <1>17, <3>4
      <4> QED
        BY <1>16, <4>1, <4>2
    <3> QED
      BY <3>1, <3>2, <3>3, <3>4
  <2>4. DOMAIN G.elems = 1..(e + L)
    BY <1>11
  <2>5. IsInjective(G.elems)
    BY <2>3, <2>4 DEF IsInjective
  <2> QED
    BY <1>11, <2>1, <2>2, <2>5 DEF FieldOK
<1>19. FieldTo(s, t, f, G)
  <2>1. ToSet(G.elems) = Elems(s, f) \cup (n + 1)..(n + L)
    <3>1. ASSUME NEW id \in ToSet(G.elems)
          PROVE  id \in Elems(s, f) \cup (n + 1)..(n + L)
      <4>1. PICK i \in 1..(e + L) : id = G.elems[i]
        BY <1>11 DEF ToSet
      <4>2. CASE i <= e
        BY <1>3, <1>5, <1>12, <4>1, <4>2
      <4>3. CASE ~ i <= e
        BY <1>12, <1>17, <4>1, <4>3
      <4> QED
        BY <4>2, <4>3
    <3>2. ASSUME NEW id \in Elems(s, f)
          PROVE  id \in ToSet(G.elems)
      <4>1. PICK i \in 1..e : id = F.elems[i]
        BY <1>2, <1>5 DEF ToSet
      <4>2. i \in 1..(e + L) /\ i <= e
        BY <1>4, <1>5
      <4> QED
        BY <1>11, <1>12, <4>1, <4>2 DEF ToSet
    <3>3. ASSUME NEW id \in (n + 1)..(n + L)
          PROVE  id \in ToSet(G.elems)
      <4>1. e + (id - n) \in 1..(e + L) /\ ~ e + (id - n) <= e /\ n + ((e + (id - n)) - e) = id
        BY <1>4, <1>5, <1>7
      <4>2. G.elems[e + (id - n)] = id
        BY <1>12, <4>1
      <4> QED
        BY <1>11, <4>1, <4>2 DEF ToSet
    <3> QED
      BY <3>1, <3>2, <3>3
  <2>2. Elems(s, f) \cap s.user = {} /\ s.user \subseteq DOMAIN s.obj
    BY OwnedIs
  <2>3. \A id \in Rest(s, f) : id \in DOMAIN s.obj /\ id \notin (n + 1)..(n + L)
    BY <1>16 DEF Rest
  <2>4. \A id \in DOMAIN t.obj : id \in t.user \/ id \in ToSet(G.elems) \/ id \in Rest(s, f)
    BY <1>16, <2>1 DEF Rest
  <2>5. ToSet(G.elems) \cap t.user = {}
    BY <1>16, <2>1, <2>2
  <2>6. \A id \in Rest(s, f) : id \in DOMAIN t.obj /\ t.obj[id] = s.obj[id] /\ id \notin t.user /\ id \notin ToSet(G.elems)
    BY <1>16, <2>1, <2>3 DEF Rest
  <2> QED
    BY <1>16, <2>2, <2>4, <2>5, <2>6 DEF FieldTo
<1>20. ListOf(t.obj, G) = Values(s, f) \o vals
  <2>1. PICK v \in Seq(Val) : v = Values(s, f)
    BY <1>1 DEF FieldFacts
  <2>2. Len(v) = F.size /\ \A i \in 1..F.size : v[i] = s.obj[F.elems[i]].val
    BY <1>1, <2>1 DEF FieldFacts
  <2>3. v \o vals = [i \in 1..(F.size + L) |-> IF i <= F.size THEN v[i] ELSE vals[i - F.size]]
    <3>1. v \o vals = [i \in 1..(Len(v) + L) |-> IF i <= Len(v) THEN v[i] ELSE vals[i - Len(v)]]
      BY <1>4, ConcatIs
    <3> QED
      BY <2>2, <3>1
  <2>4. ListOf(t.obj, G) = [i \in 1..(F.size + L) |-> t.obj[G.elems[i]].val]
    BY <1>11 DEF ListOf
  <2>5. ASSUME NEW i \in 1..(F.size + L)
        PROVE  t.obj[G.elems[i]].val = IF i <= F.size THEN v[i] ELSE vals[i - F.size]
    <3>1. i \in 1..(e + L)
      BY <1>2, <1>4, <1>5
    <3>2. CASE i <= F.size
      <4>1. i \in 1..F.size /\ i <= e
        BY <1>2, <1>5, <3>2
      <4>2. G.elems[i] = F.elems[i] /\ F.elems[i] \in DOMAIN s.obj
        BY <1>3, <1>5, <1>12, <3>1, <4>1
      <4> QED
        BY <1>16, <2>2, <3>2, <4>1, <4>2
    <3>3. CASE ~ i <= F.size
      <4>1. F.size = e
        BY <1>2, <1>4, <1>6, <3>3
      <4>2. PICK k : k = i - e /\ k \in 1..L /\ G.elems[i] = n + k
        BY <1>12, <3>1, <3>3, <4>1
      <4>3. t.obj[n + k] = [at |-> w[f], val |-> vals[k]]
        BY <1>16, <4>2
      <4> QED
        BY <3>3, <4>1, <4>2, <4>3
    <3> QED
      BY <3>2, <3>3
  <2> QED
    BY <2>1, <2>3, <2>4, <2>5
<1> QED
  BY <1>18, <1>19, <1>20, FieldBecomes DEF Makes

\* The methods that grow a field do so with these two.
LEMMA GrownByNew ==
  ASSUME NEW w, NEW s, Owned(s, w), NEW f \in Fields, NEW vals \in Seq(Val), NEW n \in Nat, w[f] \in Place,
         vals # <<>> => s.field[f].size = Len(s.field[f].elems),
         n >= Len(s.field[f].elems) + Len(vals) \/ vals = <<>>,
         NEW u, u = New(s, w[f], vals),
         NEW R, R = Reserved(s.field[f], n),
         NEW G, G = [capacity |-> R.capacity, elems |-> s.field[f].elems \o [k \in 1..Len(vals) |-> Highest(s) + k],
                     size |-> s.field[f].size + Len(vals)],
         NEW t, OnlyField(u, t, f, G)
  PROVE  Makes(w, s, t, f, Values(s, f) \o vals)
<1>1. PICK F : FieldFacts(w, s, f, F)
  BY FieldFactsAre
<1>2. OnlyNew(s, u, w[f], vals)
  BY OwnedIs, NewIs
<1>3. FieldOK(s.obj, F, w[f]) /\ F = s.field[f] /\ Len(F.elems) \in Nat /\ Len(F.elems) <= F.capacity /\ F.capacity \in Nat
  BY <1>1 DEF FieldFacts
<1>4. R.capacity \in Nat /\ R.capacity >= n /\ R.capacity >= F.capacity
  BY <1>3, ReservedIs
<1>5. Len(vals) \in Nat /\ (vals = <<>> => Len(vals) = 0)
  OBVIOUS
<1>6. Len(F.elems) + Len(vals) <= R.capacity
  <2>1. PICK e, l, c, r : e = Len(F.elems) /\ l = Len(vals) /\ c = F.capacity /\ r = R.capacity
    OBVIOUS
  <2>2. e \in Nat /\ l \in Nat /\ c \in Nat /\ r \in Nat /\ e <= c /\ r >= n /\ r >= c /\ (n >= e + l \/ l = 0)
    BY <1>3, <1>4, <1>5, <2>1
  <2> QED
    BY <2>1, <2>2
<1>7. IsMemory(u) /\ u.field = s.field
  BY <1>2 DEF OnlyNew
<1>8. [t EXCEPT !.field = s.field] = u
  BY <1>7 DEF OnlyField, IsMemory
<1>9. Grown(s, t, f, w[f], vals, R.capacity)
  BY <1>2, <1>7, <1>8 DEF Grown, OnlyField
<1> QED
  BY <1>3, <1>4, <1>6, <1>9, GrownIs

LEMMA AddInternalIs ==
  ASSUME NEW w, NEW s, Owned(s, w), NEW f \in Fields, w[f] \in Place,
         NEW t, t = AddInternal(s, f, w[f])
  PROVE  Makes(w, s, t, f, Append(Values(s, f), Empty))
<1>1. PICK F : FieldFacts(w, s, f, F)
  BY FieldFactsAre
<1>2. /\ F = s.field[f] /\ F = [capacity |-> F.capacity, elems |-> F.elems, size |-> F.size]
      /\ F.capacity \in Nat /\ F.elems \in Seq(Nat) /\ F.size \in Nat /\ F.size <= Len(F.elems)
      /\ Len(F.elems) \in Nat
  BY <1>1 DEF FieldFacts
<1>3. PICK vals : vals = <<Empty>>
  OBVIOUS
<1>4. vals \in Seq(Val) /\ Len(vals) = 1 /\ vals[1] = Empty
  BY <1>3 DEF Val
<1>5. Values(s, f) \o vals = Append(Values(s, f), Empty)
  <2>1. PICK v \in Seq(Val) : v = Values(s, f)
    BY <1>1 DEF FieldFacts
  <2>2. v \o <<Empty>> = Append(v, Empty)
    BY <2>1 DEF Val
  <2> QED
    BY <1>3, <2>1, <2>2
<1>6. IsMemory(s) /\ s.field \in [Fields -> Rep] /\ ObjectsOK(s.obj) /\ ~s.wrong
  BY OwnedIs
<1>7. CASE ClearedCount(F) > 0
  <2>1. t = [s EXCEPT !.field[f].size = @ + 1]
    BY <1>2, <1>7 DEF AddInternal
  <2>2. [F EXCEPT !.size = @ + 1] = [capacity |-> F.capacity, elems |-> F.elems, size |-> F.size + 1]
    BY <1>2
  <2>3. PICK G : G = [capacity |-> F.capacity, elems |-> F.elems, size |-> F.size + 1]
    OBVIOUS
  <2>4. t = [s EXCEPT !.field = [s.field EXCEPT ![f] = G]]
    <3>1. t = [s EXCEPT !.field = [s.field EXCEPT ![f] = [s.field[f] EXCEPT !.size = @ + 1]]]
      BY <1>6, <2>1 DEF IsMemory
    <3> QED
      BY <1>2, <2>2, <2>3, <3>1
  <2>5. OnlyField(s, t, f, G)
    BY <1>6, <2>4, WithField
  <2>6. F.size + Len(vals) <= Len(F.elems) /\ F.size + 1 \in 1..Len(F.elems) /\ F.size + 1 > F.size
    <3>1. PICK z, e : z = F.size /\ e = Len(F.elems) /\ z \in Nat /\ e \in Nat /\ e - z > 0
      BY <1>2, <1>7 DEF ClearedCount
    <3>2. z + 1 <= e /\ z + 1 \in 1..e /\ z + 1 > z
      BY <3>1
    <3> QED
      BY <1>4, <3>1, <3>2
  <2>7. s.obj[F.elems[F.size + 1]].val = Empty
    BY <1>1, <2>6 DEF FieldFacts
  <2>8. Reused(s, t, f, vals)
    <3>1. \A k \in 1..Len(vals) : t.obj[F.elems[F.size + k]].val = vals[k]
      <4>1. \A k \in 1..Len(vals) : k = 1
        BY <1>4
      <4> QED
        BY <1>4, <2>5, <2>7, <4>1 DEF OnlyField
    <3> QED
      BY <1>2, <1>4, <1>6, <2>3, <2>5, <3>1 DEF Reused, OnlyField
  <2>9. Makes(w, s, t, f, Values(s, f) \o vals)
    BY <1>2, <1>4, <2>6, <2>8, ReusedIs
  <2> QED
    BY <1>5, <2>9
<1>8. CASE ~ ClearedCount(F) > 0
  <2>1. PICK u : u = New(s, w[f], vals)
    OBVIOUS
  <2>2. PICK R : R = Reserved(F, F.size + 1)
    OBVIOUS
  <2>3. R = [capacity |-> R.capacity, elems |-> F.elems, size |-> F.size]
    BY <1>1, <1>2, <2>2, ReservedIs DEF FieldFacts
  <2>4. F.size = Len(F.elems)
    BY <1>2, <1>8 DEF ClearedCount
  <2>5. PICK n : n = Highest(s) /\ n \in Nat
    BY <1>6, HighestIs
  <2>6. PICK G : G = [capacity |-> R.capacity, elems |-> F.elems \o [k \in 1..Len(vals) |-> Highest(s) + k],
                      size |-> F.size + Len(vals)]
    OBVIOUS
  <2>7. [R EXCEPT !.elems = Append(@, Highest(s) + 1), !.size = @ + 1] = G
    <3>1. [k \in 1..Len(vals) |-> n + k] = <<n + 1>>
      BY <1>4, <2>5
    <3>2. Append(F.elems, n + 1) = F.elems \o <<n + 1>>
      BY <1>2, <2>5, AppendIsConcat
    <3>3. PICK c, e, z : c = R.capacity /\ e = F.elems /\ z = F.size
      OBVIOUS
    <3>4. R = [capacity |-> c, elems |-> e, size |-> z]
      BY <2>3, <3>3
    <3>5. [R EXCEPT !.elems = Append(@, n + 1), !.size = @ + 1] = [capacity |-> c, elems |-> Append(e, n + 1), size |-> z + 1]
      <4>1. PICK q, y : q = Append(e, n + 1) /\ y = z + 1
        OBVIOUS
      <4>2. [R EXCEPT !.elems = q, !.size = y] = [capacity |-> c, elems |-> q, size |-> y]
        <5>1. PICK Q : Q = [R EXCEPT !.elems = q]
          OBVIOUS
        <5>2. Q = [capacity |-> c, elems |-> q, size |-> z]
          BY <3>4, <5>1
        <5>3. [R EXCEPT !.elems = q, !.size = y] = [Q EXCEPT !.size = y]
          BY <5>1
        <5>4. [Q EXCEPT !.size = y] = [capacity |-> c, elems |-> q, size |-> y]
          BY <5>2
        <5> QED
          BY <5>3, <5>4
      <4>3. [R EXCEPT !.elems = Append(@, n + 1), !.size = @ + 1] = [R EXCEPT !.elems = q, !.size = y]
        BY <3>4, <4>1
      <4> QED
        BY <4>1, <4>2, <4>3
    <3> QED
      BY <1>4, <2>5, <2>6, <3>1, <3>2, <3>3, <3>5
  <2>8. IsMemory(u) /\ u.field = s.field
    <3>1. OnlyNew(s, u, w[f], vals)
      BY <1>4, <1>6, <2>1, NewIs
    <3> QED
      BY <3>1 DEF OnlyNew
  <2>9. t = [u EXCEPT !.field[f] = [R EXCEPT !.elems = Append(@, Highest(s) + 1), !.size = @ + 1]]
    BY <1>2, <1>3, <1>8, <2>1, <2>2 DEF AddInternal
  <2>10. t = [u EXCEPT !.field = [u.field EXCEPT ![f] = G]]
    BY <2>7, <2>8, <2>9 DEF IsMemory
  <2>11. OnlyField(u, t, f, G)
    BY <1>6, <2>8, <2>10, WithField
  <2>12. F.size + 1 \in Nat /\ F.size + 1 >= Len(F.elems) + Len(vals)
    BY <1>2, <1>4, <2>4
  <2>13. Makes(w, s, t, f, Values(s, f) \o vals)
    BY <1>2, <1>4, <2>1, <2>2, <2>4, <2>6, <2>11, <2>12, GrownByNew
  <2> QED
    BY <1>5, <2>13
<1> QED
  BY <1>7, <1>8

LEMMA AddValueIs ==
  ASSUME NEW w, NEW s, Owned(s, w), NEW f \in Fields, w[f] \in Place, NEW val \in Val,
         NEW t, t = AddValue(s, f, w[f], val)
  PROVE  Makes(w, s, t, f, Append(Values(s, f), val))
<1>1. PICK u : u = AddInternal(s, f, w[f])
  OBVIOUS
<1>2. PICK v \in Seq(Val) : v = Values(s, f)
  <2>1. Values(s, f) \in Seq(Val)
    BY FieldIs
  <2> QED
    BY <2>1
<1>3. Owned(u, w) /\ SameLists(s, u, f) /\ Values(u, f) = Append(v, Empty)
  BY <1>1, <1>2, AddInternalIs DEF Makes
<1>4. PICK F : FieldFacts(w, u, f, F)
  BY <1>3, FieldFactsAre
<1>5. F = u.field[f] /\ F.size \in Nat /\ Len(Values(u, f)) = F.size
  BY <1>4 DEF FieldFacts
<1>6. Len(Append(v, Empty)) = Len(v) + 1 /\ Len(v) \in Nat
  BY DEF Val
<1>7. F.size = Len(v) + 1 /\ F.size \in 1..F.size
  BY <1>3, <1>5, <1>6
<1>8. t = Set(u, <<F.elems[F.size]>>, <<val>>)
  BY <1>1, <1>5 DEF AddValue
<1>9. Makes(w, u, t, f, [Values(u, f) EXCEPT ![F.size] = val])
  BY <1>3, <1>5, <1>7, <1>8, SetOneIs
<1>10. [Append(v, Empty) EXCEPT ![Len(v) + 1] = val] = Append(v, val)
  <2>1. Empty \in Val
    BY DEF Val
  <2> QED
    BY <2>1, AppendExcept
<1> QED
  BY <1>2, <1>3, <1>7, <1>9, <1>10 DEF SameLists, Makes

LEMMA ClearIs ==
  ASSUME NEW w, NEW s, Owned(s, w), NEW f \in Fields,
         NEW t, t = Clear(s, f)
  PROVE  Makes(w, s, t, f, <<>>) /\ t.field[f].size = 0
<1>1. PICK F : FieldFacts(w, s, f, F)
  BY FieldFactsAre
<1>2. /\ F = s.field[f] /\ F = [capacity |-> F.capacity, elems |-> F.elems, size |-> F.size]
      /\ F.capacity \in Nat /\ F.elems \in Seq(Nat) /\ F.size \in Nat /\ F.size <= Len(F.elems)
      /\ Len(F.elems) \in Nat
      /\ \A i \in 1..Len(F.elems) : F.elems[i] \in DOMAIN s.obj
      /\ \A i, j \in 1..Len(F.elems) : F.elems[i] = F.elems[j] => i = j
  BY <1>1 DEF FieldFacts
<1>3. IsMemory(s) /\ s.field \in [Fields -> Rep] /\ ObjectsOK(s.obj) /\ ~s.wrong
  BY OwnedIs
<1>4. PICK ids : ids = SubSeq(F.elems, 1, F.size)
  OBVIOUS
<1>5. ids \in Seq(Nat) /\ Len(ids) = F.size /\ \A i \in 1..F.size : ids[i] = F.elems[i] /\ i \in 1..Len(F.elems)
  <2>1. ids = SubSeq(F.elems, 0 + 1, 0 + F.size) /\ 0 + F.size <= Len(F.elems) /\ 0 \in Nat
    BY <1>2, <1>4
  <2>2. ids \in Seq(Nat) /\ Len(ids) = F.size
    BY <1>2, <2>1, SubSeqIs
  <2>3. \A i \in 1..F.size : 0 + i \in 1..Len(F.elems) /\ ids[i] = F.elems[0 + i]
    BY <1>2, <2>1, SubSeqIs
  <2> QED
    BY <2>2, <2>3
<1>6. PICK vals : vals = [k \in DOMAIN ids |-> Empty]
  OBVIOUS
<1>7. vals \in Seq(Val) /\ Len(vals) = Len(ids) /\ \A k \in 1..F.size : vals[k] = Empty
  <2>1. DOMAIN ids = 1..F.size /\ vals = [k \in 1..F.size |-> Empty]
    BY <1>5, <1>6
  <2>2. Empty \in Val
    BY DEF Val
  <2> QED
    BY <1>2, <1>5, <2>1, <2>2
<1>8. IsInjective(ids)
  <2>1. DOMAIN ids = 1..F.size
    BY <1>5
  <2> QED
    BY <1>2, <1>5, <2>1 DEF IsInjective
<1>9. PICK u : u = Set(s, ids, vals)
  OBVIOUS
<1>10. OnlySets(s, u, ids, vals)
  BY <1>3, <1>5, <1>7, <1>8, <1>9, SetIs
<1>11. IsMemory(u) /\ u.field = s.field
  BY <1>10 DEF OnlySets
<1>12. PICK G : G = [capacity |-> F.capacity, elems |-> F.elems, size |-> 0]
  OBVIOUS
<1>13. t = [u EXCEPT !.field[f].size = 0]
  BY <1>2, <1>4, <1>6, <1>9 DEF Clear, ClearEach
<1>14. t = [u EXCEPT !.field = [u.field EXCEPT ![f] = G]]
  <2>1. t = [u EXCEPT !.field = [u.field EXCEPT ![f] = [u.field[f] EXCEPT !.size = 0]]]
    BY <1>11, <1>13 DEF IsMemory
  <2>2. [F EXCEPT !.size = 0] = G
    BY <1>2, <1>12
  <2> QED
    BY <1>2, <1>11, <2>1, <2>2
<1>15. OnlyField(u, t, f, G)
  BY <1>3, <1>11, <1>14, WithField
<1>16. ToSet(ids) = {F.elems[i] : i \in (0 + 1)..F.size}
  <2>1. DOMAIN ids = 1..F.size
    BY <1>5
  <2> QED
    BY <1>5, <2>1 DEF ToSet
<1>17. CutOff(s, t, f, 0)
  <2>1. IsMemory(t) /\ t.wrong = s.wrong /\ t.user = s.user /\ t.field = [s.field EXCEPT ![f] = G]
    BY <1>10, <1>11, <1>15 DEF OnlySets, OnlyField
  <2>2. ObjectsOK(t.obj) /\ DOMAIN t.obj = DOMAIN s.obj /\ \A id \in DOMAIN s.obj : t.obj[id].at = s.obj[id].at
    BY <1>10, <1>15 DEF OnlySets, OnlyField
  <2>3. \A id \in DOMAIN s.obj \ {F.elems[i] : i \in (0 + 1)..F.size} : t.obj[id] = s.obj[id]
    BY <1>10, <1>15, <1>16 DEF OnlySets, OnlyField
  <2>4. \A i \in (0 + 1)..F.size : t.obj[F.elems[i]].val = Empty
    <3>1. \A i \in 1..Len(ids) : ids[i] \in DOMAIN s.obj
      BY <1>2, <1>5
    <3>2. \A i \in 1..Len(ids) : t.obj[ids[i]].val = vals[i]
      BY <1>10, <1>15, <3>1 DEF OnlySets, OnlyField
    <3> QED
      BY <1>5, <1>7, <3>2
  <2> QED
    BY <1>2, <1>12, <2>1, <2>2, <2>3, <2>4 DEF CutOff
<1>18. 0 \in 0..F.size
  BY <1>2
<1>19. Makes(w, s, t, f, SubSeq(Values(s, f), 1, 0))
  BY <1>2, <1>17, <1>18, CutOffIs
<1>20. SubSeq(Values(s, f), 1, 0) = <<>>
  <2>1. PICK v \in Seq(Val) : v = Values(s, f)
    BY <1>1 DEF FieldFacts
  <2>2. SubSeq(v, 1, 0) = <<>>
    BY <2>1
  <2> QED
    BY <2>1, <2>2
<1>21. t.field[f].size = 0
  BY <1>12, <1>15 DEF OnlyField
<1> QED
  BY <1>19, <1>20, <1>21

\* As many elements as are cleared are merged into those.
Shared(z, e, n, c) ==
  c \in Nat /\ c <= n /\ z + c <= e /\ n - c \in Nat /\ c + (n - c) = n /\ (c < n => z + c = e) /\ z + c \in Nat

LEMMA SharedIs ==
  ASSUME NEW z \in Nat, NEW e \in Nat, NEW n \in Nat, z <= e, NEW c, c = Lesser(e - z, n)
  PROVE  Shared(z, e, n, c)
BY DEF Lesser, Shared

\* What is merged into cleared elements and what is copied is the whole list.
LEMMA MergeFromIs ==
  ASSUME NEW w, NEW s, Owned(s, w), NEW f \in Fields, NEW from \in Fields, from # f, w[f] \in Place,
         NEW t, t = MergeFrom(s, f, from, w[f])
  PROVE  Makes(w, s, t, f, Values(s, f) \o Values(s, from))
<1>1. PICK F : FieldFacts(w, s, f, F)
  BY FieldFactsAre
<1>2. /\ F = s.field[f] /\ F = [capacity |-> F.capacity, elems |-> F.elems, size |-> F.size]
      /\ F.capacity \in Nat /\ F.elems \in Seq(Nat) /\ F.size \in Nat /\ F.size <= Len(F.elems)
      /\ Len(F.elems) \in Nat /\ Len(F.elems) <= F.capacity
      /\ \A i \in 1..Len(F.elems) : F.elems[i] \in DOMAIN s.obj
      /\ \A i, j \in 1..Len(F.elems) : F.elems[i] = F.elems[j] => i = j
  BY <1>1 DEF FieldFacts
<1>3. PICK v \in Seq(Val) : v = Values(s, from)
  <2>1. Values(s, from) \in Seq(Val)
    BY FieldIs
  <2> QED
    BY <2>1
<1>4. PICK n : n = Len(v) /\ n \in Nat
  OBVIOUS
<1>5. PICK c : c = Lesser(ClearedCount(F), n)
  OBVIOUS
<1>6. /\ c \in Nat /\ c <= n /\ F.size + c <= Len(F.elems) /\ n - c \in Nat /\ c + (n - c) = n
      /\ c < n => F.size + c = Len(F.elems)
      /\ F.size + c \in Nat
  <2>1. PICK z, e : z = F.size /\ e = Len(F.elems) /\ z \in Nat /\ e \in Nat /\ z <= e /\ c = Lesser(e - z, n)
    BY <1>2, <1>5 DEF ClearedCount
  <2>2. Shared(z, e, n, c)
    BY <1>4, <2>1, SharedIs
  <2> QED
    BY <2>1, <2>2 DEF Shared
<1>7. PICK ids : ids = SubSeq(F.elems, F.size + 1, F.size + c)
  OBVIOUS
<1>8. /\ ids \in Seq(Nat) /\ Len(ids) = c
      /\ \A k \in 1..c : F.size + k \in 1..Len(F.elems) /\ ids[k] = F.elems[F.size + k]
  <2>1. PICK z, e : z = F.size /\ e = F.elems
    OBVIOUS
  <2>2. z \in Nat /\ e \in Seq(Nat) /\ c \in Nat /\ z + c <= Len(e) /\ ids = SubSeq(e, z + 1, z + c)
    BY <1>2, <1>6, <1>7, <2>1
  <2>3. ids \in Seq(Nat) /\ Len(ids) = c
    BY <2>2, SubSeqIs
  <2>4. \A k \in 1..c : z + k \in 1..Len(e) /\ ids[k] = e[z + k]
    BY <2>2, SubSeqIs
  <2> QED
    BY <2>1, <2>3, <2>4
<1>9. \A k \in 1..c : F.size + k \in 1..Len(F.elems) /\ ids[k] = F.elems[F.size + k]
  BY <1>8
<1>10. PICK merged : merged = [k \in 1..c |-> LET old == s.obj[ids[k]].val IN IF old = Empty THEN v[k] ELSE old]
  OBVIOUS
<1>11. merged \in Seq(Val) /\ Len(merged) = c /\ \A k \in 1..c : merged[k] = v[k] /\ k \in 1..n
  <2>1. ASSUME NEW k \in 1..c
        PROVE  s.obj[ids[k]].val = Empty /\ v[k] \in Val /\ k \in 1..n
    <3>1. k \in 1..n /\ F.size + k > F.size
      BY <1>2, <1>4, <1>6
    <3>2. v[k] \in Val
      BY <1>4, <3>1, ElementOfSeq
    <3>3. F.size + k \in 1..Len(F.elems) /\ ids[k] = F.elems[F.size + k]
      BY <1>9
    <3> QED
      BY <1>1, <3>1, <3>2, <3>3 DEF FieldFacts
  <2>2. \A k \in 1..c : merged[k] = v[k] /\ merged[k] \in Val
    BY <1>10, <2>1
  <2>3. merged \in [1..c -> Val]
    BY <1>10, <2>2
  <2>4. c \in Nat
    BY <1>6
  <2>5. merged \in Seq(Val) /\ Len(merged) = c
    BY <2>3, <2>4
  <2> QED
    BY <2>1, <2>2, <2>5
<1>12. PICK copied : copied = SubSeq(v, c + 1, n)
  OBVIOUS
<1>13. copied \in Seq(Val) /\ Len(copied) = n - c /\ DOMAIN copied = 1..(n - c)
  <2>1. PICK d : d = n - c
    OBVIOUS
  <2>2. copied = SubSeq(v, c + 1, c + d) /\ c + d <= Len(v) /\ c \in Nat /\ d \in Nat
    BY <1>4, <1>6, <1>12, <2>1
  <2>3. copied \in Seq(Val) /\ Len(copied) = d
    BY <2>2, SubSeqIs
  <2> QED
    BY <2>1, <2>3
<1>14. merged \o copied = v
  <2>1. merged = SubSeq(v, 1, c)
    <3>1. PICK p : p = SubSeq(v, 0 + 1, 0 + c)
      OBVIOUS
    <3>2. 0 \in Nat /\ 0 + c <= Len(v)
      BY <1>4, <1>6
    <3>3. p \in Seq(Val) /\ Len(p) = c
      BY <1>6, <3>1, <3>2, SubSeqIs
    <3>4. \A k \in 1..c : p[k] = v[0 + k]
      BY <1>6, <3>1, <3>2, SubSeqIs
    <3>5. \A k \in 1..c : p[k] = merged[k]
      BY <1>11, <3>4
    <3>6. p = merged
      BY <1>11, <3>3, <3>5, SeqEqual
    <3> QED
      BY <1>6, <3>1, <3>6
  <2>2. 1 \in 1..(Len(v) + 1) /\ c \in (1 - 1)..Len(v) /\ n \in c..Len(v)
    BY <1>4, <1>6
  <2>3. SubSeq(v, 1, c) \o SubSeq(v, c + 1, n) = SubSeq(v, 1, n)
    BY <2>2, ConcatAdjacentSubSeq
  <2> QED
    BY <1>4, <1>12, <2>1, <2>3, SubSeqFull
<1>15. IsMemory(s) /\ s.field \in [Fields -> Rep] /\ ObjectsOK(s.obj) /\ ~s.wrong
  BY OwnedIs
<1>16. PICK u, x : u = New(s, w[f], copied) /\ x = Set(u, ids, merged)
  OBVIOUS
<1>17. OnlyNew(s, u, w[f], copied)
  BY <1>13, <1>15, <1>16, NewIs
<1>18. IsInjective(ids)
  <2>1. DOMAIN ids = 1..c
    BY <1>8
  <2>2. ASSUME NEW i \in 1..c, NEW j \in 1..c, ids[i] = ids[j]
        PROVE  i = j
    <3>1. F.size + i = F.size + j
      <4>1. /\ F.size + i \in 1..Len(F.elems) /\ F.size + j \in 1..Len(F.elems)
            /\ F.elems[F.size + i] = F.elems[F.size + j]
        BY <1>9, <2>2
      <4> QED
        BY <1>2, <4>1
    <3> QED
      BY <1>2, <3>1
  <2> QED
    BY <2>1, <2>2 DEF IsInjective
<1>19. OnlySets(u, x, ids, merged)
  <2>1. IsMemory(u) /\ ObjectsOK(u.obj)
    BY <1>17 DEF OnlyNew
  <2> QED
    BY <1>8, <1>11, <1>16, <1>18, <2>1, SetIs
<1>20. PICK R, G : /\ R = Reserved(F, F.size + n)
                   /\ G = [capacity |-> R.capacity, elems |-> F.elems \o [k \in 1..(n - c) |-> Highest(s) + k],
                           size |-> (F.size + c) + (n - c)]
  OBVIOUS
<1>21. R = [capacity |-> R.capacity, elems |-> F.elems, size |-> F.size] /\ R.capacity \in Nat
       /\ R.capacity >= F.size + n /\ R.capacity >= F.capacity
  <2>1. F.size + n \in Nat
    BY <1>2, <1>4
  <2> QED
    BY <1>1, <1>20, <2>1, ReservedIs DEF FieldFacts
<1>22. [R EXCEPT !.elems = @ \o [k \in DOMAIN copied |-> Highest(s) + k], !.size = @ + n] = G
  <2>1. PICK q, y : q = F.elems \o [k \in 1..(n - c) |-> Highest(s) + k] /\ y = F.size + n
    OBVIOUS
  <2>2. y = (F.size + c) + (n - c)
    <3>1. PICK z : z = F.size /\ z \in Nat
      BY <1>2
    <3>2. z + n = (z + c) + (n - c)
      <4>1. c \in Nat /\ n \in Nat
        BY <1>4, <1>6
      <4> QED
        BY <3>1, <4>1
    <3> QED
      BY <2>1, <3>1, <3>2
  <2>3. PICK a, e, z, Q : a = R.capacity /\ e = F.elems /\ z = F.size /\ Q = [R EXCEPT !.elems = q]
    OBVIOUS
  <2>4. R = [capacity |-> a, elems |-> e, size |-> z]
    BY <1>21, <2>3
  <2>5. Q = [capacity |-> a, elems |-> q, size |-> z]
    BY <2>3, <2>4
  <2>6. [R EXCEPT !.elems = @ \o [k \in DOMAIN copied |-> Highest(s) + k], !.size = @ + n] = [Q EXCEPT !.size = y]
    BY <1>13, <2>1, <2>3, <2>4
  <2>7. [Q EXCEPT !.size = y] = [capacity |-> a, elems |-> q, size |-> y]
    BY <2>5
  <2> QED
    BY <1>20, <2>1, <2>2, <2>3, <2>6, <2>7
<1>23. t = [x EXCEPT !.field[f] = [R EXCEPT !.elems = @ \o [k \in DOMAIN copied |-> Highest(s) + k], !.size = @ + n]]
  BY <1>2, <1>3, <1>4, <1>5, <1>7, <1>10, <1>12, <1>16, <1>20 DEF MergeFrom
<1>24. OnlyField(x, t, f, G)
  <2>1. IsMemory(x) /\ x.field = s.field
    BY <1>17, <1>19 DEF OnlyNew, OnlySets
  <2>2. t = [x EXCEPT !.field = [x.field EXCEPT ![f] = G]]
    BY <1>22, <1>23, <2>1 DEF IsMemory
  <2> QED
    BY <1>15, <2>1, <2>2, WithField
<1>25. PICK H, s1 : /\ H = [capacity |-> F.capacity, elems |-> F.elems, size |-> F.size + c]
                    /\ s1 = [obj |-> [i \in DOMAIN s.obj |-> x.obj[i]], user |-> s.user, wrong |-> s.wrong,
                             field |-> [s.field EXCEPT ![f] = H]]
  OBVIOUS
<1>26. /\ IsMemory(s1) /\ s1.user = s.user /\ s1.wrong = s.wrong /\ s1.field = [s.field EXCEPT ![f] = H]
       /\ s1.field[f] = H /\ DOMAIN s1.obj = DOMAIN s.obj /\ \A i \in DOMAIN s.obj : s1.obj[i] = x.obj[i]
  BY <1>15, <1>25 DEF IsMemory
<1>27. PICK h : h = Highest(s) /\ h = Highest(s1)
  BY <1>26 DEF Highest
<1>28. /\ DOMAIN x.obj = DOMAIN s.obj \cup (h + 1)..(h + (n - c)) /\ ObjectsOK(x.obj)
       /\ \A i \in DOMAIN s.obj : x.obj[i].at = s.obj[i].at /\ i \notin (h + 1)..(h + (n - c))
       /\ x.user = s.user /\ x.wrong = s.wrong /\ h \in Nat
  BY <1>13, <1>17, <1>19, <1>27 DEF OnlyNew, OnlySets
<1>29. ObjectsOK(s1.obj)
  <2>1. \A i \in DOMAIN s1.obj : s1.obj[i] \in Object
    BY <1>26, <1>28 DEF ObjectsOK
  <2>2. s1.obj \in [DOMAIN s1.obj -> Object]
    BY <1>25, <1>26, <2>1
  <2> QED
    BY <1>15, <1>26, <2>2 DEF ObjectsOK
<1>30. ToSet(ids) = {F.elems[F.size + k] : k \in 1..c}
  <2>1. DOMAIN ids = 1..c
    BY <1>8
  <2> QED
    BY <1>9, <2>1 DEF ToSet
<1>31. Reused(s, s1, f, merged)
  <2>1. \A i \in DOMAIN s.obj : s1.obj[i].at = s.obj[i].at
    BY <1>26, <1>28
  <2>2. ASSUME NEW i \in DOMAIN s.obj \ ToSet(ids)
        PROVE  s1.obj[i] = s.obj[i]
    <3>1. u.obj[i] = s.obj[i] /\ i \in DOMAIN u.obj
      BY <1>17 DEF OnlyNew
    <3>2. x.obj[i] = u.obj[i]
      BY <1>19, <3>1 DEF OnlySets
    <3> QED
      BY <1>26, <3>1, <3>2
  <2>3. ASSUME NEW k \in 1..c
        PROVE  s1.obj[F.elems[F.size + k]].val = merged[k]
    <3>1. ids[k] \in DOMAIN s.obj
      BY <1>2, <1>9
    <3>2. ids[k] \in DOMAIN u.obj
      BY <1>17, <3>1 DEF OnlyNew
    <3>3. x.obj[ids[k]].val = merged[k]
      BY <1>8, <1>19, <3>2 DEF OnlySets
    <3> QED
      BY <1>9, <1>26, <3>1, <3>3
  <2>4. s1.field = [s.field EXCEPT ![f] = [capacity |-> F.capacity, elems |-> F.elems, size |-> F.size + Len(merged)]]
    BY <1>11, <1>25, <1>26
  <2>5. \A i \in DOMAIN s.obj \ {F.elems[F.size + k] : k \in 1..Len(merged)} : s1.obj[i] = s.obj[i]
    BY <1>11, <1>30, <2>2
  <2>6. \A k \in 1..Len(merged) : s1.obj[F.elems[F.size + k]].val = merged[k]
    BY <1>11, <2>3
  <2> QED
    BY <1>2, <1>26, <1>29, <2>1, <2>4, <2>5, <2>6 DEF Reused
<1>32. Makes(w, s, s1, f, Values(s, f) \o merged)
  <2>1. F.size + Len(merged) <= Len(F.elems)
    BY <1>6, <1>11
  <2> QED
    BY <1>2, <1>11, <1>31, <2>1, ReusedIs
<1>33. Grown(s1, t, f, w[f], copied, R.capacity)
  <2>1. PICK y : y = [t EXCEPT !.field = s1.field]
    OBVIOUS
  <2>2. IsMemory(y) /\ y.obj = x.obj /\ y.user = s1.user /\ y.wrong = s1.wrong /\ y.field = s1.field
    BY <1>24, <1>26, <1>28, <2>1 DEF OnlyField, IsMemory
  <2>3. \A k \in 1..(n - c) : y.obj[h + k] = [at |-> w[f], val |-> copied[k]]
    <3>1. SUFFICES ASSUME NEW k \in 1..(n - c)
                   PROVE  x.obj[h + k] = [at |-> w[f], val |-> copied[k]]
      BY <2>2
    <3>2. u.obj[h + k] = [at |-> w[f], val |-> copied[k]]
      BY <1>13, <1>17, <1>27 DEF OnlyNew
    <3>3. h + k \in (h + 1)..(h + (n - c))
      BY <1>6, <1>28
    <3>4. h + k \in DOMAIN u.obj \ ToSet(ids)
      <4>1. h + k \in DOMAIN u.obj /\ h + k \notin DOMAIN s.obj
        BY <1>13, <1>17, <1>27, <1>28, <3>3 DEF OnlyNew
      <4>2. ToSet(ids) \subseteq DOMAIN s.obj
        BY <1>2, <1>9, <1>30
      <4> QED
        BY <4>1, <4>2
    <3> QED
      BY <1>19, <3>2, <3>4 DEF OnlySets
  <2>4. \A i \in DOMAIN s1.obj : y.obj[i] = s1.obj[i] /\ i \notin (h + 1)..(h + (n - c))
    BY <1>26, <1>28, <2>2
  <2>5. OnlyNew(s1, y, w[f], copied)
    BY <1>13, <1>26, <1>27, <1>28, <2>2, <2>3, <2>4 DEF OnlyNew
  <2>6. t.field = [s1.field EXCEPT ![f] = G] /\ IsMemory(t)
    <3>1. t.field = [s.field EXCEPT ![f] = G] /\ IsMemory(t)
      BY <1>17, <1>19, <1>24 DEF OnlyField, OnlyNew, OnlySets
    <3>2. [[s.field EXCEPT ![f] = H] EXCEPT ![f] = G] = [s.field EXCEPT ![f] = G]
      BY <1>15
    <3> QED
      BY <1>26, <3>1, <3>2
  <2>7. G = [capacity |-> R.capacity, elems |-> H.elems \o [k \in 1..Len(copied) |-> h + k],
             size |-> H.size + Len(copied)]
    BY <1>13, <1>20, <1>25, <1>27
  <2> QED
    BY <1>26, <1>27, <2>1, <2>5, <2>6, <2>7 DEF Grown
<1>34. Makes(w, s1, t, f, Values(s1, f) \o copied)
  <2>1. Owned(s1, w)
    BY <1>32 DEF Makes
  <2>2. copied # <<>> => s1.field[f].size = Len(s1.field[f].elems)
    <3>1. copied # <<>> => Len(copied) # 0
      BY <1>13
    <3>2. copied # <<>> => c < n
      BY <1>4, <1>6, <1>13, <3>1
    <3> QED
      BY <1>6, <1>25, <1>26, <3>2
  <2>3. Len(s1.field[f].elems) + Len(copied) <= R.capacity
    <3>1. s1.field[f].elems = F.elems
      BY <1>25, <1>26
    <3>2. PICK e, z, a, r : e = Len(F.elems) /\ z = F.size /\ a = F.capacity /\ r = R.capacity
      OBVIOUS
    <3>3. /\ e \in Nat /\ z \in Nat /\ a \in Nat /\ r \in Nat /\ z <= e /\ e <= a /\ r >= z + n /\ r >= a
          /\ (c < n => z + c = e)
      BY <1>2, <1>6, <1>21, <3>2
    <3>4. e + (n - c) <= r
      BY <1>4, <1>6, <3>3
    <3> QED
      BY <1>13, <3>1, <3>2, <3>4
  <2> QED
    BY <1>13, <1>21, <1>33, <2>1, <2>2, <2>3, GrownIs
<1>35. Values(s1, f) \o copied = Values(s, f) \o v
  <2>1. PICK v0 \in Seq(Val) : v0 = Values(s, f)
    BY <1>1 DEF FieldFacts
  <2>2. (v0 \o merged) \o copied = v0 \o (merged \o copied)
    BY <1>11, <1>13, <2>1, ConcatAssociative
  <2> QED
    BY <1>14, <1>32, <2>1, <2>2 DEF Makes
<1> QED
  BY <1>3, <1>32, <1>34, <1>35 DEF Makes, SameLists

LEMMA CopyFromIs ==
  ASSUME NEW w, NEW s, Owned(s, w), NEW f \in Fields, NEW from \in Fields, w[f] \in Place,
         NEW t, t = CopyFrom(s, f, from, w[f])
  PROVE  Makes(w, s, t, f, Values(s, from))
<1>1. CASE f = from
  <2>1. t = s
    BY <1>1 DEF CopyFrom
  <2> QED
    BY <1>1, <2>1 DEF Makes, SameLists
<1>2. CASE f # from
  <2>1. PICK u : u = Clear(s, f)
    OBVIOUS
  <2>2. Makes(w, s, u, f, <<>>)
    BY <2>1, ClearIs
  <2>3. PICK v \in Seq(Val) : v = Values(s, from) /\ Len(v) = s.field[from].size
    <3>1. Values(s, from) \in Seq(Val) /\ Len(Values(s, from)) = s.field[from].size
      BY FieldIs
    <3> QED
      BY <3>1
  <2>4. Owned(u, w) /\ Values(u, f) = <<>> /\ Values(u, from) = v /\ SameLists(s, u, f)
    BY <1>2, <2>2, <2>3 DEF Makes, SameLists
  <2>5. CASE s.field[from].size = 0
    <3>1. t = u /\ v = <<>>
      BY <1>2, <2>1, <2>3, <2>5 DEF CopyFrom
    <3> QED
      BY <2>2, <2>3, <3>1
  <2>6. CASE s.field[from].size # 0
    <3>1. t = MergeFrom(u, f, from, w[f])
      BY <1>2, <2>1, <2>6 DEF CopyFrom
    <3>2. Makes(w, u, t, f, Values(u, f) \o Values(u, from))
      BY <1>2, <2>4, <3>1, MergeFromIs
    <3>3. <<>> \o v = v
      BY <2>3, ConcatEmptySeq
    <3> QED
      BY <2>3, <2>4, <3>2, <3>3 DEF Makes, SameLists
  <2> QED
    BY <2>5, <2>6
<1> QED
  BY <1>1, <1>2

-------------------------------------------------------------------------------
(* Elements that leave a field.                                               *)

\* A field keeps all of its elements but these.
Shrunk(s, f, G, ids) ==
  /\ G \in Rep /\ G.size <= Len(G.elems) /\ Len(G.elems) <= G.capacity /\ IsInjective(G.elems)
  /\ \A i \in 1..Len(G.elems) : /\ G.elems[i] \in Elems(s, f) \ ToSet(ids)
                                /\ i > G.size => s.obj[G.elems[i]].val = Empty
  /\ ids \in Seq(Nat) /\ IsInjective(ids) /\ ToSet(ids) \subseteq Elems(s, f)
  /\ Elems(s, f) \subseteq ToSet(G.elems) \cup ToSet(ids)

LEMMA ShrunkIs ==
  ASSUME NEW w, NEW s, Owned(s, w), NEW f \in Fields, NEW G, NEW ids, Shrunk(s, f, G, ids)
  PROVE  /\ FieldOK(s.obj, G, w[f])
         /\ ToSet(G.elems) = Elems(s, f) \ ToSet(ids) /\ ToSet(ids) \subseteq Elems(s, f)
         /\ \A id \in Elems(s, f) : id \in DOMAIN s.obj /\ s.obj[id].at = w[f] /\ id \notin s.user
<1>1. PICK F : FieldFacts(w, s, f, F)
  BY FieldFactsAre
<1>2. \A id \in Elems(s, f) : id \in DOMAIN s.obj /\ s.obj[id].at = w[f] /\ id \notin s.user
  <2>1. ASSUME NEW id \in Elems(s, f)
        PROVE  \E i \in 1..Len(F.elems) : id = F.elems[i]
    BY <1>1 DEF FieldFacts, ToSet
  <2>2. \A i \in 1..Len(F.elems) : F.elems[i] \in DOMAIN s.obj /\ s.obj[F.elems[i]].at = w[f]
    BY <1>1 DEF FieldFacts
  <2>3. Elems(s, f) \cap s.user = {}
    BY OwnedIs
  <2> QED
    BY <2>1, <2>2, <2>3
<1>3. FieldOK(s.obj, G, w[f])
  <2>1. \A i \in 1..Len(G.elems) : /\ G.elems[i] \in DOMAIN s.obj /\ s.obj[G.elems[i]].at = w[f]
                                   /\ i > G.size => s.obj[G.elems[i]].val = Empty
    BY <1>2 DEF Shrunk
  <2> QED
    BY <2>1 DEF Shrunk, FieldOK
<1>4. ToSet(G.elems) = Elems(s, f) \ ToSet(ids) /\ ToSet(ids) \subseteq Elems(s, f)
  <2>1. G.elems \in Seq(Nat)
    BY DEF Shrunk, Rep
  <2>2. \A id \in ToSet(G.elems) : \E i \in 1..Len(G.elems) : id = G.elems[i]
    BY <2>1 DEF ToSet
  <2> QED
    BY <2>2 DEF Shrunk
<1> QED
  BY <1>2, <1>3, <1>4

\* The user is given objects: those that were the field's, or new ones.
Given(s, t, ids, at) ==
  \E news \in SUBSET Nat :
    /\ DOMAIN t.obj = DOMAIN s.obj \cup news /\ t.user = s.user \cup news
    /\ \A id \in DOMAIN s.obj : t.obj[id] = s.obj[id]
    /\ IF at = "heap" THEN news = ToSet(ids) ELSE news \cap DOMAIN s.obj = {}

LEMMA GivenIs ==
  ASSUME NEW w, NEW s, Owned(s, w), NEW f \in Fields, NEW G, NEW ids, Shrunk(s, f, G, ids),
         NEW t, IsMemory(t), ~t.wrong, ObjectsOK(t.obj), t.field = [s.field EXCEPT ![f] = G],
         Given(s, t, ids, w[f])
  PROVE  Makes(w, s, t, f, ListOf(s.obj, G))
<1>1. PICK news \in SUBSET Nat :
        /\ DOMAIN t.obj = DOMAIN s.obj \cup news /\ t.user = s.user \cup news
        /\ \A id \in DOMAIN s.obj : t.obj[id] = s.obj[id]
        /\ IF w[f] = "heap" THEN news = ToSet(ids) ELSE news \cap DOMAIN s.obj = {}
  BY DEF Given
<1>2. /\ FieldOK(s.obj, G, w[f])
      /\ ToSet(G.elems) = Elems(s, f) \ ToSet(ids) /\ ToSet(ids) \subseteq Elems(s, f)
      /\ \A id \in Elems(s, f) : id \in DOMAIN s.obj /\ s.obj[id].at = w[f] /\ id \notin s.user
  BY ShrunkIs
<1>3. FieldOK(t.obj, G, w[f]) /\ ListOf(t.obj, G) = ListOf(s.obj, G)
  <2>1. \A id \in ToSet(G.elems) : id \in DOMAIN t.obj /\ t.obj[id] = s.obj[id]
    BY <1>1, <1>2
  <2> QED
    BY <1>2, <2>1, FieldStays
<1>4. news \cap Elems(s, f) \subseteq ToSet(ids) /\ news \cap Rest(s, f) = {}
  BY <1>1, <1>2 DEF Rest
<1>5. FieldTo(s, t, f, G)
  <2>1. s.user \subseteq DOMAIN s.obj
    BY OwnedIs
  <2>2. \A id \in Rest(s, f) : id \in DOMAIN s.obj /\ id \notin t.user /\ id \notin ToSet(G.elems)
    BY <1>1, <1>2, <1>4 DEF Rest
  <2>3. t.user \subseteq DOMAIN t.obj /\ ToSet(G.elems) \cap t.user = {}
    BY <1>1, <1>2, <1>4, <2>1
  <2>4. ASSUME NEW id \in DOMAIN t.obj, t.obj[id].at = "heap"
        PROVE  id \in t.user \/ id \in ToSet(G.elems) \/ id \in Rest(s, f)
    <3>1. CASE id \in Elems(s, f)
      <4>1. s.obj[id].at = w[f] /\ t.obj[id] = s.obj[id]
        BY <1>1, <1>2, <3>1
      <4>2. w[f] = "heap"
        BY <2>4, <4>1
      <4> QED
        BY <1>1, <1>2, <3>1, <4>2
    <3>2. CASE id \notin Elems(s, f)
      BY <1>1, <3>2 DEF Rest
    <3> QED
      BY <3>1, <3>2
  <2> QED
    BY <1>1, <2>2, <2>3, <2>4 DEF FieldTo
<1> QED
  BY <1>3, <1>5, FieldBecomes DEF Makes

\* Hand does that,
Handed(s, t, ids, at) ==
  /\ IsMemory(t) /\ t.wrong = s.wrong /\ ObjectsOK(t.obj) /\ t.field = s.field
  /\ Given(s, t, ids, at)

LEMMA HandIs ==
  ASSUME NEW s, IsMemory(s), ObjectsOK(s.obj), NEW at \in Place, NEW ids \in Seq(Nat),
         \A k \in 1..Len(ids) : ids[k] \in DOMAIN s.obj,
         NEW t, t = Hand(s, ids, at)
  PROVE  Handed(s, t, ids, at)
<1>1. \A id \in ToSet(ids) : id \in DOMAIN s.obj /\ id \in Nat
  BY DEF ToSet
<1>2. CASE at = "heap"
  <2>1. t = [obj |-> s.obj, user |-> s.user \cup ToSet(ids), wrong |-> s.wrong, field |-> s.field]
    BY <1>2 DEF Hand, IsMemory
  <2>2. IsMemory(t) /\ t.obj = s.obj /\ t.user = s.user \cup ToSet(ids) /\ t.wrong = s.wrong /\ t.field = s.field
    BY <2>1 DEF IsMemory
  <2>3. Given(s, t, ids, at)
    BY <1>1, <1>2, <2>2 DEF Given
  <2> QED
    BY <2>2, <2>3 DEF Handed
<1>3. CASE at # "heap"
  <2>1. PICK vals : vals = [k \in DOMAIN ids |-> s.obj[ids[k]].val]
    OBVIOUS
  <2>2. vals \in Seq(Val) /\ Len(vals) = Len(ids)
    <3>1. DOMAIN ids = 1..Len(ids) /\ Len(ids) \in Nat
      OBVIOUS
    <3>2. \A k \in 1..Len(ids) : s.obj[ids[k]] \in Object
      BY DEF ObjectsOK
    <3>3. vals \in [1..Len(ids) -> Val]
      BY <2>1, <3>1, <3>2 DEF Object
    <3> QED
      BY <3>1, <3>3
  <2>3. PICK u, n : u = New(s, "heap", vals) /\ n = Highest(s)
    OBVIOUS
  <2>4. OnlyNew(s, u, "heap", vals)
    <3>1. "heap" \in Place
      BY DEF Place
    <3> QED
      BY <2>2, <2>3, <3>1, NewIs
  <2>5. PICK news : news = (n + 1)..(n + Len(ids))
    OBVIOUS
  <2>6. t = [u EXCEPT !.user = s.user \cup news]
    <3>1. t = [u EXCEPT !.user = u.user \cup news]
      BY <1>3, <2>1, <2>3, <2>5 DEF Hand
    <3> QED
      BY <2>4, <3>1 DEF OnlyNew
  <2>7. t = [obj |-> u.obj, user |-> s.user \cup news, wrong |-> u.wrong, field |-> u.field]
    BY <2>4, <2>6 DEF OnlyNew, IsMemory
  <2>8. IsMemory(t) /\ t.obj = u.obj /\ t.user = s.user \cup news /\ t.wrong = s.wrong /\ t.field = s.field
    BY <2>4, <2>7 DEF OnlyNew, IsMemory
  <2>9. /\ news \in SUBSET Nat /\ ObjectsOK(t.obj) /\ DOMAIN t.obj = DOMAIN s.obj \cup news
        /\ \A id \in DOMAIN s.obj : t.obj[id] = s.obj[id] /\ id \notin news
    <3>1. n \in Nat /\ Len(ids) \in Nat
      BY <2>3, <2>4 DEF OnlyNew
    <3>2. news \in SUBSET Nat
      BY <2>5, <3>1
    <3> QED
      BY <2>2, <2>3, <2>4, <2>5, <2>8, <3>2 DEF OnlyNew
  <2>10. Given(s, t, ids, at)
    BY <1>3, <2>8, <2>9 DEF Given
  <2> QED
    BY <2>8, <2>9, <2>10 DEF Handed
<1> QED
  BY <1>2, <1>3

\* and objects on the heap that leave without it are deleted.
Dropped(s, t, ids, at) ==
  /\ t.user = s.user
  /\ DOMAIN t.obj = IF at = "heap" THEN DOMAIN s.obj \ ToSet(ids) ELSE DOMAIN s.obj
  /\ \A id \in DOMAIN t.obj : t.obj[id] = s.obj[id]

LEMMA DroppedIs ==
  ASSUME NEW w, NEW s, Owned(s, w), NEW f \in Fields, NEW G, NEW ids, Shrunk(s, f, G, ids),
         NEW u, u = IF w[f] = "heap" THEN Delete(s, ids) ELSE s,
         NEW t, OnlyField(u, t, f, G)
  PROVE  Makes(w, s, t, f, ListOf(s.obj, G))
<1>1. /\ FieldOK(s.obj, G, w[f])
      /\ ToSet(G.elems) = Elems(s, f) \ ToSet(ids) /\ ToSet(ids) \subseteq Elems(s, f)
      /\ \A id \in Elems(s, f) : id \in DOMAIN s.obj /\ s.obj[id].at = w[f] /\ id \notin s.user
  BY ShrunkIs
<1>2. IsMemory(s) /\ ObjectsOK(s.obj) /\ ~s.wrong /\ s.user \subseteq DOMAIN s.obj
  BY OwnedIs
<1>3. ids \in Seq(Nat) /\ IsInjective(ids)
  BY DEF Shrunk
<1>4. \A k \in 1..Len(ids) : ids[k] \in ToSet(ids)
  BY <1>3 DEF ToSet
<1>5. /\ IsMemory(t) /\ ~t.wrong /\ ObjectsOK(t.obj) /\ t.field = [s.field EXCEPT ![f] = G]
      /\ Dropped(s, t, ids, w[f])
  <2>1. CASE w[f] = "heap"
    <3>1. OnlyDeletes(s, u, ids)
      BY <1>1, <1>2, <1>3, <1>4, <2>1, DeleteIs
    <3> QED
      BY <2>1, <3>1 DEF OnlyDeletes, OnlyField, Dropped
  <2>2. CASE w[f] # "heap"
    BY <1>2, <2>2 DEF OnlyField, Dropped
  <2> QED
    BY <2>1, <2>2
<1>6. \A id \in DOMAIN s.obj \ ToSet(ids) : id \in DOMAIN t.obj /\ t.obj[id] = s.obj[id]
  BY <1>5 DEF Dropped
<1>7. FieldOK(t.obj, G, w[f]) /\ ListOf(t.obj, G) = ListOf(s.obj, G)
  <2>1. \A id \in ToSet(G.elems) : id \in DOMAIN t.obj /\ t.obj[id] = s.obj[id]
    BY <1>1, <1>6
  <2> QED
    BY <1>1, <2>1, FieldStays
<1>8. FieldTo(s, t, f, G)
  <2>1. \A id \in Rest(s, f) : id \in DOMAIN t.obj /\ t.obj[id] = s.obj[id] /\ id \notin t.user /\ id \notin ToSet(G.elems)
    BY <1>1, <1>5, <1>6 DEF Rest, Dropped
  <2>2. t.user \subseteq DOMAIN t.obj /\ ToSet(G.elems) \cap t.user = {}
    BY <1>1, <1>2, <1>5, <1>6 DEF Dropped
  <2>3. ASSUME NEW id \in DOMAIN t.obj, t.obj[id].at = "heap"
        PROVE  id \in t.user \/ id \in ToSet(G.elems) \/ id \in Rest(s, f)
    <3>1. id \in DOMAIN s.obj /\ t.obj[id] = s.obj[id] /\ t.user = s.user
      BY <1>5 DEF Dropped
    <3>2. CASE id \in Elems(s, f)
      <4>1. w[f] = "heap"
        BY <1>1, <2>3, <3>1, <3>2
      <4>2. id \notin ToSet(ids)
        BY <1>5, <4>1 DEF Dropped
      <4> QED
        BY <1>1, <3>2, <4>2
    <3>3. CASE id \notin Elems(s, f)
      BY <3>1, <3>3 DEF Rest
    <3> QED
      BY <3>2, <3>3
  <2> QED
    BY <1>5, <2>1, <2>2, <2>3 DEF FieldTo
<1> QED
  BY <1>7, <1>8, FieldBecomes DEF Makes

-------------------------------------------------------------------------------
(* The methods that take elements out.                                        *)

LEMMA HoldIs ==
  ASSUME NEW s, IsMemory(s), NEW X, s.field \in [Fields -> X], NEW f \in Fields,
         NEW c, NEW e, NEW z, s.field[f] = [capacity |-> c, elems |-> e, size |-> z],
         NEW elems, NEW size, NEW G, G = [capacity |-> c, elems |-> elems, size |-> size],
         NEW t, t = Hold(s, f, elems, size)
  PROVE  OnlyField(s, t, f, G)
<1>1. PICK F : F = s.field[f]
  OBVIOUS
<1>2. PICK Q : Q = [F EXCEPT !.elems = elems]
  OBVIOUS
<1>3. Q = [capacity |-> c, elems |-> elems, size |-> z]
  BY <1>1, <1>2
<1>4. [Q EXCEPT !.size = size] = G
  BY <1>3
<1>5. t = [s EXCEPT !.field[f].elems = elems, !.field[f].size = size]
  BY DEF Hold
<1>6. PICK u : u = [s EXCEPT !.field[f].elems = elems]
  OBVIOUS
<1>7. u = [s EXCEPT !.field = [s.field EXCEPT ![f] = Q]]
  BY <1>1, <1>2, <1>6 DEF IsMemory
<1>8. OnlyField(s, u, f, Q)
  BY <1>7, WithField
<1>9. t = [u EXCEPT !.field[f].size = size]
  BY <1>5, <1>6
<1>10. t = [u EXCEPT !.field = [u.field EXCEPT ![f] = [u.field[f] EXCEPT !.size = size]]]
  BY <1>8, <1>9 DEF OnlyField, IsMemory
<1>11. [u.field EXCEPT ![f] = [u.field[f] EXCEPT !.size = size]] = [s.field EXCEPT ![f] = G]
  BY <1>4, <1>8 DEF OnlyField
<1>12. t = [u EXCEPT !.field = [s.field EXCEPT ![f] = G]]
  BY <1>10, <1>11
<1>13. t = [obj |-> s.obj, user |-> s.user, wrong |-> s.wrong, field |-> [s.field EXCEPT ![f] = G]]
  BY <1>8, <1>12 DEF OnlyField, IsMemory
<1> QED
  BY <1>13 DEF IsMemory, OnlyField

\* The elements ids leave the field, and this list stays.
LeavesIn(s, f, G, ids, list) == Shrunk(s, f, G, ids) /\ ListOf(s.obj, G) = list

\* The last element of a list leaves it, and the last that is allocated takes its place.
LEMMA LastLeaves ==
  ASSUME NEW w, NEW s, Owned(s, w), NEW f \in Fields, s.field[f].size > 0,
         NEW F, F = s.field[f], NEW n, n = Len(F.elems),
         NEW ids, ids = <<F.elems[F.size]>>,
         NEW G, G = [capacity |-> F.capacity, elems |-> SubSeq([F.elems EXCEPT ![F.size] = F.elems[n]], 1, n - 1),
                     size |-> F.size - 1]
  PROVE  LeavesIn(s, f, G, ids, SubSeq(Values(s, f), 1, F.size - 1))
<1>1. FieldFacts(w, s, f, F)
  <2>1. PICK D : FieldFacts(w, s, f, D)
    BY FieldFactsAre
  <2>2. D = F
    BY <2>1 DEF FieldFacts
  <2> QED
    BY <2>1, <2>2
<1>2. PICK e, z : e = F.elems /\ z = F.size
  OBVIOUS
<1>3. /\ e \in Seq(Nat) /\ z \in Nat /\ n \in Nat /\ n = Len(e) /\ z > 0 /\ z <= n /\ F.capacity \in Nat
      /\ n <= F.capacity /\ DOMAIN e = 1..n
      /\ \A i, j \in 1..n : e[i] = e[j] => i = j
      /\ \A i \in 1..n : e[i] \in Elems(s, f) /\ e[i] \in Nat
      /\ \A i \in 1..n : i > z => s.obj[e[i]].val = Empty
      /\ Elems(s, f) = ToSet(e)
  BY <1>1, <1>2 DEF FieldFacts
<1>4. n \in 1..n /\ z \in 1..n /\ z - 1 \in Nat /\ n - 1 \in Nat /\ z - 1 <= n - 1 /\ n - 1 <= F.capacity
  <2>1. PICK c : c = F.capacity
    OBVIOUS
  <2>2. c \in Nat /\ n <= c
    BY <1>3, <2>1
  <2>3. n \in 1..n /\ z \in 1..n /\ z - 1 \in Nat /\ n - 1 \in Nat /\ z - 1 <= n - 1 /\ n - 1 <= c
    BY <1>3, <2>2
  <2> QED
    BY <2>1, <2>3
<1>5. PICK a : a = [e EXCEPT ![z] = e[n]]
  OBVIOUS
<1>6. a \in Seq(Nat) /\ Len(a) = n
  BY <1>3, <1>4, <1>5, ExceptSeq
<1>7. \A i \in 1..n : a[i] = IF i = z THEN e[n] ELSE e[i]
  BY <1>3, <1>5
<1>8. PICK g : g = SubSeq(a, 1, n - 1)
  OBVIOUS
<1>9. g \in Seq(Nat) /\ Len(g) = n - 1 /\ \A i \in 1..(n - 1) : g[i] = a[i]
  <2>1. PICK k : k = n - 1
    OBVIOUS
  <2>2. 0 \in Nat /\ k \in Nat /\ 0 + k <= Len(a) /\ g = SubSeq(a, 0 + 1, 0 + k)
    BY <1>3, <1>4, <1>6, <1>8, <2>1
  <2>3. g \in Seq(Nat) /\ Len(g) = k
    BY <1>6, <2>2, SubSeqIs
  <2>4. \A i \in 1..k : g[i] = a[0 + i]
    BY <1>6, <2>2, SubSeqIs
  <2> QED
    BY <2>1, <2>3, <2>4
<1>10. \A i \in 1..(n - 1) : i \in 1..n /\ g[i] = (IF i = z THEN e[n] ELSE e[i]) /\ i # n
  BY <1>3, <1>7, <1>9
<1>11. G = [capacity |-> F.capacity, elems |-> g, size |-> z - 1]
  BY <1>2, <1>5, <1>8
<1>12. G.capacity = F.capacity /\ G.elems = g /\ G.size = z - 1
  BY <1>11
<1>13. ids \in Seq(Nat) /\ ids = <<e[z]>> /\ IsInjective(ids) /\ ToSet(ids) = {e[z]}
  BY <1>2, <1>3, <1>4 DEF IsInjective, ToSet
<1>14. G \in Rep /\ G.size <= Len(G.elems) /\ Len(G.elems) <= G.capacity
  BY <1>3, <1>4, <1>9, <1>11, <1>12 DEF Rep
<1>15. ASSUME NEW i \in 1..(n - 1)
       PROVE  /\ g[i] \in Elems(s, f) \ ToSet(ids)
              /\ i > z - 1 => s.obj[g[i]].val = Empty
  <2>1. CASE i = z
    <3>1. g[i] = e[n] /\ n # z /\ n > z
      BY <1>3, <1>4, <1>10, <2>1
    <3> QED
      BY <1>3, <1>4, <1>13, <3>1
  <2>2. CASE i # z
    <3>1. g[i] = e[i] /\ i \in 1..n
      BY <1>10, <2>2
    <3>2. i > z - 1 => i > z
      BY <1>3, <2>2
    <3> QED
      BY <1>3, <1>4, <1>13, <2>2, <3>1, <3>2
  <2> QED
    BY <2>1, <2>2
<1>16. IsInjective(g)
  <2>1. ASSUME NEW i \in 1..(n - 1), NEW j \in 1..(n - 1), g[i] = g[j]
        PROVE  i = j
    <3>1. i \in 1..n /\ j \in 1..n /\ i # n /\ j # n
      BY <1>10
    <3>2. (IF i = z THEN e[n] ELSE e[i]) = (IF j = z THEN e[n] ELSE e[j])
      BY <1>10, <2>1
    <3> QED
      BY <1>3, <1>4, <3>1, <3>2
  <2>2. DOMAIN g = 1..(n - 1)
    BY <1>9
  <2> QED
    BY <2>1, <2>2 DEF IsInjective
<1>17. ASSUME NEW id \in Elems(s, f)
       PROVE  id \in ToSet(g) \cup ToSet(ids)
  <2>1. PICK i \in 1..n : id = e[i]
    BY <1>3 DEF ToSet
  <2>2. DOMAIN g = 1..(n - 1)
    BY <1>9
  <2>3. CASE i = z
    BY <1>13, <2>1, <2>3
  <2>4. CASE i # z /\ i # n
    <3>1. i \in 1..(n - 1) /\ g[i] = e[i]
      <4>1. i \in 1..(n - 1)
        BY <1>3, <2>4
      <4> QED
        BY <1>10, <2>4, <4>1
    <3> QED
      BY <2>1, <2>2, <3>1 DEF ToSet
  <2>5. CASE i # z /\ i = n
    <3>1. z \in 1..(n - 1) /\ g[z] = e[n]
      BY <1>3, <1>4, <1>10, <2>5
    <3> QED
      BY <2>1, <2>2, <2>5, <3>1 DEF ToSet
  <2> QED
    BY <2>3, <2>4, <2>5
<1>18. Shrunk(s, f, G, ids)
  <2>1. ToSet(ids) \subseteq Elems(s, f)
    BY <1>3, <1>4, <1>13
  <2> QED
    BY <1>9, <1>12, <1>13, <1>14, <1>15, <1>16, <1>17, <2>1 DEF Shrunk
<1>19. ListOf(s.obj, G) = SubSeq(Values(s, f), 1, F.size - 1)
  <2>1. PICK v \in Seq(Val) : v = Values(s, f)
    BY <1>1 DEF FieldFacts
  <2>2. Len(v) = z /\ \A i \in 1..z : v[i] = s.obj[e[i]].val
    BY <1>1, <1>2, <2>1 DEF FieldFacts
  <2>3. SubSeq(v, 1, z - 1) = [i \in 1..(z - 1) |-> v[i]]
    BY <1>3, <1>4, <2>2
  <2>4. ListOf(s.obj, G) = [i \in 1..(z - 1) |-> s.obj[g[i]].val]
    BY <1>12 DEF ListOf
  <2>5. ASSUME NEW i \in 1..(z - 1)
        PROVE  s.obj[g[i]].val = v[i]
    <3>1. i \in 1..(n - 1) /\ i # z /\ i \in 1..z
      BY <1>3, <1>4
    <3> QED
      BY <1>10, <2>2, <3>1
  <2> QED
    BY <1>2, <2>1, <2>3, <2>4, <2>5
<1> QED
  BY <1>18, <1>19 DEF LeavesIn

LEMMA ReleaseLastIs ==
  ASSUME NEW w, NEW s, Owned(s, w), NEW f \in Fields, s.field[f].size > 0, w[f] \in Place,
         NEW t, t = ReleaseLast(s, f, w[f])
  PROVE  Makes(w, s, t, f, SubSeq(Values(s, f), 1, s.field[f].size - 1))
<1>1. PICK F : FieldFacts(w, s, f, F)
  BY FieldFactsAre
<1>2. PICK n, ids, q, u : /\ n = Len(F.elems) /\ ids = <<F.elems[F.size]>>
                          /\ q = SubSeq([F.elems EXCEPT ![F.size] = F.elems[n]], 1, n - 1)
                          /\ u = Hold(s, f, q, F.size - 1)
  OBVIOUS
<1>3. PICK G : G = [capacity |-> F.capacity, elems |-> q, size |-> F.size - 1]
  OBVIOUS
<1>4. F = s.field[f] /\ F = [capacity |-> F.capacity, elems |-> F.elems, size |-> F.size]
  BY <1>1 DEF FieldFacts
<1>5. LeavesIn(s, f, G, ids, SubSeq(Values(s, f), 1, F.size - 1))
  BY <1>2, <1>3, <1>4, LastLeaves
<1>6. Shrunk(s, f, G, ids) /\ ListOf(s.obj, G) = SubSeq(Values(s, f), 1, F.size - 1)
  BY <1>5 DEF LeavesIn
<1>7. IsMemory(s) /\ s.field \in [Fields -> Rep] /\ ObjectsOK(s.obj) /\ ~s.wrong
  BY OwnedIs
<1>8. OnlyField(s, u, f, G)
  BY <1>2, <1>3, <1>4, <1>7, HoldIs
<1>9. t = Hand(u, ids, w[f])
  BY <1>2, <1>4 DEF ReleaseLast, UnsafeArenaReleaseLast
<1>10. ids \in Seq(Nat) /\ \A k \in 1..Len(ids) : ids[k] \in DOMAIN s.obj
  <2>1. ids \in Seq(Nat) /\ ToSet(ids) \subseteq Elems(s, f)
    BY <1>6 DEF Shrunk
  <2>2. \A k \in 1..Len(ids) : ids[k] \in ToSet(ids)
    BY <2>1 DEF ToSet
  <2>3. Elems(s, f) \subseteq DOMAIN s.obj
    BY <1>6, ShrunkIs
  <2> QED
    BY <2>1, <2>2, <2>3
<1>11. IsMemory(u) /\ u.obj = s.obj /\ u.user = s.user /\ u.wrong = s.wrong /\ u.field = [s.field EXCEPT ![f] = G]
  BY <1>8 DEF OnlyField
<1>12. Handed(u, t, ids, w[f])
  BY <1>7, <1>9, <1>10, <1>11, HandIs
<1>13. IsMemory(t) /\ t.wrong = u.wrong /\ ObjectsOK(t.obj) /\ t.field = u.field /\ Given(u, t, ids, w[f])
  BY <1>12 DEF Handed
<1>14. Given(s, t, ids, w[f])
  BY <1>11, <1>13 DEF Given
<1>15. Makes(w, s, t, f, ListOf(s.obj, G))
  BY <1>6, <1>7, <1>11, <1>13, <1>14, GivenIs
<1> QED
  BY <1>4, <1>6, <1>15

\* A part of a list leaves it.
LEMMA PartLeaves ==
  ASSUME NEW w, NEW s, Owned(s, w), NEW f \in Fields, NEW F, F = s.field[f],
         NEW start \in Nat, NEW num \in Nat, start + num <= F.size,
         NEW ids, ids = SubSeq(F.elems, start + 1, start + num),
         NEW v, v = Values(s, f),
         NEW G, G = [capacity |-> F.capacity,
                     elems |-> SubSeq(F.elems, 1, start) \o SubSeq(F.elems, start + num + 1, Len(F.elems)),
                     size |-> F.size - num]
  PROVE  LeavesIn(s, f, G, ids, SubSeq(v, 1, start) \o SubSeq(v, start + num + 1, Len(v)))
<1>1. FieldFacts(w, s, f, F)
  <2>1. PICK D : FieldFacts(w, s, f, D)
    BY FieldFactsAre
  <2>2. D = F
    BY <2>1 DEF FieldFacts
  <2> QED
    BY <2>1, <2>2
<1>2. PICK e, z, n, c : e = F.elems /\ z = F.size /\ n = Len(F.elems) /\ c = F.capacity
  OBVIOUS
<1>3. /\ e \in Seq(Nat) /\ z \in Nat /\ n \in Nat /\ n = Len(e) /\ z <= n /\ c \in Nat
      /\ n <= c /\ DOMAIN e = 1..n
      /\ \A i, j \in 1..n : e[i] = e[j] => i = j
      /\ \A i \in 1..n : e[i] \in Elems(s, f) /\ e[i] \in Nat
      /\ \A i \in 1..n : i > z => s.obj[e[i]].val = Empty
      /\ Elems(s, f) = ToSet(e)
  BY <1>1, <1>2 DEF FieldFacts
<1>4. start + num <= z /\ start + num <= n /\ z - num \in Nat /\ n - num \in Nat /\ z - num <= n - num /\ n - num <= c
  <2>1. start + num <= z
    BY <1>2
  <2>2. z \in Nat /\ n \in Nat /\ z <= n /\ c \in Nat /\ n <= c
    BY <1>3
  <2> QED
    BY <2>1, <2>2
<1>5. PICK g : g = Excised(e, start, num)
  OBVIOUS
<1>6. start + num <= Len(e) /\ e \in Seq(Nat)
  BY <1>3, <1>4
<1>7. g \in Seq(Nat) /\ Len(g) = Len(e) - num
      /\ \A i \in 1..(Len(e) - num) : g[i] = IF i <= start THEN e[i] ELSE e[i + num]
  <2>1. IsExcised(Nat, e, start, num, g)
    BY <1>5, <1>6, ExcisedIs
  <2> QED
    BY <2>1 DEF IsExcised
<1>8. \A i \in 1..(Len(e) - num) : g[i] = IF i <= start THEN e[i] ELSE e[i + num]
  BY <1>7
<1>9. ids \in Seq(Nat) /\ Len(ids) = num
  BY <1>2, <1>6, SubSeqIs
<1>10. \A i \in 1..num : start + i \in 1..Len(e) /\ ids[i] = e[start + i]
  BY <1>2, <1>6, SubSeqIs
<1>11. DOMAIN ids = 1..num /\ DOMAIN g = 1..(n - num)
  BY <1>3, <1>7, <1>9
<1>12. G = [capacity |-> c, elems |-> g, size |-> z - num]
  BY <1>2, <1>5 DEF Excised
<1>13. G.capacity = c /\ G.elems = g /\ G.size = z - num
  <2>1. PICK y : y = z - num
    OBVIOUS
  <2>2. G = [capacity |-> c, elems |-> g, size |-> y]
    BY <1>12, <2>1
  <2>3. PICK H : H = [capacity |-> c, elems |-> g, size |-> y]
    OBVIOUS
  <2>4. H.capacity = c /\ H.elems = g /\ H.size = y
    BY <2>3
  <2>5. G = H
    BY <2>2, <2>3
  <2> QED
    BY <2>1, <2>4, <2>5
<1>14. ToSet(ids) = {e[i] : i \in (start + 1)..(start + num)}
  <2>1. ToSet(ids) = {ids[i] : i \in 1..num}
    BY <1>11 DEF ToSet
  <2>2. ASSUME NEW i \in (start + 1)..(start + num)
        PROVE  e[i] \in {ids[j] : j \in 1..num}
    <3>1. i - start \in 1..num /\ start + (i - start) = i
      OBVIOUS
    <3>2. ids[i - start] = e[i]
      BY <1>10, <3>1
    <3> QED
      BY <3>1, <3>2
  <2>3. ASSUME NEW i \in 1..num
        PROVE  ids[i] \in {e[j] : j \in (start + 1)..(start + num)}
    <3>1. start + i \in (start + 1)..(start + num)
      OBVIOUS
    <3> QED
      BY <1>10, <3>1
  <2> QED
    BY <2>1, <2>2, <2>3
\* Where an element of what stays was.
<1>15. PICK at : at = [i \in 1..(n - num) |-> IF i <= start THEN i ELSE i + num]
  OBVIOUS
<1>16. ASSUME NEW i \in 1..(n - num)
       PROVE  /\ at[i] \in 1..n /\ at[i] \notin (start + 1)..(start + num) /\ g[i] = e[at[i]]
              /\ i > z - num => at[i] > z
              /\ i <= z - num => at[i] \in 1..z
  <2>1. CASE i <= start
    <3>1. at[i] = i /\ g[i] = e[i]
      BY <1>3, <1>8, <1>15, <2>1
    <3>2. i \in 1..n /\ i \notin (start + 1)..(start + num) /\ ~ i > z - num /\ i \in 1..z
      BY <1>3, <1>4, <2>1
    <3> QED
      BY <3>1, <3>2
  <2>2. CASE ~ i <= start
    <3>1. at[i] = i + num /\ g[i] = e[i + num]
      BY <1>3, <1>8, <1>15, <2>2
    <3>2. i + num \in 1..n /\ i + num \notin (start + 1)..(start + num)
          /\ (i > z - num => i + num > z) /\ (i <= z - num => i + num \in 1..z)
      BY <1>3, <1>4, <2>2
    <3> QED
      BY <3>1, <3>2
  <2> QED
    BY <2>1, <2>2
<1>17. ASSUME NEW i \in 1..(n - num), NEW j \in 1..(n - num), at[i] = at[j]
       PROVE  i = j
  <2>1. (IF i <= start THEN i ELSE i + num) = (IF j <= start THEN j ELSE j + num)
    BY <1>15, <1>17
  <2>2. i \in Nat /\ j \in Nat
    BY <1>4
  <2> QED
    BY <2>1, <2>2
<1>18. IsInjective(g)
  <2>1. ASSUME NEW i \in 1..(n - num), NEW j \in 1..(n - num), g[i] = g[j]
        PROVE  i = j
    <3>1. at[i] \in 1..n /\ at[j] \in 1..n /\ e[at[i]] = e[at[j]]
      BY <1>16, <2>1
    <3>2. at[i] = at[j]
      BY <1>3, <3>1
    <3> QED
      BY <1>17, <3>2
  <2> QED
    BY <1>11, <2>1 DEF IsInjective
<1>19. IsInjective(ids)
  <2>1. ASSUME NEW i \in 1..num, NEW j \in 1..num, ids[i] = ids[j]
        PROVE  i = j
    <3>1. start + i \in 1..n /\ start + j \in 1..n /\ e[start + i] = e[start + j]
      BY <1>3, <1>10, <2>1
    <3>2. start + i = start + j
      BY <1>3, <3>1
    <3> QED
      BY <3>2
  <2> QED
    BY <1>11, <2>1 DEF IsInjective
<1>20. \A i \in (start + 1)..(start + num) : i \in 1..n
  BY <1>3, <1>4
<1>21. ToSet(ids) \subseteq Elems(s, f)
  BY <1>3, <1>14, <1>20
<1>22. ASSUME NEW i \in 1..(n - num)
       PROVE  g[i] \in Elems(s, f) \ ToSet(ids) /\ (i > z - num => s.obj[g[i]].val = Empty)
  <2>1. at[i] \in 1..n /\ at[i] \notin (start + 1)..(start + num) /\ g[i] = e[at[i]] /\ (i > z - num => at[i] > z)
    BY <1>16
  <2>2. e[at[i]] \notin ToSet(ids)
    BY <1>3, <1>14, <1>20, <2>1
  <2> QED
    BY <1>3, <2>1, <2>2
<1>23. ASSUME NEW id \in Elems(s, f)
       PROVE  id \in ToSet(g) \cup ToSet(ids)
  <2>1. PICK i \in 1..n : id = e[i]
    BY <1>3 DEF ToSet
  <2>2. CASE i \in (start + 1)..(start + num)
    BY <1>14, <2>1, <2>2
  <2>3. CASE i <= start
    <3>1. i \in 1..(n - num)
      BY <1>3, <1>4, <2>3
    <3>2. g[i] = e[i]
      BY <1>3, <1>8, <2>3, <3>1
    <3> QED
      BY <1>11, <2>1, <3>1, <3>2 DEF ToSet
  <2>4. CASE i > start + num
    <3>1. i - num \in 1..(n - num) /\ ~ i - num <= start /\ (i - num) + num = i
      BY <1>3, <1>4, <2>4
    <3>2. g[i - num] = e[i]
      BY <1>3, <1>8, <3>1
    <3> QED
      BY <1>11, <2>1, <3>1, <3>2 DEF ToSet
  <2>5. i \in (start + 1)..(start + num) \/ i <= start \/ i > start + num
    <3>1. i \in Nat
      OBVIOUS
    <3> QED
      BY <3>1
  <2> QED
    BY <2>2, <2>3, <2>4, <2>5
<1>24. Shrunk(s, f, G, ids)
  <2>1. G \in Rep /\ G.size <= Len(G.elems) /\ Len(G.elems) <= G.capacity
    BY <1>3, <1>4, <1>7, <1>12, <1>13 DEF Rep
  <2>2. Len(G.elems) = n - num
    BY <1>3, <1>7, <1>13
  <2> QED
    BY <1>9, <1>13, <1>18, <1>19, <1>21, <1>22, <1>23, <2>1, <2>2 DEF Shrunk
<1>25. ListOf(s.obj, G) = SubSeq(v, 1, start) \o SubSeq(v, start + num + 1, Len(v))
  <2>1. v \in Seq(Val) /\ Len(v) = z /\ \A i \in 1..z : v[i] = s.obj[e[i]].val
    BY <1>1, <1>2 DEF FieldFacts
  <2>2. PICK l : l = Excised(v, start, num)
    OBVIOUS
  <2>3. start + num <= Len(v)
    BY <1>4, <2>1
  <2>4. IsExcised(Val, v, start, num, l)
    BY <2>1, <2>2, <2>3, ExcisedIs
  <2>5. /\ l \in Seq(Val) /\ Len(l) = Len(v) - num
        /\ \A i \in 1..(Len(v) - num) : l[i] = IF i <= start THEN v[i] ELSE v[i + num]
    BY <2>4 DEF IsExcised
  <2>6. l = [i \in 1..(z - num) |-> l[i]]
    BY <2>1, <2>5
  <2>7. ListOf(s.obj, G) = [i \in 1..(z - num) |-> s.obj[g[i]].val]
    BY <1>13 DEF ListOf
  <2>8. ASSUME NEW i \in 1..(z - num)
        PROVE  s.obj[g[i]].val = l[i]
    <3>1. i \in 1..(n - num) /\ i <= z - num
      BY <1>3, <1>4
    <3>2. g[i] = e[at[i]] /\ at[i] \in 1..z
      BY <1>16, <3>1
    <3>3. l[i] = v[at[i]]
      BY <1>15, <2>1, <2>5, <3>1
    <3> QED
      BY <2>1, <3>2, <3>3
  <2> QED
    BY <2>2, <2>6, <2>7, <2>8 DEF Excised
<1> QED
  BY <1>24, <1>25 DEF LeavesIn

LEMMA ExtractSubrangeIs ==
  ASSUME NEW w, NEW s, Owned(s, w), NEW f \in Fields, w[f] \in Place,
         NEW start \in Nat, NEW num \in Nat, start + num <= s.field[f].size,
         NEW v, v = Values(s, f),
         NEW t, t = ExtractSubrange(s, f, start, num, w[f])
  PROVE  Makes(w, s, t, f, SubSeq(v, 1, start) \o SubSeq(v, start + num + 1, Len(v)))
<1>1. PICK F : FieldFacts(w, s, f, F)
  BY FieldFactsAre
<1>2. PICK ids, q, u : /\ ids = SubSeq(F.elems, start + 1, start + num)
                       /\ q = SubSeq(F.elems, 1, start) \o SubSeq(F.elems, start + num + 1, Len(F.elems))
                       /\ u = Hand(s, ids, w[f])
  OBVIOUS
<1>3. PICK G : G = [capacity |-> F.capacity, elems |-> q, size |-> F.size - num]
  OBVIOUS
<1>4. F = s.field[f] /\ F = [capacity |-> F.capacity, elems |-> F.elems, size |-> F.size] /\ start + num <= F.size
  BY <1>1 DEF FieldFacts
<1>5. LeavesIn(s, f, G, ids, SubSeq(v, 1, start) \o SubSeq(v, start + num + 1, Len(v)))
  BY <1>2, <1>3, <1>4, PartLeaves
<1>6. Shrunk(s, f, G, ids) /\ ListOf(s.obj, G) = SubSeq(v, 1, start) \o SubSeq(v, start + num + 1, Len(v))
  BY <1>5 DEF LeavesIn
<1>7. IsMemory(s) /\ s.field \in [Fields -> Rep] /\ ObjectsOK(s.obj) /\ ~s.wrong
  BY OwnedIs
<1>8. ids \in Seq(Nat) /\ \A k \in 1..Len(ids) : ids[k] \in DOMAIN s.obj
  <2>1. ids \in Seq(Nat) /\ ToSet(ids) \subseteq Elems(s, f)
    BY <1>6 DEF Shrunk
  <2>2. \A k \in 1..Len(ids) : ids[k] \in ToSet(ids)
    BY <2>1 DEF ToSet
  <2>3. Elems(s, f) \subseteq DOMAIN s.obj
    BY <1>6, ShrunkIs
  <2> QED
    BY <2>1, <2>2, <2>3
<1>9. Handed(s, u, ids, w[f])
  BY <1>2, <1>7, <1>8, HandIs
<1>10. IsMemory(u) /\ u.wrong = s.wrong /\ ObjectsOK(u.obj) /\ u.field = s.field /\ Given(s, u, ids, w[f])
  BY <1>9 DEF Handed
<1>11. t = Hold(u, f, q, F.size - num)
  BY <1>2, <1>4, <1>10 DEF ExtractSubrange, Subrange, CloseGap
<1>12. OnlyField(u, t, f, G)
  BY <1>3, <1>4, <1>7, <1>10, <1>11, HoldIs
<1>13. IsMemory(t) /\ ~t.wrong /\ ObjectsOK(t.obj) /\ t.field = [s.field EXCEPT ![f] = G]
  BY <1>7, <1>10, <1>12 DEF OnlyField
<1>14. Given(s, t, ids, w[f])
  BY <1>10, <1>12 DEF Given, OnlyField
<1>15. Makes(w, s, t, f, ListOf(s.obj, G))
  BY <1>6, <1>13, <1>14, GivenIs
<1> QED
  BY <1>6, <1>15

LEMMA DeleteSubrangeIs ==
  ASSUME NEW w, NEW s, Owned(s, w), NEW f \in Fields,
         NEW start \in Nat, NEW num \in Nat, start + num <= s.field[f].size,
         NEW v, v = Values(s, f),
         NEW t, t = DeleteSubrange(s, f, start, num, w[f])
  PROVE  Makes(w, s, t, f, SubSeq(v, 1, start) \o SubSeq(v, start + num + 1, Len(v)))
<1>1. PICK F : FieldFacts(w, s, f, F)
  BY FieldFactsAre
<1>2. PICK ids, q, u : /\ ids = SubSeq(F.elems, start + 1, start + num)
                       /\ q = SubSeq(F.elems, 1, start) \o SubSeq(F.elems, start + num + 1, Len(F.elems))
                       /\ u = IF w[f] = "heap" THEN Delete(s, ids) ELSE s
  OBVIOUS
<1>3. PICK G : G = [capacity |-> F.capacity, elems |-> q, size |-> F.size - num]
  OBVIOUS
<1>4. F = s.field[f] /\ F = [capacity |-> F.capacity, elems |-> F.elems, size |-> F.size] /\ start + num <= F.size
  BY <1>1 DEF FieldFacts
<1>5. LeavesIn(s, f, G, ids, SubSeq(v, 1, start) \o SubSeq(v, start + num + 1, Len(v)))
  BY <1>2, <1>3, <1>4, PartLeaves
<1>6. Shrunk(s, f, G, ids) /\ ListOf(s.obj, G) = SubSeq(v, 1, start) \o SubSeq(v, start + num + 1, Len(v))
  BY <1>5 DEF LeavesIn
<1>7. IsMemory(s) /\ s.field \in [Fields -> Rep] /\ ObjectsOK(s.obj) /\ ~s.wrong
  BY OwnedIs
<1>8. IsMemory(u) /\ u.field = s.field
  BY <1>2, <1>7, DeleteKeeps
<1>9. t = Hold(u, f, q, F.size - num)
  BY <1>2, <1>4, <1>8 DEF DeleteSubrange, Subrange, CloseGap
<1>10. OnlyField(u, t, f, G)
  BY <1>3, <1>4, <1>7, <1>8, <1>9, HoldIs
<1>11. Makes(w, s, t, f, ListOf(s.obj, G))
  BY <1>2, <1>6, <1>10, DroppedIs
<1> QED
  BY <1>6, <1>11

LEMMA DestroyedIs ==
  ASSUME NEW w, NEW s, Owned(s, w), NEW f \in Fields,
         NEW t, t = Destroyed(s, f, w[f])
  PROVE  Makes(w, s, t, f, <<>>) /\ t.field[f] = NoElements
<1>1. PICK F : FieldFacts(w, s, f, F)
  BY FieldFactsAre
<1>2. PICK u, G : u = (IF w[f] = "heap" THEN Delete(s, F.elems) ELSE s) /\ G = NoElements
  OBVIOUS
<1>3. IsMemory(s) /\ s.field \in [Fields -> Rep]
  BY OwnedIs
<1>4. IsMemory(u) /\ u.field = s.field
  BY <1>2, <1>3, DeleteKeeps
<1>5. t = [u EXCEPT !.field[f] = G]
  <2>1. F = s.field[f]
    BY <1>1 DEF FieldFacts
  <2> QED
    BY <1>2, <2>1 DEF Destroyed
<1>6. OnlyField(u, t, f, G)
  <2>1. t = [u EXCEPT !.field = [u.field EXCEPT ![f] = G]]
    BY <1>4, <1>5 DEF IsMemory
  <2> QED
    BY <1>3, <1>4, <2>1, WithField
<1>7. G.capacity = 1 /\ G.elems = <<>> /\ G.size = 0 /\ G \in Rep /\ Len(G.elems) = 0 /\ ToSet(G.elems) = {} /\ IsInjective(G.elems)
  <2>1. G = [capacity |-> 1, elems |-> <<>>, size |-> 0]
    BY <1>2 DEF NoElements
  <2> QED
    BY <2>1 DEF Rep, ToSet, IsInjective
<1>8. Shrunk(s, f, G, F.elems)
  <2>1. F.elems \in Seq(Nat) /\ IsInjective(F.elems) /\ ToSet(F.elems) = Elems(s, f)
    BY <1>1 DEF FieldFacts, FieldOK
  <2> QED
    BY <1>7, <2>1 DEF Shrunk
<1>9. Makes(w, s, t, f, ListOf(s.obj, G))
  BY <1>2, <1>6, <1>8, DroppedIs
<1>10. ListOf(s.obj, G) = <<>>
  BY <1>7 DEF ListOf
<1> QED
  BY <1>2, <1>6, <1>9, <1>10 DEF OnlyField

-------------------------------------------------------------------------------
(* The methods that put elements in.                                          *)

\* An object follows the elements of the list; cleared ones may move or leave.
Placed(s, f, F, G, id, gone) ==
  /\ G \in Rep /\ G.size <= Len(G.elems) /\ Len(G.elems) <= G.capacity /\ IsInjective(G.elems)
  /\ G.size = F.size + 1 /\ G.elems[F.size + 1] = id
  /\ \A i \in 1..F.size : G.elems[i] = F.elems[i]
  /\ \A i \in 1..Len(G.elems) : /\ G.elems[i] = id \/ G.elems[i] \in Elems(s, f) \ gone
                                /\ i > F.size + 1 => s.obj[G.elems[i]].val = Empty
  /\ gone \subseteq Elems(s, f) /\ Elems(s, f) \subseteq ToSet(G.elems) \cup gone

\* The field becomes G, the user gives id, and these elements are deleted.
PutIn(s, t, f, G, id, deleted) ==
  /\ IsMemory(t) /\ ~t.wrong /\ ObjectsOK(t.obj) /\ t.field = [s.field EXCEPT ![f] = G]
  /\ t.user = s.user \ {id} /\ DOMAIN t.obj = DOMAIN s.obj \ deleted
  /\ \A i \in DOMAIN t.obj : t.obj[i] = s.obj[i]

LEMMA PlacedIs ==
  ASSUME NEW w, NEW s, Owned(s, w), NEW f \in Fields, NEW F, F = s.field[f],
         NEW id \in s.user, s.obj[id].at = w[f],
         NEW G, NEW gone, Placed(s, f, F, G, id, gone),
         NEW t, PutIn(s, t, f, G, id, IF w[f] = "heap" THEN gone ELSE {})
  PROVE  Makes(w, s, t, f, Append(Values(s, f), s.obj[id].val))
<1>0. /\ IsMemory(t) /\ ~t.wrong /\ ObjectsOK(t.obj) /\ t.field = [s.field EXCEPT ![f] = G]
      /\ t.user = s.user \ {id}
      /\ DOMAIN t.obj = IF w[f] = "heap" THEN DOMAIN s.obj \ gone ELSE DOMAIN s.obj
      /\ \A i \in DOMAIN t.obj : t.obj[i] = s.obj[i]
  BY DEF PutIn
<1>1. FieldFacts(w, s, f, F)
  <2>1. PICK D : FieldFacts(w, s, f, D)
    BY FieldFactsAre
  <2>2. D = F
    BY <2>1 DEF FieldFacts
  <2> QED
    BY <2>1, <2>2
<1>2. /\ F.size \in Nat /\ F.size <= Len(F.elems) /\ Len(F.elems) \in Nat /\ DOMAIN F.elems = 1..Len(F.elems)
      /\ Elems(s, f) = ToSet(F.elems)
      /\ \A i \in 1..Len(F.elems) : /\ F.elems[i] \in Elems(s, f) /\ F.elems[i] \in DOMAIN s.obj
                                    /\ s.obj[F.elems[i]].at = w[f]
  BY <1>1 DEF FieldFacts
<1>3. \A i \in Elems(s, f) : i \in DOMAIN s.obj /\ s.obj[i].at = w[f]
  <2>1. \A i \in Elems(s, f) : \E k \in 1..Len(F.elems) : i = F.elems[k]
    BY <1>2 DEF ToSet
  <2> QED
    BY <1>2, <2>1
<1>4. /\ G \in Rep /\ G.size <= Len(G.elems) /\ Len(G.elems) <= G.capacity /\ IsInjective(G.elems)
      /\ G.size = F.size + 1 /\ G.elems[F.size + 1] = id
      /\ \A i \in 1..F.size : G.elems[i] = F.elems[i]
      /\ \A i \in 1..Len(G.elems) : /\ G.elems[i] = id \/ G.elems[i] \in Elems(s, f) \ gone
                                    /\ i > F.size + 1 => s.obj[G.elems[i]].val = Empty
      /\ gone \subseteq Elems(s, f) /\ Elems(s, f) \subseteq ToSet(G.elems) \cup gone
  BY DEF Placed
<1>5. s.user \subseteq DOMAIN s.obj /\ Elems(s, f) \cap s.user = {}
  BY OwnedIs
<1>6. DOMAIN G.elems = 1..Len(G.elems) /\ Len(G.elems) \in Nat
  BY <1>4 DEF Rep
<1>7. \A i \in ToSet(G.elems) : i = id \/ i \in Elems(s, f) \ gone
  BY <1>4, <1>6 DEF ToSet
<1>8. id \in ToSet(G.elems)
  <2>1. F.size + 1 \in 1..Len(G.elems)
    <3>1. PICK z, n, y : z = F.size /\ n = Len(G.elems) /\ y = G.size
      OBVIOUS
    <3>2. z \in Nat /\ n \in Nat /\ y = z + 1 /\ y <= n
      BY <1>2, <1>4, <1>6, <3>1
    <3> QED
      BY <3>1, <3>2
  <2> QED
    BY <1>4, <1>6, <2>1 DEF ToSet
<1>9. \A i \in DOMAIN s.obj \ gone : i \in DOMAIN t.obj /\ t.obj[i] = s.obj[i]
  BY <1>0
<1>10. id \in DOMAIN s.obj \ gone
  BY <1>4, <1>5
<1>11. FieldOK(t.obj, G, w[f])
  <2>1. ASSUME NEW i \in 1..Len(G.elems)
        PROVE  /\ G.elems[i] \in DOMAIN t.obj /\ t.obj[G.elems[i]].at = w[f]
               /\ i > G.size => t.obj[G.elems[i]].val = Empty
    <3>1. G.elems[i] \in DOMAIN s.obj \ gone /\ s.obj[G.elems[i]].at = w[f]
      BY <1>3, <1>4, <1>10
    <3> QED
      BY <1>4, <1>9, <3>1
  <2> QED
    BY <1>4, <2>1 DEF FieldOK
<1>12. FieldTo(s, t, f, G)
  <2>1. \A i \in Rest(s, f) : i \in DOMAIN t.obj /\ t.obj[i] = s.obj[i] /\ i \notin t.user /\ i \notin ToSet(G.elems)
    BY <1>0, <1>4, <1>7, <1>9 DEF Rest
  <2>2. t.user \subseteq DOMAIN t.obj /\ ToSet(G.elems) \cap t.user = {}
    BY <1>0, <1>4, <1>5, <1>7, <1>9
  <2>3. ASSUME NEW i \in DOMAIN t.obj, t.obj[i].at = "heap"
        PROVE  i \in t.user \/ i \in ToSet(G.elems) \/ i \in Rest(s, f)
    <3>1. i \in DOMAIN s.obj /\ t.obj[i] = s.obj[i]
      BY <1>0
    <3>2. CASE i \in Elems(s, f)
      <4>1. w[f] = "heap"
        BY <1>3, <2>3, <3>1, <3>2
      <4>2. i \notin gone
        BY <1>0, <4>1
      <4> QED
        BY <1>4, <3>2, <4>2
    <3>3. CASE i \notin Elems(s, f)
      BY <1>0, <1>8, <3>1, <3>3 DEF Rest
    <3> QED
      BY <3>2, <3>3
  <2> QED
    BY <1>0, <2>1, <2>2, <2>3 DEF FieldTo
<1>13. ListOf(t.obj, G) = Append(Values(s, f), s.obj[id].val)
  <2>1. PICK v \in Seq(Val) : v = Values(s, f)
    BY <1>1 DEF FieldFacts
  <2>2. PICK z : z = F.size /\ z \in Nat
    BY <1>2
  <2>3. Len(v) = z /\ \A i \in 1..z : v[i] = s.obj[F.elems[i]].val
    BY <1>1, <2>1, <2>2 DEF FieldFacts
  <2>4. PICK val \in Val : val = s.obj[id].val
    BY <1>10, OwnedIs DEF Object
  <2>5. ListOf(t.obj, G) = [i \in 1..(z + 1) |-> t.obj[G.elems[i]].val]
    BY <1>4, <2>2 DEF ListOf
  <2>6. PICK l : l = Append(v, val)
    OBVIOUS
  <2>7. l \in Seq(Val) /\ Len(l) = z + 1 /\ l[z + 1] = val
    BY <2>3, <2>6, AppendProperties
  <2>8. \A i \in 1..z : l[i] = v[i]
    BY <2>3, <2>6, AppendProperties
  <2>9. l = [i \in 1..(z + 1) |-> l[i]]
    BY <2>7
  <2>10. ASSUME NEW i \in 1..(z + 1)
         PROVE  t.obj[G.elems[i]].val = l[i]
    <3>1. CASE i = z + 1
      BY <1>4, <1>9, <1>10, <2>2, <2>4, <2>7, <3>1
    <3>2. CASE i # z + 1
      <4>1. i \in 1..z /\ i \in 1..Len(F.elems)
        BY <1>2, <2>2, <3>2
      <4>2. G.elems[i] = F.elems[i] /\ G.elems[i] \in Elems(s, f)
        BY <1>2, <1>4, <2>2, <4>1
      <4>3. i \in 1..Len(G.elems)
        <5>1. PICK n, y : n = Len(G.elems) /\ y = G.size /\ y <= n /\ y = z + 1 /\ n \in Nat
          BY <1>4, <1>6, <2>2
        <5>2. i \in 1..n
          BY <2>2, <5>1
        <5> QED
          BY <5>1, <5>2
      <4>4. G.elems[i] \in DOMAIN s.obj \ gone
        BY <1>3, <1>4, <1>10, <4>3
      <4> QED
        BY <1>9, <2>3, <2>8, <4>1, <4>2, <4>4
    <3> QED
      BY <3>1, <3>2
  <2> QED
    BY <2>1, <2>4, <2>5, <2>6, <2>9, <2>10
<1> QED
  BY <1>11, <1>12, <1>13, FieldBecomes DEF Makes

LEMMA PlacedLast ==
  ASSUME NEW w, NEW s, Owned(s, w), NEW f \in Fields, NEW F, F = s.field[f],
         NEW id \in s.user, F.size = Len(F.elems),
         NEW c \in Nat, c >= F.size + 1,
         NEW G, G = [capacity |-> c, elems |-> Append(F.elems, id), size |-> F.size + 1]
  PROVE  Placed(s, f, F, G, id, {})
<1>1. FieldFacts(w, s, f, F)
  <2>1. PICK D : FieldFacts(w, s, f, D)
    BY FieldFactsAre
  <2>2. D = F
    BY <2>1 DEF FieldFacts
  <2> QED
    BY <2>1, <2>2
<1>2. PICK e, z : e = F.elems /\ z = F.size
  OBVIOUS
<1>3. /\ e \in Seq(Nat) /\ z \in Nat /\ z = Len(e) /\ DOMAIN e = 1..z
      /\ \A i, j \in 1..z : e[i] = e[j] => i = j
      /\ \A i \in 1..z : e[i] \in Elems(s, f)
      /\ Elems(s, f) = ToSet(e)
  BY <1>1, <1>2 DEF FieldFacts
<1>4. id \in Nat /\ id \notin Elems(s, f)
  BY OwnedIs
<1>5. PICK g : g = Append(e, id)
  OBVIOUS
<1>6. g \in Seq(Nat) /\ Len(g) = z + 1 /\ g[z + 1] = id /\ \A i \in 1..z : g[i] = e[i]
  <2>1. g \in Seq(Nat) /\ Len(g) = z + 1 /\ g[z + 1] = id
    BY <1>3, <1>4, <1>5, AppendProperties
  <2>2. \A i \in 1..z : g[i] = e[i]
    BY <1>3, <1>4, <1>5, AppendProperties
  <2> QED
    BY <2>1, <2>2
<1>7. \A i \in 1..(z + 1) : i = z + 1 \/ i \in 1..z
  BY <1>3
<1>8. DOMAIN g = 1..(z + 1)
  BY <1>6
<1>9. PICK H : H = [capacity |-> c, elems |-> g, size |-> z + 1]
  OBVIOUS
<1>10. H = G /\ H.capacity = c /\ H.elems = g /\ H.size = z + 1
  <2>1. H.capacity = c /\ H.elems = g /\ H.size = z + 1
    BY <1>9
  <2> QED
    BY <1>2, <1>5, <1>9, <2>1
<1>11. IsInjective(g)
  <2>1. \A i \in 1..z : g[i] # id
    BY <1>3, <1>4, <1>6
  <2>2. ASSUME NEW i \in 1..(z + 1), NEW j \in 1..(z + 1), g[i] = g[j]
        PROVE  i = j
    <3>1. CASE i = z + 1
      BY <1>6, <1>7, <2>1, <2>2, <3>1
    <3>2. CASE i \in 1..z
      BY <1>3, <1>6, <1>7, <2>1, <2>2, <3>2
    <3> QED
      BY <1>7, <3>1, <3>2
  <2> QED
    BY <1>8, <2>2 DEF IsInjective
<1>12. ToSet(e) \subseteq ToSet(g)
  <2>1. \A i \in 1..z : i \in 1..(z + 1)
    BY <1>3
  <2> QED
    BY <1>3, <1>6, <1>8, <2>1 DEF ToSet
<1>13. H \in Rep /\ H.size <= Len(H.elems) /\ Len(H.elems) <= H.capacity
  <2>1. z + 1 \in Nat /\ z + 1 <= c
    BY <1>2, <1>3
  <2> QED
    BY <1>6, <1>9, <1>10, <2>1 DEF Rep
<1>14. \A i \in 1..Len(g) : (g[i] = id \/ g[i] \in Elems(s, f)) /\ ~ i > z + 1
  <2>1. \A i \in 1..(z + 1) : ~ i > z + 1
    BY <1>3
  <2> QED
    BY <1>3, <1>6, <1>7, <2>1
<1>15. Placed(s, f, F, H, id, {})
  BY <1>2, <1>3, <1>6, <1>10, <1>11, <1>12, <1>13, <1>14 DEF Placed
<1> QED
  BY <1>10, <1>15

LEMMA PlacedOver ==
  ASSUME NEW w, NEW s, Owned(s, w), NEW f \in Fields, NEW F, F = s.field[f],
         NEW id \in s.user, F.size < Len(F.elems),
         NEW G, G = [capacity |-> F.capacity, elems |-> [F.elems EXCEPT ![F.size + 1] = id], size |-> F.size + 1]
  PROVE  Placed(s, f, F, G, id, {F.elems[F.size + 1]})
<1>1. FieldFacts(w, s, f, F)
  <2>1. PICK D : FieldFacts(w, s, f, D)
    BY FieldFactsAre
  <2>2. D = F
    BY <2>1 DEF FieldFacts
  <2> QED
    BY <2>1, <2>2
<1>2. PICK e, z, n, c : e = F.elems /\ z = F.size /\ n = Len(F.elems) /\ c = F.capacity
  OBVIOUS
<1>3. /\ e \in Seq(Nat) /\ z \in Nat /\ n \in Nat /\ n = Len(e) /\ DOMAIN e = 1..n /\ z < n /\ c \in Nat /\ n <= c
      /\ \A i, j \in 1..n : e[i] = e[j] => i = j
      /\ \A i \in 1..n : e[i] \in Elems(s, f)
      /\ \A i \in 1..n : i > z => s.obj[e[i]].val = Empty
      /\ Elems(s, f) = ToSet(e)
  BY <1>1, <1>2 DEF FieldFacts
<1>4. id \in Nat /\ id \notin Elems(s, f)
  BY OwnedIs
<1>5. PICK g, k : g = [e EXCEPT ![k] = id] /\ k = z + 1
  OBVIOUS
<1>6. k \in 1..n /\ k > z /\ k \in Nat /\ k <= n /\ \A i \in 1..z : i \in 1..n /\ i # k
  BY <1>3, <1>5
<1>7. g \in Seq(Nat) /\ Len(g) = n
  BY <1>3, <1>4, <1>5, <1>6, ExceptSeq
<1>8. \A i \in 1..n : g[i] = IF i = k THEN id ELSE e[i]
  BY <1>3, <1>5
<1>9. DOMAIN g = 1..n
  BY <1>7
<1>10. PICK H : H = [capacity |-> c, elems |-> g, size |-> k]
  OBVIOUS
<1>11. H = G /\ H.capacity = c /\ H.elems = g /\ H.size = k
  <2>1. H.capacity = c /\ H.elems = g /\ H.size = k
    BY <1>10
  <2> QED
    BY <1>2, <1>5, <1>10, <2>1
<1>12. IsInjective(g)
  <2>1. \A i, j \in 1..n : g[i] = g[j] => i = j
    BY <1>3, <1>4, <1>8
  <2> QED
    BY <1>9, <2>1 DEF IsInjective
<1>13. Elems(s, f) \subseteq ToSet(g) \cup {e[k]}
  <2>1. ASSUME NEW x \in Elems(s, f)
        PROVE  x \in ToSet(g) \cup {e[k]}
    <3>1. PICK i \in 1..n : x = e[i]
      BY <1>3 DEF ToSet
    <3>2. CASE i = k
      BY <3>1, <3>2
    <3>3. CASE i # k
      BY <1>8, <1>9, <3>1, <3>3 DEF ToSet
    <3> QED
      BY <3>2, <3>3
  <2> QED
    BY <2>1
<1>14. H \in Rep /\ H.size <= Len(H.elems) /\ Len(H.elems) <= H.capacity
  BY <1>3, <1>6, <1>7, <1>10, <1>11 DEF Rep
<1>15. ASSUME NEW i \in 1..n
       PROVE  /\ g[i] = id \/ g[i] \in Elems(s, f) \ {e[k]}
              /\ i > k => s.obj[g[i]].val = Empty
  <2>1. CASE i = k
    BY <1>8, <1>6, <2>1
  <2>2. CASE i # k
    <3>1. g[i] = e[i] /\ e[i] # e[k]
      BY <1>3, <1>6, <1>8, <2>2
    <3>2. i > k => i > z
      BY <1>3, <1>6
    <3> QED
      BY <1>3, <3>1, <3>2
  <2> QED
    BY <2>1, <2>2
<1>16. H.elems[k] = id /\ \A i \in 1..z : H.elems[i] = e[i]
  BY <1>6, <1>8, <1>11
<1>17. e[k] \in Elems(s, f)
  BY <1>3, <1>6
<1>18. Placed(s, f, F, H, id, {e[k]})
  <2>1. H.size = F.size + 1 /\ H.elems[H.size] = id
    BY <1>2, <1>5, <1>11, <1>16
  <2>2. \A i \in 1..F.size : H.elems[i] = F.elems[i]
    BY <1>2, <1>16
  <2>3. IsInjective(H.elems) /\ Elems(s, f) \subseteq ToSet(H.elems) \cup {e[k]} /\ {e[k]} \subseteq Elems(s, f)
    BY <1>11, <1>12, <1>13, <1>17
  <2>4. \A i \in 1..Len(H.elems) : /\ H.elems[i] = id \/ H.elems[i] \in Elems(s, f) \ {e[k]}
                                   /\ i > H.size => s.obj[H.elems[i]].val = Empty
    BY <1>7, <1>11, <1>15
  <2> QED
    BY <1>14, <2>1, <2>2, <2>3, <2>4 DEF Placed
<1> QED
  BY <1>2, <1>5, <1>11, <1>18

LEMMA PlacedFirst ==
  ASSUME NEW w, NEW s, Owned(s, w), NEW f \in Fields, NEW F, F = s.field[f],
         NEW id \in s.user, F.size < Len(F.elems), Len(F.elems) < F.capacity,
         NEW G, G = [capacity |-> F.capacity,
                     elems |-> Append([F.elems EXCEPT ![F.size + 1] = id], F.elems[F.size + 1]), size |-> F.size + 1]
  PROVE  Placed(s, f, F, G, id, {})
<1>1. FieldFacts(w, s, f, F)
  <2>1. PICK D : FieldFacts(w, s, f, D)
    BY FieldFactsAre
  <2>2. D = F
    BY <2>1 DEF FieldFacts
  <2> QED
    BY <2>1, <2>2
<1>2. PICK e, z, n, c, k, x : e = F.elems /\ z = F.size /\ n = Len(F.elems) /\ c = F.capacity /\ k = F.size + 1 /\ x = e[k]
  OBVIOUS
<1>3. /\ e \in Seq(Nat) /\ z \in Nat /\ n \in Nat /\ n = Len(e) /\ DOMAIN e = 1..n /\ z < n /\ c \in Nat /\ n < c
      /\ \A i, j \in 1..n : e[i] = e[j] => i = j
      /\ \A i \in 1..n : e[i] \in Elems(s, f) /\ e[i] \in Nat
      /\ \A i \in 1..n : i > z => s.obj[e[i]].val = Empty
      /\ Elems(s, f) = ToSet(e)
  BY <1>1, <1>2 DEF FieldFacts
<1>4. k = z + 1 /\ k \in 1..n /\ k > z /\ k \in Nat /\ k <= n /\ n + 1 <= c /\ \A i \in 1..z : i \in 1..n /\ i # k
  <2>1. k = z + 1
    BY <1>2
  <2>2. z \in Nat /\ n \in Nat /\ c \in Nat /\ z < n /\ n < c
    BY <1>3
  <2> QED
    BY <2>1, <2>2
<1>5. PICK o, a : o = [capacity |-> c, elems |-> a, size |-> k] /\ a = [e EXCEPT ![k] = id]
  OBVIOUS
<1>6. Placed(s, f, F, o, id, {x})
  BY <1>2, <1>3, <1>5, PlacedOver
<1>7. /\ o.elems = a /\ o.size = k
      /\ a \in Seq(Nat) /\ Len(a) = n /\ DOMAIN a = 1..n
  <2>1. o.elems = a /\ o.size = k
    BY <1>5
  <2>2. id \in Nat
    BY OwnedIs
  <2> QED
    BY <1>3, <1>4, <1>5, <2>1, <2>2, ExceptSeq
<1>8. /\ \A i, j \in 1..n : a[i] = a[j] => i = j
      /\ a[k] = id /\ \A i \in 1..z : a[i] = e[i]
      /\ \A i \in 1..n : (a[i] = id \/ a[i] \in Elems(s, f) \ {x}) /\ (i > k => s.obj[a[i]].val = Empty)
      /\ {x} \subseteq Elems(s, f) /\ Elems(s, f) \subseteq ToSet(a) \cup {x}
  BY <1>2, <1>4, <1>6, <1>7 DEF Placed, IsInjective
<1>9. x \in Nat /\ s.obj[x].val = Empty /\ x # id
  <2>1. x \in Nat /\ s.obj[x].val = Empty
    BY <1>2, <1>3, <1>4
  <2>2. Elems(s, f) \cap s.user = {}
    BY OwnedIs
  <2> QED
    BY <1>8, <2>1, <2>2
<1>10. PICK g : g = Append(a, x)
  OBVIOUS
<1>11. g \in Seq(Nat) /\ Len(g) = n + 1 /\ g[n + 1] = x /\ \A i \in 1..n : g[i] = a[i]
  <2>1. g \in Seq(Nat) /\ Len(g) = n + 1 /\ g[n + 1] = x
    BY <1>7, <1>9, <1>10, AppendProperties
  <2>2. \A i \in 1..n : g[i] = a[i]
    BY <1>7, <1>9, <1>10, AppendProperties
  <2> QED
    BY <2>1, <2>2
<1>12. DOMAIN g = 1..(n + 1) /\ \A i \in 1..(n + 1) : i = n + 1 \/ i \in 1..n
  BY <1>3, <1>11
<1>13. IsInjective(g)
  <2>1. \A i \in 1..n : a[i] # x
    BY <1>8, <1>9
  <2>2. \A i, j \in 1..(n + 1) : g[i] = g[j] => i = j
    BY <1>8, <1>11, <1>12, <2>1
  <2> QED
    BY <1>12, <2>2 DEF IsInjective
<1>14. Elems(s, f) \subseteq ToSet(g)
  <2>1. x \in ToSet(g)
    <3>1. n + 1 \in 1..(n + 1)
      BY <1>3
    <3> QED
      BY <1>11, <1>12, <3>1 DEF ToSet
  <2>2. ToSet(a) \subseteq ToSet(g)
    <3>1. \A i \in 1..n : i \in 1..(n + 1)
      BY <1>3
    <3> QED
      BY <1>7, <1>11, <1>12, <3>1 DEF ToSet
  <2> QED
    BY <1>8, <2>1, <2>2
<1>15. PICK H : H = [capacity |-> c, elems |-> g, size |-> k]
  OBVIOUS
<1>16. H = G /\ H.capacity = c /\ H.elems = g /\ H.size = k
  <2>1. H.capacity = c /\ H.elems = g /\ H.size = k
    BY <1>15
  <2> QED
    BY <1>2, <1>5, <1>10, <1>15, <2>1
<1>17. H \in Rep /\ H.size <= Len(H.elems) /\ Len(H.elems) <= H.capacity
  <2>1. k <= n + 1
    BY <1>3, <1>4
  <2> QED
    BY <1>3, <1>4, <1>11, <1>15, <1>16, <2>1 DEF Rep
<1>18. ASSUME NEW i \in 1..(n + 1)
       PROVE  (g[i] = id \/ g[i] \in Elems(s, f)) /\ (i > k => s.obj[g[i]].val = Empty)
  <2>1. CASE i = n + 1
    BY <1>8, <1>9, <1>11, <2>1
  <2>2. CASE i \in 1..n
    BY <1>8, <1>11, <2>2
  <2> QED
    BY <1>12, <2>1, <2>2
<1>19. H.elems[k] = id /\ \A i \in 1..z : H.elems[i] = e[i]
  BY <1>4, <1>8, <1>11, <1>16
<1>20. Placed(s, f, F, H, id, {})
  BY <1>2, <1>4, <1>11, <1>13, <1>14, <1>16, <1>17, <1>18, <1>19 DEF Placed
<1> QED
  BY <1>16, <1>20

\* The user no longer holds these.
WithoutUser(s, t, ids) ==
  /\ IsMemory(t) /\ t.obj = s.obj /\ t.field = s.field /\ t.wrong = s.wrong /\ t.user = s.user \ ids

LEMMA WithoutUserIs ==
  ASSUME NEW s, IsMemory(s), NEW ids, NEW t, t = [s EXCEPT !.user = @ \ ids]
  PROVE  WithoutUser(s, t, ids)
<1>1. t = [obj |-> s.obj, user |-> s.user \ ids, wrong |-> s.wrong, field |-> s.field]
  BY DEF IsMemory
<1> QED
  BY <1>1 DEF IsMemory, WithoutUser

LEMMA AppendElementIs ==
  ASSUME NEW s, IsMemory(s), s.field \in [Fields -> Rep], NEW f \in Fields, NEW F, F = s.field[f],
         NEW o, NEW at, FieldOK(o, F, at), NEW id, NEW t, t = AppendElement(s, f, id)
  PROVE  \E c \in Nat : /\ c >= F.size + 1
                        /\ OnlyField(s, t, f, [capacity |-> c, elems |-> Append(F.elems, id), size |-> F.size + 1])
<1>1. PICK z, e : z = F.size + 1 /\ e = Append(F.elems, id)
  OBVIOUS
<1>2. z \in Nat
  BY <1>1 DEF FieldOK, Rep
<1>3. PICK R : R = Reserved(F, z)
  OBVIOUS
<1>4. /\ R = [capacity |-> R.capacity, elems |-> F.elems, size |-> F.size]
      /\ R.capacity \in Nat /\ R.capacity >= z
  BY <1>2, <1>3, ReservedIs
<1>5. PICK c \in Nat : c = R.capacity /\ c >= z /\ R = [capacity |-> c, elems |-> F.elems, size |-> F.size]
  BY <1>4
<1>6. PICK u : u = [s EXCEPT !.field[f] = Reserved(@, F.size + 1)]
  OBVIOUS
<1>7. u = [s EXCEPT !.field = [s.field EXCEPT ![f] = R]]
  BY <1>1, <1>3, <1>6 DEF IsMemory
<1>8. OnlyField(s, u, f, R)
  BY <1>7, WithField
<1>9. t = Hold(u, f, e, z)
  BY <1>1, <1>6 DEF AppendElement
<1>10. PICK G : G = [capacity |-> c, elems |-> e, size |-> z]
  OBVIOUS
<1>11. OnlyField(u, t, f, G)
  <2>1. IsMemory(u) /\ u.field \in [Fields -> {s.field[g] : g \in Fields} \cup {R}]
    BY <1>8 DEF OnlyField
  <2>2. u.field[f] = [capacity |-> c, elems |-> F.elems, size |-> F.size]
    BY <1>5, <1>8 DEF OnlyField
  <2> QED
    BY <1>9, <1>10, <2>1, <2>2, HoldIs
<1>12. OnlyField(s, t, f, G)
  <2>1. [u.field EXCEPT ![f] = G] = [s.field EXCEPT ![f] = G]
    BY <1>8 DEF OnlyField
  <2> QED
    BY <1>8, <1>11, <2>1 DEF OnlyField
<1> QED
  BY <1>1, <1>5, <1>10, <1>12

\* An object of the user's becomes the field's last element.
LEMMA UnsafeAddIs ==
  ASSUME NEW w, NEW s, Owned(s, w), NEW f \in Fields, NEW id \in s.user, s.obj[id].at = w[f],
         NEW g, WithoutUser(s, g, {id}),
         NEW t, t = UnsafeArenaAddAllocated(g, f, id, w[f])
  PROVE  Makes(w, s, t, f, Append(Values(s, f), s.obj[id].val))
<1>1. PICK F : FieldFacts(w, s, f, F)
  BY FieldFactsAre
<1>2. /\ IsMemory(g) /\ g.obj = s.obj /\ g.field = s.field /\ g.wrong = s.wrong /\ g.user = s.user \ {id}
      /\ g.field \in [Fields -> Rep] /\ ~g.wrong /\ ObjectsOK(g.obj)
  BY OwnedIs DEF WithoutUser
<1>3. F = s.field[f] /\ F = g.field[f] /\ FieldOK(s.obj, F, w[f])
  BY <1>1, <1>2 DEF FieldFacts
<1>4. PICK e, z, n, c : e = F.elems /\ z = F.size /\ n = Len(F.elems) /\ c = F.capacity
  OBVIOUS
<1>5. /\ F = [capacity |-> c, elems |-> e, size |-> z]
      /\ e \in Seq(Nat) /\ z \in Nat /\ n \in Nat /\ c \in Nat /\ n = Len(e) /\ DOMAIN e = 1..n /\ z <= n /\ n <= c
      /\ \A i \in 1..n : e[i] \in Elems(s, f) /\ e[i] \in DOMAIN s.obj /\ e[i] \in Nat /\ s.obj[e[i]].at = w[f]
  BY <1>1, <1>4 DEF FieldFacts
<1>6. PICK k, placed : k = z + 1 /\ placed = [e EXCEPT ![k] = id]
  OBVIOUS
<1>7. CASE z = n /\ t = AppendElement(g, f, id)
  <2>1. PICK d \in Nat : /\ d >= F.size + 1
                         /\ OnlyField(g, t, f, [capacity |-> d, elems |-> Append(F.elems, id), size |-> F.size + 1])
    BY <1>2, <1>3, <1>7, AppendElementIs
  <2>2. PICK G : G = [capacity |-> d, elems |-> Append(F.elems, id), size |-> F.size + 1]
    OBVIOUS
  <2>3. F.size = Len(F.elems)
    BY <1>4, <1>7
  <2>4. Placed(s, f, F, G, id, {})
    BY <1>3, <2>1, <2>2, <2>3, PlacedLast
  <2>5. OnlyField(g, t, f, G)
    BY <2>1, <2>2
  <2>6. PutIn(s, t, f, G, id, IF w[f] = "heap" THEN {} ELSE {})
    BY <1>2, <2>5 DEF OnlyField, PutIn
  <2> QED
    BY <1>3, <2>4, <2>6, PlacedIs
<1>8. CASE z < n
  <2>1. k \in 1..n
    BY <1>5, <1>6, <1>8
  <2>2. PICK x : x = e[k]
    OBVIOUS
  <2>3. x \in Elems(s, f) /\ x \in DOMAIN s.obj /\ x \in Nat /\ s.obj[x].at = w[f]
    BY <1>5, <2>1, <2>2
  <2>4. F.size < Len(F.elems)
    BY <1>4, <1>8
  <2>5. CASE n = c
    <3>1. PICK u : u = IF w[f] = "heap" THEN Delete(g, <<x>>) ELSE g
      OBVIOUS
    <3>2. F.size # F.capacity /\ Len(F.elems) = F.capacity
      BY <1>4, <1>5, <1>8, <2>5
    <3>3. t = Hold(u, f, placed, k)
      BY <1>3, <1>4, <1>6, <2>2, <3>1, <3>2 DEF UnsafeArenaAddAllocated
    <3>4. /\ IsMemory(u) /\ ~u.wrong /\ u.field = s.field /\ u.user = s.user \ {id} /\ ObjectsOK(u.obj)
          /\ DOMAIN u.obj = IF w[f] = "heap" THEN DOMAIN s.obj \ {x} ELSE DOMAIN s.obj
          /\ \A i \in DOMAIN u.obj : u.obj[i] = s.obj[i]
      <4>1. CASE w[f] = "heap"
        <5>1. PICK ids : ids = <<x>>
          OBVIOUS
        <5>2. ids \in Seq(Nat) /\ IsInjective(ids) /\ ToSet(ids) = {x} /\ Len(ids) = 1 /\ ids[1] = x
          BY <2>3, <5>1 DEF IsInjective, ToSet
        <5>3. \A l \in 1..Len(ids) : ids[l] \in DOMAIN g.obj /\ g.obj[ids[l]].at = "heap"
          BY <1>2, <2>3, <4>1, <5>2
        <5>4. OnlyDeletes(g, u, ids)
          BY <1>2, <3>1, <4>1, <5>1, <5>2, <5>3, DeleteIs
        <5> QED
          BY <1>2, <4>1, <5>2, <5>4 DEF OnlyDeletes
      <4>2. CASE w[f] # "heap"
        BY <1>2, <3>1, <4>2
      <4> QED
        BY <4>1, <4>2
    <3>5. PICK G : G = [capacity |-> c, elems |-> placed, size |-> k]
      OBVIOUS
    <3>6. OnlyField(u, t, f, G)
      <4>1. u.field \in [Fields -> Rep] /\ u.field[f] = [capacity |-> c, elems |-> e, size |-> z]
        BY <1>2, <1>3, <1>5, <3>4
      <4> QED
        BY <3>3, <3>4, <3>5, <4>1, HoldIs
    <3>7. Placed(s, f, F, G, id, {x})
      <4>1. /\ G = [capacity |-> F.capacity, elems |-> [F.elems EXCEPT ![F.size + 1] = id], size |-> F.size + 1]
            /\ x = F.elems[F.size + 1]
        BY <1>4, <1>6, <2>2, <3>5
      <4> QED
        BY <1>3, <2>4, <4>1, PlacedOver
    <3>8. PutIn(s, t, f, G, id, IF w[f] = "heap" THEN {x} ELSE {})
      BY <3>4, <3>6 DEF OnlyField, PutIn
    <3> QED
      BY <1>3, <3>7, <3>8, PlacedIs
  <2>6. CASE n < c
    <3>1. F.size # F.capacity /\ Len(F.elems) # F.capacity /\ Len(F.elems) < F.capacity
      BY <1>4, <1>5, <1>8, <2>6
    <3>2. PICK elems : elems = Append(placed, x)
      OBVIOUS
    <3>3. t = Hold(g, f, elems, k)
      BY <1>3, <1>4, <1>6, <2>2, <2>4, <3>1, <3>2 DEF UnsafeArenaAddAllocated
    <3>4. PICK G : G = [capacity |-> c, elems |-> elems, size |-> k]
      OBVIOUS
    <3>5. OnlyField(g, t, f, G)
      <4>1. g.field[f] = [capacity |-> c, elems |-> e, size |-> z]
        BY <1>3, <1>5
      <4> QED
        BY <1>2, <3>3, <3>4, <4>1, HoldIs
    <3>6. Placed(s, f, F, G, id, {})
      <4>1. G = [capacity |-> F.capacity,
                 elems |-> Append([F.elems EXCEPT ![F.size + 1] = id], F.elems[F.size + 1]), size |-> F.size + 1]
        BY <1>4, <1>6, <2>2, <3>2, <3>4
      <4> QED
        BY <1>3, <2>4, <3>1, <4>1, PlacedFirst
    <3>7. PutIn(s, t, f, G, id, IF w[f] = "heap" THEN {} ELSE {})
      BY <1>2, <3>5 DEF OnlyField, PutIn
    <3> QED
      BY <1>3, <3>6, <3>7, PlacedIs
  <2> QED
    BY <1>5, <2>5, <2>6
<1>9. CASE z = n
  <2>1. F.size = Len(F.elems)
    BY <1>4, <1>9
  <2>2. ~ F.size < Len(F.elems) /\ (Len(F.elems) = F.capacity => F.size = F.capacity)
    BY <1>4, <1>5, <1>9
  <2>3. t = AppendElement(g, f, id)
    BY <1>3, <2>2 DEF UnsafeArenaAddAllocated
  <2> QED
    BY <1>7, <1>9, <2>3
<1> QED
  BY <1>5, <1>8, <1>9

-------------------------------------------------------------------------------
(* The user's objects.                                                        *)

\* The fields and their elements stay, and so do the arenas' objects.
UserOnly(s, t) ==
  /\ IsMemory(t) /\ ~t.wrong /\ ObjectsOK(t.obj) /\ t.field = s.field
  /\ \A id \in DOMAIN s.obj \ s.user : id \in DOMAIN t.obj /\ t.obj[id] = s.obj[id] /\ id \notin t.user
  /\ t.user \subseteq DOMAIN t.obj
  /\ \A id \in DOMAIN t.obj : t.obj[id].at = "heap" => id \in t.user \/ id \in DOMAIN s.obj \ s.user

SameValues(s, t) == \A f \in Fields : Values(t, f) = Values(s, f) /\ t.field[f] = s.field[f]

LEMMA UserOnlyIs ==
  ASSUME NEW w, NEW s, Owned(s, w), NEW t, UserOnly(s, t)
  PROVE  Owned(t, w) /\ SameValues(s, t)
<1>1. ASSUME NEW f \in Fields
      PROVE  Owned(t, w) /\ Values(t, f) = Values(s, f)
  <2>1. PICK F : FieldFacts(w, s, f, F)
    BY FieldFactsAre
  <2>2. F = s.field[f] /\ FieldOK(s.obj, F, w[f]) /\ Elems(s, f) = ToSet(F.elems) /\ DOMAIN F.elems = 1..Len(F.elems)
    BY <2>1 DEF FieldFacts
  <2>3. \A id \in Elems(s, f) : id \in DOMAIN s.obj \ s.user
    <3>1. \A i \in 1..Len(F.elems) : F.elems[i] \in DOMAIN s.obj
      BY <2>1 DEF FieldFacts
    <3>2. Elems(s, f) \cap s.user = {}
      BY OwnedIs
    <3> QED
      BY <2>2, <3>1, <3>2 DEF ToSet
  <2>4. \A id \in ToSet(F.elems) : id \in DOMAIN t.obj /\ t.obj[id] = s.obj[id] /\ id \notin t.user
    BY <2>2, <2>3 DEF UserOnly
  <2>5. FieldOK(t.obj, F, w[f]) /\ ListOf(t.obj, F) = ListOf(s.obj, F)
    BY <2>2, <2>4, FieldStays
  <2>6. FieldTo(s, t, f, F)
    <3>1. /\ IsMemory(t) /\ ~t.wrong /\ ObjectsOK(t.obj) /\ t.field = s.field /\ t.user \subseteq DOMAIN t.obj
          /\ s.field = [s.field EXCEPT ![f] = F]
      BY <2>2, OwnedIs DEF UserOnly
    <3>2. \A id \in Rest(s, f) : /\ id \in DOMAIN t.obj /\ t.obj[id] = s.obj[id] /\ id \notin t.user
                                 /\ id \notin ToSet(F.elems)
      BY <2>2 DEF UserOnly, Rest
    <3>3. ToSet(F.elems) \cap t.user = {}
      BY <2>4
    <3>4. \A id \in DOMAIN t.obj : t.obj[id].at = "heap" => id \in t.user \/ id \in ToSet(F.elems) \/ id \in Rest(s, f)
      BY <2>2 DEF UserOnly, Rest
    <3> QED
      BY <3>1, <3>2, <3>3, <3>4 DEF FieldTo
  <2>7. Owned(t, w) /\ Values(t, f) = ListOf(t.obj, F)
    BY <2>5, <2>6, FieldBecomes
  <2> QED
    BY <2>2, <2>5, <2>7 DEF Values, ListOf
<1>2. "temp" \in Fields /\ t.field = s.field
  BY DEF Fields, UserOnly
<1> QED
  BY <1>1, <1>2 DEF SameValues

\* A new object of the user's.
UserHas(w, s, u, t, id, object) ==
  /\ Owned(t, w) /\ SameValues(s, t) /\ WithoutUser(t, u, {id}) /\ id \in t.user /\ t.obj[id] = object

LEMMA UserNewIs ==
  ASSUME NEW w, NEW s, Owned(s, w), NEW at \in Place, NEW val \in Val,
         NEW u, u = New(s, at, <<val>>), NEW id, id = Highest(s) + 1,
         NEW t, t = [u EXCEPT !.user = @ \cup {id}]
  PROVE  UserHas(w, s, u, t, id, [at |-> at, val |-> val])
<1>1. IsMemory(s) /\ ~s.wrong /\ ObjectsOK(s.obj) /\ s.user \subseteq DOMAIN s.obj
  BY OwnedIs
<1>2. PICK vals : vals = <<val>>
  OBVIOUS
<1>3. vals \in Seq(Val) /\ Len(vals) = 1 /\ vals[1] = val
  BY <1>2
<1>4. OnlyNew(s, u, at, vals)
  BY <1>1, <1>2, <1>3, NewIs
<1>5. PICK n \in Nat : n = Highest(s)
  BY <1>1, HighestIs
<1>6. id = n + 1 /\ (n + 1)..(n + Len(vals)) = {id} /\ n + 1 = id
  BY <1>3, <1>5
<1>7. /\ IsMemory(u) /\ u.user = s.user /\ u.wrong = s.wrong /\ u.field = s.field /\ ObjectsOK(u.obj)
      /\ DOMAIN u.obj = DOMAIN s.obj \cup {id}
      /\ \A i \in DOMAIN s.obj : u.obj[i] = s.obj[i] /\ i # id
      /\ u.obj[id] = [at |-> at, val |-> val]
  <2>1. 1 \in 1..Len(vals)
    BY <1>3
  <2>2. u.obj[n + 1] = [at |-> at, val |-> vals[1]]
    BY <1>4, <1>5, <2>1 DEF OnlyNew
  <2> QED
    BY <1>3, <1>4, <1>5, <1>6, <2>2 DEF OnlyNew
<1>8. t = [obj |-> u.obj, user |-> u.user \cup {id}, wrong |-> u.wrong, field |-> u.field]
  BY <1>7 DEF IsMemory
<1>9. IsMemory(t) /\ t.obj = u.obj /\ t.user = u.user \cup {id} /\ t.wrong = u.wrong /\ t.field = u.field
  BY <1>8 DEF IsMemory
<1>10. UserOnly(s, t)
  BY <1>1, <1>7, <1>9 DEF UserOnly
<1>11. Owned(t, w) /\ SameValues(s, t)
  BY <1>10, UserOnlyIs
<1>12. WithoutUser(t, u, {id})
  BY <1>1, <1>7, <1>9 DEF WithoutUser
<1> QED
  BY <1>7, <1>9, <1>11, <1>12 DEF UserHas

\* An object of the user's that is deleted, or left to its arena.
LEMMA UserDeleteIs ==
  ASSUME NEW w, NEW s, Owned(s, w), NEW id \in s.user,
         NEW t, t = [(IF s.obj[id].at = "heap" THEN Delete(s, <<id>>) ELSE s) EXCEPT !.user = @ \ {id}]
  PROVE  Owned(t, w) /\ SameValues(s, t)
<1>1. /\ IsMemory(s) /\ ~s.wrong /\ ObjectsOK(s.obj) /\ s.user \subseteq DOMAIN s.obj
      /\ \A i \in DOMAIN s.obj : i \in Nat
  BY OwnedIs
<1>2. PICK u : u = IF s.obj[id].at = "heap" THEN Delete(s, <<id>>) ELSE s
  OBVIOUS
<1>3. /\ IsMemory(u) /\ ~u.wrong /\ u.field = s.field /\ u.user = s.user /\ ObjectsOK(u.obj)
      /\ DOMAIN u.obj = IF s.obj[id].at = "heap" THEN DOMAIN s.obj \ {id} ELSE DOMAIN s.obj
      /\ \A i \in DOMAIN u.obj : u.obj[i] = s.obj[i]
  <2>1. CASE s.obj[id].at = "heap"
    <3>1. PICK ids : ids = <<id>>
      OBVIOUS
    <3>2. ids \in Seq(Nat) /\ IsInjective(ids) /\ ToSet(ids) = {id} /\ Len(ids) = 1 /\ ids[1] = id
      BY <1>1, <3>1 DEF IsInjective, ToSet
    <3>3. \A l \in 1..Len(ids) : ids[l] \in DOMAIN s.obj /\ s.obj[ids[l]].at = "heap"
      BY <1>1, <2>1, <3>2
    <3>4. OnlyDeletes(s, u, ids)
      BY <1>1, <1>2, <2>1, <3>1, <3>2, <3>3, DeleteIs
    <3> QED
      BY <2>1, <3>2, <3>4 DEF OnlyDeletes
  <2>2. CASE s.obj[id].at # "heap"
    BY <1>1, <1>2, <2>2
  <2> QED
    BY <2>1, <2>2
<1>4. WithoutUser(u, t, {id})
  BY <1>2, <1>3, WithoutUserIs
<1>5. UserOnly(s, t)
  BY <1>1, <1>3, <1>4 DEF UserOnly, WithoutUser
<1> QED
  BY <1>5, UserOnlyIs

\* The user gives an object to a field.
LEMMA AddAllocatedIs ==
  ASSUME NEW w, NEW s, Owned(s, w), NEW f \in Fields, w[f] \in Place, NEW id \in s.user,
         NEW t, t = AddAllocated(s, f, id, w[f])
  PROVE  Makes(w, s, t, f, Append(Values(s, f), s.obj[id].val))
<1>1. /\ IsMemory(s) /\ ~s.wrong /\ ObjectsOK(s.obj) /\ s.user \subseteq DOMAIN s.obj
      /\ id \in DOMAIN s.obj /\ s.obj[id] \in Object /\ s.obj \in [DOMAIN s.obj -> Object]
  BY OwnedIs
<1>2. PICK at : at = w[f]
  OBVIOUS
<1>3. PICK val \in Val : val = s.obj[id].val /\ s.obj[id] = [at |-> s.obj[id].at, val |-> val]
  BY <1>1 DEF Object
<1>4. PICK given : given = [s EXCEPT !.user = @ \ {id}]
  OBVIOUS
<1>5. WithoutUser(s, given, {id})
  BY <1>1, <1>4, WithoutUserIs
\* It is enough that the field gets an object of this value, which may be another.
<1>6. ASSUME NEW a, Owned(a, w), SameValues(s, a), NEW i \in a.user, a.obj[i] = [at |-> at, val |-> val],
             NEW g, WithoutUser(a, g, {i}), t = UnsafeArenaAddAllocated(g, f, i, at)
      PROVE  Makes(w, s, t, f, Append(Values(s, f), s.obj[id].val))
  <2>1. a.obj[i].at = w[f] /\ a.obj[i].val = val
    BY <1>2, <1>6
  <2>2. Makes(w, a, t, f, Append(Values(a, f), a.obj[i].val))
    BY <1>2, <1>6, <2>1, UnsafeAddIs
  <2> QED
    BY <1>3, <1>6, <2>1, <2>2 DEF Makes, SameLists, SameValues
<1>7. CASE at # "heap" /\ s.obj[id].at = "heap"
  <2>1. PICK o : o = [s.obj EXCEPT ![id] = [at |-> at, val |-> val]]
    OBVIOUS
  <2>2. PICK a : a = [obj |-> o, user |-> s.user, wrong |-> s.wrong, field |-> s.field]
    OBVIOUS
  <2>3. IsMemory(a) /\ a.obj = o /\ a.user = s.user /\ a.wrong = s.wrong /\ a.field = s.field
    BY <2>2 DEF IsMemory
  <2>4. /\ DOMAIN o = DOMAIN s.obj /\ o[id] = [at |-> at, val |-> val]
        /\ \A i \in DOMAIN s.obj \ {id} : o[i] = s.obj[i]
        /\ o \in [DOMAIN o -> Object]
    <3>1. [at |-> at, val |-> val] \in Object
      BY <1>2 DEF Object
    <3> QED
      BY <1>1, <2>1, <3>1
  <2>5. ObjectsOK(o)
    BY <1>1, <2>4 DEF ObjectsOK
  <2>6. UserOnly(s, a)
    BY <1>1, <1>7, <2>3, <2>4, <2>5 DEF UserOnly
  <2>7. Owned(a, w) /\ SameValues(s, a)
    BY <2>6, UserOnlyIs
  <2>8. PICK g : g = [given EXCEPT !.obj[id].at = at]
    OBVIOUS
  <2>9. WithoutUser(a, g, {id})
    <3>1. [s.obj[id] EXCEPT !.at = at] = [at |-> at, val |-> val]
      BY <1>3
    <3>2. g = [given EXCEPT !.obj = [given.obj EXCEPT ![id] = [given.obj[id] EXCEPT !.at = at]]]
      BY <1>5, <2>8 DEF WithoutUser, IsMemory
    <3>3. [given.obj EXCEPT ![id] = [given.obj[id] EXCEPT !.at = at]] = o
      BY <1>5, <2>1, <3>1 DEF WithoutUser
    <3>4. g = [obj |-> o, user |-> given.user, wrong |-> given.wrong, field |-> given.field]
      BY <1>5, <3>2, <3>3 DEF WithoutUser, IsMemory
    <3> QED
      BY <1>5, <2>3, <3>4 DEF WithoutUser, IsMemory
  <2>10. t = UnsafeArenaAddAllocated(g, f, id, at)
    BY <1>2, <1>4, <1>7, <2>8 DEF AddAllocated
  <2>11. a.obj[id] = [at |-> at, val |-> val] /\ id \in a.user
    BY <2>3, <2>4
  <2> QED
    BY <1>6, <2>7, <2>9, <2>10, <2>11
<1>8. CASE ~(at # "heap" /\ s.obj[id].at = "heap") /\ at # s.obj[id].at
  <2>1. PICK u, i : u = New(s, at, <<val>>) /\ i = Highest(s) + 1
    OBVIOUS
  <2>2. PICK a : a = [u EXCEPT !.user = @ \cup {i}]
    OBVIOUS
  <2>3. UserHas(w, s, u, a, i, [at |-> at, val |-> val])
    BY <1>2, <2>1, <2>2, UserNewIs
  <2>4. t = UnsafeArenaAddAllocated(u, f, i, at)
    BY <1>2, <1>3, <1>8, <2>1 DEF AddAllocated
  <2> QED
    BY <1>6, <2>3, <2>4 DEF UserHas
<1>9. CASE at = s.obj[id].at
  <2>1. t = UnsafeArenaAddAllocated(given, f, id, at)
    BY <1>2, <1>4, <1>9 DEF AddAllocated
  <2>2. SameValues(s, s)
    BY DEF SameValues
  <2> QED
    BY <1>3, <1>5, <1>6, <1>9, <2>1, <2>2
<1> QED
  BY <1>7, <1>8, <1>9

-------------------------------------------------------------------------------
(* The methods that exchange elements.                                        *)

\* Two fields on one arena exchange their representations.
Swapped(w, s, t, f, g) ==
  /\ Owned(t, w) /\ Values(t, f) = Values(s, g) /\ Values(t, g) = Values(s, f)
  /\ \A h \in Fields \ {f, g} : Values(t, h) = Values(s, h) /\ t.field[h] = s.field[h]

LEMMA InternalSwapIs ==
  ASSUME NEW w, NEW s, Owned(s, w), NEW f \in Fields, NEW g \in Fields, f # g, w[f] = w[g],
         NEW t, t = InternalSwap(s, f, g)
  PROVE  Swapped(w, s, t, f, g)
<1>1. IsMemory(s) /\ s.field \in [Fields -> Rep]
  BY OwnedIs
<1>2. PICK F, G : F = s.field[f] /\ G = s.field[g]
  OBVIOUS
<1>3. PICK d : d = [s.field EXCEPT ![f] = G, ![g] = F]
  OBVIOUS
<1>4. t = [obj |-> s.obj, user |-> s.user, wrong |-> s.wrong, field |-> d]
  <2>1. PICK u : u = [s EXCEPT !.field[f] = s.field[g]]
    OBVIOUS
  <2>2. u = [obj |-> s.obj, user |-> s.user, wrong |-> s.wrong, field |-> [s.field EXCEPT ![f] = G]]
    BY <1>1, <1>2, <2>1 DEF IsMemory
  <2>3. t = [u EXCEPT !.field[g] = s.field[f]]
    BY <2>1 DEF InternalSwap
  <2>4. t = [obj |-> s.obj, user |-> s.user, wrong |-> s.wrong, field |-> [[s.field EXCEPT ![f] = G] EXCEPT ![g] = F]]
    BY <1>2, <2>2, <2>3
  <2> QED
    BY <1>3, <2>4
<1>5. IsMemory(t) /\ t.obj = s.obj /\ t.user = s.user /\ t.wrong = s.wrong /\ t.field = d
  BY <1>4 DEF IsMemory
<1>6. /\ d \in [Fields -> Rep] /\ d[f] = G /\ d[g] = F
      /\ \A h \in Fields \ {f, g} : d[h] = s.field[h]
  BY <1>1, <1>2, <1>3
<1>7. /\ Elems(t, f) = Elems(s, g) /\ Elems(t, g) = Elems(s, f)
      /\ \A h \in Fields \ {f, g} : Elems(t, h) = Elems(s, h)
  BY <1>2, <1>5, <1>6 DEF Elems
<1>8. \A h \in Fields : FieldOK(s.obj, s.field[h], w[h])
  BY DEF Owned
<1>9. \A h \in Fields : FieldOK(t.obj, t.field[h], w[h])
  BY <1>2, <1>5, <1>6, <1>8
<1>10. \A h, i \in Fields : h # i => Elems(s, h) \cap Elems(s, i) = {}
  BY DEF Owned
<1>11. \A h \in Fields : h = f \/ h = g \/ h \in Fields \ {f, g}
  OBVIOUS
<1>12. ASSUME NEW h \in Fields, NEW i \in Fields, h # i
       PROVE  Elems(t, h) \cap Elems(t, i) = {}
  <2>1. CASE h \in Fields \ {f, g} /\ i \in Fields \ {f, g}
    BY <1>7, <1>10, <1>12, <2>1
  <2>2. CASE h \in Fields \ {f, g} /\ i \in {f, g}
    BY <1>7, <1>10, <2>2
  <2>3. CASE h \in {f, g} /\ i \in Fields \ {f, g}
    BY <1>7, <1>10, <2>3
  <2>4. CASE h \in {f, g} /\ i \in {f, g}
    BY <1>7, <1>10, <1>12, <2>4
  <2> QED
    BY <2>1, <2>2, <2>3, <2>4
<1>13. ASSUME NEW h \in Fields
       PROVE  Elems(t, h) \cap t.user = {}
  BY <1>5, <1>7, <1>11, OwnedIs
<1>14. ASSUME NEW id \in DOMAIN t.obj, t.obj[id].at = "heap", id \notin t.user
       PROVE  \E h \in Fields : id \in Elems(t, h)
  <2>1. PICK h \in Fields : id \in Elems(s, h)
    BY <1>5, <1>14 DEF Owned
  <2> QED
    BY <1>7, <1>11, <2>1
<1>15. Owned(t, w)
  <2>1. ~t.wrong /\ ObjectsOK(t.obj) /\ t.user \subseteq DOMAIN t.obj
    BY <1>5, OwnedIs
  <2> QED
    BY <1>5, <1>6, <1>9, <1>12, <1>13, <1>14, <2>1 DEF Owned
<1> QED
  BY <1>2, <1>5, <1>6, <1>15 DEF Values, Swapped

\* Where the temporary is does not matter while it is empty.
LEMMA RehomedIs ==
  ASSUME NEW s, NEW a, Owned(s, Homes(a)), s.field["temp"].elems = <<>>, NEW b
  PROVE  Owned(s, Homes(b))
<1>1. "temp" \in Fields
  BY DEF Fields
<1>2. \A f \in Fields : f # "temp" => Homes(b)[f] = Homes(a)[f]
  BY DEF Homes
<1>3. \A f \in Fields : FieldOK(s.obj, s.field[f], Homes(a)[f])
  BY DEF Owned
<1>4. FieldOK(s.obj, s.field["temp"], Homes(b)["temp"])
  <2>1. PICK F : F = s.field["temp"]
    OBVIOUS
  <2>2. 1..Len(F.elems) = {}
    BY <2>1
  <2> QED
    BY <1>1, <1>3, <2>1, <2>2 DEF FieldOK
<1>5. \A f \in Fields : FieldOK(s.obj, s.field[f], Homes(b)[f])
  BY <1>2, <1>3, <1>4
<1> QED
  BY <1>5 DEF Owned

\* A swap across arenas: the temporary is there for the time of the swap.
LEMMA SwapFallbackIs ==
  ASSUME NEW s, Owned(s, Homes("heap")), s.field["temp"] = NoElements, "temp" \notin Field,
         \A h \in Field : arena[h] \in Place,
         NEW f \in Field, NEW g \in Field, f # g,
         NEW t, t = SwapFallback(s, f, g, arena[f], arena[g])
  PROVE  Swapped(Homes("heap"), s, t, f, g) /\ t.field["temp"] = NoElements
<1>1. PICK w : w = Homes(arena[g])
  OBVIOUS
<1>2. /\ f \in Fields /\ g \in Fields /\ "temp" \in Fields /\ f # "temp" /\ g # "temp"
      /\ w["temp"] = arena[g] /\ w[f] = arena[f] /\ w[g] = arena[g]
      /\ w["temp"] \in Place /\ w[f] \in Place /\ w[g] \in Place
  BY <1>1 DEF Homes, Fields
<1>3. Owned(s, w)
  <2>1. s.field["temp"].elems = <<>>
    BY DEF NoElements
  <2> QED
    BY <1>1, <2>1, RehomedIs
<1>4. PICK a : a = IF s.field[f].size = 0 THEN s ELSE MergeFrom(s, "temp", f, arena[g])
  OBVIOUS
<1>5. PICK v \in Seq(Val) : v = Values(s, f) /\ Len(v) = s.field[f].size
  <2>1. Values(s, f) \in Seq(Val) /\ Len(Values(s, f)) = s.field[f].size
    BY <1>2, <1>3, FieldIs
  <2> QED
    BY <2>1
<1>6. Values(s, "temp") = <<>>
  <2>1. s.field["temp"].size = 0
    BY DEF NoElements
  <2> QED
    BY <2>1 DEF Values
<1>7. Owned(a, w) /\ SameLists(s, a, "temp") /\ Values(a, "temp") = v
  <2>1. CASE s.field[f].size = 0
    <3>1. a = s /\ v = <<>>
      BY <1>4, <1>5, <2>1
    <3> QED
      BY <1>3, <1>6, <3>1 DEF SameLists
  <2>2. CASE s.field[f].size # 0
    <3>1. a = MergeFrom(s, "temp", f, w["temp"])
      BY <1>2, <1>4, <2>2
    <3>2. Makes(w, s, a, "temp", Values(s, "temp") \o Values(s, f))
      BY <1>2, <1>3, <3>1, MergeFromIs
    <3>3. <<>> \o v = v
      BY <1>5, ConcatEmptySeq
    <3> QED
      BY <1>5, <1>6, <3>2, <3>3 DEF Makes
  <2> QED
    BY <2>1, <2>2
<1>8. PICK b : b = CopyFrom(a, f, g, w[f])
  OBVIOUS
<1>9. Makes(w, a, b, f, Values(a, g))
  BY <1>2, <1>7, <1>8, CopyFromIs
<1>10. Owned(b, w) /\ SameLists(a, b, f) /\ Values(b, f) = Values(s, g) /\ Values(b, "temp") = v
  BY <1>2, <1>7, <1>9 DEF Makes, SameLists
<1>11. PICK c : c = InternalSwap(b, g, "temp")
  OBVIOUS
<1>12. Swapped(w, b, c, g, "temp")
  BY <1>2, <1>10, <1>11, InternalSwapIs
<1>13. /\ Owned(c, w) /\ Values(c, g) = v
       /\ \A h \in Fields \ {g, "temp"} : Values(c, h) = Values(b, h) /\ c.field[h] = b.field[h]
  BY <1>10, <1>12 DEF Swapped
<1>14. t = Destroyed(c, "temp", w["temp"])
  BY <1>2, <1>4, <1>8, <1>11 DEF SwapFallback
<1>15. Makes(w, c, t, "temp", <<>>) /\ t.field["temp"] = NoElements
  BY <1>2, <1>13, <1>14, DestroyedIs
<1>16. Owned(t, Homes("heap"))
  <2>1. t.field["temp"].elems = <<>> /\ Owned(t, Homes(arena[g]))
    BY <1>1, <1>15 DEF NoElements, Makes
  <2> QED
    BY <2>1, RehomedIs
<1>17. \A h \in Fields \ {"temp"} : Values(t, h) = Values(c, h) /\ t.field[h] = c.field[h]
  BY <1>15 DEF Makes, SameLists
<1>18. Values(t, f) = Values(s, g) /\ Values(t, g) = Values(s, f)
  BY <1>2, <1>5, <1>10, <1>13, <1>17
<1>19. Values(t, "temp") = Values(s, "temp") /\ t.field["temp"] = s.field["temp"]
  BY <1>6, <1>15 DEF Makes
<1>20. \A h \in Fields \ {f, g, "temp"} : Values(t, h) = Values(s, h) /\ t.field[h] = s.field[h]
  BY <1>2, <1>7, <1>10, <1>13, <1>17 DEF SameLists
<1> QED
  BY <1>15, <1>16, <1>18, <1>19, <1>20 DEF Swapped

\* Two elements of a field change places.
Exchanged(e, i, j) == [e EXCEPT ![i] = e[j], ![j] = e[i]]

LEMMA ExchangedIs ==
  ASSUME NEW S, NEW e \in Seq(S), NEW n, n = Len(e), NEW i \in 1..n, NEW j \in 1..n,
         NEW g, g = Exchanged(e, i, j)
  PROVE  /\ g \in Seq(S) /\ Len(g) = n /\ DOMAIN g = 1..n
         /\ \A k \in 1..n : g[k] = IF k = j THEN e[i] ELSE IF k = i THEN e[j] ELSE e[k]
<1>1. n \in Nat /\ DOMAIN e = 1..n /\ e[i] \in S /\ e[j] \in S
  BY ElementOfSeq
<1>2. PICK d : d = [e EXCEPT ![i] = e[j]]
  OBVIOUS
<1>3. d \in Seq(S) /\ Len(d) = n /\ \A k \in 1..n : d[k] = IF k = i THEN e[j] ELSE e[k]
  BY <1>1, <1>2, ExceptSeq
<1>4. g = [d EXCEPT ![j] = e[i]]
  BY <1>2 DEF Exchanged
<1>5. g \in Seq(S) /\ Len(g) = n /\ DOMAIN d = 1..n
  BY <1>1, <1>3, <1>4, ExceptSeq
<1>6. \A k \in 1..n : g[k] = IF k = j THEN e[i] ELSE d[k]
  BY <1>4, <1>5
<1> QED
  BY <1>3, <1>5, <1>6

Exchange(s, f, i, j) == [s EXCEPT !.field[f].elems = Exchanged(s.field[f].elems, i, j)]

LEMMA ExchangeIs ==
  ASSUME NEW w, NEW s, Owned(s, w), NEW f \in Fields, NEW i \in 1..s.field[f].size, NEW j \in 1..s.field[f].size,
         NEW t, t = Exchange(s, f, i, j)
  PROVE  Makes(w, s, t, f, Exchanged(Values(s, f), i, j))
<1>1. PICK F : FieldFacts(w, s, f, F)
  BY FieldFactsAre
<1>2. PICK e, z, n, c : e = F.elems /\ z = F.size /\ n = Len(F.elems) /\ c = F.capacity
  OBVIOUS
<1>3. /\ F = s.field[f] /\ F = [capacity |-> c, elems |-> e, size |-> z]
      /\ e \in Seq(Nat) /\ z \in Nat /\ n \in Nat /\ c \in Nat /\ n = Len(e) /\ DOMAIN e = 1..n /\ z <= n /\ n <= c
      /\ Elems(s, f) = ToSet(e)
      /\ \A k \in 1..n : /\ e[k] \in Elems(s, f) /\ e[k] \in DOMAIN s.obj /\ s.obj[e[k]].at = w[f]
                         /\ k > z => s.obj[e[k]].val = Empty
      /\ \A k, l \in 1..n : e[k] = e[l] => k = l
  BY <1>1, <1>2 DEF FieldFacts
<1>4. PICK v \in Seq(Val) : v = Values(s, f) /\ Len(v) = z /\ \A k \in 1..z : v[k] = s.obj[e[k]].val
  <2>1. /\ Values(s, f) \in Seq(Val) /\ Len(Values(s, f)) = z
        /\ \A k \in 1..z : Values(s, f)[k] = s.obj[e[k]].val
    BY <1>1, <1>2 DEF FieldFacts
  <2> QED
    BY <2>1
<1>5. i \in 1..z /\ j \in 1..z
  BY <1>2, <1>3
<1>6. \A k \in 1..z : k \in 1..n
  BY <1>3
<1>7. i \in 1..n /\ j \in 1..n
  BY <1>5, <1>6
<1>8. PICK g : g = Exchanged(e, i, j)
  OBVIOUS
<1>9. /\ g \in Seq(Nat) /\ Len(g) = n /\ DOMAIN g = 1..n
      /\ \A k \in 1..n : g[k] = IF k = j THEN e[i] ELSE IF k = i THEN e[j] ELSE e[k]
  <2>1. PICK N : N = Nat
    OBVIOUS
  <2>2. e \in Seq(N) /\ n = Len(e)
    BY <1>3, <2>1
  <2>3. /\ g \in Seq(N) /\ Len(g) = n /\ DOMAIN g = 1..n
        /\ \A k \in 1..n : g[k] = IF k = j THEN e[i] ELSE IF k = i THEN e[j] ELSE e[k]
    BY <1>7, <1>8, <2>2, ExchangedIs
  <2> QED
    BY <2>1, <2>3
<1>10. PICK q : q = Exchanged(v, i, j)
  OBVIOUS
<1>11. /\ q \in Seq(Val) /\ Len(q) = z /\ DOMAIN q = 1..z
       /\ \A k \in 1..z : q[k] = IF k = j THEN v[i] ELSE IF k = i THEN v[j] ELSE v[k]
  BY <1>4, <1>5, <1>10, ExchangedIs
<1>12. PICK G : G = [capacity |-> c, elems |-> g, size |-> z]
  OBVIOUS
<1>13. G.capacity = c /\ G.elems = g /\ G.size = z
  BY <1>12
<1>14. OnlyField(s, t, f, G)
  <2>1. IsMemory(s) /\ s.field \in [Fields -> Rep]
    BY OwnedIs
  <2>2. PICK Q : Q = [F EXCEPT !.elems = g]
    OBVIOUS
  <2>3. Q = G
    BY <1>3, <1>12, <2>2
  <2>4. t = [s EXCEPT !.field = [s.field EXCEPT ![f] = Q]]
    BY <1>2, <1>3, <1>8, <2>1, <2>2 DEF IsMemory, Exchange
  <2> QED
    BY <2>1, <2>3, <2>4, WithField
<1>15. \A k \in 1..n : \E l \in 1..n : g[k] = e[l]
  BY <1>7, <1>9
<1>16. \A k \in 1..n : \E l \in 1..n : e[k] = g[l]
  BY <1>7, <1>9
<1>17. ToSet(g) = ToSet(e)
  <2>1. DOMAIN g = 1..n /\ DOMAIN e = 1..n
    BY <1>3, <1>9
  <2> QED
    <3>1. ToSet(g) = {g[k] : k \in 1..n} /\ ToSet(e) = {e[k] : k \in 1..n}
      BY <2>1 DEF ToSet
    <3>2. {g[k] : k \in 1..n} \subseteq {e[k] : k \in 1..n}
      BY <1>15
    <3>3. {e[k] : k \in 1..n} \subseteq {g[k] : k \in 1..n}
      BY <1>16
    <3> QED
      BY <3>1, <3>2, <3>3
<1>18. FieldOK(t.obj, G, w[f])
  <2>1. G \in Rep
    BY <1>3, <1>9, <1>12 DEF Rep
  <2>2. IsInjective(g)
    <3>1. ASSUME NEW k \in 1..n, NEW l \in 1..n, g[k] = g[l]
          PROVE  k = l
      BY <1>3, <1>7, <1>9, <3>1
    <3> QED
      BY <1>9, <3>1 DEF IsInjective
  <2>3. t.obj = s.obj
    BY <1>14 DEF OnlyField
  <2>4. ASSUME NEW k \in 1..n
        PROVE  g[k] \in DOMAIN t.obj /\ t.obj[g[k]].at = w[f] /\ (k > z => t.obj[g[k]].val = Empty)
    <3>1. g[k] \in DOMAIN t.obj /\ t.obj[g[k]].at = w[f]
      <4>1. PICK l \in 1..n : g[k] = e[l]
        BY <1>15
      <4>2. e[l] \in DOMAIN s.obj /\ s.obj[e[l]].at = w[f]
        BY <1>3
      <4> QED
        BY <2>3, <4>1, <4>2
    <3>2. k > z => k # i /\ k # j
      BY <1>3, <1>5
    <3> QED
      BY <1>3, <1>9, <2>3, <3>1, <3>2
  <2> QED
    BY <1>3, <1>9, <1>13, <2>1, <2>2, <2>4 DEF FieldOK
<1>19. FieldTo(s, t, f, G)
  <2>1. IsMemory(s) /\ ~s.wrong /\ ObjectsOK(s.obj) /\ s.user \subseteq DOMAIN s.obj /\ Elems(s, f) \cap s.user = {}
    BY OwnedIs
  <2>2. ToSet(G.elems) = Elems(s, f)
    BY <1>3, <1>13, <1>17
  <2> QED
    BY <1>14, <2>1, <2>2 DEF FieldTo, OnlyField, Rest
<1>20. ListOf(t.obj, G) = q
  <2>1. ListOf(t.obj, G) = [k \in 1..z |-> s.obj[g[k]].val]
    BY <1>13, <1>14 DEF ListOf, OnlyField
  <2>2. \A k \in 1..z : s.obj[g[k]].val = q[k]
    BY <1>4, <1>5, <1>6, <1>9, <1>11
  <2>3. q = [k \in 1..z |-> q[k]]
    BY <1>11
  <2> QED
    BY <2>1, <2>2, <2>3
<1>21. Owned(t, w) /\ SameLists(s, t, f) /\ Values(t, f) = ListOf(t.obj, G)
  BY <1>18, <1>19, FieldBecomes
<1>22. q = Exchanged(Values(s, f), i, j)
  BY <1>4, <1>10
<1> QED
  BY <1>20, <1>21, <1>22 DEF Makes

-------------------------------------------------------------------------------
(* New names for the objects.                                                 *)

\* The objects of K have new names nm, and the others are forgotten.
RenamesTo(s, t, K, nm) ==
  /\ IsMemory(t) /\ t.wrong = s.wrong
  /\ t.obj = [i \in DOMAIN t.obj |-> t.obj[i]]
  /\ DOMAIN t.obj = {nm[id] : id \in K \cap DOMAIN s.obj}
  /\ \A id \in K \cap DOMAIN s.obj : t.obj[nm[id]] = s.obj[id]
  /\ t.field = [f \in Fields |-> [s.field[f] EXCEPT !.elems = [i \in DOMAIN s.field[f].elems |-> nm[s.field[f].elems[i]]]]]
  /\ t.user = {nm[id] : id \in s.user}

\* nm renames all that counts.
Names(s, K, nm) ==
  /\ \A id \in K : nm[id] \in Nat
  /\ \A i, j \in K : nm[i] = nm[j] => i = j
  /\ \E b \in Nat : \A id \in K : nm[id] \in 1..b
  /\ s.user \subseteq K /\ \A f \in Fields : Elems(s, f) \subseteq K
  /\ \A id \in DOMAIN s.obj : s.obj[id].at = "heap" => id \in K

LEMMA RenamingIs ==
  ASSUME NEW w, NEW s, Owned(s, w), s.field["temp"] = NoElements,
         NEW K, NEW nm, Names(s, K, nm), NEW t, RenamesTo(s, t, K, nm)
  PROVE  /\ Owned(t, w) /\ \A f \in Fields : Values(t, f) = Values(s, f)
         /\ t.field["temp"] = NoElements
<1>1. /\ IsMemory(t) /\ t.wrong = s.wrong
      /\ DOMAIN t.obj = {nm[id] : id \in K \cap DOMAIN s.obj}
      /\ \A id \in K \cap DOMAIN s.obj : t.obj[nm[id]] = s.obj[id]
      /\ t.user = {nm[id] : id \in s.user}
  BY DEF RenamesTo
<1>2. /\ \A id \in K : nm[id] \in Nat
      /\ \A i, j \in K : nm[i] = nm[j] => i = j
      /\ \E b \in Nat : \A id \in K : nm[id] \in 1..b
      /\ s.user \subseteq K /\ \A f \in Fields : Elems(s, f) \subseteq K
      /\ \A id \in DOMAIN s.obj : s.obj[id].at = "heap" => id \in K
  BY DEF Names
<1>3. ASSUME NEW f \in Fields
      PROVE  /\ FieldOK(t.obj, t.field[f], w[f]) /\ t.field[f] \in Rep
             /\ Elems(t, f) = {nm[id] : id \in Elems(s, f)}
             /\ Values(t, f) = Values(s, f)
             /\ s.field[f] = NoElements => t.field[f] = NoElements
  <2>1. PICK F : FieldFacts(w, s, f, F)
    BY FieldFactsAre
  <2>2. PICK e, z, n, c : e = F.elems /\ z = F.size /\ n = Len(F.elems) /\ c = F.capacity
    OBVIOUS
  <2>3. /\ F = s.field[f] /\ F = [capacity |-> c, elems |-> e, size |-> z]
        /\ e \in Seq(Nat) /\ z \in Nat /\ n \in Nat /\ c \in Nat /\ DOMAIN e = 1..n /\ z <= n /\ n <= c
        /\ Elems(s, f) = ToSet(e)
    BY <2>1, <2>2 DEF FieldFacts
  <2>4. /\ \A i \in 1..n : /\ e[i] \in Elems(s, f) /\ e[i] \in DOMAIN s.obj /\ s.obj[e[i]].at = w[f]
                           /\ i > z => s.obj[e[i]].val = Empty
        /\ \A i, j \in 1..n : e[i] = e[j] => i = j
    BY <2>1, <2>2 DEF FieldFacts
  <2>5. PICK g : g = [i \in 1..n |-> nm[e[i]]]
    OBVIOUS
  <2>6. \A i \in 1..n : e[i] \in K
    BY <1>2, <2>4
  <2>7. g \in Seq(Nat) /\ Len(g) = n /\ DOMAIN g = 1..n /\ \A i \in 1..n : g[i] = nm[e[i]]
    <3>1. \A i \in 1..n : nm[e[i]] \in Nat
      BY <1>2, <2>6
    <3>2. DOMAIN g = 1..n /\ \A i \in 1..n : g[i] = nm[e[i]]
      BY <2>5
    <3>3. g \in [1..n -> Nat]
      BY <2>5, <3>1
    <3>4. n \in Nat
      BY <2>3
    <3>5. g \in Seq(Nat) /\ Len(g) = n
      BY <3>3, <3>4
    <3> QED
      BY <3>2, <3>5
  <2>8. PICK G : G = [capacity |-> c, elems |-> g, size |-> z]
    OBVIOUS
  <2>9. G.capacity = c /\ G.elems = g /\ G.size = z
    BY <2>8
  <2>10. t.field[f] = G
    <3>1. t.field[f] = [s.field[f] EXCEPT !.elems = [i \in DOMAIN s.field[f].elems |-> nm[s.field[f].elems[i]]]]
      BY DEF RenamesTo
    <3>2. s.field[f].elems = e /\ s.field[f] = F /\ DOMAIN e = 1..n
      BY <2>2, <2>3
    <3>3. [i \in DOMAIN s.field[f].elems |-> nm[s.field[f].elems[i]]] = g
      BY <2>5, <3>2
    <3>4. t.field[f] = [F EXCEPT !.elems = g]
      BY <3>1, <3>2, <3>3
    <3>5. F = [capacity |-> c, elems |-> e, size |-> z]
      BY <2>3
    <3> QED
      BY <2>8, <3>4, <3>5
  <2>11. \A i \in 1..n : g[i] \in DOMAIN t.obj /\ t.obj[g[i]] = s.obj[e[i]]
    BY <1>1, <2>4, <2>6, <2>7
  <2>12. IsInjective(g)
    <3>1. \A i, j \in 1..n : g[i] = g[j] => i = j
      BY <1>2, <2>4, <2>6, <2>7
    <3> QED
      BY <2>7, <3>1 DEF IsInjective
  <2>13. G \in Rep
    BY <2>3, <2>7, <2>8 DEF Rep
  <2>14. FieldOK(t.obj, G, w[f])
    <3>1. \A i \in 1..n : /\ g[i] \in DOMAIN t.obj /\ t.obj[g[i]].at = w[f]
                          /\ i > z => t.obj[g[i]].val = Empty
      BY <2>4, <2>11
    <3> QED
      BY <2>3, <2>7, <2>9, <2>12, <2>13, <3>1 DEF FieldOK
  <2>15. Elems(t, f) = {nm[id] : id \in Elems(s, f)}
    <3>1. Elems(t, f) = {g[i] : i \in 1..n}
      BY <2>7, <2>9, <2>10 DEF Elems, ToSet
    <3>2. Elems(s, f) = {e[i] : i \in 1..n}
      BY <2>3 DEF ToSet
    <3>3. \A i \in 1..n : g[i] \in {nm[id] : id \in Elems(s, f)}
      BY <2>4, <2>7
    <3>4. \A i \in 1..n : nm[e[i]] \in {g[j] : j \in 1..n}
      BY <2>7
    <3> QED
      BY <3>1, <3>2, <3>3, <3>4
  <2>16. Values(t, f) = Values(s, f)
    <3>1. Values(t, f) = [i \in 1..z |-> t.obj[g[i]].val]
      BY <2>9, <2>10 DEF Values
    <3>2. Values(s, f) = [i \in 1..z |-> s.obj[e[i]].val]
      BY <2>2, <2>3 DEF Values
    <3>3. \A i \in 1..z : i \in 1..n
      BY <2>3
    <3>4. \A i \in 1..z : t.obj[g[i]].val = s.obj[e[i]].val
      BY <2>11, <3>3
    <3> QED
      BY <3>1, <3>2, <3>4
  <2>17. ASSUME s.field[f] = NoElements
         PROVE  t.field[f] = NoElements
    <3>1. c = 1 /\ e = <<>> /\ z = 0 /\ n = 0
      <4>1. F = NoElements /\ NoElements.capacity = 1 /\ NoElements.elems = <<>> /\ NoElements.size = 0
        BY <2>3, <2>17 DEF NoElements
      <4> QED
        BY <2>2, <4>1
    <3>2. g = <<>>
      BY <2>5, <3>1
    <3> QED
      BY <2>8, <2>10, <3>1, <3>2 DEF NoElements
  <2> QED
    BY <2>10, <2>13, <2>14, <2>15, <2>16, <2>17
<1>4. ObjectsOK(t.obj)
  <2>1. ASSUME NEW i \in DOMAIN t.obj
        PROVE  t.obj[i] \in Object
    <3>1. PICK id \in K \cap DOMAIN s.obj : i = nm[id]
      BY <1>1
    <3>2. s.obj[id] \in Object
      BY OwnedIs
    <3> QED
      BY <1>1, <3>1, <3>2
  <2>2. PICK b \in Nat : \A id \in K : nm[id] \in 1..b
    BY <1>2
  <2>3. DOMAIN t.obj \subseteq 1..b
    BY <1>1, <2>2
  <2>4. t.obj = [i \in DOMAIN t.obj |-> t.obj[i]]
    BY DEF RenamesTo
  <2> QED
    BY <2>1, <2>2, <2>3, <2>4 DEF ObjectsOK
<1>5. t.field \in [Fields -> Rep]
  <2>1. t.field = [f \in Fields |-> t.field[f]]
    BY DEF RenamesTo
  <2> QED
    BY <1>3, <2>1
<1>6. ASSUME NEW f \in Fields, NEW g \in Fields, f # g
      PROVE  Elems(t, f) \cap Elems(t, g) = {}
  <2>1. Elems(s, f) \cap Elems(s, g) = {}
    BY <1>6 DEF Owned
  <2>2. ASSUME NEW x \in Elems(t, f), x \in Elems(t, g)
        PROVE  FALSE
    <3>1. PICK i \in Elems(s, f) : x = nm[i]
      BY <1>3
    <3>2. PICK j \in Elems(s, g) : x = nm[j]
      BY <1>3, <2>2
    <3>3. i = j
      BY <1>2, <3>1, <3>2
    <3> QED
      BY <2>1, <3>3
  <2> QED
    BY <2>2
<1>7. t.user \subseteq DOMAIN t.obj
  <2>1. s.user \subseteq K \cap DOMAIN s.obj
    BY <1>2, OwnedIs
  <2> QED
    BY <1>1, <2>1
<1>8. ASSUME NEW f \in Fields
      PROVE  Elems(t, f) \cap t.user = {}
  <2>1. Elems(s, f) \cap s.user = {}
    BY OwnedIs
  <2>2. ASSUME NEW x \in Elems(t, f), x \in t.user
        PROVE  FALSE
    <3>1. PICK i \in Elems(s, f) : x = nm[i]
      BY <1>3
    <3>2. PICK j \in s.user : x = nm[j]
      BY <1>1, <2>2
    <3>3. i = j
      BY <1>2, <3>1, <3>2
    <3> QED
      BY <2>1, <3>3
  <2> QED
    BY <2>2
<1>9. ASSUME NEW x \in DOMAIN t.obj, t.obj[x].at = "heap"
      PROVE  x \in t.user \/ \E f \in Fields : x \in Elems(t, f)
  <2>1. PICK id \in K \cap DOMAIN s.obj : x = nm[id]
    BY <1>1
  <2>2. s.obj[id].at = "heap"
    BY <1>1, <1>9, <2>1
  <2>3. id \in s.user \/ \E f \in Fields : id \in Elems(s, f)
    BY <2>2 DEF Owned
  <2> QED
    BY <1>1, <1>3, <2>1, <2>3
<1>10. Owned(t, w)
  <2>1. ~t.wrong
    BY <1>1, OwnedIs
  <2> QED
    BY <1>1, <1>3, <1>4, <1>5, <1>6, <1>7, <1>8, <1>9, <2>1 DEF Owned
<1>11. "temp" \in Fields
  BY DEF Fields
<1> QED
  BY <1>3, <1>10, <1>11

\* What Renamed finds is all that counts,
LEMMA FoundIs ==
  ASSUME NEW w, NEW s, Owned(s, w), s.field["temp"] = NoElements, IsFiniteSet(Field),
         NEW found, found = Found(s)
  PROVE  /\ found \in Seq(Nat) /\ s.user \subseteq ToSet(found)
         /\ \A f \in Fields : Elems(s, f) \subseteq ToSet(found)
         /\ \A id \in DOMAIN s.obj : s.obj[id].at = "heap" => id \in ToSet(found)
<1>1. /\ s.user \subseteq DOMAIN s.obj /\ \A id \in DOMAIN s.obj : id \in Nat
      /\ s.field \in [Fields -> Rep]
  BY OwnedIs
<1>2. IsFiniteSet(DOMAIN s.obj)
  <2>1. PICK b \in Nat : DOMAIN s.obj \subseteq 1..b
    BY OwnedIs DEF ObjectsOK
  <2>2. IsFiniteSet(1..b)
    BY FS_Interval
  <2> QED
    BY <2>1, <2>2, FS_Subset
<1>3. PICK fields : fields = SetToSeq(Field)
  OBVIOUS
<1>4. fields \in Seq(Field) /\ ToSet(fields) = Field
  BY <1>3, SetToSeqIs
<1>5. PICK q : q = [i \in DOMAIN fields |-> s.field[fields[i]].elems]
  OBVIOUS
<1>6. PICK n \in Nat : n = Len(fields) /\ DOMAIN fields = 1..n
  BY <1>4
<1>7. \A i \in 1..n : fields[i] \in Field /\ fields[i] \in Fields
  BY <1>4, <1>6, ElementOfSeq DEF Fields
<1>8. q \in Seq(Seq(Nat)) /\ Len(q) = n /\ \A i \in 1..n : q[i] = s.field[fields[i]].elems
  <2>1. \A i \in 1..n : s.field[fields[i]].elems \in Seq(Nat)
    BY <1>1, <1>7 DEF Rep
  <2>2. q \in [1..n -> Seq(Nat)] /\ \A i \in 1..n : q[i] = s.field[fields[i]].elems
    BY <1>5, <1>6, <2>1
  <2>3. PICK S : S = Seq(Nat)
    OBVIOUS
  <2>4. q \in [1..n -> S]
    BY <2>2, <2>3
  <2>5. q \in Seq(S) /\ Len(q) = n
    BY <1>6, <2>4
  <2> QED
    BY <2>2, <2>3, <2>5
<1>9. PICK a : a = FlattenSeq(q)
  OBVIOUS
<1>10. a \in Seq(Nat) /\ \A k \in 1..n : ToSet(q[k]) \subseteq ToSet(a)
  <2>1. FlattenSeq(q) \in Seq(Nat) /\ \A k \in 1..Len(q) : ToSet(q[k]) \subseteq ToSet(FlattenSeq(q))
    BY <1>8, FlattenHolds
  <2> QED
    BY <1>8, <1>9, <2>1
<1>11. PICK b : b = SetToSeq(s.user)
  OBVIOUS
<1>12. b \in Seq(Nat) /\ ToSet(b) = s.user
  <2>1. IsFiniteSet(s.user)
    BY <1>1, <1>2, FS_Subset
  <2>2. b \in Seq(s.user) /\ ToSet(b) = s.user
    BY <1>11, <2>1, SetToSeqIs
  <2>3. s.user \subseteq Nat
    BY <1>1
  <2> QED
    BY <2>2, <2>3, SeqOver
<1>13. PICK held : held = a \o b
  OBVIOUS
<1>14. held \in Seq(Nat) /\ ToSet(held) = ToSet(a) \cup s.user
  BY <1>10, <1>12, <1>13, ToSetConcat
<1>15. PICK lost : lost = {i \in DOMAIN s.obj : s.obj[i].at = "heap"} \ ToSet(held)
  OBVIOUS
<1>16. PICK c : c = SetToSeq(lost)
  OBVIOUS
<1>17. c \in Seq(Nat) /\ ToSet(c) = lost
  <2>1. IsFiniteSet(lost)
    BY <1>2, <1>15, FS_Subset
  <2>2. c \in Seq(lost) /\ ToSet(c) = lost
    BY <1>16, <2>1, SetToSeqIs
  <2>3. lost \subseteq Nat
    BY <1>1, <1>15
  <2> QED
    BY <2>2, <2>3, SeqOver
<1>18. found = held \o c
  BY <1>3, <1>5, <1>9, <1>11, <1>13, <1>15, <1>16 DEF Found
<1>19. found \in Seq(Nat) /\ ToSet(found) = ToSet(held) \cup lost
  BY <1>14, <1>17, <1>18, ToSetConcat
<1>20. ASSUME NEW f \in Fields
       PROVE  Elems(s, f) \subseteq ToSet(found)
  <2>1. CASE f \in Field
    <3>1. PICK i \in 1..n : f = fields[i]
      BY <1>4, <1>6, <2>1 DEF ToSet
    <3>2. Elems(s, f) = ToSet(q[i])
      BY <1>8, <3>1 DEF Elems
    <3> QED
      BY <1>10, <1>14, <1>19, <3>2
  <2>2. CASE f = "temp"
    <3>1. Elems(s, f) = {}
      BY <2>2 DEF Elems, ToSet, NoElements
    <3> QED
      BY <3>1
  <2> QED
    BY <2>1, <2>2 DEF Fields
<1> QED
  BY <1>14, <1>15, <1>19, <1>20

\* and it gives each a name of its own.
NameIn(found, id) == CHOOSE i \in DOMAIN found : found[i] = id /\ \A j \in 1..(i - 1) : found[j] # id

LEMMA NameInIs ==
  ASSUME NEW found \in Seq(Nat), NEW id \in ToSet(found)
  PROVE  NameIn(found, id) \in 1..Len(found) /\ found[NameIn(found, id)] = id
<1>1. PICK n \in Nat : n = Len(found) /\ DOMAIN found = 1..n
  OBVIOUS
<1> DEFINE T == {i \in 1..n : found[i] = id}
<1>2. T \in SUBSET Nat /\ T # {}
  BY <1>1 DEF ToSet
<1>3. PICK i \in T : \A j \in T : i <= j
  BY <1>2, LeastNatural
<1>4. i \in DOMAIN found /\ found[i] = id /\ i \in Nat
  BY <1>1, <1>3
<1>5. \A j \in 1..(i - 1) : found[j] # id
  <2>1. \A j \in 1..(i - 1) : j \in 1..n /\ ~ i <= j
    BY <1>1, <1>3
  <2> QED
    BY <1>3, <2>1
<1>6. PICK k : k = NameIn(found, id)
  OBVIOUS
<1>7. k \in DOMAIN found /\ found[k] = id
  BY <1>4, <1>5, <1>6 DEF NameIn
<1> QED
  BY <1>1, <1>6, <1>7

\* Between two calls nothing changes but names.
LEMMA RenamedIs ==
  ASSUME NEW w, NEW s, Owned(s, w), s.field["temp"] = NoElements, IsFiniteSet(Field),
         NEW t, t = Renamed(s)
  PROVE  /\ Owned(t, w) /\ \A f \in Fields : Values(t, f) = Values(s, f)
         /\ t.field["temp"] = NoElements
<1>1. PICK found : found = Found(s)
  OBVIOUS
<1>2. /\ found \in Seq(Nat) /\ s.user \subseteq ToSet(found)
      /\ \A f \in Fields : Elems(s, f) \subseteq ToSet(found)
      /\ \A id \in DOMAIN s.obj : s.obj[id].at = "heap" => id \in ToSet(found)
  BY <1>1, FoundIs
<1>3. PICK K : K = ToSet(found)
  OBVIOUS
<1>4. PICK nm : nm = [id \in K \cup s.user \cup UNION {Elems(s, f) : f \in Fields} |-> NameIn(found, id)]
  OBVIOUS
<1>5. \A id \in K : nm[id] = NameIn(found, id) /\ nm[id] \in 1..Len(found) /\ found[nm[id]] = id
  BY <1>2, <1>3, <1>4, NameInIs
<1>6. Len(found) \in Nat
  BY <1>2
<1>7. Names(s, K, nm)
  <2>1. \A id \in K : nm[id] \in Nat
    BY <1>5, <1>6
  <2>2. \A i, j \in K : nm[i] = nm[j] => i = j
    BY <1>5
  <2> QED
    BY <1>2, <1>3, <1>5, <1>6, <2>1, <2>2 DEF Names
<1>8. IsMemory(s) /\ s.field \in [Fields -> Rep] /\ s.user \subseteq K
  BY <1>2, <1>3, OwnedIs
<1>9. PICK o : o = [i \in {nm[id] : id \in K \cap DOMAIN s.obj} |-> s.obj[found[i]]]
  OBVIOUS
<1>10. PICK d : d = [f \in Fields |-> [s.field[f] EXCEPT !.elems = [i \in DOMAIN s.field[f].elems |-> nm[s.field[f].elems[i]]]]]
  OBVIOUS
<1>11. PICK u : u = {nm[id] : id \in s.user}
  OBVIOUS
<1>12. t = [obj |-> o, user |-> u, wrong |-> s.wrong, field |-> d]
  <2> DEFINE x == [i \in {NameIn(Found(s), id) : id \in ToSet(Found(s)) \cap DOMAIN s.obj} |-> s.obj[Found(s)[i]]]
             y == [f \in DOMAIN s.field |->
                     [s.field[f] EXCEPT !.elems = [i \in DOMAIN s.field[f].elems |-> NameIn(Found(s), s.field[f].elems[i])]]]
             z == {NameIn(Found(s), id) : id \in s.user}
  <2>1. t = [s EXCEPT !.obj = x, !.field = y, !.user = z]
    BY DEF Renamed, NameIn
  <2>5. K = ToSet(Found(s)) /\ \A id \in K : NameIn(Found(s), id) = nm[id]
    BY <1>1, <1>3, <1>5
  <2>6. x = o
    <3>1. {NameIn(Found(s), id) : id \in ToSet(Found(s)) \cap DOMAIN s.obj} = {nm[id] : id \in K \cap DOMAIN s.obj}
      BY <2>5
    <3> QED
      BY <1>1, <1>9, <3>1
  <2>7. y = d
    <3>1. ASSUME NEW f \in Fields
          PROVE  [i \in DOMAIN s.field[f].elems |-> NameIn(Found(s), s.field[f].elems[i])]
                   = [i \in DOMAIN s.field[f].elems |-> nm[s.field[f].elems[i]]]
      <4>1. \A i \in DOMAIN s.field[f].elems : s.field[f].elems[i] \in K
        BY <1>2, <1>3 DEF Elems, ToSet
      <4> QED
        BY <2>5, <4>1
    <3>2. DOMAIN s.field = Fields
      BY <1>8
    <3> QED
      BY <1>10, <3>1, <3>2
  <2>8. z = u
    BY <1>8, <1>11, <2>5
  <2> HIDE DEF x, y, z
  <2> QED
    BY <1>8, <2>1, <2>6, <2>7, <2>8 DEF IsMemory
<1>13. RenamesTo(s, t, K, nm)
  <2>1. IsMemory(t) /\ t.obj = o /\ t.user = u /\ t.wrong = s.wrong /\ t.field = d
    BY <1>12 DEF IsMemory
  <2>2. DOMAIN o = {nm[id] : id \in K \cap DOMAIN s.obj} /\ o = [i \in DOMAIN o |-> o[i]]
    BY <1>9
  <2>3. \A id \in K \cap DOMAIN s.obj : o[nm[id]] = s.obj[id]
    BY <1>5, <1>9
  <2> QED
    BY <1>10, <1>11, <2>1, <2>2, <2>3 DEF RenamesTo
<1> QED
  BY <1>7, <1>13, RenamingIs

-------------------------------------------------------------------------------
(* Steps.                                                                     *)

lists == [f \in Field |-> Values(m, f)]
Home == Homes("heap")

\* What is known before every step.
LEMMA HomeIs ==
  ASSUME ConstantsOK, IInv
  PROVE  /\ Owned(m, Home) /\ m.field["temp"] = NoElements
         /\ \A f \in Field : /\ f \in Fields /\ f # "temp" /\ Home[f] = arena[f]
                             /\ arena[f] \in Place /\ Home[f] \in Place
                             /\ lists[f] = Values(m, f) /\ lists[f] \in Seq(Val) /\ Len(lists[f]) = m.field[f].size
<1>1. Owned(m, Home) /\ m.field["temp"] = NoElements /\ arena \in Where
  BY DEF IInv, Home
<1>2. ASSUME NEW f \in Field
      PROVE  f \in Fields /\ f # "temp" /\ Home[f] = arena[f] /\ arena[f] \in Place
  BY <1>1, <1>2 DEF ConstantsOK, Fields, Home, Homes, Place
<1>3. ASSUME NEW f \in Field
      PROVE  lists[f] = Values(m, f) /\ lists[f] \in Seq(Val) /\ Len(lists[f]) = m.field[f].size
  <2>1. lists[f] = Values(m, f)
    BY DEF lists
  <2>2. Values(m, f) \in Seq(Val) /\ Len(Values(m, f)) = m.field[f].size
    BY <1>1, <1>2, FieldIs
  <2> QED
    BY <2>1, <2>2
<1> QED
  BY <1>1, <1>2, <1>3

\* A method ends with the new names.
LEMMA EndsIs ==
  ASSUME ConstantsOK, IInv, NEW s, Owned(s, Home), s.field["temp"] = NoElements,
         m' = Renamed(s), arena' = arena
  PROVE  IInv' /\ lists' = [f \in Field |-> Values(s, f)]
<1>1. PICK t : t = m'
  OBVIOUS
<1>2. PICK w : w = Home
  OBVIOUS
<1>3. Owned(t, w) /\ t.field["temp"] = NoElements
  BY <1>1, <1>2, RenamedIs DEF ConstantsOK
<1>4. \A f \in Fields : Values(t, f) = Values(s, f)
  BY <1>1, <1>2, RenamedIs DEF ConstantsOK
<1>5. Home' = w
  BY <1>2 DEF Home, Homes
<1>6. IInv'
  BY <1>1, <1>3, <1>5 DEF IInv, Home
<1>7. lists' = [f \in Field |-> Values(t, f)]
  BY <1>1 DEF lists
<1>8. [f \in Field |-> Values(t, f)] = [f \in Field |-> Values(s, f)]
  BY <1>4 DEF Fields
<1> QED
  BY <1>6, <1>7, <1>8

\* One list changes,
LEMMA OneListEnds ==
  ASSUME ConstantsOK, IInv, NEW f \in Field, NEW s, NEW list, Makes(Home, m, s, f, list),
         m' = Renamed(s), arena' = arena
  PROVE  IInv' /\ lists' = [lists EXCEPT ![f] = list]
<1>1. /\ Owned(s, Home) /\ Values(s, f) = list
      /\ \A g \in Fields \ {f} : Values(s, g) = Values(m, g) /\ s.field[g] = m.field[g]
  BY DEF Makes, SameLists
<1>2. s.field["temp"] = NoElements
  BY <1>1, HomeIs DEF Fields
<1>3. IInv' /\ lists' = [g \in Field |-> Values(s, g)]
  BY <1>1, <1>2, EndsIs
<1>4. [g \in Field |-> Values(s, g)] = [lists EXCEPT ![f] = list]
  BY <1>1 DEF lists, Fields
<1> QED
  BY <1>3, <1>4

\* none changes,
LEMMA NoListEnds ==
  ASSUME ConstantsOK, IInv, NEW s, Owned(s, Home), SameValues(m, s), m' = Renamed(s), arena' = arena
  PROVE  IInv' /\ lists' = lists
<1>1. \A g \in Fields : Values(s, g) = Values(m, g) /\ s.field[g] = m.field[g]
  BY DEF SameValues
<1>2. s.field["temp"] = NoElements
  BY <1>1, HomeIs DEF Fields
<1>3. IInv' /\ lists' = [g \in Field |-> Values(s, g)]
  BY <1>2, EndsIs
<1>4. [g \in Field |-> Values(s, g)] = lists
  BY <1>1 DEF lists, Fields
<1> QED
  BY <1>3, <1>4

\* or two are exchanged.
LEMMA TwoListsEnd ==
  ASSUME ConstantsOK, IInv, NEW f \in Field, NEW g \in Field, f # g, NEW s, Swapped(Home, m, s, f, g),
         s.field["temp"] = NoElements, m' = Renamed(s), arena' = arena
  PROVE  IInv' /\ lists' = [lists EXCEPT ![f] = lists[g], ![g] = lists[f]]
<1>1. /\ Owned(s, Home) /\ Values(s, f) = Values(m, g) /\ Values(s, g) = Values(m, f)
      /\ \A h \in Fields \ {f, g} : Values(s, h) = Values(m, h)
  BY DEF Swapped
<1>2. IInv' /\ lists' = [h \in Field |-> Values(s, h)]
  BY <1>1, EndsIs
<1>3. PICK d : d = [lists EXCEPT ![f] = lists[g], ![g] = lists[f]]
  OBVIOUS
<1>4. /\ d = [h \in Field |-> d[h]] /\ d[f] = Values(m, g) /\ d[g] = Values(m, f)
      /\ \A h \in Field \ {f, g} : d[h] = Values(m, h)
  BY <1>3 DEF lists
<1>5. \A h \in Field : d[h] = Values(s, h)
  BY <1>1, <1>4 DEF Fields
<1> QED
  BY <1>2, <1>3, <1>4, <1>5

\* In terms of RepeatedLists, a step is one of its steps.
Kept == IInv' /\ Lists!Next

\* A list that becomes another,
LEMMA ListBecomes ==
  ASSUME NEW f \in Field, NEW list, lists' = [lists EXCEPT ![f] = list], answer' = <<>>
  PROVE  Lists!Becomes(f, list)
BY DEF Lists!Becomes, lists

\* and the part of a list that is left when its end is removed.
LEMMA EndRemoved ==
  ASSUME NEW S, NEW v \in Seq(S), NEW k \in 0..Len(v)
  PROVE  Excised(v, k, Len(v) - k) = SubSeq(v, 1, k)
<1>1. PICK n, d : n = Len(v) /\ d = n - k
  OBVIOUS
<1>2. n \in Nat /\ k \in Nat /\ d \in Nat /\ k + d = n /\ k <= n
  BY <1>1
<1>3. PICK a : a = SubSeq(v, 1, k)
  OBVIOUS
<1>4. a \in Seq(S)
  BY <1>1, <1>2, <1>3, SubSeqIs
<1>5. SubSeq(v, k + d + 1, n) = <<>>
  BY <1>2
<1>6. a \o <<>> = a
  BY <1>4, ConcatEmptySeq
<1> QED
  BY <1>1, <1>3, <1>5, <1>6 DEF Excised

LEMMA RemoveIs ==
  ASSUME ConstantsOK, IInv, NEW f \in Field, NEW v, v = lists[f],
         NEW start \in 0..Len(v), NEW num \in 0..(Len(v) - start),
         lists' = [lists EXCEPT ![f] = Excised(v, start, num)],
         answer' \in {<<>>, SubSeq(v, start + 1, start + num)}
  PROVE  Lists!Next
<1>1. PICK L : L = [g \in Field |-> Values(m, g)]
  OBVIOUS
<1>2. L = lists /\ L[f] = v /\ [g \in Field |-> Values(m, g)]' = lists'
  BY <1>1 DEF lists
<1>3. [L EXCEPT ![f] = Excised(v, start, num)]
        = [L EXCEPT ![f] = SubSeq(L[f], 1, start) \o SubSeq(L[f], start + num + 1, Len(L[f]))]
  BY <1>2 DEF Excised
<1>4. Lists!Remove(f)
  BY <1>1, <1>2, <1>3 DEF Lists!Remove, Lists!Without, Lists!Range
<1> QED
  BY <1>4 DEF Lists!Next

LEMMA AddKeeps ==
  ASSUME ConstantsOK, IInv, NEW f \in Field, Add(f)
  PROVE  Kept
<1>1. PICK w : w = Home
  OBVIOUS
<1>2. /\ Owned(m, w) /\ f \in Fields /\ w[f] = arena[f] /\ w[f] \in Place /\ lists[f] = Values(m, f)
  BY <1>1, HomeIs
<1>3. PICK t : t = AddInternal(m, f, w[f])
  OBVIOUS
<1>4. m' = Renamed(t) /\ arena' = arena /\ answer' = <<>>
  BY <1>2, <1>3 DEF Add, Becomes
<1>5. Makes(w, m, t, f, Append(Values(m, f), Empty))
  BY <1>2, <1>3, AddInternalIs
<1>6. IInv' /\ lists' = [lists EXCEPT ![f] = Append(lists[f], Empty)]
  BY <1>1, <1>2, <1>4, <1>5, OneListEnds
<1>7. Lists!Becomes(f, Append(lists[f], Empty))
  BY <1>4, <1>6, ListBecomes
<1>8. Lists!Add(f)
  BY <1>7 DEF Lists!Add, lists
<1> QED
  BY <1>6, <1>8 DEF Kept, Lists!Next

LEMMA AddOfKeeps ==
  ASSUME ConstantsOK, IInv, NEW f \in Field, NEW val \in Value, AddOf(f, val)
  PROVE  Kept
<1>1. PICK w : w = Home
  OBVIOUS
<1>2. /\ Owned(m, w) /\ f \in Fields /\ w[f] = arena[f] /\ w[f] \in Place /\ lists[f] = Values(m, f)
  BY <1>1, HomeIs
<1>3. PICK t : t = AddValue(m, f, w[f], val)
  OBVIOUS
<1>4. m' = Renamed(t) /\ arena' = arena /\ answer' = <<>>
  BY <1>2, <1>3 DEF AddOf, Becomes
<1>5. Makes(w, m, t, f, Append(Values(m, f), val))
  <2>1. val \in Val
    BY DEF Val
  <2> QED
    BY <1>2, <1>3, <2>1, AddValueIs
<1>6. IInv' /\ lists' = [lists EXCEPT ![f] = Append(lists[f], val)]
  BY <1>1, <1>2, <1>4, <1>5, OneListEnds
<1>7. Lists!Becomes(f, Append(lists[f], val))
  BY <1>4, <1>6, ListBecomes
<1>8. Lists!Add(f)
  BY <1>7 DEF Lists!Add, lists
<1> QED
  BY <1>6, <1>8 DEF Kept, Lists!Next

LEMMA DropLastKeeps ==
  ASSUME ConstantsOK, IInv, NEW f \in Field, DropLast(f)
  PROVE  Kept
<1>1. PICK w : w = Home
  OBVIOUS
<1>2. Owned(m, w) /\ f \in Fields /\ w[f] = arena[f] /\ w[f] \in Place /\ lists[f] = Values(m, f)
  BY <1>1, HomeIs
<1>3. PICK t : t = RemoveLast(m, f)
  OBVIOUS
<1>4. m' = Renamed(t) /\ arena' = arena /\ answer' = <<>> /\ m.field[f].size > 0
  BY <1>3 DEF DropLast, Becomes
<1>5. PICK v \in Seq(Val), n \in Nat : v = lists[f] /\ n = Len(v) /\ n = m.field[f].size
  BY HomeIs
<1>6. Makes(w, m, t, f, SubSeq(v, 1, n - 1))
  BY <1>2, <1>3, <1>4, <1>5, RemoveLastIs
<1>7. IInv' /\ lists' = [lists EXCEPT ![f] = SubSeq(v, 1, n - 1)]
  BY <1>1, <1>4, <1>6, OneListEnds
<1>8. PICK k : k = n - 1
  OBVIOUS
<1>9. k \in 0..Len(v) /\ Len(v) - k = 1 /\ 1 \in 0..(Len(v) - k)
  BY <1>4, <1>5, <1>8
<1>10. Excised(v, k, 1) = SubSeq(v, 1, n - 1)
  BY <1>8, <1>9, EndRemoved
<1>11. Lists!Next
  BY <1>4, <1>5, <1>7, <1>9, <1>10, RemoveIs
<1> QED
  BY <1>7, <1>11 DEF Kept

\* A list that is emptied.
LEMMA EmptyKeeps ==
  ASSUME ConstantsOK, IInv, NEW f \in Field, NEW t, Makes(Home, m, t, f, <<>>),
         m' = Renamed(t), arena' = arena, answer' = <<>>
  PROVE  Kept
<1>1. IInv' /\ lists' = [lists EXCEPT ![f] = <<>>]
  BY OneListEnds
<1>2. PICK v \in Seq(Val), n \in Nat : v = lists[f] /\ n = Len(v)
  BY HomeIs
<1>3. 0 \in 0..Len(v) /\ n \in 0..(Len(v) - 0) /\ n = Len(v) - 0
  BY <1>2
<1>4. Excised(v, 0, n) = SubSeq(v, 1, 0)
  BY <1>3, EndRemoved
<1>5. SubSeq(v, 1, 0) = <<>>
  OBVIOUS
<1>6. Lists!Next
  BY <1>1, <1>2, <1>3, <1>4, <1>5, RemoveIs
<1> QED
  BY <1>1, <1>6 DEF Kept

LEMMA ClearAllKeeps ==
  ASSUME ConstantsOK, IInv, NEW f \in Field, ClearAll(f)
  PROVE  Kept
<1>1. PICK t : t = Clear(m, f)
  OBVIOUS
<1>2. m' = Renamed(t) /\ arena' = arena /\ answer' = <<>>
  BY <1>1 DEF ClearAll, Becomes
<1>3. Makes(Home, m, t, f, <<>>)
  BY <1>1, HomeIs, ClearIs
<1> QED
  BY <1>2, <1>3, EmptyKeeps

LEMMA DestroyKeeps ==
  ASSUME ConstantsOK, IInv, NEW f \in Field, Destroy(f)
  PROVE  Kept
<1>1. PICK w : w = Home
  OBVIOUS
<1>2. Owned(m, w) /\ f \in Fields /\ w[f] = arena[f]
  BY <1>1, HomeIs
<1>3. PICK t : t = Destroyed(m, f, w[f])
  OBVIOUS
<1>4. m' = Renamed(t) /\ arena' = arena /\ answer' = <<>>
  BY <1>2, <1>3 DEF Destroy, Becomes
<1>5. Makes(w, m, t, f, <<>>)
  BY <1>2, <1>3, DestroyedIs
<1> QED
  BY <1>1, <1>4, <1>5, EmptyKeeps

\* A list that stays.
LEMMA StayKeeps ==
  ASSUME IInv', lists' = lists, answer' = <<>>
  PROVE  Kept
BY DEF Kept, lists, Lists!Next, Lists!Forget

LEMMA ReserveKeeps ==
  ASSUME ConstantsOK, IInv, NEW f \in Field, Reserve(f)
  PROVE  Kept
<1>1. PICK w : w = Home
  OBVIOUS
<1>2. Owned(m, w) /\ f \in Fields /\ lists[f] = Values(m, f) /\ MaxSize \in Nat
  BY <1>1, HomeIs DEF ConstantsOK
<1>3. PICK t : t = [m EXCEPT !.field[f] = Reserved(@, MaxSize)]
  OBVIOUS
<1>4. m' = Renamed(t) /\ arena' = arena /\ answer' = <<>>
  BY <1>3 DEF Reserve, Becomes
<1>5. Makes(w, m, t, f, Values(m, f))
  BY <1>2, <1>3, ReserveIs
<1>6. IInv' /\ lists' = [lists EXCEPT ![f] = lists[f]]
  BY <1>1, <1>2, <1>4, <1>5, OneListEnds
<1>7. [lists EXCEPT ![f] = lists[f]] = lists
  BY DEF lists
<1> QED
  BY <1>4, <1>6, <1>7, StayKeeps

LEMMA MergeKeeps ==
  ASSUME ConstantsOK, IInv, NEW f \in Field, NEW g \in Field, Merge(f, g)
  PROVE  Kept
<1>1. PICK w : w = Home
  OBVIOUS
<1>2. /\ Owned(m, w) /\ f \in Fields /\ g \in Fields /\ w[f] = arena[f] /\ w[f] \in Place
      /\ lists[f] = Values(m, f) /\ lists[g] = Values(m, g)
  BY <1>1, HomeIs
<1>3. PICK t : t = MergeFrom(m, f, g, w[f])
  OBVIOUS
<1>4. m' = Renamed(t) /\ arena' = arena /\ answer' = <<>> /\ f # g
  BY <1>2, <1>3 DEF Merge, Becomes
<1>5. Makes(w, m, t, f, Values(m, f) \o Values(m, g))
  BY <1>2, <1>3, <1>4, MergeFromIs
<1>6. IInv' /\ lists' = [lists EXCEPT ![f] = lists[f] \o lists[g]]
  BY <1>1, <1>2, <1>4, <1>5, OneListEnds
<1>7. Lists!Becomes(f, lists[f] \o lists[g])
  BY <1>4, <1>6, ListBecomes
<1>8. Lists!Merge(f, g)
  BY <1>4, <1>7 DEF Lists!Merge, lists
<1> QED
  BY <1>6, <1>8 DEF Kept, Lists!Next

\* A list that becomes another field's.
LEMMA CopyEnds ==
  ASSUME ConstantsOK, IInv, NEW f \in Field, NEW g \in Field,
         NEW t, t = CopyFrom(m, f, g, arena[f]), m' = Renamed(t), arena' = arena, answer' = <<>>
  PROVE  Kept
<1>1. PICK w : w = Home
  OBVIOUS
<1>2. /\ Owned(m, w) /\ f \in Fields /\ g \in Fields /\ w[f] = arena[f] /\ w[f] \in Place
      /\ lists[g] = Values(m, g)
  BY <1>1, HomeIs
<1>3. t = CopyFrom(m, f, g, w[f])
  BY <1>2
<1>4. Makes(w, m, t, f, Values(m, g))
  BY <1>2, <1>3, CopyFromIs
<1>5. IInv' /\ lists' = [lists EXCEPT ![f] = lists[g]]
  BY <1>1, <1>2, <1>4, OneListEnds
<1>6. Lists!Becomes(f, lists[g])
  BY <1>5, ListBecomes
<1>7. Lists!Copy(f, g)
  BY <1>6 DEF Lists!Copy, lists
<1> QED
  BY <1>5, <1>7 DEF Kept, Lists!Next

LEMMA CopyKeeps ==
  ASSUME ConstantsOK, IInv, NEW f \in Field, NEW g \in Field, Copy(f, g)
  PROVE  Kept
BY CopyEnds DEF Copy, Becomes

\* Two lists that change places.
LEMMA SwapEnds ==
  ASSUME ConstantsOK, IInv, NEW f \in Field, NEW g \in Field, f # g,
         NEW t, Swapped(Home, m, t, f, g), t.field["temp"] = NoElements,
         m' = Renamed(t), arena' = arena, answer' = <<>>
  PROVE  Kept
<1>1. IInv' /\ lists' = [lists EXCEPT ![f] = lists[g], ![g] = lists[f]]
  BY TwoListsEnd
<1>2. Lists!Swap(f, g)
  BY <1>1 DEF Lists!Swap, lists
<1> QED
  BY <1>1, <1>2 DEF Kept, Lists!Next

LEMMA InternalSwapEnds ==
  ASSUME ConstantsOK, IInv, NEW f \in Field, NEW g \in Field, f # g, arena[f] = arena[g],
         NEW t, t = InternalSwap(m, f, g), m' = Renamed(t), arena' = arena, answer' = <<>>
  PROVE  Kept
<1>1. PICK w : w = Home
  OBVIOUS
<1>2. Owned(m, w) /\ f \in Fields /\ g \in Fields /\ w[f] = w[g] /\ f # "temp" /\ g # "temp" /\ m.field["temp"] = NoElements
  BY <1>1, HomeIs
<1>3. Swapped(w, m, t, f, g)
  BY <1>2, InternalSwapIs
<1>4. t.field["temp"] = NoElements
  BY <1>2, <1>3 DEF Swapped, Fields
<1> QED
  BY <1>1, <1>3, <1>4, SwapEnds

LEMMA SwapKeeps ==
  ASSUME ConstantsOK, IInv, NEW f \in Field, NEW g \in Field, Swap(f, g)
  PROVE  Kept
<1>1. f # g /\ arena' = arena /\ answer' = <<>>
  BY DEF Swap, Becomes
<1>2. CASE arena[f] = arena[g]
  <2>1. m' = Renamed(InternalSwap(m, f, g))
    BY <1>2 DEF Swap, Becomes
  <2> QED
    BY <1>1, <1>2, <2>1, InternalSwapEnds
<1>3. CASE arena[f] # arena[g]
  <2>1. PICK s, t : s = m /\ t = SwapFallback(s, f, g, arena[f], arena[g])
    OBVIOUS
  <2>2. m' = Renamed(t)
    BY <1>3, <2>1 DEF Swap, Becomes
  <2>3. /\ Owned(s, Homes("heap")) /\ s.field["temp"] = NoElements /\ "temp" \notin Field
        /\ \A h \in Field : arena[h] \in Place
    BY <2>1, HomeIs DEF Home, ConstantsOK
  <2>4. Swapped(Homes("heap"), s, t, f, g) /\ t.field["temp"] = NoElements
    BY <1>1, <2>1, <2>3, SwapFallbackIs
  <2>5. Swapped(Home, m, t, f, g)
    BY <2>1, <2>4 DEF Home
  <2> QED
    BY <1>1, <2>2, <2>4, <2>5, SwapEnds
<1> QED
  BY <1>2, <1>3

LEMMA MoveKeeps ==
  ASSUME ConstantsOK, IInv, NEW f \in Field, NEW g \in Field, Move(f, g)
  PROVE  Kept
<1>1. f # g /\ arena' = arena /\ answer' = <<>>
  BY DEF Move, Becomes
<1>2. CASE arena[f] = arena[g]
  <2>1. m' = Renamed(InternalSwap(m, f, g))
    BY <1>2 DEF Move, Becomes
  <2> QED
    BY <1>1, <1>2, <2>1, InternalSwapEnds
<1>3. CASE arena[f] # arena[g]
  <2>1. m' = Renamed(CopyFrom(m, f, g, arena[f]))
    BY <1>3 DEF Move, Becomes
  <2> QED
    BY <1>1, <2>1, CopyEnds
<1> QED
  BY <1>2, <1>3

LEMMA SwapElementsKeeps ==
  ASSUME ConstantsOK, IInv, NEW f \in Field, SwapElements(f)
  PROVE  Kept
<1>1. PICK w : w = Home
  OBVIOUS
<1>2. Owned(m, w) /\ f \in Fields /\ lists[f] = Values(m, f)
  BY <1>1, HomeIs
<1>3. PICK i \in 1..m.field[f].size, j \in 1..m.field[f].size :
        Becomes([m EXCEPT !.field[f].elems = [m.field[f].elems EXCEPT ![i] = m.field[f].elems[j], ![j] = m.field[f].elems[i]]])
  BY DEF SwapElements
<1>4. PICK t : t = Exchange(m, f, i, j)
  OBVIOUS
<1>5. m' = Renamed(t) /\ arena' = arena /\ answer' = <<>>
  BY <1>3, <1>4 DEF Becomes, Exchange, Exchanged
<1>6. Makes(w, m, t, f, Exchanged(Values(m, f), i, j))
  BY <1>2, <1>4, ExchangeIs
<1>7. IInv' /\ lists' = [lists EXCEPT ![f] = Exchanged(lists[f], i, j)]
  BY <1>1, <1>2, <1>5, <1>6, OneListEnds
<1>8. Lists!Becomes(f, Exchanged(lists[f], i, j))
  BY <1>5, <1>7, ListBecomes
<1>9. i \in DOMAIN lists[f] /\ j \in DOMAIN lists[f]
  BY HomeIs
<1>10. Lists!SwapElements(f)
  BY <1>8, <1>9 DEF Lists!SwapElements, Exchanged, lists
<1> QED
  BY <1>7, <1>10 DEF Kept, Lists!Next

LEMMA GiveObjectKeeps ==
  ASSUME ConstantsOK, IInv, NEW f \in Field, GiveObject(f)
  PROVE  Kept
<1>1. PICK w : w = Home
  OBVIOUS
<1>2. /\ Owned(m, w) /\ f \in Fields /\ w[f] = arena[f] /\ w[f] \in Place /\ lists[f] = Values(m, f)
  BY <1>1, HomeIs
<1>3. PICK id \in m.user : Becomes(AddAllocated(m, f, id, arena[f]))
  BY DEF GiveObject
<1>4. PICK t : t = AddAllocated(m, f, id, w[f])
  OBVIOUS
<1>5. m' = Renamed(t) /\ arena' = arena /\ answer' = <<>>
  BY <1>2, <1>3, <1>4 DEF Becomes
<1>6. PICK val \in Val : val = m.obj[id].val
  <2>1. m.obj[id] \in Object
    BY <1>2, OwnedIs
  <2> QED
    BY <2>1 DEF Object
<1>7. Makes(w, m, t, f, Append(Values(m, f), val))
  BY <1>2, <1>4, <1>6, AddAllocatedIs
<1>8. IInv' /\ lists' = [lists EXCEPT ![f] = Append(lists[f], val)]
  BY <1>1, <1>2, <1>5, <1>7, OneListEnds
<1>9. Lists!Becomes(f, Append(lists[f], val))
  BY <1>5, <1>8, ListBecomes
<1>10. Lists!Add(f)
  BY <1>9 DEF Lists!Add, lists, Val
<1> QED
  BY <1>8, <1>10 DEF Kept, Lists!Next

LEMMA TakeLastKeeps ==
  ASSUME ConstantsOK, IInv, NEW f \in Field, TakeLast(f)
  PROVE  Kept
<1>1. PICK w : w = Home
  OBVIOUS
<1>2. Owned(m, w) /\ f \in Fields /\ w[f] = arena[f] /\ w[f] \in Place /\ lists[f] = Values(m, f)
  BY <1>1, HomeIs
<1>3. PICK t : t = ReleaseLast(m, f, w[f])
  OBVIOUS
<1>4. m' = Renamed(t) /\ arena' = arena /\ answer' = <<Last(lists[f])>> /\ m.field[f].size > 0
  BY <1>2, <1>3 DEF TakeLast, Takes
<1>5. PICK v \in Seq(Val), n \in Nat : v = lists[f] /\ n = Len(v) /\ n = m.field[f].size
  BY HomeIs
<1>6. Makes(w, m, t, f, SubSeq(v, 1, n - 1))
  BY <1>2, <1>3, <1>4, <1>5, ReleaseLastIs
<1>7. IInv' /\ lists' = [lists EXCEPT ![f] = SubSeq(v, 1, n - 1)]
  BY <1>1, <1>4, <1>6, OneListEnds
<1>8. PICK k : k = n - 1
  OBVIOUS
<1>9. k \in 0..Len(v) /\ Len(v) - k = 1 /\ 1 \in 0..(Len(v) - k) /\ k + 1 = n
  BY <1>4, <1>5, <1>8
<1>10. Excised(v, k, 1) = SubSeq(v, 1, n - 1)
  BY <1>8, <1>9, EndRemoved
<1>11. answer' = SubSeq(v, k + 1, k + 1)
  <2>1. SubSeq(v, n, n) = <<v[n]>>
    <3>1. PICK r : r = SubSeq(v, k + 1, k + 1)
      OBVIOUS
    <3>2. k \in Nat /\ 1 \in Nat /\ k + 1 <= Len(v)
      BY <1>5, <1>9
    <3>3. r \in Seq(Val) /\ Len(r) = 1 /\ \A i \in 1..1 : r[i] = v[k + i]
      BY <3>1, <3>2, SubSeqIs
    <3>4. PICK x : x = r[1]
      OBVIOUS
    <3>5. x = v[n]
      <4>1. 1 \in 1..1
        OBVIOUS
      <4>2. r[1] = v[k + 1]
        BY <3>3, <4>1
      <4> QED
        BY <1>9, <3>4, <4>2
    <3>6. r = <<x>>
      <4>1. r \in Seq(Val) /\ Len(r) = 1
        BY <3>3
      <4> QED
        BY <3>4, <4>1
    <3> QED
      BY <1>9, <3>1, <3>5, <3>6
  <2> QED
    BY <1>4, <1>5, <1>9, <2>1 DEF Last
<1>12. Lists!Next
  BY <1>5, <1>7, <1>9, <1>10, <1>11, RemoveIs
<1> QED
  BY <1>7, <1>12 DEF Kept

LEMMA TakeRangeKeeps ==
  ASSUME ConstantsOK, IInv, NEW f \in Field, TakeRange(f)
  PROVE  Kept
<1>1. PICK w : w = Home
  OBVIOUS
<1>2. Owned(m, w) /\ f \in Fields /\ w[f] = arena[f] /\ w[f] \in Place /\ lists[f] = Values(m, f)
  BY <1>1, HomeIs
<1>3. PICK v \in Seq(Val), n \in Nat : v = lists[f] /\ n = Len(v) /\ n = m.field[f].size
  BY HomeIs
<1>4. PICK start \in 0..n : \E num \in 1..(n - start) :
        Takes(ExtractSubrange(m, f, start, num, arena[f]), SubSeq(Values(m, f), start + 1, start + num))
  BY <1>3 DEF TakeRange
<1>5. PICK num \in 1..(n - start) :
        Takes(ExtractSubrange(m, f, start, num, arena[f]), SubSeq(Values(m, f), start + 1, start + num))
  BY <1>4
<1>6. PICK t : t = ExtractSubrange(m, f, start, num, w[f])
  OBVIOUS
<1>7. m' = Renamed(t) /\ arena' = arena /\ answer' = SubSeq(v, start + 1, start + num)
  BY <1>2, <1>3, <1>5, <1>6 DEF Takes
<1>8. start \in Nat /\ num \in Nat /\ start + num <= n
  BY <1>5
<1>9. Makes(w, m, t, f, Excised(v, start, num))
  <2>1. v = Values(m, f) /\ start + num <= m.field[f].size
    BY <1>2, <1>3, <1>8
  <2>2. Makes(w, m, t, f, SubSeq(v, 1, start) \o SubSeq(v, start + num + 1, Len(v)))
    BY <1>2, <1>6, <1>8, <2>1, ExtractSubrangeIs
  <2> QED
    BY <2>2 DEF Excised
<1>10. IInv' /\ lists' = [lists EXCEPT ![f] = Excised(v, start, num)]
  BY <1>1, <1>7, <1>9, OneListEnds
<1>11. start \in 0..Len(v) /\ num \in 0..(Len(v) - start)
  BY <1>3, <1>5
<1>12. Lists!Next
  BY <1>3, <1>7, <1>10, <1>11, RemoveIs
<1> QED
  BY <1>10, <1>12 DEF Kept

LEMMA DeleteRangeKeeps ==
  ASSUME ConstantsOK, IInv, NEW f \in Field, DeleteRange(f)
  PROVE  Kept
<1>1. PICK w : w = Home
  OBVIOUS
<1>2. Owned(m, w) /\ f \in Fields /\ w[f] = arena[f] /\ lists[f] = Values(m, f)
  BY <1>1, HomeIs
<1>3. PICK v \in Seq(Val), n \in Nat : v = lists[f] /\ n = Len(v) /\ n = m.field[f].size
  BY HomeIs
<1>4. PICK start \in 0..n : \E num \in 0..(n - start) :
        Becomes(DeleteSubrange(m, f, start, num, arena[f]))
  BY <1>3 DEF DeleteRange
<1>5. PICK num \in 0..(n - start) :
        Becomes(DeleteSubrange(m, f, start, num, arena[f]))
  BY <1>4
<1>6. PICK t : t = DeleteSubrange(m, f, start, num, w[f])
  OBVIOUS
<1>7. m' = Renamed(t) /\ arena' = arena /\ answer' = <<>>
  BY <1>2, <1>5, <1>6 DEF Becomes
<1>8. start \in Nat /\ num \in Nat /\ start + num <= n
  BY <1>5
<1>9. Makes(w, m, t, f, Excised(v, start, num))
  <2>1. v = Values(m, f) /\ start + num <= m.field[f].size
    BY <1>2, <1>3, <1>8
  <2>2. Makes(w, m, t, f, SubSeq(v, 1, start) \o SubSeq(v, start + num + 1, Len(v)))
    BY <1>2, <1>6, <1>8, <2>1, DeleteSubrangeIs
  <2> QED
    BY <2>2 DEF Excised
<1>10. IInv' /\ lists' = [lists EXCEPT ![f] = Excised(v, start, num)]
  BY <1>1, <1>7, <1>9, OneListEnds
<1>11. start \in 0..Len(v) /\ num \in 0..(Len(v) - start)
  BY <1>3, <1>5
<1>12. Lists!Next
  BY <1>3, <1>7, <1>10, <1>11, RemoveIs
<1> QED
  BY <1>10, <1>12 DEF Kept

LEMMA UserNewKeeps ==
  ASSUME ConstantsOK, IInv, NEW f \in Field, UserNew(arena[f])
  PROVE  Kept
<1>1. PICK w, at, id : w = Home /\ at = arena[f] /\ id = Highest(m) + 1
  OBVIOUS
<1>2. Owned(m, w) /\ at \in Place
  BY <1>1, HomeIs
<1>3. PICK val \in Value : Becomes([New(m, at, <<val>>) EXCEPT !.user = @ \cup {Highest(m) + 1}])
  BY <1>1 DEF UserNew
<1>4. PICK u : u = New(m, at, <<val>>)
  OBVIOUS
<1>5. PICK t : t = [u EXCEPT !.user = @ \cup {id}]
  OBVIOUS
<1>6. m' = Renamed(t) /\ arena' = arena /\ answer' = <<>>
  BY <1>1, <1>3, <1>4, <1>5 DEF Becomes
<1>7. val \in Val
  BY DEF Val
<1>8. UserHas(w, m, u, t, id, [at |-> at, val |-> val])
  BY <1>1, <1>2, <1>4, <1>5, <1>7, UserNewIs
<1>9. Owned(t, Home) /\ SameValues(m, t)
  BY <1>1, <1>8 DEF UserHas
<1> QED
  BY <1>6, <1>9, NoListEnds, StayKeeps

LEMMA UserDeleteKeeps ==
  ASSUME ConstantsOK, IInv, UserDelete
  PROVE  Kept
<1>1. PICK id \in m.user :
        Becomes([(IF m.obj[id].at = "heap" THEN Delete(m, <<id>>) ELSE m) EXCEPT !.user = @ \ {id}])
  BY DEF UserDelete
<1>2. PICK t : t = [(IF m.obj[id].at = "heap" THEN Delete(m, <<id>>) ELSE m) EXCEPT !.user = @ \ {id}]
  OBVIOUS
<1>3. m' = Renamed(t) /\ arena' = arena /\ answer' = <<>>
  BY <1>1, <1>2 DEF Becomes
<1>4. Owned(t, Home) /\ SameValues(m, t)
  BY <1>2, HomeIs, UserDeleteIs
<1> QED
  BY <1>3, <1>4, NoListEnds, StayKeeps

LEMMA InitIs ==
  ASSUME ConstantsOK, Init
  PROVE  IInv /\ Lists!Init
<1>1. PICK s : s = m
  OBVIOUS
<1>2. /\ s = [obj |-> <<>>, user |-> {}, wrong |-> FALSE, field |-> [f \in Fields |-> NoElements]]
      /\ arena \in Where /\ answer = <<>>
  BY <1>1 DEF Init, Fields
<1>3. PICK d : d = [f \in Fields |-> NoElements]
  OBVIOUS
<1>4. s.obj = <<>> /\ s.user = {} /\ s.wrong = FALSE /\ s.field = d /\ IsMemory(s)
  <2>1. s = [obj |-> <<>>, user |-> {}, wrong |-> FALSE, field |-> d]
    BY <1>2, <1>3
  <2> QED
    BY <2>1 DEF IsMemory
<1>5. DOMAIN s.obj = {} /\ s.obj \in [DOMAIN s.obj -> Object] /\ DOMAIN s.obj \subseteq 1..0 /\ 0 \in Nat
  BY <1>4
<1>6. PICK N : N = NoElements
  OBVIOUS
<1>7. N = [capacity |-> 1, elems |-> <<>>, size |-> 0] /\ N.capacity = 1 /\ N.elems = <<>> /\ N.size = 0
  BY <1>6 DEF NoElements
<1>8. N \in Rep /\ ToSet(N.elems) = {} /\ IsInjective(N.elems) /\ Len(N.elems) = 0
  BY <1>7 DEF Rep, ToSet, IsInjective
<1>9. \A f \in Fields : s.field[f] = N
  BY <1>3, <1>4, <1>6
<1>10. \A f \in Fields : FieldOK(s.obj, s.field[f], Home[f])
  BY <1>7, <1>8, <1>9 DEF FieldOK
<1>11. \A f \in Fields : Elems(s, f) = {}
  BY <1>8, <1>9 DEF Elems
<1>12. Owned(s, Home)
  <2>1. ObjectsOK(s.obj)
    BY <1>5 DEF ObjectsOK
  <2>2. s.field \in [Fields -> Rep]
    BY <1>3, <1>4, <1>6, <1>8
  <2> QED
    BY <1>4, <1>5, <1>10, <1>11, <2>1, <2>2 DEF Owned
<1>13. IInv
  <2>1. "temp" \in Fields
    BY DEF Fields
  <2> QED
    BY <1>1, <1>2, <1>6, <1>9, <1>12, <2>1 DEF IInv, Home
<1>14. \A f \in Field : Values(m, f) = <<>>
  <2>1. \A f \in Field : m.field[f].size = 0
    BY <1>1, <1>7, <1>9 DEF Fields
  <2> QED
    BY <2>1 DEF Values
<1> QED
  BY <1>2, <1>13, <1>14 DEF Lists!Init

LEMMA NextIs ==
  ASSUME ConstantsOK, IInv, Next
  PROVE  Kept
<1>1. ASSUME NEW f \in Field, Add(f)
      PROVE  Kept
  BY <1>1, AddKeeps
<1>2. ASSUME NEW f \in Field, NEW val \in Value, AddOf(f, val)
      PROVE  Kept
  BY <1>2, AddOfKeeps
<1>3. ASSUME NEW f \in Field, DropLast(f) \/ ClearAll(f) \/ Reserve(f) \/ Destroy(f)
      PROVE  Kept
  BY <1>3, DropLastKeeps, ClearAllKeeps, ReserveKeeps, DestroyKeeps
<1>4. ASSUME NEW f \in Field, SwapElements(f) \/ GiveObject(f)
      PROVE  Kept
  BY <1>4, SwapElementsKeeps, GiveObjectKeeps
<1>5. ASSUME NEW f \in Field, TakeLast(f) \/ TakeRange(f) \/ DeleteRange(f)
      PROVE  Kept
  BY <1>5, TakeLastKeeps, TakeRangeKeeps, DeleteRangeKeeps
<1>6. ASSUME NEW f \in Field, NEW g \in Field, Merge(f, g) \/ Copy(f, g) \/ Swap(f, g) \/ Move(f, g)
      PROVE  Kept
  BY <1>6, MergeKeeps, CopyKeeps, SwapKeeps, MoveKeeps
<1>7. ASSUME NEW f \in Field, UserNew(arena[f])
      PROVE  Kept
  BY <1>7, UserNewKeeps
<1>8. CASE UserDelete
  BY <1>8, UserDeleteKeeps
<1> QED
  BY <1>1, <1>2, <1>3, <1>4, <1>5, <1>6, <1>7, <1>8 DEF Next

LEMMA StutterIs ==
  ASSUME IInv, UNCHANGED vars
  PROVE  IInv' /\ UNCHANGED Lists!vars
BY DEF vars, IInv, Homes, Lists!vars

-------------------------------------------------------------------------------
(* Theorems.                                                                  *)

\* Between two calls every allocated element is in one place, on the arena of its
\* field; what is on the heap is in a field or in the hands of the user, and nothing
\* was deleted that was not its owner's.
THEOREM Invariant == ASSUME ConstantsOK PROVE Spec => []IInv
<1>1. Init => IInv
  BY InitIs
<1>2. IInv /\ [Next]_vars => IInv'
  BY NextIs, StutterIs DEF Kept
<1> QED
  BY <1>1, <1>2, PTL DEF Spec

\* Cleared elements, arrays that grow, copies across arenas, the temporary of a swap
\* and gaps that are closed never show: each method makes its field the list that
\* RepeatedLists says, of whatever size it is, and leaves all the others.
THEOREM ImplementsListsAlways == ASSUME ConstantsOK PROVE Spec => ImplementsLists
<1>1. Init => Lists!Init
  BY InitIs
<1>2. IInv /\ [Next]_vars => [Lists!Next]_(Lists!vars)
  BY NextIs, StutterIs DEF Kept
<1> QED
  BY <1>1, <1>2, Invariant, PTL DEF Spec, ImplementsLists, Lists!Spec

LEMMA OneOwnerIs ==
  ASSUME ConstantsOK, IInv
  PROVE  EveryObjectHasOneOwner
<1> DEFINE in(f, id) == {f} \X {i \in DOMAIN m.field[f].elems : m.field[f].elems[i] = id}
           places(id) == UNION {in(f, id) : f \in DOMAIN m.field}
<1>1. Owned(m, Home) /\ \A f \in Field : f \in Fields /\ Home[f] = arena[f]
  BY HomeIs
<1>2. ~m.wrong /\ m.user \subseteq DOMAIN m.obj /\ DOMAIN m.field = Fields
  BY <1>1, OwnedIs
<1>3. ASSUME NEW f \in Field
      PROVE  /\ ToSet(m.field[f].elems) \subseteq DOMAIN m.obj
             /\ \A id \in ToSet(m.field[f].elems) : m.obj[id].at = arena[f]
             /\ m.field[f].size <= Len(m.field[f].elems)
             /\ Len(m.field[f].elems) <= m.field[f].capacity
  <2>1. PICK F : FieldFacts(Home, m, f, F)
    BY <1>1, FieldFactsAre
  <2>2. /\ F = m.field[f] /\ F.size <= Len(F.elems) /\ Len(F.elems) <= F.capacity /\ DOMAIN F.elems = 1..Len(F.elems)
        /\ \A i \in 1..Len(F.elems) : F.elems[i] \in DOMAIN m.obj /\ m.obj[F.elems[i]].at = Home[f]
    BY <2>1 DEF FieldFacts
  <2>3. ToSet(F.elems) = {F.elems[i] : i \in 1..Len(F.elems)}
    BY <2>2 DEF ToSet
  <2> QED
    BY <1>1, <2>2, <2>3
\* An object that is in a field is there once.
<1>4. ASSUME NEW f \in Fields, NEW i \in DOMAIN m.field[f].elems
      PROVE  /\ m.field[f].elems[i] \in Elems(m, f)
             /\ \A j \in DOMAIN m.field[f].elems : m.field[f].elems[j] = m.field[f].elems[i] => j = i
  <2>1. FieldOK(m.obj, m.field[f], Home[f])
    BY <1>1 DEF Owned
  <2> QED
    BY <2>1 DEF FieldOK, IsInjective, Elems, ToSet
<1>5. \A f, g \in Fields : f # g => Elems(m, f) \cap Elems(m, g) = {}
  BY <1>1 DEF Owned
<1>6. ASSUME NEW id, NEW p \in places(id)
      PROVE  \E f \in Fields : \E i \in DOMAIN m.field[f].elems : p = <<f, i>> /\ m.field[f].elems[i] = id
  BY <1>2
<1>7. ASSUME NEW id, NEW p \in places(id), NEW q \in places(id)
      PROVE  p = q
  <2>1. PICK f, i : f \in Fields /\ i \in DOMAIN m.field[f].elems /\ p = <<f, i>> /\ m.field[f].elems[i] = id
    BY <1>6
  <2>2. PICK g, j : g \in Fields /\ j \in DOMAIN m.field[g].elems /\ q = <<g, j>> /\ m.field[g].elems[j] = id
    BY <1>6
  <2>3. id \in Elems(m, f) /\ id \in Elems(m, g)
    BY <1>4, <2>1, <2>2
  <2>4. f = g
    BY <1>5, <2>1, <2>2, <2>3
  <2> QED
    BY <1>4, <2>1, <2>2, <2>4
<1>8. ASSUME NEW id, NEW f \in Fields, id \in Elems(m, f)
      PROVE  places(id) # {}
  <2>1. PICK i \in DOMAIN m.field[f].elems : m.field[f].elems[i] = id
    BY <1>8 DEF Elems, ToSet
  <2>2. <<f, i>> \in in(f, id)
    BY <2>1
  <2> QED
    BY <1>2, <2>2
<1>9. ASSUME NEW id, NEW p \in places(id)
      PROVE  id \notin m.user /\ \E f \in Fields : id \in Elems(m, f)
  <2>1. PICK f \in Fields : \E i \in DOMAIN m.field[f].elems : m.field[f].elems[i] = id
    BY <1>6
  <2>2. id \in Elems(m, f)
    BY <1>4, <2>1
  <2>3. Elems(m, f) \cap m.user = {}
    BY <1>1, OwnedIs
  <2> QED
    BY <2>2, <2>3
<1> HIDE DEF places
<1>10. ASSUME NEW id
       PROVE  Cardinality(places(id)) <= 1
  <2>1. CASE places(id) = {}
    BY <2>1, FS_EmptySet
  <2>2. CASE places(id) # {}
    <3>1. PICK p : p \in places(id)
      BY <2>2
    <3>2. places(id) = {p}
      BY <1>7, <3>1
    <3>3. Cardinality({p}) = 1
      BY FS_Singleton
    <3> QED
      BY <3>2, <3>3
  <2> QED
    BY <2>1, <2>2
<1>11. ASSUME NEW id \in DOMAIN m.obj
       PROVE  /\ Cardinality(places(id)) <= 1
              /\ id \in m.user => places(id) = {}
              /\ m.obj[id].at = "heap" => places(id) # {} \/ id \in m.user
  <2>1. id \in m.user => places(id) = {}
    BY <1>9
  <2>2. m.obj[id].at = "heap" => id \in m.user \/ \E f \in Fields : id \in Elems(m, f)
    BY <1>1 DEF Owned
  <2> QED
    BY <1>8, <1>10, <2>1, <2>2
<1> QED
  BY <1>2, <1>3, <1>11 DEF EveryObjectHasOneOwner, places

\* So every object has one owner, and it is deleted once: this is the part about
\* repeated fields of what Memory checks under the same name.
THEOREM EveryObjectHasOneOwnerAlways == ASSUME ConstantsOK PROVE Spec => []EveryObjectHasOneOwner
<1>1. IInv => EveryObjectHasOneOwner
  BY OneOwnerIs
<1> QED
  BY <1>1, Invariant, PTL

===============================================================================
