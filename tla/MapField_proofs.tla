--------------------------- MODULE MapField_proofs ---------------------------
(***************************************************************************)
(* TLAPS proofs about MapField, for any number of fields, threads, keys,   *)
(* values and payload addresses.                                           *)
(***************************************************************************)
EXTENDS MapField, FiniteSetTheorems, SequenceTheorems, WellFoundedInduction,
        TLAPS

USE SentinelsDistinct

-------------------------------------------------------------------------------
(* The operators the model is built from. *)

\* A nonempty set of naturals has a least element.
LEMMA HasMin ==
  ASSUME NEW S \in SUBSET Nat, S # {}
  PROVE  \E m \in S : \A x \in S : m <= x
<1>1. PICK m \in S : \A x \in S : <<x, m>> \notin OpToRel(<, Nat)
  BY NatLessThanWellFounded, WFMin, Zenon
<1>2. ASSUME NEW x \in S PROVE m <= x
  <2>1. <<x, m>> \in Nat \X Nat /\ x \in Nat /\ m \in Nat  OBVIOUS
  <2>2. <<x, m>> \in OpToRel(<, Nat) <=> x < m
    BY <2>1 DEF OpToRel
  <2>3. ~(x < m)  BY <1>1, <2>2, Zenon
  <2> QED BY <2>1, <2>3
<1> QED BY <1>2

\* A nonempty set of indices has a greatest element.
LEMMA HasMax ==
  ASSUME NEW n \in Nat, NEW S \in SUBSET (1..n), S # {}
  PROVE  \E m \in S : \A x \in S : x <= m
<1> DEFINE D == {n - x : x \in S}
<1>1. D \in SUBSET Nat
  <2> SUFFICES ASSUME NEW x \in S PROVE n - x \in Nat  OBVIOUS
  <2> QED OBVIOUS
<1>2. D # {}
  OBVIOUS
<1> HIDE DEF D
<1>3. PICK d \in D : \A y \in D : d <= y
  BY <1>1, <1>2, HasMin
<1>4. PICK m \in S : d = n - m
  BY DEF D
<1>5. ASSUME NEW x \in S PROVE x <= m
  <2>1. n - x \in D  BY DEF D
  <2> QED BY <1>3, <1>4, <2>1
<1> QED BY <1>5

\* LastAt finds the last entry of a key that is listed.
LEMMA LastAtProperties ==
  ASSUME NEW s \in Seq(Entry), NEW k \in Key,
         NEW i \in 1..Len(s), s[i].key = k
  PROVE  /\ LastAt(s, k) \in 1..Len(s)
         /\ s[LastAt(s, k)].key = k
         /\ \A j \in 1..Len(s) : s[j].key = k => j <= LastAt(s, k)
<1> DEFINE S == {j \in 1..Len(s) : s[j].key = k}
<1>1. S \in SUBSET (1..Len(s)) /\ S # {} /\ Len(s) \in Nat
  OBVIOUS
<1>2. \E m \in S : \A x \in S : x <= m
  BY <1>1, HasMax
<1>3. \E m \in 1..Len(s) :
        s[m].key = k /\ \A j \in 1..Len(s) : s[j].key = k => j <= m
  BY <1>2
<1> QED BY <1>3 DEF LastAt

\* The map that a repeated field denotes is a well-formed content.
LEMMA MapOfType ==
  ASSUME NEW s \in Seq(Entry)
  PROVE  MapOf(s) \in Contents
<1> SUFFICES ASSUME NEW k \in Key, NEW i \in 1..Len(s), s[i].key = k
             PROVE  s[LastAt(s, k)].value \in Value
  BY DEF MapOf, Contents
<1>1. LastAt(s, k) \in 1..Len(s)
  BY LastAtProperties
<1>2. s[LastAt(s, k)] \in Entry
  BY <1>1, ElementOfSeq
<1> QED BY <1>2 DEF Entry

LEMMA LastAtUnique ==
  ASSUME NEW s \in Seq(Entry), NEW k \in Key, NEW i \in 1..Len(s),
         s[i].key = k, \A j \in 1..Len(s) : s[j].key = k => j <= i
  PROVE  LastAt(s, k) = i
<1>1. LastAt(s, k) \in 1..Len(s) /\ LastAt(s, k) <= i /\ i <= LastAt(s, k)
  BY LastAtProperties
<1> QED BY <1>1

LEMMA MapOfEmpty == MapOf(<<>>) = Empty
BY DEF MapOf, Empty

\* Appending an entry to a repeated field inserts or overwrites its key.
LEMMA MapOfAppend ==
  ASSUME NEW s \in Seq(Entry), NEW e \in Entry
  PROVE  MapOf(Append(s, e)) = Inserted(MapOf(s), e)
<1> DEFINE a == Append(s, e)
<1>1. /\ a \in Seq(Entry) /\ Len(a) = Len(s) + 1 /\ Len(s) \in Nat
      /\ \A i \in 1..Len(s) : a[i] = s[i]
      /\ a[Len(s) + 1] = e
  BY AppendProperties
<1> HIDE DEF a
<1>2. ASSUME NEW k \in Key
      PROVE  MapOf(a)[k] = IF k = e.key THEN e.value ELSE MapOf(s)[k]
  <2>1. CASE k = e.key
    <3>1. LastAt(a, k) = Len(s) + 1
      BY <1>1, <2>1, LastAtUnique
    <3> QED BY <1>1, <2>1, <3>1 DEF MapOf
  <2>2. CASE k # e.key /\ \E i \in 1..Len(s) : s[i].key = k
    <3>1. /\ LastAt(s, k) \in 1..Len(s) /\ s[LastAt(s, k)].key = k
          /\ \A j \in 1..Len(s) : s[j].key = k => j <= LastAt(s, k)
      BY <2>2, LastAtProperties
    <3>2. LastAt(a, k) = LastAt(s, k)
      BY <1>1, <2>2, <3>1, LastAtUnique
    <3>3. \E i \in 1..Len(a) : a[i].key = k
      BY <1>1, <3>1
    <3> QED BY <1>1, <2>2, <3>1, <3>2, <3>3 DEF MapOf
  <2>3. CASE k # e.key /\ \A i \in 1..Len(s) : s[i].key # k
    <3>1. \A i \in 1..Len(a) : a[i].key # k
      BY <1>1, <2>3
    <3> QED BY <2>3, <3>1 DEF MapOf
  <2> QED BY <2>1, <2>2, <2>3
<1>3. Inserted(MapOf(s), e) =
        [k \in Key |-> IF k = e.key THEN e.value ELSE MapOf(s)[k]]
  BY DEF Inserted, MapOf, Entry
<1>4. MapOf(a) = [k \in Key |-> MapOf(a)[k]]
  BY DEF MapOf
<1>5. MapOf(a) = Inserted(MapOf(s), e)
  BY <1>2, <1>3, <1>4
<1> QED BY <1>5 DEF a

LEMMA EmptyType == Empty \in Contents
BY DEF Empty, Contents

\* An in-order listing of a content is a sequence of entries.
LEMMA ListingsType ==
  ASSUME NEW m \in Contents, NEW l \in Listings(m)
  PROVE  l \in Seq(Entry)
<1> DEFINE n == Cardinality(Present(m))
<1>1. n \in Nat
  <2>1. IsFiniteSet(Present(m))
    BY KeysFinite, FS_Subset DEF Present
  <2> QED BY <2>1, FS_CardinalityType
<1>2. PICK q \in [1..n -> Present(m)] :
        l = [i \in DOMAIN q |-> [key |-> q[i], value |-> m[q[i]]]]
  BY DEF Listings
<1>3. ASSUME NEW i \in 1..n PROVE l[i] \in Entry
  <2>1. q[i] \in Key /\ m[q[i]] # Absent  BY <1>2 DEF Present
  <2> QED BY <1>2, <2>1 DEF Entry, Contents
<1>4. l = [i \in 1..n |-> l[i]]
  BY <1>2
<1> HIDE DEF n
<1> QED BY <1>1, <1>3, <1>4, IsASeq

-------------------------------------------------------------------------------
(* Type correctness. *)

LEMMA ContentType ==
  ASSUME TypeOK, NEW f \in Field
  PROVE  Content(f) \in Contents
<1>1. CASE StateOf(f) = "MODIFIED_REPEATED"
  <2>1. payload[f] \in PayloadId
    BY <1>1 DEF StateOf, TypeOK
  <2>2. rep[payload[f]] \in Seq(Entry)
    BY <2>1 DEF TypeOK
  <2> QED BY <1>1, <2>2, MapOfType DEF Content
<1>2. CASE StateOf(f) # "MODIFIED_REPEATED"
  BY <1>2 DEF Content, TypeOK
<1> QED BY <1>1, <1>2

LEMMA TypeInit == Init => TypeOK /\ LocalsOK
BY EmptyType DEF Init, TypeOK, LocalsOK, State, Accessor

\* Steps of the const accessors.
LEMMA TypeStep ==
  ASSUME IInv, NEW t \in Thread, Step(t)
  PROVE  TypeOK'
<1> USE DEF TypeOK, Goto, Threads, shared, State
<1>0. TypeOK /\ LocalsOK /\ LockInv
  BY DEF IInv
<1>1. CASE LoadState(t)
  BY <1>0, <1>1 DEF LoadState, LocalsOK
<1>2. CASE LoadPayload(t)
  <2>1. payload[on[t]] \in PayloadId \cup {NoPayload}
    BY <1>0, <1>2 DEF LoadPayload, LocalsOK
  <2>2. mine' \in [Thread -> PayloadId \cup {NoPayload}]
    BY <1>0, <1>2, <2>1 DEF LoadPayload
  <2>3. pc' \in [Thread -> {"idle", "state", "payload", "cas", "lock", "check",
                        "fill", "publish", "unlock", "read"}]
    BY <1>0, <1>2 DEF LoadPayload
  <2> QED BY <1>0, <1>2, <2>2, <2>3 DEF LoadPayload
<1>3. CASE CasPayload(t)
  <2>1. mine[t] \in PayloadId /\ on[t] \in Field
    BY <1>0, <1>3 DEF CasPayload, LockInv, CasOK, LocalsOK
  <2>2. payload' \in [Field -> PayloadId \cup {NoPayload}]
    BY <1>0, <1>3, <2>1 DEF CasPayload
  <2>3. mine' \in [Thread -> PayloadId \cup {NoPayload}]
    BY <1>0, <1>3, <2>1, <2>2 DEF CasPayload
  <2> QED BY <1>0, <1>3, <2>2, <2>3 DEF CasPayload
<1>4. CASE Lock(t)
  BY <1>0, <1>4 DEF Lock
<1>5. CASE CheckAgain(t)
  <2>1. Empty \in Contents /\ on[t] \in Field
    BY <1>0, <1>5, EmptyType DEF CheckAgain, LocalsOK
  <2>2. Present(map[on[t]]) \in SUBSET Key
    BY DEF Present
  <2>3. <<>> \in Seq(Entry)
    OBVIOUS
  <2>4. map' \in [Field -> Contents]
    BY <1>0, <1>5, <2>1 DEF CheckAgain
  <2>5. rep' \in [PayloadId -> Seq(Entry)]
    BY <1>0, <1>5, <2>3 DEF CheckAgain
  <2>6. todo' \in [Thread -> SUBSET Key]
    BY <1>0, <1>5, <2>2 DEF CheckAgain
  <2>7. pos' \in [Thread -> Nat \ {0}]
    BY <1>0, <1>5 DEF CheckAgain
  <2>8. pc' \in [Thread -> {"idle", "state", "payload", "cas", "lock", "check",
                        "fill", "publish", "unlock", "read"}]
    BY <1>0, <1>5 DEF CheckAgain
  <2> QED BY <1>0, <1>5, <2>4, <2>5, <2>6, <2>7, <2>8 DEF CheckAgain
<1>6. CASE FillMap(t)
  <2>1. mine[t] \in PayloadId /\ rep[mine[t]] \in Seq(Entry)
    BY <1>0, <1>6 DEF FillMap, LockInv, WorkOK, InPayload
  <2>2. CASE pos[t] <= Len(rep[mine[t]])
    <3>1. rep[mine[t]][pos[t]] \in Entry
      BY <1>0, <2>1, <2>2, ElementOfSeq
    <3>2. \A m \in Contents : Inserted(m, rep[mine[t]][pos[t]]) \in Contents
      BY <3>1 DEF Inserted, Contents, Entry
    <3>3. map' \in [Field -> Contents]
      BY <1>0, <1>6, <2>2, <3>2 DEF FillMap
    <3>4. pos' \in [Thread -> Nat \ {0}]
      <4>1. NextEntry(pos[t]) \in Nat \ {0}
        BY <1>0 DEF NextEntry
      <4>2. pos' = [pos EXCEPT ![t] = NextEntry(pos[t])]
        BY <1>0, <1>6, <2>2 DEF FillMap
      <4> QED BY <1>0, <4>1, <4>2
    <3> QED BY <1>0, <1>6, <3>3, <3>4 DEF FillMap
  <2>3. CASE ~(pos[t] <= Len(rep[mine[t]]))
    BY <1>0, <1>6, <2>3 DEF FillMap
  <2> QED BY <2>2, <2>3
<1>7. CASE FillRepeated(t)
  <2>1. mine[t] \in PayloadId /\ rep[mine[t]] \in Seq(Entry) /\ on[t] \in Field
    BY <1>0, <1>7 DEF FillRepeated, LockInv, WorkOK, InPayload, LocalsOK
  <2>2. CASE todo[t] = {}
    BY <1>0, <1>7, <2>2 DEF FillRepeated
  <2>3. ASSUME NEW k \in todo[t],
               rep' = [rep EXCEPT ![mine[t]] =
                         Append(@, [key |-> k, value |-> map[on[t]][k]])],
               todo' = [todo EXCEPT ![t] = @ \ {k}], UNCHANGED pc
        PROVE  TypeOK'
    <3>1. k \in Key /\ map[on[t]][k] \in Value
      <4>1. map[on[t]] \in [Key -> Value \cup {Absent}]
        BY <1>0, <2>1 DEF Contents
      <4>2. k \in Present(map[on[t]])
        BY <1>7 DEF FillRepeated, IInv, FillInv, RebuildOK
      <4> QED BY <4>1, <4>2 DEF Present
    <3>2. [key |-> k, value |-> map[on[t]][k]] \in Entry
      BY <3>1 DEF Entry
    <3>3. rep' \in [PayloadId -> Seq(Entry)]
      BY <1>0, <2>1, <2>3, <3>2, AppendProperties
    <3>4. todo' \in [Thread -> SUBSET Key]
      BY <1>0, <2>3
    <3> QED BY <1>0, <1>7, <2>3, <3>3, <3>4 DEF FillRepeated
  <2> QED BY <1>7, <2>2, <2>3 DEF FillRepeated
<1>8. CASE Publish(t)
  BY <1>0, <1>8 DEF Publish
<1>9. CASE Unlock(t)
  BY <1>0, <1>9 DEF Unlock
<1>10. CASE Return(t)
  <2>1. Seen(t) \in Contents
    BY <1>0, <1>10, EmptyType, MapOfType DEF Return, Seen, LocalsOK
  <2> QED BY <1>0, <1>10, <2>1 DEF Return
<1> QED BY <1>1, <1>2, <1>3, <1>4, <1>5, <1>6, <1>7, <1>8, <1>9, <1>10 DEF Step

LEMMA TypeBegin ==
  ASSUME TypeOK, NEW t \in Thread, NEW f \in Field, NEW o \in Accessor,
         Begin(t, f, o)
  PROVE  TypeOK'
BY DEF Begin, TypeOK, Goto

LEMMA DirtyType ==
  ASSUME TypeOK, NEW f \in Field
  PROVE  Dirty(f) \in [PayloadId -> State]
BY DEF Dirty, TypeOK, State

LEMMA MergedType ==
  ASSUME NEW a \in Contents, NEW b \in Contents
  PROVE  Merged(a, b) \in Contents
BY DEF Merged, Contents

\* Steps of the mutators.
LEMMA TypeMutate ==
  ASSUME TypeOK, NEW f \in Field, Mutate(f)
  PROVE  TypeOK'
<1> USE DEF Threads
<1>0. Content(f) \in Contents /\ Dirty(f) \in [PayloadId -> State]
  BY ContentType, DirtyType
<1>1. CASE MutableMap(f)
  BY <1>0, <1>1 DEF MutableMap, TypeOK
<1>2. CASE MutableRepeatedField(f)
  <2>1. PICK p \in PayloadId :
          /\ payload' = [payload EXCEPT ![f] = p]
          /\ state' = [state EXCEPT ![p] = "MODIFIED_REPEATED"]
          /\ \/ \E l \in Listings(map[f]) : rep' = [rep EXCEPT ![p] = l]
             \/ UNCHANGED rep
    BY <1>2 DEF MutableRepeatedField
  <2>2. Listings(map[f]) \subseteq Seq(Entry)
    BY ListingsType DEF TypeOK
  <2>3. rep' \in [PayloadId -> Seq(Entry)]
    BY <2>1, <2>2 DEF TypeOK
  <2>4. /\ payload' \in [Field -> PayloadId \cup {NoPayload}]
        /\ state' \in [PayloadId -> State]
    BY <2>1 DEF TypeOK, State
  <2> QED BY <1>2, <2>3, <2>4 DEF MutableRepeatedField, TypeOK
<1>3. CASE RemoveLast(f)
  <2>1. ASSUME NEW q \in Seq(Entry), q # <<>>
        PROVE  SubSeq(q, 1, Len(q) - 1) \in Seq(Entry)
    <3>1. Len(q) \in Nat /\ Len(q) # 0
      BY <2>1, EmptySeq
    <3> QED BY <3>1, SubSeqProperties
  <2>2. rep' \in [PayloadId -> Seq(Entry)]
    BY <1>3, <2>1 DEF RemoveLast, TypeOK
  <2> QED BY <1>3, <2>2 DEF RemoveLast, TypeOK
<1>4. CASE Clear(f)
  <2>1. rep' \in [PayloadId -> Seq(Entry)]
    BY <1>4 DEF Clear, TypeOK
  <2>2. map' \in [Field -> Contents]
    BY <1>4, EmptyType DEF Clear, TypeOK
  <2> QED BY <1>0, <1>4, <2>1, <2>2 DEF Clear, TypeOK
<1>5. ASSUME NEW k \in Key, NEW v \in Value \cup {Absent},
             NEW m \in Contents
      PROVE  [m EXCEPT ![k] = v] \in Contents
  BY <1>5 DEF Contents
<1>6. ASSUME NEW k \in Key, DeleteMapValue(f, k)
      PROVE  TypeOK'
  BY <1>0, <1>5, <1>6 DEF DeleteMapValue, TypeOK
<1>7. ASSUME NEW k \in Key, NEW v \in Value \cup {Absent},
             WriteThroughMap(f, k, v)
      PROVE  TypeOK'
  BY <1>5, <1>7 DEF WriteThroughMap, TypeOK
<1>8. ASSUME NEW k \in Key, NEW v \in Value, InsertOrLookupMapValue(f, k, v)
      PROVE  TypeOK'
  BY <1>0, <1>5, <1>8 DEF InsertOrLookupMapValue, TypeOK
<1>9. ASSUME NEW k \in Key, NEW v \in Value, AddEntry(f, k, v)
      PROVE  TypeOK'
  <2>1. [key |-> k, value |-> v] \in Entry
    BY <1>9 DEF Entry
  <2>2. \A q \in Seq(Entry) : Append(q, [key |-> k, value |-> v]) \in Seq(Entry)
    BY <2>1
  <2> QED BY <1>9, <2>2 DEF AddEntry, TypeOK
<1>10. ASSUME NEW g \in Field, MergeFrom(f, g)
       PROVE  TypeOK'
  <2>1. Content(g) \in Contents /\ Merged(Content(f), Content(g)) \in Contents
    BY <1>0, ContentType, MergedType
  <2>2. map' \in [Field -> Contents]
    BY <1>0, <1>10, <2>1 DEF MergeFrom, TypeOK
  <2>3. state' \in [PayloadId -> State]
    BY <1>0, <1>10 DEF MergeFrom, TypeOK, State
  <2> QED BY <1>10, <2>2, <2>3 DEF MergeFrom, TypeOK
<1>11. ASSUME NEW g \in Field, InternalSwap(f, g)
       PROVE  TypeOK'
  BY <1>11 DEF InternalSwap, PayloadSwapped, ForgetRefs, TypeOK
<1>12. ASSUME NEW g \in Field, SwapAcrossArenas(f, g)
       PROVE  TypeOK'
  <2>1. CASE UNCHANGED <<payload, state, rep>>
    BY <1>12, <2>1 DEF SwapAcrossArenas, ForgetRefs, TypeOK
  <2>2. CASE ~ UNCHANGED <<payload, state, rep>>
    <3>1. PICK p, q \in PayloadId :
            /\ payload[f] = p \/ payload[f] = NoPayload
            /\ payload[g] = q \/ payload[g] = NoPayload
            /\ payload' = [payload EXCEPT ![f] = p, ![g] = q]
            /\ state' = StateSwapped(f, g, p, q)
            /\ rep' = RepSwapped(f, g, p, q)
      BY <1>12, <2>2 DEF SwapAcrossArenas
    <3>2. StateOf(f) \in State /\ StateOf(g) \in State
      BY DEF StateOf, TypeOK, State
    <3>3. state' \in [PayloadId -> State]
      BY <3>1, <3>2 DEF StateSwapped, TypeOK
    <3>4. rep' \in [PayloadId -> Seq(Entry)]
      <4>1. rep[p] \in Seq(Entry) /\ rep[q] \in Seq(Entry) /\ <<>> \in Seq(Entry)
        BY DEF TypeOK
      <4> QED BY <3>1, <4>1 DEF RepSwapped, TypeOK
    <3>5. payload' \in [Field -> PayloadId \cup {NoPayload}]
      BY <3>1 DEF TypeOK
    <3>6. /\ map' \in [Field -> Contents]
          /\ mapRef' \in [Field -> BOOLEAN] /\ repRef' \in [Field -> BOOLEAN]
          /\ UNCHANGED <<holder, Threads>>
      BY <1>12 DEF SwapAcrossArenas, ForgetRefs, TypeOK
    <3> QED BY <3>3, <3>4, <3>5, <3>6 DEF TypeOK
  <2> QED BY <2>1, <2>2
<1> QED BY <1>1, <1>2, <1>3, <1>4, <1>6, <1>7, <1>8, <1>9, <1>10, <1>11, <1>12
    DEF Mutate

-------------------------------------------------------------------------------
(* Locking. *)

LEMMA LocalsStep ==
  ASSUME IInv, NEW t \in Thread, Step(t)
  PROVE  LocalsOK'
<1> USE DEF TypeOK, LocalsOK, Goto, Threads, shared
<1>0. TypeOK /\ LocalsOK
  BY DEF IInv
<1>1. CASE LoadState(t)
  BY <1>0, <1>1 DEF LoadState
<1>2. CASE LoadPayload(t)
  BY <1>0, <1>2 DEF LoadPayload
<1>3. CASE CasPayload(t) \/ Lock(t) \/ Publish(t) \/ Unlock(t)
  BY <1>0, <1>3 DEF CasPayload, Lock, Publish, Unlock
<1>4. CASE CheckAgain(t)
  BY <1>0, <1>4 DEF CheckAgain, StillStale, Stale
<1>5. CASE FillMap(t) \/ FillRepeated(t)
  BY <1>0, <1>5 DEF FillMap, FillRepeated
<1>6. CASE Return(t)
  BY <1>0, <1>6 DEF Return
<1> QED BY <1>1, <1>2, <1>3, <1>4, <1>5, <1>6 DEF Step

\* A step inside the critical section leaves the lock alone.
LEMMA LockFrame ==
  ASSUME TypeOK, LockInv, NEW t \in Thread, NEW l,
         UNCHANGED <<payload, holder, op, on, mine>>, Goto(t, l),
         pc[t] \in {"check", "fill", "publish"},
         l \in {"fill", "publish", "unlock"}
  PROVE  LockInv'
<1>1. \A u \in Thread : InLock(u)' = InLock(u) /\ InPayload(u)' = InPayload(u)
  BY DEF InLock, InPayload, Goto, TypeOK
<1>2. NotShared' /\ MutexOK'
  BY <1>1 DEF LockInv, NotShared, MutexOK
<1>3. \A u \in Thread : WorkOK(u)'
  BY <1>1 DEF LockInv, WorkOK
<1>4. \A u \in Thread : CasOK(u)'
  BY DEF LockInv, CasOK, Goto, TypeOK
<1> QED BY <1>2, <1>3, <1>4 DEF LockInv

LEMMA LockStep ==
  ASSUME IInv, NEW t \in Thread, Step(t)
  PROVE  LockInv'
<1> USE DEF Goto, Threads, shared
<1>0. TypeOK /\ LocalsOK /\ LockInv
  BY DEF IInv
<1>1. CASE LoadState(t)
  <2>1. \A u \in Thread : ~InLock(t)' /\ ~InLock(t) /\ ~InPayload(t)'
    BY <1>0, <1>1 DEF LoadState, InLock, InPayload, TypeOK, LocalsOK, Stale
  <2>2. \A u \in Thread : u # t =>
          InLock(u)' = InLock(u) /\ InPayload(u)' = InPayload(u)
    BY <1>0, <1>1 DEF LoadState, InLock, InPayload, TypeOK
  <2>3. NotShared' /\ MutexOK'
    BY <1>0, <1>1, <2>1, <2>2
    DEF LoadState, LockInv, NotShared, MutexOK, TypeOK
  <2>4. \A u \in Thread : WorkOK(u)'
    BY <1>0, <1>1, <2>1, <2>2 DEF LoadState, LockInv, WorkOK, TypeOK
  <2>5. \A u \in Thread : CasOK(u)'
    <3>1. on[t] \in Field
      BY <1>0, <1>1 DEF LoadState, LocalsOK
    <3> QED BY <1>0, <1>1, <3>1 DEF LoadState, LockInv, CasOK, TypeOK
  <2> QED BY <2>3, <2>4, <2>5 DEF LockInv
<1>2. CASE LoadPayload(t)
  <2>0. on[t] \in Field
    BY <1>0, <1>2 DEF LoadPayload, LocalsOK
  <2>1. ~InLock(t)
    BY <1>0, <1>2 DEF LoadPayload, InLock
  <2>2. \A u \in Thread : u # t =>
          InLock(u)' = InLock(u) /\ InPayload(u)' = InPayload(u)
    BY <1>0, <1>2 DEF LoadPayload, InLock, InPayload, TypeOK
  <2>3. payload[on[t]] # NoPayload => payload[on[t]] \in PayloadId
    BY <1>0, <2>0 DEF TypeOK
  <2>4. /\ mine' = [mine EXCEPT ![t] = mine'[t]]
        /\ ~InLock(t)' /\ (InPayload(t)' => mine'[t] = payload[on[t]] /\ mine'[t] # NoPayload)
    BY <1>0, <1>2 DEF LoadPayload, InLock, InPayload, TypeOK
  <2>5. /\ NotShared'
        /\ \A u \in Thread : (InLock(u)' <=> InLock(u)) /\ (u # t => mine'[u] = mine[u])
    BY <1>0, <1>2, <2>1, <2>2, <2>4
    DEF LoadPayload, LockInv, NotShared, TypeOK
  <2>8. MutexOK'
    BY <1>0, <1>2, <2>1, <2>5 DEF LoadPayload, LockInv, MutexOK
  <2>6. \A u \in Thread : WorkOK(u)'
    BY <1>0, <1>2, <2>2, <2>3, <2>4 DEF LoadPayload, LockInv, WorkOK, TypeOK
  <2>7. \A u \in Thread : CasOK(u)'
    BY <1>0, <1>2, <2>0 DEF LoadPayload, LockInv, CasOK, TypeOK, Fresh
  <2> QED BY <2>5, <2>6, <2>7, <2>8 DEF LockInv
<1>3. CASE CasPayload(t)
  BY <1>0, <1>3
  DEF CasPayload, TypeOK, LocalsOK, LockInv, NotShared, MutexOK, WorkOK, CasOK,
      InPayload, InLock
<1>4. CASE Lock(t)
  BY <1>0, <1>4
  DEF Lock, TypeOK, LocalsOK, LockInv, NotShared, MutexOK, WorkOK, CasOK,
      InPayload, InLock
<1>5. CASE CheckAgain(t)
  BY <1>0, <1>5, LockFrame DEF CheckAgain
<1>6. CASE FillMap(t)
  <2>1. CASE UNCHANGED pc
    <3>1. Goto(t, "fill")
      BY <1>0, <1>6, <2>1 DEF FillMap, TypeOK
    <3> QED BY <1>0, <1>6, <3>1, LockFrame DEF FillMap
  <2>2. CASE Goto(t, "publish")
    BY <1>0, <1>6, <2>2, LockFrame DEF FillMap
  <2> QED BY <1>6, <2>1, <2>2 DEF FillMap
<1>7. CASE FillRepeated(t)
  <2>1. CASE UNCHANGED pc
    <3>1. Goto(t, "fill")
      BY <1>0, <1>7, <2>1 DEF FillRepeated, TypeOK
    <3> QED BY <1>0, <1>7, <3>1, LockFrame DEF FillRepeated
  <2>2. CASE Goto(t, "publish")
    BY <1>0, <1>7, <2>2, LockFrame DEF FillRepeated
  <2> QED BY <1>7, <2>1, <2>2 DEF FillRepeated
<1>8. CASE Publish(t)
  BY <1>0, <1>8, LockFrame DEF Publish
<1>9. CASE Unlock(t)
  <2>1. InLock(t) /\ ~InLock(t)' /\ ~InPayload(t)'
    BY <1>0, <1>9 DEF Unlock, InLock, InPayload, TypeOK, LocalsOK
  <2>2. \A u \in Thread : u # t =>
          (InLock(u)' <=> InLock(u)) /\ (InPayload(u)' <=> InPayload(u))
    <3>1. \A u \in Thread : u # t => pc'[u] = pc[u]
      BY <1>0, <1>9 DEF Unlock, TypeOK
    <3> QED BY <1>9, <3>1 DEF Unlock, InLock, InPayload
  <2>3. holder[mine[t]] = t /\ mine[t] \in PayloadId
    BY <1>0, <2>1 DEF LockInv, MutexOK, WorkOK
  <2>4. MutexOK'
    BY <1>0, <1>9, <2>1, <2>2, <2>3 DEF Unlock, LockInv, MutexOK, TypeOK
  <2>5. NotShared' /\ \A u \in Thread : WorkOK(u)' /\ CasOK(u)'
    BY <1>0, <1>9, <2>1, <2>2
    DEF Unlock, LockInv, NotShared, WorkOK, CasOK, TypeOK
  <2> QED BY <2>4, <2>5 DEF LockInv
<1>10. CASE Return(t)
  BY <1>0, <1>10
  DEF Return, TypeOK, LocalsOK, LockInv, NotShared, MutexOK, WorkOK, CasOK,
      InPayload, InLock
<1> QED BY <1>1, <1>2, <1>3, <1>4, <1>5, <1>6, <1>7, <1>8, <1>9, <1>10 DEF Step

-------------------------------------------------------------------------------
(* The state word. *)

\* Two threads in a critical section work on different payloads and fields.
LEMMA Exclusion ==
  ASSUME IInv, NEW t \in Thread, NEW u \in Thread, t # u, InLock(t), InLock(u)
  PROVE  mine[t] # mine[u] /\ on[t] # on[u]
BY DEF IInv, LockInv, MutexOK, WorkOK

\* A step that leaves what thread u knows about alone.
LEMMA StateFrame ==
  ASSUME LocalsOK, NEW u \in Thread, StateOK(u),
         /\ pc'[u] = pc[u] /\ op'[u] = op[u] /\ on'[u] = on[u]
         /\ mine'[u] = mine[u],
         on[u] \in Field =>
           /\ map'[on[u]] = map[on[u]] /\ payload'[on[u]] = payload[on[u]]
           /\ StateOf(on[u])' = StateOf(on[u]),
         state'[mine[u]] = state[mine[u]]
  PROVE  StateOK(u)'
<1>1. CASE pc[u] = "idle"
  BY <1>1 DEF StateOK
<1>2. CASE pc[u] # "idle"
  BY <1>2 DEF StateOK, StillStale, StateOf, LocalsOK
<1> QED BY <1>1, <1>2

LEMMA StateStep ==
  ASSUME IInv, NEW t \in Thread, Step(t)
  PROVE  StateInv'
<1> USE DEF Goto, Threads, shared
<1>0. TypeOK /\ LocalsOK /\ LockInv /\ StateInv
  BY DEF IInv
<1>a. pc[t] # "idle" /\ on[t] \in Field /\ op[t] \in Accessor
  BY <1>0 DEF Step, LoadState, LoadPayload, CasPayload, Lock, CheckAgain,
              FillMap, FillRepeated, Publish, Unlock, Return, LocalsOK
<1>b. ASSUME UNCHANGED <<map, payload, state, rep>>,
             \A u \in Thread : u # t =>
               /\ pc'[u] = pc[u] /\ op'[u] = op[u] /\ on'[u] = on[u]
               /\ mine'[u] = mine[u],
             StateOK(t)'
      PROVE  StateInv'
  <2>1. \A f : StateOf(f)' = StateOf(f)
    BY <1>b DEF StateOf
  <2>2. \A u \in Thread : u # t => StateOK(u)'
    BY <1>0, <1>b, <2>1, StateFrame DEF StateInv
  <2> QED BY <1>0, <1>b, <2>2 DEF StateInv, UnpublishedOK
<1>1. CASE LoadState(t)
  <2>1. StateOK(t)'
    <3>1. pc'[t] = IF Stale(op[t], StateOf(on[t])) THEN "payload" ELSE "read"
      BY <1>0, <1>1 DEF LoadState, TypeOK
    <3>2. /\ mine'[t] = payload[on[t]] /\ op'[t] = op[t] /\ on'[t] = on[t]
          /\ StateOf(on[t])' = StateOf(on[t]) /\ op[t] # "SpaceUsed"
          /\ payload[on[t]] \in PayloadId \cup {NoPayload}
          /\ UNCHANGED <<payload, map, state>>
      BY <1>0, <1>a, <1>1 DEF LoadState, TypeOK, StateOf, LocalsOK
    <3> QED BY <1>a, <3>1, <3>2 DEF StateOK, Stale, StateOf, Accessor
  <2> QED BY <1>0, <1>1, <1>b, <2>1 DEF LoadState, TypeOK
<1>2. CASE LoadPayload(t)
  <2>1. StateOK(t)'
    <3>1. /\ op'[t] = op[t] /\ on'[t] = on[t]
          /\ UNCHANGED <<payload, map, state, rep>>
          /\ StateOf(on[t])' = StateOf(on[t])
      BY <1>2 DEF LoadPayload, StateOf
    <3>2. CASE payload[on[t]] # NoPayload
      <4>1. pc'[t] = "lock"
        BY <1>0, <1>2, <3>2 DEF LoadPayload, TypeOK
      <4> QED BY <4>1 DEF StateOK
    <3>3. CASE payload[on[t]] = NoPayload /\ pc'[t] = "read"
      <4>1. mine'[t] = NoPayload /\ (op[t] = "SpaceUsed" \/ map[on[t]] = Empty)
        BY <1>0, <1>2, <3>3 DEF LoadPayload, TypeOK
      <4> QED BY <3>1, <3>3, <4>1 DEF StateOK, StateOf
    <3>4. CASE payload[on[t]] = NoPayload /\ pc'[t] = "cas"
      <4>1. map[on[t]] # Empty
        BY <1>0, <1>2, <3>4 DEF LoadPayload, TypeOK
      <4> QED BY <3>1, <3>4, <4>1 DEF StateOK, StateOf
    <3> QED BY <1>0, <1>2, <3>2, <3>3, <3>4 DEF LoadPayload, TypeOK
  <2> QED BY <1>0, <1>2, <1>b, <2>1 DEF LoadPayload, TypeOK
<1>3. CASE CasPayload(t)
  <2>1. /\ mine[t] \in PayloadId /\ state[mine[t]] = "MODIFIED_MAP"
        /\ map[on[t]] # Empty
    BY <1>0, <1>3 DEF CasPayload, LockInv, CasOK, StateInv, UnpublishedOK, StateOK
  <2>2. \A f \in Field : StateOf(f)' = StateOf(f)
    BY <1>0, <1>3, <2>1 DEF CasPayload, StateOf, TypeOK
  <2>3. ASSUME NEW u \in Thread, u # t PROVE StateOK(u)'
    <3>1. /\ pc'[u] = pc[u] /\ op'[u] = op[u] /\ on'[u] = on[u]
          /\ mine'[u] = mine[u] /\ UNCHANGED <<map, state>>
      BY <1>0, <1>3, <2>3 DEF CasPayload, TypeOK
    <3>2. CASE on[u] \in Field /\ on[u] # on[t]
      <4>1. payload'[on[u]] = payload[on[u]]
        BY <1>0, <1>3, <3>2 DEF CasPayload, TypeOK
      <4> QED BY <1>0, <2>2, <3>1, <3>2, <4>1, StateFrame DEF StateInv
    <3>3. CASE on[u] = on[t]
      <4>1. payload[on[t]] # NoPayload => payload'[on[t]] = payload[on[t]]
        BY <1>0, <1>3, <1>a DEF CasPayload, TypeOK
      <4>2. StateOf(on[u])' = StateOf(on[u])
        BY <1>a, <2>2, <3>1, <3>3
      <4> QED BY <1>0, <2>1, <2>3, <3>1, <3>3, <4>1, <4>2
          DEF StateInv, StateOK, StillStale
    <3>4. CASE on[u] \notin Field
      <4>1. pc[u] = "idle"
        BY <1>0, <3>4 DEF LocalsOK
      <4> QED BY <3>1, <4>1 DEF StateOK
    <3> QED BY <3>2, <3>3, <3>4
  <2>4. StateOK(t)'
    BY <1>0, <1>3 DEF CasPayload, StateOK, TypeOK
  <2>5. UnpublishedOK'
    <3>1. \A f \in Field : payload'[f] # payload[f] => payload[f] = NoPayload
      BY <1>0, <1>3 DEF CasPayload, TypeOK
    <3> QED BY <1>0, <1>3, <3>1 DEF CasPayload, StateInv, UnpublishedOK
  <2> QED BY <2>3, <2>4, <2>5 DEF StateInv
<1>4. CASE Lock(t)
  <2>1. StateOK(t)'
    <3>1. /\ pc'[t] = IF op[t] = "SpaceUsed" THEN "read" ELSE "check"
          /\ mine'[t] = mine[t] /\ op'[t] = op[t]
      BY <1>0, <1>4 DEF Lock, TypeOK
    <3>2. mine[t] # NoPayload
      BY <1>0, <1>4 DEF Lock, LockInv, WorkOK, InPayload
    <3> QED BY <3>1, <3>2 DEF StateOK
  <2> QED BY <1>0, <1>4, <1>b, <2>1 DEF Lock, TypeOK
<1>5. CASE CheckAgain(t)
  <2>1. InLock(t) /\ mine[t] \in PayloadId /\ mine[t] = payload[on[t]]
    BY <1>0, <1>5 DEF CheckAgain, LockInv, WorkOK, InLock
  <2>2. StateOf(on[t]) = state[mine[t]]
    BY <2>1 DEF StateOf
  <2>3. map' # map => StateOf(on[t]) = "MODIFIED_REPEATED"
    BY <1>5, <2>2 DEF CheckAgain, StillStale, Stale
  <2>4. /\ map' = [map EXCEPT ![on[t]] = map'[on[t]]]
        /\ UNCHANGED <<payload, state, op, on, mine>>
        /\ \A f : StateOf(f)' = StateOf(f)
    BY <1>0, <1>a, <1>5 DEF CheckAgain, TypeOK, StateOf
  <2>5. ASSUME NEW u \in Thread, u # t PROVE StateOK(u)'
    <3>1. pc'[u] = pc[u]
      BY <1>0, <1>5, <2>5 DEF CheckAgain, TypeOK
    <3>2. CASE on[u] # on[t] \/ map' = map
      <4>1. on[u] \in Field => map'[on[u]] = map[on[u]]
        BY <1>0, <2>4, <3>2 DEF TypeOK
      <4> QED BY <1>0, <2>4, <3>1, <4>1, StateFrame DEF StateInv
    <3>3. CASE on[u] = on[t] /\ map' # map
      BY <1>0, <2>1, <2>3, <2>4, <3>1, <3>3 DEF StateInv, StateOK, StillStale
    <3> QED BY <3>2, <3>3
  <2>6. StateOK(t)'
    <3>1. \/ pc'[t] = "unlock" /\ ~StillStale(t)
          \/ pc'[t] = "fill" /\ StillStale(t)
      BY <1>0, <1>5 DEF CheckAgain, TypeOK
    <3> QED BY <2>4, <3>1 DEF StateOK, StillStale
  <2>7. UnpublishedOK'
    BY <1>0, <1>5, <1>a, <2>1 DEF CheckAgain, StateInv, UnpublishedOK, TypeOK
  <2> QED BY <2>5, <2>6, <2>7 DEF StateInv
<1>6. CASE FillMap(t)
  <2>1. InLock(t) /\ mine[t] \in PayloadId /\ mine[t] = payload[on[t]]
    BY <1>0, <1>6 DEF FillMap, LockInv, WorkOK, InLock
  <2>2. StateOf(on[t]) = "MODIFIED_REPEATED"
    BY <1>0, <1>6, <2>1
    DEF FillMap, StateInv, StateOK, StillStale, Stale, StateOf
  <2>3. /\ map' = [map EXCEPT ![on[t]] = map'[on[t]]]
        /\ UNCHANGED <<payload, state, rep, op, on, mine>>
        /\ \A f : StateOf(f)' = StateOf(f)
    BY <1>0, <1>a, <1>6 DEF FillMap, TypeOK, StateOf
  <2>4. ASSUME NEW u \in Thread, u # t PROVE StateOK(u)'
    <3>1. pc'[u] = pc[u]
      BY <1>0, <1>6, <2>4 DEF FillMap, TypeOK
    <3>2. CASE on[u] # on[t]
      <4>1. on[u] \in Field => map'[on[u]] = map[on[u]]
        BY <1>0, <2>3, <3>2 DEF TypeOK
      <4> QED BY <1>0, <2>3, <3>1, <4>1, StateFrame DEF StateInv
    <3>3. CASE on[u] = on[t]
      BY <1>0, <2>1, <2>2, <2>3, <3>1, <3>3 DEF StateInv, StateOK, StillStale
    <3> QED BY <3>2, <3>3
  <2>5. StateOK(t)'
    <3>1. pc'[t] \in {"fill", "publish"} /\ pc[t] = "fill"
      BY <1>0, <1>6 DEF FillMap, TypeOK
    <3> QED BY <1>0, <2>3, <3>1 DEF StateInv, StateOK, StillStale
  <2>6. UnpublishedOK'
    BY <1>0, <2>3 DEF StateInv, UnpublishedOK
  <2> QED BY <2>4, <2>5, <2>6 DEF StateInv
<1>7. CASE FillRepeated(t)
  <2>1. InLock(t) /\ mine[t] \in PayloadId /\ mine[t] = payload[on[t]]
    BY <1>0, <1>7 DEF FillRepeated, LockInv, WorkOK, InLock
  <2>2. /\ UNCHANGED <<map, payload, state, op, on, mine>>
        /\ \A f : StateOf(f)' = StateOf(f)
        /\ \A p \in PayloadId : p # mine[t] => rep'[p] = rep[p]
    BY <1>0, <1>7 DEF FillRepeated, TypeOK, StateOf
  <2>3. ASSUME NEW u \in Thread, u # t PROVE StateOK(u)'
    <3>1. pc'[u] = pc[u]
      BY <1>0, <1>7, <2>3 DEF FillRepeated, TypeOK
    <3> QED BY <1>0, <2>2, <3>1, StateFrame DEF StateInv
  <2>4. StateOK(t)'
    <3>1. pc'[t] \in {"fill", "publish"} /\ pc[t] = "fill"
      BY <1>0, <1>7 DEF FillRepeated, TypeOK
    <3> QED BY <1>0, <2>2, <3>1 DEF StateInv, StateOK, StillStale
  <2>5. UnpublishedOK'
    BY <1>0, <1>a, <2>1, <2>2 DEF StateInv, UnpublishedOK
  <2> QED BY <2>3, <2>4, <2>5 DEF StateInv
<1>8. CASE Publish(t)
  <2>1. InLock(t) /\ mine[t] \in PayloadId /\ mine[t] = payload[on[t]]
    BY <1>0, <1>8 DEF Publish, LockInv, WorkOK, InLock
  <2>2. /\ UNCHANGED <<map, payload, rep, op, on, mine>>
        /\ state' = [state EXCEPT ![mine[t]] = "CLEAN"]
    BY <1>8 DEF Publish
  <2>3. \A f \in Field : StateOf(f)' \in {StateOf(f), "CLEAN"}
    BY <1>0, <2>1, <2>2 DEF StateOf, TypeOK
  <2>4. ASSUME NEW u \in Thread, u # t PROVE StateOK(u)'
    <3>1. pc'[u] = pc[u]
      BY <1>0, <1>8, <2>4 DEF Publish, TypeOK
    <3>2. CASE pc[u] \in {"check", "fill", "publish", "unlock"}
      <4>1. mine[u] # mine[t]
        BY <2>1, <2>4, <3>2, Exclusion DEF InLock
      <4>2. state'[mine[u]] = state[mine[u]]
        BY <1>0, <2>2, <4>1, <3>2 DEF TypeOK, LockInv, WorkOK, InLock
      <4> QED BY <1>0, <2>2, <3>1, <3>2, <4>2 DEF StateInv, StateOK, StillStale
    <3>3. CASE pc[u] \notin {"check", "fill", "publish", "unlock", "idle"}
      <4>1. on[u] \in Field
        BY <1>0, <3>3 DEF LocalsOK
      <4> QED BY <1>0, <2>2, <2>3, <3>1, <3>3, <4>1 DEF StateInv, StateOK
    <3>4. CASE pc[u] = "idle"
      BY <3>1, <3>4 DEF StateOK
    <3> QED BY <3>2, <3>3, <3>4
  <2>5. StateOK(t)'
    BY <1>0, <1>8, <2>1, <2>2 DEF Publish, StateOK, StillStale, Stale, TypeOK
  <2>6. UnpublishedOK'
    BY <1>0, <1>a, <2>1, <2>2 DEF StateInv, UnpublishedOK, TypeOK
  <2> QED BY <2>4, <2>5, <2>6 DEF StateInv
<1>9. CASE Unlock(t)
  <2>1. StateOK(t)'
    <3>1. /\ mine[t] \in PayloadId /\ mine[t] = payload[on[t]]
          /\ ~StillStale(t) /\ op[t] # "SpaceUsed"
      BY <1>0, <1>9
      DEF Unlock, LockInv, WorkOK, InLock, StateInv, StateOK, LocalsOK
    <3>2. StateOf(on[t]) = state[mine[t]]
      BY <3>1 DEF StateOf
    <3>3. /\ UNCHANGED <<payload, state, map, op, on, mine>>
          /\ pc'[t] = "read" /\ StateOf(on[t])' = StateOf(on[t])
      BY <1>0, <1>9 DEF Unlock, TypeOK, StateOf
    <3> QED BY <1>a, <3>1, <3>2, <3>3 DEF StateOK, StillStale, Stale, Accessor
  <2> QED BY <1>0, <1>9, <1>b, <2>1 DEF Unlock, TypeOK
<1>10. CASE Return(t)
  <2>1. StateOK(t)'
    BY <1>0, <1>10 DEF Return, StateOK, TypeOK
  <2> QED BY <1>0, <1>10, <1>b, <2>1 DEF Return, TypeOK
<1> QED BY <1>1, <1>2, <1>3, <1>4, <1>5, <1>6, <1>7, <1>8, <1>9, <1>10 DEF Step

-------------------------------------------------------------------------------
(* The rebuilt copies. *)

\* One more entry of the repeated field has reached the map.
LEMMA OneMoreEntry ==
  ASSUME NEW r \in Seq(Entry), NEW n \in 1..Len(r)
  PROVE  MapOf(SubSeq(r, 1, n)) = Inserted(MapOf(SubSeq(r, 1, n - 1)), r[n])
<1>1. SubSeq(r, 1, n - 1) \in Seq(Entry) /\ r[n] \in Entry
  <2>1. \A i \in 1..(n - 1) : r[i] \in Entry
    BY ElementOfSeq
  <2> QED BY <2>1, SubSeqProperties, ElementOfSeq
<1>2. SubSeq(r, 1, n) = SubSeq(r, 1, n - 1) \o <<r[n]>>
  <2>1. 1 \in 1..Len(r) /\ n \in 1..Len(r)
    OBVIOUS
  <2> QED BY <2>1, SubSeqRecursiveSecond
<1>3. SubSeq(r, 1, n) = Append(SubSeq(r, 1, n - 1), r[n])
  BY <1>1, <1>2, AppendIsConcat
<1> QED BY <1>1, <1>3, MapOfAppend

\* A step of another thread leaves a rebuild alone.
LEMMA RebuildFrame ==
  ASSUME NEW u \in Thread, RebuildOK(u),
         /\ pc'[u] = pc[u] /\ op'[u] = op[u] /\ on'[u] = on[u]
         /\ mine'[u] = mine[u] /\ pos'[u] = pos[u] /\ todo'[u] = todo[u],
         pc[u] \in {"fill", "publish"} =>
           map'[on[u]] = map[on[u]] /\ rep'[mine[u]] = rep[mine[u]]
  PROVE  RebuildOK(u)'
BY DEF RebuildOK

LEMMA FillStep ==
  ASSUME IInv, NEW t \in Thread, Step(t)
  PROVE  FillInv' /\ CleanMeansSame'
<1> USE DEF Goto, Threads, shared
<1>0. TypeOK /\ LocalsOK /\ LockInv /\ StateInv /\ FillInv /\ CleanMeansSame
  BY DEF IInv
<1>a. pc[t] # "idle" /\ on[t] \in Field
  BY <1>0 DEF Step, LoadState, LoadPayload, CasPayload, Lock, CheckAgain,
              FillMap, FillRepeated, Publish, Unlock, Return, LocalsOK
<1>b. ASSUME pc[t] \in {"check", "fill", "publish"}
      PROVE  InLock(t) /\ mine[t] \in PayloadId /\ mine[t] = payload[on[t]]
  BY <1>0, <1>b DEF LockInv, WorkOK, InLock
<1>1. ASSUME \A u \in Thread : u # t =>
               /\ pc'[u] = pc[u] /\ op'[u] = op[u] /\ on'[u] = on[u]
               /\ mine'[u] = mine[u] /\ pos'[u] = pos[u] /\ todo'[u] = todo[u],
             pc[t] \in {"check", "fill", "publish"} \/ UNCHANGED <<map, rep>>,
             \A f \in Field : f # on[t] => map'[f] = map[f],
             \A p \in PayloadId : p # mine[t] => rep'[p] = rep[p]
      PROVE  \A u \in Thread : u # t => RebuildOK(u)'
  <2> SUFFICES ASSUME NEW u \in Thread, u # t PROVE RebuildOK(u)'
    OBVIOUS
  <2>1. ASSUME pc[u] \in {"fill", "publish"}
        PROVE  map'[on[u]] = map[on[u]] /\ rep'[mine[u]] = rep[mine[u]]
    <3>1. InLock(u) /\ on[u] \in Field /\ mine[u] \in PayloadId
      BY <1>0, <2>1 DEF LockInv, WorkOK, InLock, LocalsOK
    <3>2. pc[t] \in {"check", "fill", "publish"} =>
            mine[t] # mine[u] /\ on[t] # on[u]
      BY <1>b, <3>1, Exclusion
    <3> QED BY <1>1, <3>1, <3>2
  <2> QED BY <1>0, <1>1, <2>1, RebuildFrame DEF FillInv
<1>2. ASSUME \A u \in Thread : u # t =>
               /\ pc'[u] = pc[u] /\ op'[u] = op[u] /\ on'[u] = on[u]
               /\ mine'[u] = mine[u] /\ pos'[u] = pos[u] /\ todo'[u] = todo[u],
             UNCHANGED <<map, payload, state, rep>>,
             pc'[t] \notin {"fill", "publish"}
      PROVE  FillInv' /\ CleanMeansSame'
  <2>1. \A u \in Thread : u # t => RebuildOK(u)'
    BY <1>1, <1>2
  <2>2. RebuildOK(t)'
    BY <1>2 DEF RebuildOK
  <2>3. CleanMeansSame'
    BY <1>0, <1>2 DEF CleanMeansSame, StateOf
  <2> QED BY <2>1, <2>2, <2>3 DEF FillInv
<1>3. CASE LoadState(t)
  BY <1>0, <1>2, <1>3 DEF LoadState, TypeOK
<1>4. CASE LoadPayload(t)
  BY <1>0, <1>2, <1>4 DEF LoadPayload, TypeOK
<1>5. CASE CasPayload(t)
  <2>1. \A u \in Thread : u # t => RebuildOK(u)'
    BY <1>0, <1>1, <1>5 DEF CasPayload, TypeOK
  <2>2. RebuildOK(t)'
    BY <1>0, <1>5 DEF CasPayload, RebuildOK, TypeOK
  <2>3. mine[t] \in PayloadId /\ state[mine[t]] = "MODIFIED_MAP"
    BY <1>0, <1>5 DEF CasPayload, LockInv, CasOK, StateInv, UnpublishedOK
  <2>4. CleanMeansSame'
    BY <1>0, <1>5, <2>3 DEF CasPayload, CleanMeansSame, StateOf, TypeOK
  <2> QED BY <2>1, <2>2, <2>4 DEF FillInv
<1>6. CASE Lock(t)
  BY <1>0, <1>2, <1>6 DEF Lock, TypeOK
<1>7. CASE CheckAgain(t)
  <2>1. /\ UNCHANGED <<payload, state, op, on, mine>>
        /\ \A f \in Field : f # on[t] => map'[f] = map[f]
        /\ \A p \in PayloadId : p # mine[t] => rep'[p] = rep[p]
    BY <1>0, <1>7 DEF CheckAgain, TypeOK
  <2>2. \A u \in Thread : u # t => RebuildOK(u)'
    BY <1>0, <1>1, <1>7, <2>1 DEF CheckAgain, TypeOK
  <2>3. InLock(t) /\ mine[t] \in PayloadId /\ mine[t] = payload[on[t]]
    BY <1>b, <1>7 DEF CheckAgain
  <2>4. CASE ~StillStale(t)
    <3>1. pc'[t] = "unlock" /\ UNCHANGED <<map, rep>>
      BY <1>0, <1>7, <2>4 DEF CheckAgain, TypeOK
    <3>2. CleanMeansSame'
      BY <1>0, <2>1, <3>1 DEF CleanMeansSame, StateOf
    <3> QED BY <2>2, <3>1, <3>2 DEF FillInv, RebuildOK
  <2>5. CASE StillStale(t) /\ op[t] = "GetMap"
    <3>1. /\ pc'[t] = "fill" /\ map' = [map EXCEPT ![on[t]] = Empty]
          /\ pos'[t] = 1 /\ UNCHANGED rep /\ state[mine[t]] = "MODIFIED_REPEATED"
      BY <1>0, <1>7, <2>5 DEF CheckAgain, TypeOK, StillStale, Stale
    <3>2. MapOf(SubSeq(rep[mine[t]], 1, 1 - 1)) = Empty
      <4>1. 1 \in Int /\ 1 - 1 \in Int /\ 1 - 1 < 1
        OBVIOUS
      <4>2. SubSeq(rep[mine[t]], 1, 1 - 1) = <<>>
        BY <4>1, SubSeqEmpty
      <4> QED BY <4>2, MapOfEmpty
    <3>3. map'[on[t]] = Empty /\ Len(rep[mine[t]]) \in Nat
      BY <1>0, <1>a, <2>3, <3>1 DEF TypeOK
    <3>4. RebuildOK(t)'
      BY <2>1, <2>5, <3>1, <3>2, <3>3 DEF RebuildOK
    <3>5. CleanMeansSame'
      BY <1>0, <2>1, <2>3, <3>1 DEF CleanMeansSame, StateOf, TypeOK
    <3> QED BY <2>2, <3>4, <3>5 DEF FillInv
  <2>6. CASE StillStale(t) /\ op[t] = "GetRepeatedField"
    <3>1. /\ pc'[t] = "fill" /\ rep' = [rep EXCEPT ![mine[t]] = <<>>]
          /\ todo'[t] = Present(map[on[t]]) /\ UNCHANGED map
          /\ state[mine[t]] = "MODIFIED_MAP"
      BY <1>0, <1>7, <2>5, <2>6 DEF CheckAgain, TypeOK, StillStale, Stale
    <3>2. MapOf(rep'[mine[t]]) = Empty
      BY <1>0, <2>3, <3>1, MapOfEmpty DEF TypeOK
    <3>3. Empty = [k \in Key |-> IF k \in Present(map[on[t]]) THEN Absent
                                 ELSE map[on[t]][k]]
      BY DEF Empty, Present
    <3>4. RebuildOK(t)'
      BY <2>1, <2>6, <3>1, <3>2, <3>3 DEF RebuildOK
    <3>5. CleanMeansSame'
      <4>1. \A f \in Field : payload[f] = mine[t] => StateOf(f)' # "CLEAN"
        BY <2>1, <2>3, <3>1 DEF StateOf
      <4>2. \A f \in Field : StateOf(f)' = StateOf(f)
        BY <2>1 DEF StateOf
      <4>3. \A f \in Field : StateOf(f) = "CLEAN" => payload[f] \in PayloadId
        BY <1>0 DEF StateOf, TypeOK
      <4> QED BY <1>0, <2>1, <3>1, <4>1, <4>2, <4>3 DEF CleanMeansSame
    <3> QED BY <2>2, <3>4, <3>5 DEF FillInv
  <2> QED BY <1>7, <2>4, <2>5, <2>6 DEF CheckAgain
<1>8. CASE FillMap(t)
  <2>1. /\ UNCHANGED <<payload, state, rep, op, on, mine, todo>>
        /\ \A f \in Field : f # on[t] => map'[f] = map[f]
        /\ \A u \in Thread : u # t => pc'[u] = pc[u] /\ pos'[u] = pos[u]
        /\ pc[t] = "fill" /\ op[t] = "GetMap"
    BY <1>0, <1>8 DEF FillMap, TypeOK
  <2>2. \A u \in Thread : u # t => RebuildOK(u)'
    BY <1>1, <2>1
  <2>3. InLock(t) /\ mine[t] \in PayloadId /\ mine[t] = payload[on[t]]
    BY <1>b, <2>1
  <2>4. /\ pos[t] <= Len(rep[mine[t]]) + 1 /\ pos[t] \in Nat \ {0}
        /\ map[on[t]] = MapOf(SubSeq(rep[mine[t]], 1, pos[t] - 1))
        /\ rep[mine[t]] \in Seq(Entry)
    BY <1>0, <2>1, <2>3 DEF FillInv, RebuildOK, TypeOK
  <2>5. RebuildOK(t)'
    <3>1. CASE pos[t] <= Len(rep[mine[t]])
      <4>1. /\ map'[on[t]] = Inserted(map[on[t]], rep[mine[t]][pos[t]])
            /\ pos'[t] = pos[t] + 1 /\ pc'[t] = "fill"
        BY <1>0, <1>a, <1>8, <3>1 DEF FillMap, TypeOK, NextEntry
      <4>2. pos[t] \in 1..Len(rep[mine[t]]) /\ (pos[t] + 1) - 1 = pos[t]
        BY <2>4, <3>1
      <4>3. map'[on[t]] = MapOf(SubSeq(rep[mine[t]], 1, (pos[t] + 1) - 1))
        BY <2>4, <4>1, <4>2, OneMoreEntry
      <4>4. pos[t] + 1 <= Len(rep[mine[t]]) + 1
        BY <2>4, <3>1
      <4> QED BY <2>1, <4>1, <4>3, <4>4 DEF RebuildOK
    <3>2. CASE pos[t] > Len(rep[mine[t]])
      <4>1. pos[t] - 1 = Len(rep[mine[t]])
        BY <2>4, <3>2
      <4>2. map[on[t]] = MapOf(rep[mine[t]])
        BY <2>4, <4>1, SubSeqFull
      <4>3. UNCHANGED map /\ pc'[t] = "publish"
        BY <1>0, <1>8, <2>4, <3>2 DEF FillMap, TypeOK
      <4> QED BY <2>1, <4>2, <4>3 DEF RebuildOK
    <3> QED BY <2>4, <3>1, <3>2
  <2>6. CleanMeansSame'
    <3>1. StateOf(on[t]) # "CLEAN"
      BY <1>0, <2>1, <2>3 DEF StateInv, StateOK, StillStale, Stale, StateOf
    <3> QED BY <1>0, <2>1, <3>1 DEF CleanMeansSame, StateOf
  <2> QED BY <2>2, <2>5, <2>6 DEF FillInv
<1>9. CASE FillRepeated(t)
  <2>1. /\ UNCHANGED <<map, payload, state, op, on, mine, pos>>
        /\ \A p \in PayloadId : p # mine[t] => rep'[p] = rep[p]
        /\ \A u \in Thread : u # t => pc'[u] = pc[u] /\ todo'[u] = todo[u]
        /\ pc[t] = "fill" /\ op[t] = "GetRepeatedField"
    BY <1>0, <1>9 DEF FillRepeated, TypeOK
  <2>2. \A u \in Thread : u # t => RebuildOK(u)'
    BY <1>1, <2>1
  <2>3. InLock(t) /\ mine[t] \in PayloadId /\ mine[t] = payload[on[t]]
    BY <1>b, <2>1
  <2>4. /\ todo[t] \subseteq Present(map[on[t]])
        /\ MapOf(rep[mine[t]]) =
             [k \in Key |-> IF k \in todo[t] THEN Absent ELSE map[on[t]][k]]
        /\ rep[mine[t]] \in Seq(Entry) /\ map[on[t]] \in [Key -> Value \cup {Absent}]
    BY <1>0, <1>a, <2>1, <2>3 DEF FillInv, RebuildOK, TypeOK, Contents
  <2>5. RebuildOK(t)'
    <3>1. ASSUME NEW k \in todo[t],
                 rep' = [rep EXCEPT ![mine[t]] =
                           Append(@, [key |-> k, value |-> map[on[t]][k]])],
                 todo' = [todo EXCEPT ![t] = @ \ {k}], UNCHANGED pc
          PROVE  RebuildOK(t)'
      <4> DEFINE e == [key |-> k, value |-> map[on[t]][k]]
      <4>1. e \in Entry /\ k \in Key
        BY <2>4, <3>1 DEF Present, Entry
      <4>2. rep'[mine[t]] = Append(rep[mine[t]], e) /\ todo'[t] = todo[t] \ {k}
        BY <1>0, <2>3, <3>1 DEF TypeOK
      <4>3. MapOf(rep'[mine[t]]) = Inserted(MapOf(rep[mine[t]]), e)
        BY <2>4, <4>1, <4>2, MapOfAppend
      <4>4. Inserted(MapOf(rep[mine[t]]), e) =
              [q \in Key |-> IF q \in todo[t] \ {k} THEN Absent ELSE map[on[t]][q]]
        BY <2>4, <4>1 DEF Inserted
      <4>5. MapOf(rep'[mine[t]]) =
              [q \in Key |-> IF q \in todo'[t] THEN Absent ELSE map[on[t]][q]]
        BY <4>2, <4>3, <4>4
      <4>6. todo'[t] \subseteq Present(map[on[t]])
        BY <2>4, <4>2
      <4> QED BY <2>1, <3>1, <4>5, <4>6 DEF RebuildOK
    <3>2. CASE todo[t] = {} /\ Goto(t, "publish") /\ UNCHANGED <<rep, todo>>
      <4>1. pc'[t] = "publish"
        BY <1>0, <3>2 DEF TypeOK
      <4>2. MapOf(rep[mine[t]]) = map[on[t]]
        BY <2>4, <3>2
      <4> QED BY <2>1, <3>2, <4>1, <4>2 DEF RebuildOK
    <3> QED BY <1>9, <3>1, <3>2 DEF FillRepeated
  <2>6. CleanMeansSame'
    <3>1. \A f \in Field : payload[f] = mine[t] => StateOf(f) # "CLEAN"
      BY <1>0, <2>1, <2>3 DEF StateInv, StateOK, StillStale, Stale, StateOf
    <3>2. \A f \in Field : StateOf(f) = "CLEAN" => payload[f] \in PayloadId
      BY <1>0 DEF StateOf, TypeOK
    <3>3. \A f \in Field : StateOf(f)' = StateOf(f)
      BY <2>1 DEF StateOf
    <3> QED BY <1>0, <2>1, <3>1, <3>2, <3>3 DEF CleanMeansSame
  <2> QED BY <2>2, <2>5, <2>6 DEF FillInv
<1>10. CASE Publish(t)
  <2>1. /\ UNCHANGED <<map, payload, rep, op, on, mine, todo, pos>>
        /\ state' = [state EXCEPT ![mine[t]] = "CLEAN"]
        /\ \A u \in Thread : u # t => pc'[u] = pc[u]
        /\ pc[t] = "publish" /\ pc'[t] = "unlock"
    BY <1>0, <1>10 DEF Publish, TypeOK
  <2>2. \A u \in Thread : u # t => RebuildOK(u)'
    BY <1>1, <2>1
  <2>3. RebuildOK(t)'
    BY <2>1 DEF RebuildOK
  <2>4. InLock(t) /\ mine[t] \in PayloadId /\ mine[t] = payload[on[t]]
    BY <1>b, <2>1
  <2>5. MapOf(rep[mine[t]]) = map[on[t]]
    BY <1>0, <2>1 DEF FillInv, RebuildOK
  <2>6. \A f \in Field : payload[f] = mine[t] => f = on[t]
    BY <1>0, <1>a, <2>4 DEF LockInv, NotShared
  <2>7. CleanMeansSame'
    <3>1. \A f \in Field : f # on[t] => StateOf(f)' = StateOf(f)
      BY <1>0, <2>1, <2>4, <2>6 DEF StateOf, TypeOK
    <3> QED BY <1>0, <2>1, <2>4, <2>5, <3>1 DEF CleanMeansSame
  <2> QED BY <2>2, <2>3, <2>7 DEF FillInv
<1>11. CASE Unlock(t)
  BY <1>0, <1>2, <1>11 DEF Unlock, TypeOK
<1>12. CASE Return(t)
  BY <1>0, <1>2, <1>12 DEF Return, TypeOK
<1> QED BY <1>3, <1>4, <1>5, <1>6, <1>7, <1>8, <1>9, <1>10, <1>11, <1>12
    DEF Step

-------------------------------------------------------------------------------
(* The pointers the caller holds. *)

LEMMA RefsStep ==
  ASSUME IInv, NEW t \in Thread, Step(t)
  PROVE  RefsInv'
<1> USE DEF Goto, Threads, shared
<1>0. TypeOK /\ LocalsOK /\ LockInv /\ StateInv /\ RefsInv
  BY DEF IInv
<1>1. /\ UNCHANGED <<mapRef, repRef>> /\ pc[t] # "idle"
      /\ \A u \in Thread : pc'[u] # "idle" =>
           pc[u] # "idle" /\ op'[u] = op[u] /\ on'[u] = on[u]
  BY <1>0 DEF Step, LoadState, LoadPayload, CasPayload, Lock, CheckAgain,
              FillMap, FillRepeated, Publish, Unlock, Return, TypeOK
<1>2. ASSUME NEW f \in Field
      PROVE  /\ mapRef[f] => StateOf(f)' = "MODIFIED_MAP"
             /\ repRef[f] => StateOf(f)' = "MODIFIED_REPEATED"
  <2>1. CASE Publish(t)
    <3>1. /\ mine[t] \in PayloadId /\ mine[t] = payload[on[t]]
          /\ on[t] \in Field /\ Stale(op[t], state[mine[t]])
      BY <1>0, <2>1
      DEF Publish, LockInv, WorkOK, InLock, LocalsOK, StateInv, StateOK, StillStale
    <3>2. ~mapRef[on[t]] /\ ~repRef[on[t]]
      BY <1>0, <1>1, <3>1 DEF RefsInv, RefsWriteTheNewerCopy, Stale, StateOf
    <3>3. f # on[t] => StateOf(f)' = StateOf(f)
      BY <1>0, <2>1, <3>1 DEF Publish, StateOf, LockInv, NotShared, TypeOK
    <3> QED BY <1>0, <3>2, <3>3 DEF RefsInv, RefsWriteTheNewerCopy
  <2>2. CASE CasPayload(t)
    <3>1. mine[t] \in PayloadId /\ state[mine[t]] = "MODIFIED_MAP"
      BY <1>0, <2>2 DEF CasPayload, LockInv, CasOK, StateInv, UnpublishedOK
    <3>2. StateOf(f)' = StateOf(f)
      BY <1>0, <2>2, <3>1 DEF CasPayload, StateOf, TypeOK
    <3> QED BY <1>0, <3>2 DEF RefsInv, RefsWriteTheNewerCopy
  <2>3. CASE UNCHANGED <<payload, state>>
    <3>1. StateOf(f)' = StateOf(f)
      BY <2>3 DEF StateOf
    <3> QED BY <1>0, <3>1 DEF RefsInv, RefsWriteTheNewerCopy
  <2> QED BY <2>1, <2>2, <2>3 DEF Step, LoadState, LoadPayload, Lock, CheckAgain,
              FillMap, FillRepeated, Unlock, Return
<1> QED BY <1>0, <1>1, <1>2 DEF RefsInv, RefsWriteTheNewerCopy

-------------------------------------------------------------------------------
(* Mutators: they run on quiet fields, so that all they can disturb is their
   own fields and payloads. *)

\* What every mutator of the fields in F leaves alone, and the state in which
\* it leaves the fields in F.
Confined(F) ==
  /\ F \subseteq Field /\ \A f \in F : Quiet(f)
  /\ UNCHANGED <<holder, pc, op, on, mine, todo, pos>>
  /\ \A h \in Field \ F : map'[h] = map[h] /\ payload'[h] = payload[h]
  /\ \A p \in PayloadId : (\A f \in F : payload'[f] # p) =>
       state'[p] = state[p] /\ rep'[p] = rep[p]
  /\ \A f \in F : \/ payload'[f] = NoPayload
                  \/ \E g \in F : payload'[f] = payload[g]
                  \/ Fresh(payload'[f])
  /\ \A f \in F : payload[f] # NoPayload =>
       \E g \in F : payload'[g] = payload[f]
  /\ \A f, g \in F : payload'[f] = payload'[g] /\ payload'[f] # NoPayload
       => f = g
  /\ \A f \in F : StateOf(f)' = "CLEAN" => MapOf(rep[payload[f]])' = map'[f]
  /\ \A h \in Field \ F : mapRef'[h] = mapRef[h] /\ repRef'[h] = repRef[h]
  /\ \A f \in F : /\ mapRef'[f] => StateOf(f)' = "MODIFIED_MAP"
                  /\ repRef'[f] => StateOf(f)' = "MODIFIED_REPEATED"

LEMMA ConfinedKeepsInvariant ==
  ASSUME IInv, TypeOK', NEW F, Confined(F)
  PROVE  IInv'
<1>0. TypeOK /\ LocalsOK /\ LockInv /\ StateInv /\ FillInv /\ CleanMeansSame
  BY DEF IInv
<1> USE DEF Confined
<1>1. LocalsOK'
  BY <1>0 DEF LocalsOK
<1>2. \A u \in Thread : InLock(u)' = InLock(u) /\ InPayload(u)' = InPayload(u)
  BY DEF InLock, InPayload
<1>3. ASSUME NEW u \in Thread, on[u] \in Field
      PROVE  on[u] \in Field \ F
  BY <1>3 DEF Quiet
<1>4. NotShared'
  <2> SUFFICES ASSUME NEW f \in Field, NEW g \in Field,
                      payload'[f] = payload'[g], payload'[f] # NoPayload
               PROVE  f = g
    BY DEF NotShared
  <2>1. CASE f \in F /\ g \in F
    BY <2>1
  <2>2. CASE f \notin F /\ g \notin F
    BY <1>0, <2>2 DEF LockInv, NotShared
  <2>3. ASSUME NEW a \in F, NEW b \in Field \ F, payload'[a] = payload'[b],
               payload'[a] # NoPayload
        PROVE  FALSE
    <3>1. payload'[a] = payload[b]
      BY <2>3
    <3>2. ASSUME NEW c \in F PROVE payload[c] # payload'[a]
      BY <1>0, <2>3, <3>1 DEF LockInv, NotShared
    <3>3. ~Fresh(payload'[a])
      BY <3>1 DEF Fresh
    <3> QED BY <2>3, <3>2, <3>3
  <2> QED BY <2>1, <2>2, <2>3
\* A payload that a busy thread has in hand is in no field of F.
<1>5. ASSUME NEW u \in Thread, mine[u] \in PayloadId,
             pc[u] = "cas" \/ (on[u] \in Field /\ mine[u] = payload[on[u]])
      PROVE  \A f \in F : payload'[f] # mine[u]
  <2> SUFFICES ASSUME NEW f \in F, payload'[f] = mine[u] PROVE FALSE
    OBVIOUS
  <2>1. ASSUME NEW g \in F PROVE payload[g] # mine[u]
    <3>1. CASE pc[u] = "cas"
      BY <1>0, <3>1 DEF LockInv, CasOK
    <3>2. CASE on[u] \in Field /\ mine[u] = payload[on[u]]
      BY <1>0, <1>3, <1>5, <3>2 DEF LockInv, NotShared
    <3> QED BY <1>5, <3>1, <3>2
  <2>2. ~Fresh(mine[u])
    BY DEF Fresh
  <2> QED BY <1>5, <2>1, <2>2
<1>6. MutexOK'
  BY <1>0, <1>2 DEF LockInv, MutexOK
<1>7. ASSUME NEW u \in Thread PROVE WorkOK(u)'
  <2>1. ASSUME InPayload(u) \/ InLock(u)
        PROVE  payload'[on[u]] = payload[on[u]]
    BY <1>0, <1>3, <2>1 DEF LocalsOK, InPayload, InLock
  <2> QED BY <1>0, <1>2, <2>1 DEF LockInv, WorkOK
<1>8. ASSUME NEW u \in Thread PROVE CasOK(u)'
  <2> SUFFICES ASSUME pc[u] = "cas" PROVE CasOK(u)'
    BY DEF CasOK
  <2>1. mine[u] \in PayloadId /\ CasOK(u)
    BY <1>0 DEF LockInv, CasOK
  <2>2. \A f \in Field : payload'[f] # mine[u]
    BY <1>5, <2>1 DEF CasOK
  <2> QED BY <2>1, <2>2 DEF CasOK
<1>9. UnpublishedOK'
  <2> SUFFICES ASSUME NEW p \in PayloadId, \A f \in Field : payload'[f] # p
               PROVE  state'[p] = "MODIFIED_MAP" /\ rep'[p] = <<>>
    BY DEF UnpublishedOK
  <2>1. \A f \in Field : payload[f] # p
    <3>1. \A f \in Field \ F : payload[f] # p
      OBVIOUS
    <3>2. \A f \in F : payload[f] # p
      OBVIOUS
    <3> QED BY <3>1, <3>2
  <2>2. state'[p] = state[p] /\ rep'[p] = rep[p]
    OBVIOUS
  <2> QED BY <1>0, <2>1, <2>2 DEF StateInv, UnpublishedOK
\* The fields and payloads of busy threads are as they were.
<1>10. ASSUME NEW u \in Thread, on[u] \in Field
       PROVE  /\ map'[on[u]] = map[on[u]] /\ payload'[on[u]] = payload[on[u]]
              /\ payload[on[u]] # NoPayload =>
                   /\ state'[payload[on[u]]] = state[payload[on[u]]]
                   /\ rep'[payload[on[u]]] = rep[payload[on[u]]]
              /\ StateOf(on[u])' = StateOf(on[u])
  <2>1. map'[on[u]] = map[on[u]] /\ payload'[on[u]] = payload[on[u]]
    BY <1>3, <1>10
  <2>2. ASSUME payload[on[u]] # NoPayload
        PROVE  /\ state'[payload[on[u]]] = state[payload[on[u]]]
               /\ rep'[payload[on[u]]] = rep[payload[on[u]]]
    <3>1. payload[on[u]] \in PayloadId
      BY <1>0, <1>10, <2>2 DEF TypeOK
    <3>2. \A f \in F : payload'[f] # payload[on[u]]
      BY <1>3, <1>4, <1>10, <2>1, <2>2 DEF NotShared
    <3> QED BY <3>1, <3>2
  <2> QED BY <2>1, <2>2 DEF StateOf
<1>11. ASSUME NEW u \in Thread PROVE StateOK(u)' /\ RebuildOK(u)'
  <2>1. CASE pc[u] = "idle"
    BY <2>1 DEF StateOK, RebuildOK
  <2>2. CASE pc[u] # "idle" /\ ~InLock(u)
    <3>1. on[u] \in Field
      BY <1>0, <2>2 DEF LocalsOK
    <3>2. pc[u] \notin {"fill", "publish", "unlock"}
      BY <2>2 DEF InLock
    <3>3. RebuildOK(u)'
      BY <3>2 DEF RebuildOK
    <3>4. StateOK(u)'
      BY <1>0, <1>10, <3>1, <3>2 DEF StateInv, StateOK
    <3> QED BY <3>3, <3>4
  <2>3. CASE InLock(u)
    <3>1. /\ mine[u] \in PayloadId /\ mine[u] = payload[on[u]]
          /\ on[u] \in Field
      BY <1>0, <2>3 DEF LockInv, WorkOK, LocalsOK, InLock
    <3>2. state'[mine[u]] = state[mine[u]] /\ rep'[mine[u]] = rep[mine[u]]
      BY <1>10, <3>1
    <3>3. StateOK(u)'
      BY <1>0, <1>10, <3>1, <3>2, StateFrame DEF StateInv
    <3>4. RebuildOK(u)'
      BY <1>0, <1>10, <3>1, <3>2, RebuildFrame DEF FillInv
    <3> QED BY <3>3, <3>4
  <2> QED BY <2>1, <2>2, <2>3
<1>12. CleanMeansSame'
  <2> SUFFICES ASSUME NEW f \in Field, StateOf(f)' = "CLEAN"
               PROVE  MapOf(rep[payload[f]])' = map'[f]
    BY DEF CleanMeansSame
  <2>1. CASE f \in F
    BY <2>1
  <2>2. CASE f \notin F
    <3>1. map'[f] = map[f] /\ payload'[f] = payload[f]
      BY <2>2
    <3>2. payload[f] \in PayloadId
      BY <1>0, <3>1 DEF StateOf, TypeOK
    <3>3. \A g \in F : payload'[g] # payload[f]
      BY <1>4, <2>2, <3>1, <3>2 DEF NotShared
    <3>4. state'[payload[f]] = state[payload[f]] /\ rep'[payload[f]] = rep[payload[f]]
      BY <3>2, <3>3
    <3> QED BY <1>0, <3>1, <3>2, <3>4 DEF StateOf, CleanMeansSame
  <2> QED BY <2>1, <2>2
<1>13. RefsInv'
  <2>1. ASSUME NEW f \in Field
        PROVE  /\ mapRef'[f] => StateOf(f)' = "MODIFIED_MAP"
               /\ repRef'[f] => StateOf(f)' = "MODIFIED_REPEATED"
    <3>1. CASE f \in F
      BY <3>1
    <3>2. CASE f \notin F
      <4>1. StateOf(f)' = StateOf(f)
        <5>1. payload'[f] = payload[f]
          BY <3>2
        <5>2. payload[f] # NoPayload =>
                /\ payload[f] \in PayloadId
                /\ \A g \in F : payload'[g] # payload[f]
          BY <1>0, <1>4, <3>2, <5>1 DEF NotShared, TypeOK
        <5> QED BY <5>1, <5>2 DEF StateOf
      <4> QED BY <1>0, <3>2, <4>1 DEF IInv, RefsInv, RefsWriteTheNewerCopy
    <3> QED BY <3>1, <3>2
  <2>2. ASSUME NEW u \in Thread, pc[u] # "idle"
        PROVE  /\ op[u] = "GetRepeatedField" => ~mapRef'[on[u]]
               /\ op[u] = "GetMap" => ~repRef'[on[u]]
    BY <1>0, <1>3, <2>2 DEF LocalsOK, IInv, RefsInv
  <2> QED BY <2>1, <2>2 DEF RefsInv, RefsWriteTheNewerCopy
<1> QED BY <1>1, <1>4, <1>6, <1>7, <1>8, <1>9, <1>11, <1>12, <1>13
    DEF IInv, LockInv, StateInv, FillInv

\* The common case: a mutator of one field that has, or has not, a payload.
LEMMA ConfinedToOne ==
  ASSUME IInv, NEW f \in Field, Quiet(f), UNCHANGED <<payload, holder, Threads>>,
         \A h \in Field : h # f =>
           map'[h] = map[h] /\ mapRef'[h] = mapRef[h] /\ repRef'[h] = repRef[h],
         \A p \in PayloadId : p # payload[f] =>
           state'[p] = state[p] /\ rep'[p] = rep[p],
         \/ StateOf(f)' = "MODIFIED_MAP" /\ ~repRef'[f]
         \/ StateOf(f)' = "MODIFIED_REPEATED" /\ ~mapRef'[f]
  PROVE  Confined({f})
BY DEF Confined, Threads

LEMMA ConfinedToTwo ==
  ASSUME NEW f \in Field, NEW g \in Field, f # g, Quiet(f), Quiet(g),
         UNCHANGED <<holder, Threads>>,
         \A h \in Field \ {f, g} :
           /\ map'[h] = map[h] /\ payload'[h] = payload[h]
           /\ mapRef'[h] = mapRef[h] /\ repRef'[h] = repRef[h],
         \A p \in PayloadId : p # payload'[f] /\ p # payload'[g] =>
           state'[p] = state[p] /\ rep'[p] = rep[p],
         payload'[f] = payload'[g] => payload'[f] = NoPayload,
         payload'[f] \in {NoPayload, payload[f], payload[g]} \/ Fresh(payload'[f]),
         payload'[g] \in {NoPayload, payload[f], payload[g]} \/ Fresh(payload'[g]),
         payload[f] # NoPayload => payload[f] \in {payload'[f], payload'[g]},
         payload[g] # NoPayload => payload[g] \in {payload'[f], payload'[g]},
         StateOf(f)' = "CLEAN" => MapOf(rep[payload[f]])' = map'[f],
         StateOf(g)' = "CLEAN" => MapOf(rep[payload[g]])' = map'[g],
         mapRef'[f] => StateOf(f)' = "MODIFIED_MAP",
         mapRef'[g] => StateOf(g)' = "MODIFIED_MAP",
         ~repRef'[f], ~repRef'[g]
  PROVE  Confined({f, g})
<1> DEFINE F == {f, g}
<1>1. /\ \A a \in F : \/ payload'[a] = NoPayload
                      \/ \E b \in F : payload'[a] = payload[b]
                      \/ Fresh(payload'[a])
      /\ \A a \in F : payload[a] # NoPayload =>
           \E b \in F : payload'[b] = payload[a]
      /\ \A a, b \in F : payload'[a] = payload'[b] /\ payload'[a] # NoPayload
           => a = b
  OBVIOUS
<1>2. /\ \A a \in F : StateOf(a)' = "CLEAN" => MapOf(rep[payload[a]])' = map'[a]
      /\ \A a \in F : /\ mapRef'[a] => StateOf(a)' = "MODIFIED_MAP"
                      /\ repRef'[a] => StateOf(a)' = "MODIFIED_REPEATED"
  OBVIOUS
<1>3. F \subseteq Field /\ \A a \in F : Quiet(a)
  OBVIOUS
<1>4. \A p \in PayloadId : (\A a \in F : payload'[a] # p) =>
        state'[p] = state[p] /\ rep'[p] = rep[p]
  OBVIOUS
<1> QED BY <1>1, <1>2, <1>3, <1>4 DEF Confined, Threads

LEMMA DirtyIsModifiedMap ==
  ASSUME TypeOK, NEW f \in Field, state' = Dirty(f), UNCHANGED payload
  PROVE  /\ StateOf(f)' = "MODIFIED_MAP"
         /\ \A p \in PayloadId : p # payload[f] => state'[p] = state[p]
BY DEF Dirty, StateOf, TypeOK

MutateOne(f) ==
  \/ MutableMap(f) \/ MutableRepeatedField(f) \/ RemoveLast(f) \/ Clear(f)
  \/ \E k \in Key :
       \/ DeleteMapValue(f, k)
       \/ WriteThroughMap(f, k, Absent)
       \/ \E v \in Value : \/ WriteThroughMap(f, k, v)
                           \/ InsertOrLookupMapValue(f, k, v)
                           \/ AddEntry(f, k, v)

MutateTwo(f, g) == MergeFrom(f, g) \/ InternalSwap(f, g) \/ SwapAcrossArenas(f, g)

LEMMA OneIsConfined ==
  ASSUME IInv, NEW f \in Field, MutateOne(f)
  PROVE  Confined({f})
<1>0. TypeOK /\ LockInv /\ StateInv /\ CleanMeansSame /\ RefsWriteTheNewerCopy
  BY DEF IInv, RefsInv
<1>1. CASE MutableMap(f)
  <2>1. /\ StateOf(f)' = "MODIFIED_MAP"
        /\ \A p \in PayloadId : p # payload[f] => state'[p] = state[p]
    BY <1>0, <1>1, DirtyIsModifiedMap DEF MutableMap
  <2>2. ~repRef'[f]
    BY <1>0, <1>1 DEF MutableMap, TypeOK
  <2> QED BY <1>0, <1>1, <2>1, <2>2, ConfinedToOne DEF MutableMap, TypeOK
<1>2. ASSUME NEW k \in Key, DeleteMapValue(f, k) PROVE Confined({f})
  <2>1. /\ StateOf(f)' = "MODIFIED_MAP"
        /\ \A p \in PayloadId : p # payload[f] => state'[p] = state[p]
    BY <1>0, <1>2, DirtyIsModifiedMap DEF DeleteMapValue
  <2>2. ~repRef'[f]
    BY <1>0, <1>2 DEF DeleteMapValue, TypeOK
  <2> QED BY <1>0, <1>2, <2>1, <2>2, ConfinedToOne DEF DeleteMapValue, TypeOK
<1>3. ASSUME NEW k \in Key, NEW v \in Value, InsertOrLookupMapValue(f, k, v)
      PROVE  Confined({f})
  <2>1. /\ StateOf(f)' = "MODIFIED_MAP"
        /\ \A p \in PayloadId : p # payload[f] => state'[p] = state[p]
    BY <1>0, <1>3, DirtyIsModifiedMap DEF InsertOrLookupMapValue
  <2>2. ~repRef'[f]
    BY <1>0, <1>3 DEF InsertOrLookupMapValue, TypeOK
  <2> QED BY <1>0, <1>3, <2>1, <2>2, ConfinedToOne
      DEF InsertOrLookupMapValue, TypeOK
<1>4. CASE Clear(f)
  <2>1. /\ StateOf(f)' = "MODIFIED_MAP"
        /\ \A p \in PayloadId : p # payload[f] => state'[p] = state[p]
    BY <1>0, <1>4, DirtyIsModifiedMap DEF Clear
  <2>2. ~repRef'[f]
    BY <1>0, <1>4 DEF Clear, TypeOK
  <2> QED BY <1>0, <1>4, <2>1, <2>2, ConfinedToOne DEF Clear, TypeOK
<1>5. ASSUME NEW k \in Key, NEW v, WriteThroughMap(f, k, v) PROVE Confined({f})
  <2>1. StateOf(f)' = "MODIFIED_MAP" /\ ~repRef'[f]
    BY <1>0, <1>5 DEF WriteThroughMap, StateOf, RefsWriteTheNewerCopy
  <2> QED BY <1>0, <1>5, <2>1, ConfinedToOne DEF WriteThroughMap, TypeOK
<1>6. ASSUME NEW k \in Key, NEW v \in Value, AddEntry(f, k, v)
      PROVE  Confined({f})
  <2>1. StateOf(f)' = "MODIFIED_REPEATED" /\ ~mapRef'[f]
    BY <1>0, <1>6 DEF AddEntry, StateOf, RefsWriteTheNewerCopy
  <2> QED BY <1>0, <1>6, <2>1, ConfinedToOne DEF AddEntry, TypeOK
<1>7. CASE RemoveLast(f)
  <2>1. StateOf(f)' = "MODIFIED_REPEATED" /\ ~mapRef'[f]
    BY <1>0, <1>7 DEF RemoveLast, StateOf, RefsWriteTheNewerCopy
  <2> QED BY <1>0, <1>7, <2>1, ConfinedToOne DEF RemoveLast, TypeOK
<1>8. CASE MutableRepeatedField(f)
  <2>1. PICK p \in PayloadId :
          /\ payload[f] = p \/ (payload[f] = NoPayload /\ Fresh(p))
          /\ payload' = [payload EXCEPT ![f] = p]
          /\ state' = [state EXCEPT ![p] = "MODIFIED_REPEATED"]
          /\ \/ \E l : rep' = [rep EXCEPT ![p] = l]
             \/ UNCHANGED rep
    BY <1>8 DEF MutableRepeatedField
  <2>2. payload'[f] = p /\ \A h \in Field : h # f => payload'[h] = payload[h]
    BY <1>0, <2>1 DEF TypeOK
  <2>3. \A q \in PayloadId : q # p => state'[q] = state[q] /\ rep'[q] = rep[q]
    BY <1>0, <2>1 DEF TypeOK
  <2>4. StateOf(f)' = "MODIFIED_REPEATED"
    BY <1>0, <2>1, <2>2 DEF StateOf, TypeOK
  <2>5. ~mapRef'[f] /\ \A h \in Field : h # f =>
          mapRef'[h] = mapRef[h] /\ repRef'[h] = repRef[h]
    BY <1>0, <1>8 DEF MutableRepeatedField, TypeOK
  <2> QED BY <1>8, <2>1, <2>2, <2>3, <2>4, <2>5
      DEF MutableRepeatedField, Confined, Threads
<1> QED BY <1>1, <1>2, <1>3, <1>4, <1>5, <1>6, <1>7, <1>8 DEF MutateOne

LEMMA TwoAreConfined ==
  ASSUME IInv, NEW f \in Field, NEW g \in Field, MutateTwo(f, g)
  PROVE  Confined({f, g})
<1>0. TypeOK /\ LockInv /\ StateInv /\ CleanMeansSame /\ RefsWriteTheNewerCopy
  BY DEF IInv, RefsInv
<1>1. CASE MergeFrom(f, g)
  <2>1. /\ \A h \in Field \ {f, g} : map'[h] = map[h] /\ payload'[h] = payload[h]
        /\ UNCHANGED <<payload, rep, holder, Threads, mapRef>>
        /\ ~repRef'[f] /\ ~repRef'[g]
        /\ \A h \in Field \ {f, g} : repRef'[h] = repRef[h]
        /\ map'[g] = Content(g)
    BY <1>0, <1>1 DEF MergeFrom, TypeOK
  <2>2. \A p \in PayloadId : p # payload[f] /\ p # payload[g] =>
          state'[p] = state[p]
    BY <1>0, <1>1 DEF MergeFrom, Dirty, TypeOK
  <2>a. ASSUME NEW p \in PayloadId, p = payload[f]
        PROVE  state'[p] = "MODIFIED_MAP"
    <3>1. payload[g] # p
      BY <1>0, <1>1, <2>a DEF MergeFrom, LockInv, NotShared
    <3> QED BY <1>1, <2>a, <3>1 DEF MergeFrom, Dirty
  <2>3. StateOf(f)' = "MODIFIED_MAP"
    BY <1>0, <2>1, <2>a DEF StateOf, TypeOK
  <2>b. ASSUME NEW p \in PayloadId, p = payload[g], p # payload[f]
        PROVE  state'[p] = IF state[p] = "MODIFIED_REPEATED" THEN "CLEAN"
                           ELSE state[p]
    BY <1>1, <2>b DEF MergeFrom, Dirty
  <2>4. StateOf(g)' = IF StateOf(g) = "MODIFIED_REPEATED" THEN "CLEAN"
                      ELSE StateOf(g)
    <3>1. payload[g] # NoPayload => payload[g] # payload[f]
      BY <1>0, <1>1 DEF MergeFrom, LockInv, NotShared
    <3> QED BY <1>0, <2>1, <2>b, <3>1 DEF StateOf, TypeOK
  <2>5. StateOf(g)' = "CLEAN" => MapOf(rep[payload[g]])' = map'[g]
    BY <1>0, <2>1, <2>4 DEF Content, CleanMeansSame
  <2>6. mapRef[g] => StateOf(g)' = "MODIFIED_MAP"
    BY <1>0, <2>4 DEF RefsWriteTheNewerCopy
  <2>7. mapRef[f] => StateOf(f)' = "MODIFIED_MAP"
    BY <2>3
  <2>8. /\ f # g /\ Quiet(f) /\ Quiet(g)
        /\ payload[f] = payload[g] => payload[f] = NoPayload
    BY <1>0, <1>1 DEF MergeFrom, LockInv, NotShared
  <2>9. StateOf(f)' # "CLEAN"
    BY <2>3
  <2> QED BY <2>1, <2>2, <2>5, <2>6, <2>7, <2>8, <2>9, ConfinedToTwo
<1>2. CASE InternalSwap(f, g)
  <2>1. /\ \A h \in Field \ {f, g} :
             /\ map'[h] = map[h] /\ payload'[h] = payload[h]
             /\ mapRef'[h] = mapRef[h] /\ repRef'[h] = repRef[h]
        /\ payload'[f] = payload[g] /\ payload'[g] = payload[f]
        /\ map'[f] = map[g] /\ map'[g] = map[f]
        /\ ~mapRef'[f] /\ ~mapRef'[g] /\ ~repRef'[f] /\ ~repRef'[g]
        /\ UNCHANGED <<state, rep, holder, Threads>>
    BY <1>0, <1>2 DEF InternalSwap, PayloadSwapped, ForgetRefs, TypeOK
  <2>2. StateOf(f)' = StateOf(g) /\ StateOf(g)' = StateOf(f)
    BY <2>1 DEF StateOf
  <2>3. /\ StateOf(f)' = "CLEAN" => MapOf(rep[payload[f]])' = map'[f]
        /\ StateOf(g)' = "CLEAN" => MapOf(rep[payload[g]])' = map'[g]
    BY <1>0, <2>1, <2>2 DEF CleanMeansSame
  <2>4. /\ f # g /\ Quiet(f) /\ Quiet(g)
        /\ payload[f] = payload[g] => payload[f] = NoPayload
    BY <1>0, <1>2 DEF InternalSwap, LockInv, NotShared
  <2> QED BY <2>1, <2>3, <2>4, ConfinedToTwo
<1>3. CASE SwapAcrossArenas(f, g)
  <2>1. /\ \A h \in Field \ {f, g} :
             /\ map'[h] = map[h]
             /\ mapRef'[h] = mapRef[h] /\ repRef'[h] = repRef[h]
        /\ map'[f] = map[g] /\ map'[g] = map[f]
        /\ ~mapRef'[f] /\ ~mapRef'[g] /\ ~repRef'[f] /\ ~repRef'[g]
        /\ f # g /\ Quiet(f) /\ Quiet(g) /\ UNCHANGED <<holder, Threads>>
    BY <1>0, <1>3 DEF SwapAcrossArenas, ForgetRefs, TypeOK
  <2>2. CASE payload[f] = NoPayload /\ payload[g] = NoPayload
    <3>1. UNCHANGED <<payload, state, rep>>
      BY <1>3, <2>2 DEF SwapAcrossArenas
    <3>2. StateOf(f)' # "CLEAN" /\ StateOf(g)' # "CLEAN"
      BY <2>2, <3>1 DEF StateOf
    <3> QED BY <2>1, <2>2, <3>1, <3>2, ConfinedToTwo
  <2>3. CASE payload[f] # NoPayload \/ payload[g] # NoPayload
    <3>1. PICK p, q \in PayloadId :
            /\ p # q
            /\ payload[f] = p \/ (payload[f] = NoPayload /\ Fresh(p))
            /\ payload[g] = q \/ (payload[g] = NoPayload /\ Fresh(q))
            /\ payload' = [payload EXCEPT ![f] = p, ![g] = q]
            /\ state' = StateSwapped(f, g, p, q)
            /\ rep' = RepSwapped(f, g, p, q)
      BY <1>3, <2>3 DEF SwapAcrossArenas
    <3>2. /\ payload'[f] = p /\ payload'[g] = q
          /\ \A h \in Field \ {f, g} : payload'[h] = payload[h]
      BY <1>0, <2>1, <3>1 DEF TypeOK
    <3>3. /\ \A r \in PayloadId : r # p /\ r # q =>
               state'[r] = state[r] /\ rep'[r] = rep[r]
          /\ state'[p] = StateOf(g) /\ state'[q] = StateOf(f)
          /\ payload[g] # NoPayload => rep'[p] = rep[payload[g]]
          /\ payload[f] # NoPayload => rep'[q] = rep[payload[f]]
      BY <1>0, <3>1 DEF StateSwapped, RepSwapped, TypeOK
    <3>4. StateOf(f)' = StateOf(g) /\ StateOf(g)' = StateOf(f)
      BY <3>2, <3>3 DEF StateOf
    <3>5. /\ StateOf(f) = "CLEAN" => payload[f] # NoPayload
          /\ StateOf(g) = "CLEAN" => payload[g] # NoPayload
      BY DEF StateOf
    <3>6. /\ StateOf(f)' = "CLEAN" => MapOf(rep[payload[f]])' = map'[f]
          /\ StateOf(g)' = "CLEAN" => MapOf(rep[payload[g]])' = map'[g]
      BY <1>0, <2>1, <3>2, <3>3, <3>4, <3>5 DEF CleanMeansSame
    <3> QED BY <2>1, <3>1, <3>2, <3>3, <3>6, ConfinedToTwo
  <2> QED BY <2>2, <2>3
<1> QED BY <1>1, <1>2, <1>3 DEF MutateTwo

LEMMA MutatorsAreConfined ==
  ASSUME IInv, NEW f \in Field, Mutate(f)
  PROVE  \E F : Confined(F)
<1>1. MutateOne(f) \/ \E g \in Field : MutateTwo(f, g)
  BY DEF Mutate, MutateOne, MutateTwo
<1> QED BY <1>1, OneIsConfined, TwoAreConfined

-------------------------------------------------------------------------------
(* The theorems. *)

LEMMA BeginKeepsInvariant ==
  ASSUME IInv, NEW t \in Thread, NEW f \in Field, NEW o \in Accessor,
         Begin(t, f, o)
  PROVE  IInv'
<1>0. TypeOK /\ LocalsOK /\ LockInv /\ StateInv /\ FillInv /\ CleanMeansSame
      /\ RefsInv
  BY DEF IInv
<1>1. TypeOK'
  BY <1>0, TypeBegin
<1>2. /\ UNCHANGED <<map, payload, state, rep, holder, mine, todo, pos>>
      /\ \A u \in Thread : u # t =>
           pc'[u] = pc[u] /\ op'[u] = op[u] /\ on'[u] = on[u]
      /\ pc[t] = "idle" /\ pc'[t] \in {"state", "payload"}
      /\ pc'[t] = "state" => o # "SpaceUsed"
      /\ op'[t] = o /\ on'[t] = f
      /\ \A g : StateOf(g)' = StateOf(g)
  BY <1>0 DEF Begin, Goto, TypeOK, StateOf
<1>3. LocalsOK'
  BY <1>0, <1>2 DEF LocalsOK
<1>4. \A u \in Thread : InLock(u)' = InLock(u) /\ InPayload(u)' = InPayload(u)
  BY <1>2 DEF InLock, InPayload
<1>5. NotShared' /\ MutexOK' /\ UnpublishedOK' /\ CleanMeansSame'
  BY <1>0, <1>2, <1>4
  DEF LockInv, NotShared, MutexOK, StateInv, UnpublishedOK, CleanMeansSame
<1>6. ASSUME NEW u \in Thread
      PROVE  WorkOK(u)' /\ CasOK(u)' /\ StateOK(u)' /\ RebuildOK(u)'
  <2>1. CASE u = t
    BY <1>2, <2>1 DEF WorkOK, CasOK, StateOK, RebuildOK, InPayload, InLock
  <2>2. CASE u # t
    <3>1. WorkOK(u)' /\ CasOK(u)'
      BY <1>0, <1>2, <1>4, <2>2 DEF LockInv, WorkOK, CasOK
    <3>2. StateOK(u)' /\ RebuildOK(u)'
      BY <1>0, <1>2, <2>2, StateFrame, RebuildFrame DEF StateInv, FillInv
    <3> QED BY <3>1, <3>2
  <2> QED BY <2>1, <2>2
<1>7. RefsInv'
  <2>1. /\ \A g \in Field : (mapRef'[g] => mapRef[g]) /\ (repRef'[g] => repRef[g])
        /\ o = "GetRepeatedField" => ~mapRef'[f]
        /\ o = "GetMap" => ~repRef'[f]
    BY <1>0 DEF Begin, TypeOK
  <2> QED BY <1>0, <1>2, <2>1 DEF RefsInv, RefsWriteTheNewerCopy, LocalsOK
<1> QED BY <1>1, <1>3, <1>5, <1>6, <1>7 DEF IInv, LockInv, StateInv, FillInv

LEMMA InitInvariant == Init => IInv
<1> SUFFICES ASSUME Init PROVE IInv
  OBVIOUS
<1>1. TypeOK /\ LocalsOK
  BY TypeInit
<1>2. LockInv
  BY DEF Init, LockInv, NotShared, MutexOK, WorkOK, CasOK, InPayload, InLock
<1>3. StateInv /\ FillInv
  BY DEF Init, StateInv, UnpublishedOK, StateOK, FillInv, RebuildOK
<1>4. CleanMeansSame /\ RefsInv
  BY DEF Init, CleanMeansSame, RefsInv, RefsWriteTheNewerCopy, StateOf
<1> QED BY <1>1, <1>2, <1>3, <1>4 DEF IInv

LEMMA NextInvariant == IInv /\ [Next]_vars => IInv'
<1> SUFFICES ASSUME IInv, [Next]_vars PROVE IInv'
  OBVIOUS
<1>1. ASSUME NEW t \in Thread, NEW f \in Field, NEW o \in Accessor, Begin(t, f, o)
      PROVE  IInv'
  BY <1>1, BeginKeepsInvariant
<1>2. ASSUME NEW t \in Thread, Step(t) PROVE IInv'
  BY <1>2, TypeStep, LocalsStep, LockStep, StateStep, FillStep, RefsStep DEF IInv
<1>3. ASSUME NEW f \in Field, Mutate(f) PROVE IInv'
  <2>1. TypeOK'
    BY <1>3, TypeMutate DEF IInv
  <2>2. PICK F : Confined(F)
    BY <1>3, MutatorsAreConfined
  <2> QED BY <2>1, <2>2, ConfinedKeepsInvariant
<1>4. CASE UNCHANGED vars
  BY <1>4 DEF vars, IInv, TypeOK, LocalsOK, LockInv, NotShared, MutexOK, WorkOK,
     CasOK, InPayload, InLock, StateInv, UnpublishedOK, StateOK, StateOf,
     StillStale, FillInv, RebuildOK, CleanMeansSame, RefsInv,
     RefsWriteTheNewerCopy
<1> QED BY <1>1, <1>2, <1>3, <1>4 DEF Next

THEOREM Invariant == Spec => []IInv
<1>1. Init => IInv
  BY InitInvariant
<1>2. IInv /\ [Next]_vars => IInv'
  BY NextInvariant
<1> QED BY <1>1, <1>2, PTL DEF Spec

\* Every variable keeps its type: no accessor indexes a payload it has not got.
THEOREM TypeCorrect == Spec => []TypeOK
<1>1. IInv => TypeOK
  BY DEF IInv
<1> QED BY <1>1, Invariant, PTL

LEMMA NoTornAccessHolds == IInv => NoTornAccess
<1> SUFFICES ASSUME IInv, NEW t \in Thread, NEW u \in Thread, t # u,
                    on[t] = on[u], on[t] # NoField
             PROVE  /\ WritesMap(t) => ~(ReadsMap(u) \/ WritesMap(u))
                    /\ WritesRepeated(t) => ~(ReadsRepeated(u) \/ WritesRepeated(u))
  BY DEF NoTornAccess
<1>0. TypeOK /\ LocalsOK /\ LockInv /\ StateInv
  BY DEF IInv
<1>1. ~(InLock(t) /\ InLock(u))
  BY Exclusion
<1>2. ASSUME pc[t] = "fill"
      PROVE  /\ InLock(t) /\ mine[t] \in PayloadId /\ mine[t] = payload[on[t]]
             /\ Stale(op[t], StateOf(on[t]))
  BY <1>0, <1>2
  DEF LockInv, WorkOK, InLock, StateInv, StateOK, StillStale, StateOf
<1>3. ASSUME WritesMap(t) PROVE ~(ReadsMap(u) \/ WritesMap(u))
  <2>1. StateOf(on[u]) = "MODIFIED_REPEATED"
    BY <1>2, <1>3 DEF WritesMap, Stale
  <2>2. ~InLock(u) /\ pc[u] # "fill"
    BY <1>1, <1>2, <1>3 DEF WritesMap, InLock
  <2> QED BY <1>0, <2>1, <2>2
      DEF ReadsMap, WritesMap, InLock, StateInv, StateOK
<1>4. ASSUME WritesRepeated(t) PROVE ~(ReadsRepeated(u) \/ WritesRepeated(u))
  <2>1. StateOf(on[u]) = "MODIFIED_MAP"
    BY <1>2, <1>4 DEF WritesRepeated, Stale
  <2>2. ~InLock(u) /\ pc[u] # "fill"
    BY <1>1, <1>2, <1>4 DEF WritesRepeated, InLock
  <2>3. pc[u] = "read" => op[u] \in Accessor
    BY <1>0 DEF LocalsOK
  <2> QED BY <1>0, <2>1, <2>2, <2>3
      DEF ReadsRepeated, WritesRepeated, InLock, StateInv, StateOK, Accessor
<1> QED BY <1>3, <1>4

\* No const accessor reads or rebuilds a copy that another thread rebuilds.
THEOREM NoTornAccessTheorem == Spec => []NoTornAccess
BY NoTornAccessHolds, Invariant, PTL

\* All threads work on the one payload, and mutex, that was published.
THEOREM OnePayload == Spec => []OnePayloadPerField
<1>1. IInv => OnePayloadPerField
  BY DEF IInv, LockInv, NotShared, WorkOK, InPayload, OnePayloadPerField
<1> QED BY <1>1, Invariant, PTL

\* CLEAN means that the two copies hold the same data.
THEOREM CleanTheorem == Spec => []CleanMeansSame
<1>1. IInv => CleanMeansSame
  BY DEF IInv
<1> QED BY <1>1, Invariant, PTL

\* A pointer the caller may still use writes to the copy that counts.
THEOREM RefsTheorem == Spec => []RefsWriteTheNewerCopy
<1>1. IInv => RefsWriteTheNewerCopy
  BY DEF IInv, RefsInv
<1> QED BY <1>1, Invariant, PTL

LEMMA ReadersSeeContentHolds == IInv => ReadersSeeContent
<1> SUFFICES ASSUME IInv, NEW t \in Thread, pc[t] = "read", op[t] # "SpaceUsed"
             PROVE  Seen(t) = Content(on[t])
  BY DEF ReadersSeeContent
<1>0. /\ LocalsOK /\ StateInv /\ CleanMeansSame /\ on[t] \in Field
      /\ op[t] \in Accessor /\ StateOf(on[t]) \in State
  <2>1. on[t] \in Field /\ op[t] \in Accessor /\ TypeOK
    BY DEF IInv, LocalsOK
  <2> QED BY <2>1 DEF IInv, StateOf, TypeOK, State
<1>1. CASE op[t] = "GetMap"
  BY <1>0, <1>1 DEF StateInv, StateOK, Seen, Content
<1>2. CASE op[t] = "GetRepeatedField"
  <2>1. CASE mine[t] = NoPayload
    BY <1>0, <1>2, <2>1 DEF StateInv, StateOK, Seen, Content, StateOf
  <2>2. CASE mine[t] # NoPayload
    <3>1. mine[t] = payload[on[t]] /\ StateOf(on[t]) # "MODIFIED_MAP"
      BY <1>0, <1>2, <2>2 DEF StateInv, StateOK
    <3> QED BY <1>0, <1>2, <2>2, <3>1 DEF Seen, Content, CleanMeansSame, State
  <2> QED BY <2>1, <2>2
<1> QED BY <1>0, <1>1, <1>2 DEF Accessor

\* Whatever a returning accessor reads is the content of the field.
THEOREM ReadersTheorem == Spec => []ReadersSeeContent
BY ReadersSeeContentHolds, Invariant, PTL

LEMMA StepKeepsContent ==
  ASSUME IInv, NEW t \in Thread, Step(t), NEW f \in Field
  PROVE  Content(f)' = Content(f)
<1> USE DEF Goto, Threads, shared
<1>0. TypeOK /\ LocalsOK /\ LockInv /\ StateInv /\ FillInv
  BY DEF IInv
<1>1. ASSUME pc[t] \in {"check", "fill", "publish"}
      PROVE  /\ mine[t] \in PayloadId /\ mine[t] = payload[on[t]] /\ on[t] \in Field
             /\ StateOf(on[t]) = state[mine[t]]
             /\ payload[f] = mine[t] => f = on[t]
  BY <1>0, <1>1 DEF LockInv, WorkOK, InLock, LocalsOK, StateOf, NotShared
<1>2. StateOf(f) = "MODIFIED_REPEATED" => payload[f] \in PayloadId
  BY <1>0 DEF StateOf, TypeOK
<1>3. CASE CheckAgain(t)
  <2>1. /\ UNCHANGED <<payload, state>> /\ StateOf(f)' = StateOf(f)
        /\ map' # map => state[mine[t]] = "MODIFIED_REPEATED"
        /\ rep' # rep => state[mine[t]] = "MODIFIED_MAP"
        /\ f # on[t] => map'[f] = map[f]
        /\ \A p \in PayloadId : p # mine[t] => rep'[p] = rep[p]
    BY <1>0, <1>3 DEF CheckAgain, StillStale, Stale, StateOf, TypeOK
  <2> QED BY <1>1, <1>2, <1>3, <2>1 DEF CheckAgain, Content
<1>4. CASE FillMap(t)
  <2>1. /\ UNCHANGED <<payload, state, rep>> /\ StateOf(f)' = StateOf(f)
        /\ f # on[t] => map'[f] = map[f]
        /\ pc[t] = "fill"
    BY <1>0, <1>4 DEF FillMap, StateOf, TypeOK
  <2>2. StateOf(on[t]) = "MODIFIED_REPEATED"
    BY <1>0, <1>1, <1>4 DEF FillMap, StateInv, StateOK, StillStale, Stale
  <2> QED BY <1>1, <2>1, <2>2 DEF Content
<1>5. CASE FillRepeated(t)
  <2>1. /\ UNCHANGED <<payload, state, map>> /\ StateOf(f)' = StateOf(f)
        /\ \A p \in PayloadId : p # mine[t] => rep'[p] = rep[p]
        /\ pc[t] = "fill"
    BY <1>0, <1>5 DEF FillRepeated, StateOf, TypeOK
  <2>2. StateOf(on[t]) = "MODIFIED_MAP"
    BY <1>0, <1>1, <1>5 DEF FillRepeated, StateInv, StateOK, StillStale, Stale
  <2> QED BY <1>1, <1>2, <2>1, <2>2 DEF Content
<1>6. CASE Publish(t)
  <2>1. /\ UNCHANGED <<payload, rep, map>> /\ pc[t] = "publish"
        /\ state' = [state EXCEPT ![mine[t]] = "CLEAN"]
    BY <1>6 DEF Publish
  <2>2. CASE f = on[t]
    <3>1. MapOf(rep[mine[t]]) = map[on[t]]
      BY <1>0, <2>1 DEF FillInv, RebuildOK
    <3>2. StateOf(f)' = "CLEAN"
      BY <1>0, <1>1, <2>1, <2>2 DEF StateOf, TypeOK
    <3> QED BY <1>1, <2>1, <2>2, <3>1, <3>2 DEF Content
  <2>3. CASE f # on[t]
    <3>1. StateOf(f)' = StateOf(f)
      BY <1>0, <1>1, <2>1, <2>3 DEF StateOf, TypeOK
    <3> QED BY <2>1, <3>1 DEF Content
  <2> QED BY <2>2, <2>3
<1>7. CASE CasPayload(t)
  <2>1. mine[t] \in PayloadId /\ state[mine[t]] = "MODIFIED_MAP"
    BY <1>0, <1>7 DEF CasPayload, LockInv, CasOK, StateInv, UnpublishedOK
  <2>2. /\ UNCHANGED <<map, rep, state>> /\ StateOf(f)' = StateOf(f)
        /\ payload[f] # NoPayload => payload'[f] = payload[f]
    BY <1>0, <1>7, <2>1 DEF CasPayload, StateOf, TypeOK
  <2> QED BY <2>2 DEF Content, StateOf
<1>8. CASE UNCHANGED <<map, payload, state, rep>>
  BY <1>8 DEF Content, StateOf
<1> QED BY <1>3, <1>4, <1>5, <1>6, <1>7, <1>8
    DEF Step, LoadState, LoadPayload, Lock, Unlock, Return

LEMMA ConstAccessStep ==
  IInv /\ [Next]_vars =>
    [(\E t \in Thread : pc'[t] # pc[t]) =>
       \A f \in Field : Content(f)' = Content(f)]_vars
<1> SUFFICES ASSUME IInv, Next, NEW t \in Thread, pc'[t] # pc[t], NEW f \in Field
             PROVE  Content(f)' = Content(f)
  OBVIOUS
<1>1. ASSUME NEW u \in Thread, NEW g \in Field, NEW o \in Accessor, Begin(u, g, o)
      PROVE  Content(f)' = Content(f)
  BY <1>1 DEF Begin, Content, StateOf
<1>2. ASSUME NEW g \in Field, Mutate(g) PROVE pc' = pc
  BY <1>2 DEF Mutate, MutableMap, MutableRepeatedField, RemoveLast, Clear,
     DeleteMapValue, WriteThroughMap, InsertOrLookupMapValue, AddEntry, MergeFrom,
     InternalSwap, SwapAcrossArenas, Threads
<1> QED BY <1>1, <1>2, StepKeepsContent DEF Next

\* A const accessor never changes what a field stands for.
THEOREM ConstAccessTheorem == Spec => ConstAccessKeepsContent
BY ConstAccessStep, Invariant, PTL DEF Spec, ConstAccessKeepsContent

-------------------------------------------------------------------------------
(* The map field implements the contents it promises. *)

LEMMA ListingDenotes ==
  ASSUME NEW m \in Contents, NEW l \in Listings(m)
  PROVE  MapOf(l) = m
<1> DEFINE n == Cardinality(Present(m))
<1>1. l \in Seq(Entry)
  BY ListingsType
<1>2. n \in Nat
  <2>1. IsFiniteSet(Present(m))
    BY KeysFinite, FS_Subset DEF Present
  <2> QED BY <2>1, FS_CardinalityType
<1>3. PICK q \in [1..n -> Present(m)] :
        /\ \A k \in Present(m) : \E i \in DOMAIN q : q[i] = k
        /\ l = [i \in DOMAIN q |-> [key |-> q[i], value |-> m[q[i]]]]
  BY DEF Listings
<1>4. /\ Len(l) = n
      /\ \A i \in 1..n : l[i].key = q[i] /\ l[i].value = m[q[i]]
      /\ \A i \in 1..n : q[i] \in Present(m)
  <2> HIDE DEF n
  <2> QED BY <1>1, <1>2, <1>3
<1> HIDE DEF n
<1>5. ASSUME NEW k \in Key PROVE MapOf(l)[k] = m[k]
  <2>1. CASE k \in Present(m)
    <3>1. \E i \in 1..Len(l) : l[i].key = k
      BY <1>3, <1>4, <2>1
    <3>2. LastAt(l, k) \in 1..Len(l) /\ l[LastAt(l, k)].key = k
      BY <1>1, <3>1, LastAtProperties
    <3> QED BY <1>4, <3>1, <3>2 DEF MapOf
  <2>2. CASE k \notin Present(m)
    <3>1. ~ \E i \in 1..Len(l) : l[i].key = k
      BY <1>4, <2>2
    <3> QED BY <2>2, <3>1 DEF MapOf, Present
  <2> QED BY <2>1, <2>2
<1> QED BY <1>5 DEF MapOf, Contents

\* A mutator changes no content but that of its own fields.
LEMMA OthersKeepContent ==
  ASSUME IInv, TypeOK', NEW F, Confined(F), NEW h \in Field \ F
  PROVE  Content(h)' = Content(h)
<1>1. map'[h] = map[h] /\ payload'[h] = payload[h]
  BY DEF Confined
<1>2. NotShared'
  BY ConfinedKeepsInvariant DEF IInv, LockInv
<1>3. ASSUME payload[h] # NoPayload
      PROVE  state'[payload[h]] = state[payload[h]] /\ rep'[payload[h]] = rep[payload[h]]
  <2>1. payload[h] \in PayloadId
    BY <1>3 DEF IInv, TypeOK
  <2>2. \A f \in F : payload'[f] # payload[h]
    BY <1>1, <1>2, <1>3 DEF NotShared, Confined
  <2> QED BY <2>1, <2>2 DEF Confined
<1> QED BY <1>1, <1>3 DEF Content, StateOf

contentNow == [f \in Field |-> Content(f)]

\* What each call on one field, and each on two, does to the contents.
LEMMA EditsAreAsPromised ==
  ASSUME IInv, NEW f \in Field, MutateOne(f)
  PROVE  EditsDoAsPromised(f)
<1>0. TypeOK /\ LockInv /\ RefsWriteTheNewerCopy /\ CleanMeansSame
  BY DEF IInv, RefsInv
<1>1. TypeOK'
  BY <1>0, TypeMutate DEF Mutate, MutateOne
<1>2. \A h \in Field : h # f => Content(h)' = Content(h)
  BY <1>1, OneIsConfined, OthersKeepContent
<1>3. contentNow' = [contentNow EXCEPT ![f] = Content(f)'] /\ contentNow[f] = Content(f)
  BY <1>2 DEF contentNow
<1>4. UNCHANGED answer
  BY DEF MutateOne, MutableMap, MutableRepeatedField, RemoveLast, Clear,
     DeleteMapValue, WriteThroughMap, InsertOrLookupMapValue, AddEntry, Threads
<1>a. ASSUME Content(f)' = Content(f) PROVE UNCHANGED Promise!vars
  BY <1>2, <1>4, <1>a DEF Promise!vars
<1>b. ASSUME NEW k \in Key, NEW v \in Value \cup {Absent},
             Content(f)' = [Content(f) EXCEPT ![k] = v]
      PROVE  Promise!Put(f, k, v)
  <2>1. contentNow' = [contentNow EXCEPT ![f][k] = v]
    BY <1>3, <1>b DEF contentNow
  <2> QED BY <1>4, <2>1 DEF Promise!Put, contentNow
<1>c. ASSUME Content(f)' = Empty PROVE Promise!Clear(f)
  BY <1>3, <1>4, <1>c DEF Promise!Clear, contentNow, Empty, Promise!Empty
<1>d. ASSUME state' = Dirty(f), UNCHANGED payload
      PROVE  Content(f)' = map'[f]
  <2>1. StateOf(f)' = "MODIFIED_MAP"
    BY <1>0, <1>d, DirtyIsModifiedMap
  <2> QED BY <2>1 DEF Content
<1>5. ASSUME MutableMap(f) PROVE UNCHANGED Promise!vars
  <2>1. Content(f)' = Content(f)
    BY <1>0, <1>5, <1>d DEF MutableMap, TypeOK
  <2> QED BY <1>a, <2>1
<1>6. ASSUME Clear(f) PROVE Promise!Clear(f)
  <2>1. Content(f)' = Empty
    BY <1>0, <1>6, <1>d DEF Clear, TypeOK
  <2> QED BY <1>c, <2>1
<1>7. ASSUME NEW k \in Key, DeleteMapValue(f, k) PROVE Promise!Put(f, k, Absent)
  <2>1. Content(f)' = [Content(f) EXCEPT ![k] = Absent]
    BY <1>0, <1>7, <1>d DEF DeleteMapValue, TypeOK
  <2> QED BY <1>b, <2>1
<1>8. ASSUME NEW k \in Key, NEW v \in Value, InsertOrLookupMapValue(f, k, v)
      PROVE  Promise!Put(f, k, v)
  <2>1. Content(f)' = [Content(f) EXCEPT ![k] = v]
    BY <1>0, <1>8, <1>d DEF InsertOrLookupMapValue, TypeOK
  <2> QED BY <1>b, <2>1
<1>9. ASSUME NEW k \in Key, NEW v \in Value \cup {Absent}, WriteThroughMap(f, k, v)
      PROVE  Promise!Put(f, k, v)
  <2>1. StateOf(f) = "MODIFIED_MAP" /\ StateOf(f)' = "MODIFIED_MAP"
    BY <1>0, <1>9 DEF WriteThroughMap, StateOf, RefsWriteTheNewerCopy
  <2>2. Content(f)' = [Content(f) EXCEPT ![k] = v]
    BY <1>0, <1>9, <2>1 DEF WriteThroughMap, Content, TypeOK
  <2> QED BY <1>b, <2>2
<1>10. ASSUME MutableRepeatedField(f) PROVE UNCHANGED Promise!vars
  <2>1. PICK p \in PayloadId :
          /\ payload[f] = p \/ (payload[f] = NoPayload /\ Fresh(p))
          /\ payload' = [payload EXCEPT ![f] = p]
          /\ state' = [state EXCEPT ![p] = "MODIFIED_REPEATED"]
          /\ \/ /\ StateOf(f) = "MODIFIED_MAP"
                /\ \E l \in Listings(map[f]) : rep' = [rep EXCEPT ![p] = l]
             \/ /\ StateOf(f) # "MODIFIED_MAP"
                /\ UNCHANGED rep
    BY <1>10 DEF MutableRepeatedField
  <2>2. Content(f)' = MapOf(rep'[p])
    BY <1>0, <2>1 DEF Content, StateOf, TypeOK
  <2>3. CASE StateOf(f) = "MODIFIED_MAP"
    <3>1. PICK l \in Listings(map[f]) : rep' = [rep EXCEPT ![p] = l]
      BY <2>1, <2>3
    <3>2. MapOf(l) = map[f]
      BY <1>0, ListingDenotes DEF TypeOK
    <3> QED BY <1>0, <1>a, <2>2, <2>3, <3>1, <3>2 DEF Content, TypeOK
  <2>4. CASE StateOf(f) # "MODIFIED_MAP"
    <3>1. payload[f] = p /\ UNCHANGED rep /\ StateOf(f) \in State
      BY <1>0, <2>1, <2>4 DEF StateOf, TypeOK, State
    <3>2. Content(f) = MapOf(rep[p])
      BY <1>0, <2>4, <3>1 DEF Content, CleanMeansSame, State
    <3> QED BY <1>a, <2>2, <3>1, <3>2
  <2> QED BY <2>3, <2>4
<1>11. ASSUME repRef[f]
       PROVE  /\ StateOf(f) = "MODIFIED_REPEATED" /\ payload[f] \in PayloadId
              /\ Content(f) = MapOf(rep[payload[f]])
              /\ rep[payload[f]] \in Seq(Entry)
  BY <1>0, <1>11 DEF RefsWriteTheNewerCopy, StateOf, Content, TypeOK
<1>12. ASSUME NEW k \in Key, NEW v \in Value, AddEntry(f, k, v)
       PROVE  Promise!Put(f, k, v)
  <2> DEFINE e == [key |-> k, value |-> v]
  <2>1. e \in Entry
    BY DEF Entry
  <2>2. /\ rep'[payload[f]] = Append(rep[payload[f]], e)
        /\ Content(f)' = MapOf(rep'[payload[f]])
    BY <1>0, <1>11, <1>12 DEF AddEntry, Content, StateOf, TypeOK
  <2>3. Content(f)' = Inserted(Content(f), e)
    BY <1>11, <1>12, <2>1, <2>2, MapOfAppend DEF AddEntry
  <2>4. Content(f)' = [Content(f) EXCEPT ![k] = v]
    BY <2>3 DEF Inserted
  <2> QED BY <1>b, <2>4
<1>13. ASSUME RemoveLast(f)
       PROVE  \E v \in Value \cup {Absent} :
                Promise!Put(f, rep[payload[f]][Len(rep[payload[f]])].key, v)
  <2> DEFINE r == rep[payload[f]]
             n == Len(r)
             last == r[n]
             front == SubSeq(r, 1, n - 1)
  <2>1. r \in Seq(Entry) /\ n \in 1..Len(r)
    <3>1. r \in Seq(Entry) /\ r # <<>>
      BY <1>11, <1>13 DEF RemoveLast
    <3> QED BY <3>1, EmptySeq, LenProperties
  <2>2. last \in Entry /\ last.key \in Key
    <3>1. last \in Entry
      BY <2>1, ElementOfSeq
    <3> QED BY <3>1 DEF Entry
  <2>3. Content(f)' = MapOf(front)
    BY <1>0, <1>11, <1>13 DEF RemoveLast, Content, StateOf, TypeOK
  <2>4. Content(f) = Inserted(MapOf(front), last)
    <3>1. SubSeq(r, 1, n) = r
      BY <2>1, SubSeqFull
    <3> QED BY <1>11, <1>13, <2>1, <3>1, OneMoreEntry DEF RemoveLast
  <2>5. MapOf(front) \in Contents
    <3>1. \A i \in 1..(n - 1) : r[i] \in Entry
      BY <2>1, ElementOfSeq
    <3>2. front \in Seq(Entry)
      BY <2>1, <3>1, SubSeqProperties
    <3> QED BY <3>2, MapOfType
  <2>6. MapOf(front)[last.key] \in Value \cup {Absent}
    BY <2>2, <2>5 DEF Contents
  <2>7. MapOf(front) = [Content(f) EXCEPT ![last.key] = MapOf(front)[last.key]]
    BY <2>2, <2>4 DEF Inserted, MapOf
  <2> QED BY <1>b, <2>2, <2>3, <2>6, <2>7
<1> QED BY <1>5, <1>6, <1>7, <1>8, <1>9, <1>10, <1>12, <1>13 DEF EditsDoAsPromised

LEMMA PairsAreAsPromised ==
  ASSUME IInv, NEW f \in Field, NEW g \in Field, MutateTwo(f, g)
  PROVE  PairsDoAsPromised(f, g)
<1>0. TypeOK /\ NotShared /\ f # g
  BY DEF IInv, LockInv, MutateTwo, MergeFrom, InternalSwap, SwapAcrossArenas
<1>1. TypeOK'
  BY <1>0, TypeMutate DEF Mutate, MutateTwo
<1>2. \A h \in Field : h # f /\ h # g => Content(h)' = Content(h)
  <2>1. Confined({f, g})
    BY TwoAreConfined
  <2>2. \A h \in Field \ {f, g} : Content(h)' = Content(h)
    BY <1>1, <2>1, OthersKeepContent
  <2> QED BY <2>2
<1>3. UNCHANGED answer
  BY DEF MutateTwo, MergeFrom, InternalSwap, SwapAcrossArenas, Threads
<1>4. \A h \in Field : contentNow[h] = Content(h) /\ contentNow'[h] = Content(h)'
  BY DEF contentNow
<1>5. ASSUME Content(f)' = Merged(Content(f), Content(g)), Content(g)' = Content(g)
      PROVE  Promise!Merge(f, g)
  <2>1. contentNow' = [contentNow EXCEPT ![f] = Promise!Merged(@, contentNow[g])]
    BY <1>0, <1>2, <1>4, <1>5 DEF contentNow, Merged, Promise!Merged
  <2> QED BY <1>3, <2>1 DEF Promise!Merge, contentNow
<1>6. ASSUME Content(f)' = Content(g), Content(g)' = Content(f)
      PROVE  Promise!Swap(f, g)
  <2>1. contentNow' = [contentNow EXCEPT ![f] = contentNow[g], ![g] = contentNow[f]]
    BY <1>0, <1>2, <1>4, <1>6 DEF contentNow
  <2> QED BY <1>3, <2>1 DEF Promise!Swap, contentNow
<1>7. ASSUME MergeFrom(f, g) PROVE Promise!Merge(f, g)
  <2>1. /\ map'[f] = Merged(Content(f), Content(g)) /\ map'[g] = Content(g)
        /\ UNCHANGED payload
    BY <1>0, <1>7 DEF MergeFrom, TypeOK
  <2>2. \A p \in PayloadId :
          /\ p = payload[f] => state'[p] = "MODIFIED_MAP"
          /\ p = payload[g] => state'[p] # "MODIFIED_REPEATED"
    BY <1>0, <1>7 DEF MergeFrom, Dirty, TypeOK, NotShared
  <2>3. StateOf(f)' = "MODIFIED_MAP" /\ StateOf(g)' # "MODIFIED_REPEATED"
    BY <1>0, <2>1, <2>2 DEF StateOf, TypeOK
  <2>4. Content(f)' = map'[f] /\ Content(g)' = map'[g]
    BY <2>3 DEF Content
  <2> QED BY <1>5, <2>1, <2>4
<1>8. ASSUME InternalSwap(f, g) PROVE Promise!Swap(f, g)
  <2>1. /\ map'[f] = map[g] /\ map'[g] = map[f]
        /\ payload'[f] = payload[g] /\ payload'[g] = payload[f]
        /\ UNCHANGED <<state, rep>>
    BY <1>0, <1>8 DEF InternalSwap, PayloadSwapped, TypeOK
  <2> QED BY <1>6, <2>1 DEF Content, StateOf
<1>9. ASSUME SwapAcrossArenas(f, g) PROVE Promise!Swap(f, g)
  <2>0. map'[f] = map[g] /\ map'[g] = map[f]
    BY <1>0, <1>9 DEF SwapAcrossArenas, TypeOK
  <2>1. CASE payload[f] = NoPayload /\ payload[g] = NoPayload
    <3>1. UNCHANGED payload
      BY <1>9, <2>1 DEF SwapAcrossArenas
    <3> QED BY <1>6, <2>0, <2>1, <3>1 DEF Content, StateOf
  <2>2. CASE payload[f] # NoPayload \/ payload[g] # NoPayload
    <3>1. PICK p \in PayloadId, q \in PayloadId :
            /\ p # q
            /\ payload[f] = p \/ payload[f] = NoPayload
            /\ payload[g] = q \/ payload[g] = NoPayload
            /\ payload' = [payload EXCEPT ![f] = p, ![g] = q]
            /\ state' = StateSwapped(f, g, p, q)
            /\ rep' = RepSwapped(f, g, p, q)
      BY <1>9, <2>2 DEF SwapAcrossArenas
    <3>2. payload'[f] = p /\ payload'[g] = q /\ p # NoPayload /\ q # NoPayload
      BY <1>0, <3>1, SentinelsDistinct DEF TypeOK
    <3>3. state'[p] = StateOf(g) /\ state'[q] = StateOf(f)
      BY <1>0, <3>1 DEF StateSwapped, TypeOK
    <3>4. /\ payload[g] # NoPayload => rep'[p] = rep[payload[g]]
          /\ payload[f] # NoPayload => rep'[q] = rep[payload[f]]
      BY <1>0, <3>1 DEF RepSwapped, TypeOK
    <3>5. StateOf(f)' = StateOf(g) /\ StateOf(g)' = StateOf(f)
      BY <3>2, <3>3 DEF StateOf
    <3>6. Content(f)' = Content(g)
      <4>1. StateOf(g) = "MODIFIED_REPEATED" => payload[g] # NoPayload
        BY DEF StateOf
      <4> QED BY <2>0, <3>2, <3>4, <3>5, <4>1 DEF Content
    <3>7. Content(g)' = Content(f)
      <4>1. StateOf(f) = "MODIFIED_REPEATED" => payload[f] # NoPayload
        BY DEF StateOf
      <4> QED BY <2>0, <3>2, <3>4, <3>5, <4>1 DEF Content
    <3> QED BY <1>6, <3>6, <3>7
  <2> QED BY <2>1, <2>2
<1> QED BY <1>7, <1>8, <1>9 DEF PairsDoAsPromised

LEMMA MutateOneRefines ==
  ASSUME IInv, NEW f \in Field, MutateOne(f)
  PROVE  Promise!Next \/ UNCHANGED Promise!vars
<1>1. EditsDoAsPromised(f)
  BY EditsAreAsPromised
<1>2. ASSUME NEW k \in Key, NEW v \in Value \cup {Absent}, Promise!Put(f, k, v)
      PROVE  Promise!Next
  BY <1>2 DEF Promise!Next
<1>3. ASSUME RemoveLast(f)
      PROVE  rep[payload[f]][Len(rep[payload[f]])].key \in Key
  <2>1. payload[f] \in PayloadId /\ rep[payload[f]] \in Seq(Entry) /\ rep[payload[f]] # <<>>
    BY <1>3 DEF IInv, TypeOK, RefsInv, RefsWriteTheNewerCopy, StateOf, RemoveLast
  <2>2. rep[payload[f]][Len(rep[payload[f]])] \in Entry
    BY <2>1, EmptySeq, LenProperties, ElementOfSeq
  <2> QED BY <2>2 DEF Entry
<1>4. Clear(f) => Promise!Next
  BY <1>1 DEF EditsDoAsPromised, Promise!Next
<1> QED BY <1>1, <1>2, <1>3, <1>4 DEF EditsDoAsPromised, MutateOne

LEMMA MutateTwoRefines ==
  ASSUME IInv, NEW f \in Field, NEW g \in Field, MutateTwo(f, g)
  PROVE  Promise!Next
<1>1. Promise!Merge(f, g) \/ Promise!Swap(f, g)
  BY PairsAreAsPromised DEF PairsDoAsPromised, MutateTwo
<1> QED BY <1>1 DEF Promise!Next

\* Each mutator does to the contents what its name says: swaps exchange them, merges
\* keep what only the target has, and no call touches those of another field.
THEOREM MutatorsTheorem == Spec => MutatorsDoAsPromised
<1>1. ASSUME IInv, NEW f \in Field PROVE EditsDoAsPromised(f)
  <2>1. CASE MutateOne(f)
    BY <1>1, <2>1, EditsAreAsPromised
  <2>2. CASE ~MutateOne(f)
    BY <2>2 DEF MutateOne, EditsDoAsPromised
  <2> QED BY <2>1, <2>2
<1>2. ASSUME IInv, NEW f \in Field, NEW g \in Field PROVE PairsDoAsPromised(f, g)
  <2>1. CASE MutateTwo(f, g)
    BY <1>2, <2>1, PairsAreAsPromised
  <2>2. CASE ~MutateTwo(f, g)
    BY <2>2 DEF MutateTwo, PairsDoAsPromised
  <2> QED BY <2>1, <2>2
<1>3. IInv /\ [Next]_vars => [EachDoesAsPromised]_vars
  BY <1>1, <1>2 DEF EachDoesAsPromised
<1> QED BY <1>3, Invariant, PTL DEF Spec, MutatorsDoAsPromised

LEMMA BeginRefines ==
  ASSUME NEW t \in Thread, NEW f \in Field, NEW o \in Accessor, Begin(t, f, o)
  PROVE  UNCHANGED Promise!vars
BY DEF Begin, Promise!vars, Content, StateOf

LEMMA StepRefines ==
  ASSUME IInv, NEW t \in Thread, Step(t)
  PROVE  Promise!Next \/ UNCHANGED Promise!vars
<1>1. contentNow' = contentNow
  BY StepKeepsContent DEF contentNow
<1>2. CASE UNCHANGED answer
  BY <1>1, <1>2 DEF Promise!vars, contentNow
<1>3. CASE Return(t)
  <2>1. TypeOK /\ on[t] \in Field
    BY <1>3 DEF IInv, LocalsOK, Return
  <2>2. CASE op[t] = "SpaceUsed"
    <3>1. UNCHANGED answer
      BY <1>3, <2>1, <2>2 DEF Return, TypeOK
    <3> QED BY <1>2, <3>1
  <2>3. CASE op[t] # "SpaceUsed"
    <3>1. Seen(t) = Content(on[t])
      BY <1>3, <2>3, ReadersSeeContentHolds DEF ReadersSeeContent, Return
    <3>2. answer' = [answer EXCEPT ![t] = contentNow[on[t]]]
      BY <1>3, <2>1, <2>3, <3>1 DEF Return, contentNow
    <3>3. Promise!Read(t, on[t])
      BY <1>1, <3>2 DEF Promise!Read, contentNow
    <3> QED BY <2>1, <3>3 DEF Promise!Next
  <2> QED BY <2>2, <2>3
<1> QED BY <1>2, <1>3
    DEF Step, LoadState, LoadPayload, CasPayload, Lock, CheckAgain, FillMap,
        FillRepeated, Publish, Unlock

LEMMA InitRefines == Init => Promise!Init
BY DEF Init, Promise!Init, Content, StateOf, Empty, Promise!Empty

LEMMA NextRefines == IInv /\ [Next]_vars => [Promise!Next]_(Promise!vars)
<1> SUFFICES ASSUME IInv, [Next]_vars
             PROVE  Promise!Next \/ UNCHANGED Promise!vars
  OBVIOUS
<1>1. CASE UNCHANGED vars
  BY <1>1 DEF vars, Promise!vars, Content, StateOf
<1>2. ASSUME NEW f \in Field, Mutate(f)
      PROVE  Promise!Next \/ UNCHANGED Promise!vars
  <2>1. MutateOne(f) \/ \E g \in Field : MutateTwo(f, g)
    BY <1>2 DEF Mutate, MutateOne, MutateTwo
  <2> QED BY <2>1, MutateOneRefines, MutateTwoRefines
<1> QED BY <1>1, <1>2, BeginRefines, StepRefines DEF Next

\* The two copies, the state word and the payload that comes and goes are an
\* implementation of one content per field that every const accessor, on any
\* thread, answers with.
THEOREM Refinement == Spec => ImplementsMapContents
<1>1. Init => Promise!Init
  BY InitRefines
<1>2. IInv /\ [Next]_vars => [Promise!Next]_(Promise!vars)
  BY NextRefines
<1> QED BY <1>1, <1>2, Invariant, PTL DEF Spec, ImplementsMapContents, Promise!Spec

===============================================================================
