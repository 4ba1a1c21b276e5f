----------------------- MODULE ThreadSafeArena_proofs -----------------------
(***************************************************************************)
(* TLAPS proofs about ThreadSafeArena, for any number of threads, arenas   *)
(* and heap addresses, chunks of any capacity and batches of any size.     *)
(***************************************************************************)
EXTENDS ThreadSafeArena, FiniteSetTheorems, SequenceTheorems, TLAPS

USE SentinelsApart

-------------------------------------------------------------------------------
(* The inductive invariant.  A place of a list q of chunks is given by a      *)
(* chunk i and an entry j of it, whether the entry is in use or not.          *)

Cap(q, i) == Len(q[i].ids)
Size(q, i) == q[i].size
IdOf(q, i, j) == q[i].ids[j]
SerOf(q, i, j) == q[i].serials[j]

\* A batch belongs to the thread that reserved it; ids of it that are in use
\* come before the next one that the thread will give.
GivenBefore(id) ==
  /\ id.batch < lifecycleId
  /\ \A t \in Thread : nextId[t].offset # 0 /\ nextId[t].batch = id.batch =>
       id.offset < nextId[t].offset

IdInv ==
  /\ \A t \in Thread : nextId[t].offset # 0 => nextId[t].batch < lifecycleId
  /\ \A t, u \in Thread :
       t # u /\ nextId[t].offset # 0 /\ nextId[u].offset # 0 =>
         nextId[t].batch # nextId[u].batch
  /\ \A a \in Arena : tag[a] # NoId => GivenBefore(tag[a])
  /\ \A t \in Thread : seenId[t] # NoId => GivenBefore(seenId[t])
  /\ \A a, b \in Arena : tag[a] # NoId /\ tag[a] = tag[b] => a = b

Adding == {"add", "reserve", "full", "id", "serial", "lock", "refetch", "grow", "done"}
Unlisted == {"add", "reserve", "full", "id", "lock", "refetch", "grow"}

\* What a thread that is in an arena may rely on.
ThreadInv ==
  /\ \A t \in Thread :
       /\ pc[t] = "idle" => on[t] = NoArena
       /\ pc[t] # "idle" => on[t] \in Arena /\ tag[on[t]] # NoId
       /\ pc[t] # "using" => got[t] = NoSerial
       /\ pc[t] \notin Adding => mine[t] = NoSerial
       /\ pc[t] \in Adding =>
            /\ mine[t] \in Serial /\ parent[mine[t]] = on[t]
            /\ seenId[t] # tag[on[t]] /\ firstOwner[on[t]] # t
            /\ pc[t] # "add" => head[t] <= Len(chunks[on[t]])
  /\ \A a \in Arena : tag[a] = NoId => chunks[a] = <<>> /\ firstOwner[a] = NoThread
  /\ \A t, u \in Thread : mine[t] = mine[u] /\ mine[t] # NoSerial => t = u

\* What is in the list.
ListInv ==
  /\ \A a \in Arena : \A i \in 1..Len(chunks[a]) : \A j \in 1..Cap(chunks[a], i) :
       /\ j > Size(chunks[a], i) => IdOf(chunks[a], i, j) = NoThread
       /\ IdOf(chunks[a], i, j) = NoThread => SerOf(chunks[a], i, j) = NoSerial
       /\ SerOf(chunks[a], i, j) # NoSerial => parent[SerOf(chunks[a], i, j)] = a
       /\ IdOf(chunks[a], i, j) # NoThread /\ SerOf(chunks[a], i, j) = NoSerial =>
            /\ pc[IdOf(chunks[a], i, j)] = "serial" /\ on[IdOf(chunks[a], i, j)] = a
            /\ head[IdOf(chunks[a], i, j)] = i /\ slot[IdOf(chunks[a], i, j)] = j
  /\ \A a \in Arena : \A i, k \in 1..Len(chunks[a]) : \A j \in 1..Cap(chunks[a], i), l \in 1..Cap(chunks[a], k) :
       /\ IdOf(chunks[a], i, j) = IdOf(chunks[a], k, l) /\ IdOf(chunks[a], i, j) # NoThread => i = k /\ j = l
       /\ SerOf(chunks[a], i, j) = SerOf(chunks[a], k, l) /\ SerOf(chunks[a], i, j) # NoSerial => i = k /\ j = l

\* What a thread u that is at p knows of chunk h and entry k of its arena's list.
SlotOK(q, p, h, k, u) ==
  /\ p \in {"reserve", "full", "id", "serial"} => h \in 1..Len(q)
  /\ p = "full" => Size(q, h) >= Cap(q, h)
  /\ p \in {"id", "serial"} => k \in 1..Cap(q, h) /\ k <= Size(q, h)
  /\ p = "id" => IdOf(q, h, k) = NoThread
  /\ p = "serial" => IdOf(q, h, k) = u /\ SerOf(q, h, k) = NoSerial

\* A thread that adds its SerialArena owns the slot it reserved.
SlotInv ==
  /\ \A t \in Thread : SlotOK(chunks[on[t]], pc[t], head[t], slot[t], t)
  /\ \A t, u \in Thread :
       t # u /\ pc[t] \in {"id", "serial"} /\ pc[u] \in {"id", "serial"}
       /\ on[t] = on[u] /\ head[t] = head[u] => slot[t] # slot[u]

\* An entry that is in use but has no id yet is the one a thread has reserved.
ReservedInv ==
  \A a \in Arena : \A i \in 1..Len(chunks[a]) : \A j \in 1..Cap(chunks[a], i) :
    j <= Size(chunks[a], i) /\ IdOf(chunks[a], i, j) = NoThread =>
      \E t \in Thread : pc[t] = "id" /\ on[t] = a /\ head[t] = i /\ slot[t] = j

\* No place of a list has the id of thread t; none has the SerialArena r; one
\* has both.
Unnamed(q, t) == \A i \in 1..Len(q) : \A j \in 1..Cap(q, i) : IdOf(q, i, j) # t
Unplaced(q, r) == \A i \in 1..Len(q) : \A j \in 1..Cap(q, i) : SerOf(q, i, j) # r
Placed(q, t, r) ==
  \E i \in 1..Len(q) : \E j \in 1..Cap(q, i) : IdOf(q, i, j) = t /\ SerOf(q, i, j) = r

\* Whether a thread and its SerialArena are in the list yet.
AddInv ==
  \A t \in Thread :
    /\ pc[t] \in Unlisted => Unnamed(chunks[on[t]], t)
    /\ pc[t] \in Unlisted \cup {"serial"} => \A a \in Arena : Unplaced(chunks[a], mine[t])
    /\ pc[t] = "done" => Placed(chunks[on[t]], t, mine[t])

\* The thread that holds the mutex adds to the newest chunk.
MutexInv ==
  /\ \A a \in Arena : mutex[a] # NoThread =>
       /\ on[mutex[a]] = a
       /\ pc[mutex[a]] \in {"reserve", "full", "id", "serial", "refetch", "grow", "done"}
       /\ pc[mutex[a]] \in {"reserve", "full", "grow"} => head[mutex[a]] = Len(chunks[a])
  /\ \A t \in Thread : pc[t] \in {"refetch", "grow"} => mutex[on[t]] = t

\* Every SerialArena that is not free is in the list of its arena or about to be.
ParentInv ==
  \A s \in Serial : parent[s] # NoArena =>
    \/ \E t \in Thread : mine[t] = s /\ on[t] = parent[s] /\ pc[t] # "done"
    \/ ~Unplaced(chunks[parent[s]], s)

\* s is the SerialArena of thread t in the arena a that f created and whose list
\* is q.
Owns(f, q, a, t, s) ==
  \/ f = t /\ s = a
  \/ f # t /\ s # NoSerial /\ Placed(q, t, s)

Owned(a, t, s) == Owns(firstOwner[a], chunks[a], a, t, s)

CacheInv ==
  /\ \A t \in Thread, a \in Arena :
       tag[a] # NoId /\ seenId[t] = tag[a] =>
         Owns(firstOwner[a], chunks[a], a, t, lastSerial[t])
  /\ \A t \in Thread : pc[t] = "using" =>
       Owns(firstOwner[on[t]], chunks[on[t]], on[t], t, got[t])

\* A walk over q is at p, in chunk h, entry k of the span that ends at l: it
\* stands inside q, and it has the SerialArena s still ahead of it.
StandsIn(q, p, h, k, l) ==
  h <= Len(q) /\ (p = "slots" => h # 0 /\ k # 0 /\ l <= Cap(q, h))

Ahead(q, p, h, k, l, s) ==
  \E i \in 1..Len(q) : \E j \in 1..Cap(q, i) :
    /\ SerOf(q, i, j) = s
    /\ i < h \/ (i = h /\ (p = "walk" \/ (k <= j /\ j <= l)))

WalkInv ==
  \A t \in Thread : pc[t] \in {"walk", "slots"} =>
    /\ StandsIn(chunks[on[t]], pc[t], head[t], slot[t], limit[t])
    /\ \A s \in visited[t] : s = on[t] \/ (s \in Serial /\ parent[s] = on[t])
    /\ \A s \in owed[t] \ visited[t] :
         Ahead(chunks[on[t]], pc[t], head[t], slot[t], limit[t], s)

IInv ==
  /\ TypeOK /\ IdInv /\ ThreadInv /\ ListInv /\ SlotInv /\ ReservedInv
  /\ AddInv /\ MutexInv /\ ParentInv /\ CacheInv /\ WalkInv

-------------------------------------------------------------------------------
(* Lists of chunks: what their parts are, and what each change changes. *)

IsList(q) ==
  /\ q \in Seq(Chunk)
  /\ \A i \in 1..Len(q) : /\ Len(q[i].serials) = Cap(q, i)
                          /\ Cap(q, i) \in 1..kMaxBytes

WithChunk(q, h, c) == [q EXCEPT ![h] = c]
WithSize(q, h, n) == [q EXCEPT ![h].size = n]
WithId(q, h, k, t) == [q EXCEPT ![h].ids[k] = t]
WithSerial(q, h, k, s) == [q EXCEPT ![h].serials[k] = s]

LEMMA MaxBytesNat == kMaxBytes \in Nat
BY CapacityOK

LEMMA ListParts ==
  ASSUME NEW q, IsList(q)
  PROVE  /\ Len(q) \in Nat
         /\ \A i \in 1..Len(q) :
              /\ Cap(q, i) \in 1..kMaxBytes /\ Cap(q, i) \in Nat
              /\ Size(q, i) \in Nat \ {0}
              /\ \A j \in 1..Cap(q, i) : /\ IdOf(q, i, j) \in Thread \cup {NoThread}
                                         /\ SerOf(q, i, j) \in Serial \cup {NoSerial}
<1>1. q \in Seq(Chunk) /\ Len(q) \in Nat
  BY DEF IsList
<1>2. ASSUME NEW i \in 1..Len(q)
      PROVE  /\ Cap(q, i) \in 1..kMaxBytes /\ Cap(q, i) \in Nat
             /\ Size(q, i) \in Nat \ {0}
             /\ \A j \in 1..Cap(q, i) : /\ IdOf(q, i, j) \in Thread \cup {NoThread}
                                        /\ SerOf(q, i, j) \in Serial \cup {NoSerial}
  <2>1. q[i] \in Chunk
    BY <1>1, ElementOfSeq
  <2>2. /\ Size(q, i) \in Nat \ {0}
        /\ q[i].ids \in Seq(Thread \cup {NoThread})
        /\ q[i].serials \in Seq(Serial \cup {NoSerial})
    BY <2>1 DEF Chunk, Size
  <2>3. Cap(q, i) \in 1..kMaxBytes /\ Len(q[i].serials) = Cap(q, i)
    BY DEF IsList
  <2>4. ASSUME NEW j \in 1..Cap(q, i)
        PROVE  /\ IdOf(q, i, j) \in Thread \cup {NoThread}
               /\ SerOf(q, i, j) \in Serial \cup {NoSerial}
    BY <2>2, <2>3, ElementOfSeq DEF IdOf, SerOf, Cap
  <2> QED BY <2>2, <2>3, <2>4
<1> QED BY <1>1, <1>2

LEMMA ChunkReplaced ==
  ASSUME NEW q, IsList(q), NEW h \in 1..Len(q), NEW c \in Chunk,
         Len(c.ids) = Cap(q, h), Len(c.serials) = Cap(q, h),
         NEW r, r = WithChunk(q, h, c)
  PROVE  /\ IsList(r) /\ Len(r) = Len(q)
         /\ \A i \in 1..Len(q) : /\ Cap(r, i) = Cap(q, i)
                                 /\ r[i] = IF i = h THEN c ELSE q[i]
<1>1. q \in Seq(Chunk)
  BY DEF IsList
<1>2. /\ r \in Seq(Chunk) /\ Len(r) = Len(q)
      /\ \A i \in 1..Len(q) : r[i] = IF i = h THEN c ELSE q[i]
  BY <1>1, ExceptSeq DEF WithChunk
<1> QED BY <1>2 DEF IsList, Cap

LEMMA SizeStored ==
  ASSUME NEW q, IsList(q), NEW h \in 1..Len(q), NEW n \in Nat \ {0},
         NEW r, r = WithSize(q, h, n)
  PROVE  /\ IsList(r) /\ Len(r) = Len(q)
         /\ \A i \in 1..Len(q) :
              /\ Cap(r, i) = Cap(q, i)
              /\ Size(r, i) = IF i = h THEN n ELSE Size(q, i)
              /\ \A j \in 1..Cap(q, i) : /\ IdOf(r, i, j) = IdOf(q, i, j)
                                         /\ SerOf(r, i, j) = SerOf(q, i, j)
<1>1. q[h] \in Chunk /\ Len(q[h].serials) = Cap(q, h)
  BY ElementOfSeq DEF IsList
<1>2. PICK c : c = [q[h] EXCEPT !.size = n]
  OBVIOUS
<1>3. c \in Chunk /\ c.ids = q[h].ids /\ c.serials = q[h].serials /\ c.size = n
  BY <1>1, <1>2 DEF Chunk
<1>4. /\ IsList(r) /\ Len(r) = Len(q)
      /\ \A i \in 1..Len(q) : /\ Cap(r, i) = Cap(q, i)
                              /\ r[i] = IF i = h THEN c ELSE q[i]
  <2>1. r = WithChunk(q, h, c)
    BY <1>2 DEF WithSize, WithChunk
  <2>2. Len(c.ids) = Cap(q, h) /\ Len(c.serials) = Cap(q, h)
    BY <1>1, <1>3 DEF Cap
  <2> QED BY <1>3, <2>1, <2>2, ChunkReplaced
<1> QED BY <1>3, <1>4 DEF Size, IdOf, SerOf

LEMMA IdStored ==
  ASSUME NEW q, IsList(q), NEW h \in 1..Len(q), NEW k \in 1..Cap(q, h),
         NEW t \in Thread, NEW r, r = WithId(q, h, k, t)
  PROVE  /\ IsList(r) /\ Len(r) = Len(q)
         /\ \A i \in 1..Len(q) :
              /\ Cap(r, i) = Cap(q, i) /\ Size(r, i) = Size(q, i)
              /\ \A j \in 1..Cap(q, i) :
                   /\ IdOf(r, i, j) = IF i = h /\ j = k THEN t ELSE IdOf(q, i, j)
                   /\ SerOf(r, i, j) = SerOf(q, i, j)
<1>1. q[h] \in Chunk /\ Len(q[h].serials) = Cap(q, h)
  BY ElementOfSeq DEF IsList
<1>2. q[h].ids \in Seq(Thread \cup {NoThread})
  BY <1>1 DEF Chunk
<1>3. PICK p : p = [q[h].ids EXCEPT ![k] = t]
  OBVIOUS
<1>4. /\ p \in Seq(Thread \cup {NoThread}) /\ Len(p) = Cap(q, h)
      /\ \A j \in 1..Cap(q, h) : p[j] = IF j = k THEN t ELSE q[h].ids[j]
  BY <1>2, <1>3, ExceptSeq DEF Cap
<1>5. PICK c : c = [q[h] EXCEPT !.ids = p]
  OBVIOUS
<1>6. c \in Chunk /\ c.ids = p /\ c.serials = q[h].serials /\ c.size = q[h].size
  BY <1>1, <1>4, <1>5 DEF Chunk
<1>7. /\ IsList(r) /\ Len(r) = Len(q)
      /\ \A i \in 1..Len(q) : /\ Cap(r, i) = Cap(q, i)
                              /\ r[i] = IF i = h THEN c ELSE q[i]
  <2>1. r = WithChunk(q, h, c)
    BY <1>3, <1>5 DEF WithId, WithChunk
  <2> QED BY <1>1, <1>4, <1>6, <2>1, ChunkReplaced
<1> QED BY <1>4, <1>6, <1>7 DEF Size, IdOf, SerOf

LEMMA SerialStored ==
  ASSUME NEW q, IsList(q), NEW h \in 1..Len(q), NEW k \in 1..Cap(q, h),
         NEW s \in Serial, NEW r, r = WithSerial(q, h, k, s)
  PROVE  /\ IsList(r) /\ Len(r) = Len(q)
         /\ \A i \in 1..Len(q) :
              /\ Cap(r, i) = Cap(q, i) /\ Size(r, i) = Size(q, i)
              /\ \A j \in 1..Cap(q, i) :
                   /\ SerOf(r, i, j) = IF i = h /\ j = k THEN s ELSE SerOf(q, i, j)
                   /\ IdOf(r, i, j) = IdOf(q, i, j)
<1>1. q[h] \in Chunk /\ Len(q[h].serials) = Cap(q, h)
  BY ElementOfSeq DEF IsList
<1>2. q[h].serials \in Seq(Serial \cup {NoSerial})
  BY <1>1 DEF Chunk
<1>3. PICK p : p = [q[h].serials EXCEPT ![k] = s]
  OBVIOUS
<1>4. /\ p \in Seq(Serial \cup {NoSerial}) /\ Len(p) = Cap(q, h)
      /\ \A j \in 1..Cap(q, h) : p[j] = IF j = k THEN s ELSE q[h].serials[j]
  BY <1>1, <1>2, <1>3, ExceptSeq
<1>5. PICK c : c = [q[h] EXCEPT !.serials = p]
  OBVIOUS
<1>6. c \in Chunk /\ c.serials = p /\ c.ids = q[h].ids /\ c.size = q[h].size
  BY <1>1, <1>4, <1>5 DEF Chunk
<1>7. /\ IsList(r) /\ Len(r) = Len(q)
      /\ \A i \in 1..Len(q) : /\ Cap(r, i) = Cap(q, i)
                              /\ r[i] = IF i = h THEN c ELSE q[i]
  <2>1. r = WithChunk(q, h, c)
    BY <1>3, <1>5 DEF WithSerial, WithChunk
  <2>2. Len(c.ids) = Cap(q, h)
    BY <1>6 DEF Cap
  <2> QED BY <1>4, <1>6, <2>1, <2>2, ChunkReplaced
<1> QED BY <1>4, <1>6, <1>7 DEF Size, IdOf, SerOf

LEMMA NewChunkType ==
  ASSUME NEW prev \in 0..kMaxBytes, NEW t \in Thread, NEW s \in Serial,
         NEW c, c = NewSerialArenaChunk(prev, t, s)
  PROVE  /\ c \in Chunk /\ c.size = 1
         /\ Len(c.ids) \in 1..kMaxBytes /\ Len(c.serials) = Len(c.ids)
         /\ c.ids[1] = t /\ c.serials[1] = s
         /\ \A j \in 2..Len(c.ids) : c.ids[j] = NoThread /\ c.serials[j] = NoSerial
<1> DEFINE n == NextCapacity(prev)
           p == [i \in 1..n |-> IF i = 1 THEN t ELSE NoThread]
           q == [i \in 1..n |-> IF i = 1 THEN s ELSE NoSerial]
<1>1. n \in 1..kMaxBytes /\ n \in Nat
  BY CapacityOK
<1> HIDE DEF n
<1>2. p \in Seq(Thread \cup {NoThread}) /\ Len(p) = n
  BY <1>1
<1>3. q \in Seq(Serial \cup {NoSerial}) /\ Len(q) = n
  BY <1>1
<1>4. /\ p[1] = t /\ q[1] = s
      /\ \A j \in 2..n : p[j] = NoThread /\ q[j] = NoSerial
  BY <1>1
<1> HIDE DEF p, q
<1>5. NewSerialArenaChunk(prev, t, s) = [size |-> 1, ids |-> p, serials |-> q]
  BY DEF NewSerialArenaChunk, p, q, n
<1>6. [size |-> 1, ids |-> p, serials |-> q] \in Chunk
  BY <1>2, <1>3 DEF Chunk
<1> QED BY <1>1, <1>2, <1>3, <1>4, <1>5, <1>6

\* r is q with a new chunk at its end, which starts with t and s.
HasNewChunk(r, q, t, s) ==
  /\ IsList(r) /\ Len(r) = Len(q) + 1
  /\ \A i \in 1..Len(q) :
       /\ Cap(r, i) = Cap(q, i) /\ Size(r, i) = Size(q, i)
       /\ \A j \in 1..Cap(q, i) : /\ IdOf(r, i, j) = IdOf(q, i, j)
                                  /\ SerOf(r, i, j) = SerOf(q, i, j)
  /\ Size(r, Len(q) + 1) = 1
  /\ IdOf(r, Len(q) + 1, 1) = t /\ SerOf(r, Len(q) + 1, 1) = s
  /\ \A j \in 2..Cap(r, Len(q) + 1) : /\ IdOf(r, Len(q) + 1, j) = NoThread
                                      /\ SerOf(r, Len(q) + 1, j) = NoSerial

LEMMA ChunkAppended ==
  ASSUME NEW q, IsList(q), NEW prev \in 0..kMaxBytes, NEW t \in Thread,
         NEW s \in Serial, NEW r, r = Append(q, NewSerialArenaChunk(prev, t, s))
  PROVE  HasNewChunk(r, q, t, s)
<1>1. PICK c : c = NewSerialArenaChunk(prev, t, s)
  OBVIOUS
<1>2. /\ c \in Chunk /\ c.size = 1
      /\ Len(c.ids) \in 1..kMaxBytes /\ Len(c.serials) = Len(c.ids)
      /\ c.ids[1] = t /\ c.serials[1] = s
      /\ \A j \in 2..Len(c.ids) : c.ids[j] = NoThread /\ c.serials[j] = NoSerial
  BY <1>1, NewChunkType
<1>3. /\ r \in Seq(Chunk) /\ Len(r) = Len(q) + 1
      /\ \A i \in 1..Len(q) : r[i] = q[i]
      /\ r[Len(q) + 1] = c
  <2>1. q \in Seq(Chunk)
    BY DEF IsList
  <2> QED BY <1>1, <1>2, <2>1, AppendProperties
<1>4. Len(q) \in Nat
  BY ListParts
<1>5. IsList(r)
  <2> SUFFICES ASSUME NEW i \in 1..Len(r)
               PROVE  Len(r[i].serials) = Cap(r, i) /\ Cap(r, i) \in 1..kMaxBytes
    BY <1>3 DEF IsList
  <2>1. CASE i \in 1..Len(q)
    BY <1>3, <2>1 DEF IsList, Cap
  <2>2. CASE i \notin 1..Len(q)
    BY <1>2, <1>3, <1>4, <2>2 DEF Cap
  <2> QED BY <2>1, <2>2
<1>6. \A i \in 1..Len(q) :
        /\ Cap(r, i) = Cap(q, i) /\ Size(r, i) = Size(q, i)
        /\ \A j \in 1..Cap(q, i) : /\ IdOf(r, i, j) = IdOf(q, i, j)
                                   /\ SerOf(r, i, j) = SerOf(q, i, j)
  BY <1>3 DEF Cap, Size, IdOf, SerOf
<1> QED BY <1>2, <1>3, <1>5, <1>6 DEF Cap, Size, IdOf, SerOf, HasNewChunk

-------------------------------------------------------------------------------
(* What the steps of AddSerialArena do to the list. *)

ListsOK ==
  /\ chunks \in [Arena -> Seq(Chunk)]
  /\ \A a \in Arena : IsList(chunks[a])

LEMMA ListsType == TypeOK => ListsOK
BY DEF TypeOK, ListsOK, IsList, Cap, capacity

\* The list of one arena changes.
OneListChanges(a) ==
  /\ ListsOK' /\ IsList(chunks'[a])
  /\ \A b \in Arena : b # a => chunks'[b] = chunks[b]

LEMMA OneListStored ==
  ASSUME TypeOK, NEW a \in Arena, NEW r, IsList(r),
         chunks' = [chunks EXCEPT ![a] = r]
  PROVE  OneListChanges(a) /\ chunks'[a] = r
<1>1. chunks \in [Arena -> Seq(Chunk)] /\ \A b \in Arena : IsList(chunks[b])
  BY ListsType DEF ListsOK
<1>2. r \in Seq(Chunk)
  BY DEF IsList
<1>3. chunks'[a] = r /\ \A b \in Arena : b # a => chunks'[b] = chunks[b]
  BY <1>1
<1>4. chunks' \in [Arena -> Seq(Chunk)]
  BY <1>1, <1>2
<1>5. \A b \in Arena : IsList(chunks'[b])
  BY <1>1, <1>3
<1> QED BY <1>3, <1>4, <1>5 DEF OneListChanges, ListsOK

LEMMA InArena ==
  ASSUME IInv, NEW t \in Thread, pc[t] # "idle"
  PROVE  /\ on[t] \in Arena /\ IsList(chunks[on[t]]) /\ Len(chunks[on[t]]) \in Nat
         /\ tag[on[t]] # NoId
<1>1. on[t] \in Arena /\ tag[on[t]] # NoId
  BY DEF IInv, ThreadInv
<1>2. IsList(chunks[on[t]])
  BY <1>1, ListsType DEF IInv, ListsOK
<1> QED BY <1>1, <1>2, ListParts

LEMMA ReserveEffect ==
  ASSUME IInv, NEW t \in Thread, Reserve(t),
         NEW a, a = on[t], NEW h, h = head[t], NEW q, q = chunks[a]
  PROVE  /\ a \in Arena /\ h \in 1..Len(q) /\ OneListChanges(a)
         /\ Len(chunks'[a]) = Len(q)
         /\ \A i \in 1..Len(q) :
              /\ Cap(chunks'[a], i) = Cap(q, i)
              /\ Size(chunks'[a], i) = IF i = h THEN Size(q, i) + 1 ELSE Size(q, i)
              /\ \A j \in 1..Cap(q, i) : /\ IdOf(chunks'[a], i, j) = IdOf(q, i, j)
                                         /\ SerOf(chunks'[a], i, j) = SerOf(q, i, j)
<1>1. a \in Arena /\ IsList(q) /\ h \in 1..Len(q)
  BY InArena DEF Reserve, IInv, SlotInv, SlotOK
<1>2. Size(q, h) + 1 \in Nat \ {0}
  BY <1>1, ListParts
<1>3. PICK r : r = WithSize(q, h, Size(q, h) + 1)
  OBVIOUS
<1>4. chunks' = [chunks EXCEPT ![a] = r]
  BY <1>3 DEF Reserve, WithSize, Size
<1>5. /\ IsList(r) /\ Len(r) = Len(q)
      /\ \A i \in 1..Len(q) :
           /\ Cap(r, i) = Cap(q, i)
           /\ Size(r, i) = IF i = h THEN Size(q, h) + 1 ELSE Size(q, i)
           /\ \A j \in 1..Cap(q, i) : /\ IdOf(r, i, j) = IdOf(q, i, j)
                                      /\ SerOf(r, i, j) = SerOf(q, i, j)
  BY <1>1, <1>2, <1>3, SizeStored
<1>6. OneListChanges(a) /\ chunks'[a] = r
  BY <1>1, <1>4, <1>5, OneListStored DEF IInv
<1> QED BY <1>1, <1>5, <1>6

LEMMA WriteBackEffect ==
  ASSUME IInv, NEW t \in Thread, WriteBack(t),
         NEW a, a = on[t], NEW h, h = head[t], NEW q, q = chunks[a]
  PROVE  /\ a \in Arena /\ h \in 1..Len(q) /\ OneListChanges(a)
         /\ Len(chunks'[a]) = Len(q)
         /\ \A i \in 1..Len(q) :
              /\ Cap(chunks'[a], i) = Cap(q, i)
              /\ Size(chunks'[a], i) = IF i = h THEN Cap(q, i) ELSE Size(q, i)
              /\ \A j \in 1..Cap(q, i) : /\ IdOf(chunks'[a], i, j) = IdOf(q, i, j)
                                         /\ SerOf(chunks'[a], i, j) = SerOf(q, i, j)
<1>1. a \in Arena /\ IsList(q) /\ h \in 1..Len(q)
  BY InArena DEF WriteBack, IInv, SlotInv, SlotOK
<1>2. Cap(q, h) \in Nat \ {0}
  BY <1>1, ListParts
<1>3. PICK r : r = WithSize(q, h, Cap(q, h))
  OBVIOUS
<1>4. chunks' = [chunks EXCEPT ![a] = r]
  BY <1>3 DEF WriteBack, WithSize, Cap, capacity
<1>5. /\ IsList(r) /\ Len(r) = Len(q)
      /\ \A i \in 1..Len(q) :
           /\ Cap(r, i) = Cap(q, i)
           /\ Size(r, i) = IF i = h THEN Cap(q, h) ELSE Size(q, i)
           /\ \A j \in 1..Cap(q, i) : /\ IdOf(r, i, j) = IdOf(q, i, j)
                                      /\ SerOf(r, i, j) = SerOf(q, i, j)
  BY <1>1, <1>2, <1>3, SizeStored
<1>6. OneListChanges(a) /\ chunks'[a] = r
  BY <1>1, <1>4, <1>5, OneListStored DEF IInv
<1> QED BY <1>1, <1>5, <1>6

LEMMA StoreIdEffect ==
  ASSUME IInv, NEW t \in Thread, StoreId(t),
         NEW a, a = on[t], NEW h, h = head[t], NEW q, q = chunks[a]
  PROVE  /\ a \in Arena /\ h \in 1..Len(q) /\ slot[t] \in 1..Cap(q, h)
         /\ OneListChanges(a) /\ Len(chunks'[a]) = Len(q)
         /\ \A i \in 1..Len(q) :
              /\ Cap(chunks'[a], i) = Cap(q, i) /\ Size(chunks'[a], i) = Size(q, i)
              /\ \A j \in 1..Cap(q, i) :
                   /\ IdOf(chunks'[a], i, j) =
                        IF i = h /\ j = slot[t] THEN t ELSE IdOf(q, i, j)
                   /\ SerOf(chunks'[a], i, j) = SerOf(q, i, j)
<1>1. a \in Arena /\ IsList(q) /\ h \in 1..Len(q) /\ slot[t] \in 1..Cap(q, h)
  BY InArena DEF StoreId, IInv, SlotInv, SlotOK
<1>2. PICK r : r = WithId(q, h, slot[t], t)
  OBVIOUS
<1>3. chunks' = [chunks EXCEPT ![a] = r]
  BY <1>2 DEF StoreId, WithId
<1>4. /\ IsList(r) /\ Len(r) = Len(q)
      /\ \A i \in 1..Len(q) :
           /\ Cap(r, i) = Cap(q, i) /\ Size(r, i) = Size(q, i)
           /\ \A j \in 1..Cap(q, i) :
                /\ IdOf(r, i, j) = IF i = h /\ j = slot[t] THEN t ELSE IdOf(q, i, j)
                /\ SerOf(r, i, j) = SerOf(q, i, j)
  BY <1>1, <1>2, IdStored
<1>5. OneListChanges(a) /\ chunks'[a] = r
  BY <1>1, <1>3, <1>4, OneListStored DEF IInv
<1> QED BY <1>1, <1>4, <1>5

LEMMA StoreSerialEffect ==
  ASSUME IInv, NEW t \in Thread, StoreSerial(t),
         NEW a, a = on[t], NEW h, h = head[t], NEW q, q = chunks[a]
  PROVE  /\ a \in Arena /\ h \in 1..Len(q) /\ slot[t] \in 1..Cap(q, h)
         /\ OneListChanges(a) /\ Len(chunks'[a]) = Len(q)
         /\ \A i \in 1..Len(q) :
              /\ Cap(chunks'[a], i) = Cap(q, i) /\ Size(chunks'[a], i) = Size(q, i)
              /\ \A j \in 1..Cap(q, i) :
                   /\ SerOf(chunks'[a], i, j) =
                        IF i = h /\ j = slot[t] THEN mine[t] ELSE SerOf(q, i, j)
                   /\ IdOf(chunks'[a], i, j) = IdOf(q, i, j)
<1>1. a \in Arena /\ IsList(q) /\ h \in 1..Len(q) /\ slot[t] \in 1..Cap(q, h)
  BY InArena DEF StoreSerial, IInv, SlotInv, SlotOK
<1>2. mine[t] \in Serial
  BY DEF StoreSerial, IInv, ThreadInv, Adding
<1>3. PICK r : r = WithSerial(q, h, slot[t], mine[t])
  OBVIOUS
<1>4. chunks' = [chunks EXCEPT ![a] = r]
  BY <1>3 DEF StoreSerial, WithSerial
<1>5. /\ IsList(r) /\ Len(r) = Len(q)
      /\ \A i \in 1..Len(q) :
           /\ Cap(r, i) = Cap(q, i) /\ Size(r, i) = Size(q, i)
           /\ \A j \in 1..Cap(q, i) :
                /\ SerOf(r, i, j) =
                     IF i = h /\ j = slot[t] THEN mine[t] ELSE SerOf(q, i, j)
                /\ IdOf(r, i, j) = IdOf(q, i, j)
  BY <1>1, <1>2, <1>3, SerialStored
<1>6. OneListChanges(a) /\ chunks'[a] = r
  BY <1>1, <1>4, <1>5, OneListStored DEF IInv
<1> QED BY <1>1, <1>5, <1>6

LEMMA GrowEffect ==
  ASSUME IInv, NEW t \in Thread, Grow(t),
         NEW a, a = on[t], NEW q, q = chunks[a]
  PROVE  /\ a \in Arena /\ mutex[a] = t /\ OneListChanges(a)
         /\ mine[t] \in Serial /\ HasNewChunk(chunks'[a], q, t, mine[t])
<1>p. PICK prev : prev = IF head[t] = 0 THEN 0 ELSE capacity(q[head[t]])
  OBVIOUS
<1>1. pc[t] = "grow" /\ chunks' = [chunks EXCEPT ![a] =
        Append(SubSeq(q, 1, head[t]), NewSerialArenaChunk(prev, t, mine[t]))]
  BY <1>p DEF Grow
<1>2. a \in Arena /\ IsList(q) /\ Len(q) \in Nat
  BY <1>1, InArena
<1>3. mutex[a] = t /\ head[t] = Len(q)
  <2>1. mutex[a] = t
    BY <1>1 DEF IInv, MutexInv
  <2>2. a \in Arena /\ mutex[a] # NoThread /\ pc[mutex[a]] = "grow"
    BY <1>1, <1>2, <2>1
  <2>3. head[mutex[a]] = Len(chunks[a])
    BY <2>2 DEF IInv, MutexInv
  <2> QED BY <2>1, <2>3
<1>4. PICK s \in Serial : s = mine[t]
  BY <1>1 DEF IInv, ThreadInv, Adding
<1>5. prev \in 0..kMaxBytes
  <2>1. CASE head[t] = 0
    BY <1>p, <2>1, MaxBytesNat
  <2>2. CASE head[t] # 0
    <3>1. head[t] \in 1..Len(q)
      BY <1>2, <1>3, <2>2
    <3>2. Cap(q, head[t]) \in 1..kMaxBytes
      BY <1>2, <3>1, ListParts
    <3> QED BY <1>p, <2>2, <3>2, MaxBytesNat DEF Cap, capacity
  <2> QED BY <2>1, <2>2
<1>6. SubSeq(q, 1, head[t]) = q
  BY <1>2, <1>3, SubSeqFull DEF IsList
<1>7. PICK r : r = Append(q, NewSerialArenaChunk(prev, t, s))
  OBVIOUS
<1>8. chunks' = [chunks EXCEPT ![a] = r]
  BY <1>1, <1>4, <1>6, <1>7
<1>9. IsList(r) /\ HasNewChunk(r, q, t, s)
  <2>1. HasNewChunk(r, q, t, s)
    BY <1>2, <1>5, <1>7, ChunkAppended
  <2> QED BY <2>1 DEF HasNewChunk
<1>10. OneListChanges(a) /\ chunks'[a] = r
  BY <1>2, <1>8, <1>9, OneListStored DEF IInv
<1> QED BY <1>2, <1>3, <1>4, <1>9, <1>10

-------------------------------------------------------------------------------
(* Type correctness. *)

LEMMA NewIdType ==
  ASSUME TypeOK, NEW t \in Thread
  PROVE  GetNextLifeCycleId(t) \in Id /\ Successor(GetNextLifeCycleId(t)) \in Id
<1>1. GetNextLifeCycleId(t) \in Id
  BY BatchOK DEF TypeOK, GetNextLifeCycleId, Id
<1>2. ASSUME NEW id \in Id PROVE Successor(id) \in Id
  BY BatchOK DEF Successor, Id
<1> QED BY <1>1, <1>2

\* The types of everything but the lists, which have lemmas of their own.
OtherTypes ==
  /\ lifecycleId \in Nat
  /\ tag \in [Arena -> Id \cup {NoId}]
  /\ firstOwner \in [Arena -> Thread \cup {NoThread}]
  /\ mutex \in [Arena -> Thread \cup {NoThread}]
  /\ parent \in [Serial -> Arena \cup {NoArena}]
  /\ nextId \in [Thread -> Id]
  /\ seenId \in [Thread -> Id \cup {NoId}]
  /\ lastSerial \in [Thread -> Arena \cup Serial \cup {NoSerial}]
  /\ pc \in [Thread -> {"idle", "using", "add", "reserve", "full", "id",
                        "serial", "lock", "refetch", "grow", "done", "walk",
                        "slots"}]
  /\ on \in [Thread -> Arena \cup {NoArena}]
  /\ mine \in [Thread -> Serial \cup {NoSerial}]
  /\ head \in [Thread -> Nat] /\ slot \in [Thread -> Nat]
  /\ limit \in [Thread -> Nat]
  /\ got \in [Thread -> Arena \cup Serial \cup {NoSerial}]
  /\ visited \in [Thread -> SUBSET (Arena \cup Serial)]
  /\ owed \in [Thread -> SUBSET Serial]

LEMMA TypeParts == TypeOK <=> ListsOK /\ OtherTypes
BY DEF TypeOK, ListsOK, OtherTypes, IsList, Cap, capacity

LEMMA TypePartsNext == TypeOK' <=> ListsOK' /\ OtherTypes'
BY DEF TypeOK, ListsOK, OtherTypes, IsList, Cap, capacity

LEMMA EmptyList == IsList(<<>>) /\ <<>> \in Seq(Chunk)
BY DEF IsList

\* An arena's list becomes empty.
LEMMA ListCleared ==
  ASSUME TypeOK, NEW a \in Arena, chunks' = [chunks EXCEPT ![a] = <<>>]
  PROVE  OneListChanges(a) /\ chunks'[a] = <<>>
<1>1. PICK r : r = <<>>
  OBVIOUS
<1>2. IsList(r) /\ chunks' = [chunks EXCEPT ![a] = r]
  BY <1>1, EmptyList
<1> QED BY <1>1, <1>2, OneListStored

\* The places of the entries that are in use.
LEMMA EntriesAre ==
  ASSUME TypeOK, NEW a \in Arena
  PROVE  Entries(a) =
           {e \in (1..Len(chunks[a])) \X Nat :
              e[2] \in 1..Cap(chunks[a], e[1]) /\ e[2] <= Size(chunks[a], e[1])}
<1>1. IsList(chunks[a])
  BY ListsType DEF ListsOK
<1>2. ASSUME NEW i \in 1..Len(chunks[a]), NEW j \in Nat
      PROVE  j \in 1..kMaxBytes /\ j <= safe_size(chunks[a][i]) <=>
               j \in 1..Cap(chunks[a], i) /\ j <= Size(chunks[a], i)
  <2>1. Cap(chunks[a], i) \in 1..kMaxBytes /\ Size(chunks[a], i) \in Nat
    BY <1>1, ListParts
  <2> QED BY <2>1, MaxBytesNat DEF safe_size, Least, capacity, Cap, Size
<1> QED BY <1>2, MaxBytesNat DEF Entries

LEMMA ListedAre ==
  ASSUME TypeOK, NEW a \in Arena
  PROVE  /\ Listed(a) \in SUBSET Serial
         /\ \A s \in Listed(a) : \E i \in 1..Len(chunks[a]) :
              \E j \in 1..Cap(chunks[a], i) : SerOf(chunks[a], i, j) = s /\ s # NoSerial
<1>1. IsList(chunks[a])
  BY ListsType DEF ListsOK
<1>2. ASSUME NEW s \in Listed(a)
      PROVE  \E i \in 1..Len(chunks[a]) : \E j \in 1..Cap(chunks[a], i) :
               SerOf(chunks[a], i, j) = s /\ s # NoSerial
  BY EntriesAre DEF Listed, SerialAt, SerOf
<1>3. \A s \in Listed(a) : s \in Serial
  BY <1>1, <1>2, ListParts
<1> QED BY <1>2, <1>3

LEMMA TypeInit == Init => TypeOK
<1> SUFFICES ASSUME Init PROVE TypeOK
  OBVIOUS
<1>1. ListsOK
  BY EmptyList DEF Init, ListsOK
<1>2. OtherTypes
  BY BatchOK DEF Init, OtherTypes, Id
<1> QED BY <1>1, <1>2, TypeParts

LEMMA TypeStep ==
  ASSUME IInv, [Next]_vars
  PROVE  TypeOK'
<1>0. TypeOK /\ ListsOK /\ OtherTypes
  BY TypeParts DEF IInv
<1> SUFFICES ListsOK' /\ OtherTypes'
  BY TypePartsNext
<1> USE DEF OtherTypes, globals, caches, walk
<1>1. ASSUME chunks' = chunks PROVE ListsOK'
  BY <1>0, <1>1 DEF ListsOK
<1>2. ASSUME NEW t \in Thread, NEW a \in Arena, InitArena(t, a),
             parent' \in [Serial -> Arena \cup {NoArena}],
             UNCHANGED <<mutex, pc, on, mine, head, slot, got, walk>>
      PROVE  ListsOK' /\ OtherTypes'
  <2>1. ListsOK'
    BY <1>0, <1>2, ListCleared DEF InitArena, OneListChanges
  <2>2. OtherTypes'
    BY <1>0, <1>2, NewIdType DEF InitArena
  <2> QED BY <2>1, <2>2
<1>3. \A a \in Arena : Freed(a) \in [Serial -> Arena \cup {NoArena}]
  BY <1>0 DEF Freed
<1>4. ASSUME NEW t \in Managers, NEW a \in Arena, Create(t, a)
      PROVE  ListsOK' /\ OtherTypes'
  BY <1>0, <1>2, <1>4, RolesOK DEF Create
<1>5. ASSUME NEW t \in Managers, NEW a \in Arena, Reset(t, a)
      PROVE  ListsOK' /\ OtherTypes'
  BY <1>2, <1>3, <1>5, RolesOK DEF Reset
<1>6. ASSUME NEW t \in Managers, NEW a \in Arena, Destroy(t, a)
      PROVE  ListsOK' /\ OtherTypes'
  <2>1. ListsOK'
    BY <1>0, <1>6, ListCleared DEF Destroy, OneListChanges
  <2>2. OtherTypes'
    BY <1>0, <1>3, <1>6 DEF Destroy
  <2> QED BY <2>1, <2>2
<1>7. ASSUME NEW t \in Thread, NEW a \in Arena, GetSerialArenaFast(t, a)
      PROVE  ListsOK' /\ OtherTypes'
  BY <1>0, <1>1, <1>7 DEF GetSerialArenaFast, AllocateFrom
<1>8. ASSUME NEW t \in Thread, NEW a \in Arena, GetFirstArena(t, a)
      PROVE  ListsOK' /\ OtherTypes'
  BY <1>0, <1>1, <1>8 DEF GetFirstArena, AllocateFrom, CacheSerialArena
<1>9. ASSUME NEW t \in Thread, NEW a \in Arena, GetListedArena(t, a)
      PROVE  ListsOK' /\ OtherTypes'
  <2>1. PICK e \in Own(a, t) : /\ CacheSerialArena(t, a, SerialAt(a, e))
                               /\ AllocateFrom(t, a, SerialAt(a, e))
    BY <1>9 DEF GetListedArena
  <2>2. SerialAt(a, e) \in Serial \cup {NoSerial}
    <3>1. e[1] \in 1..Len(chunks[a]) /\ e[2] \in 1..Cap(chunks[a], e[1])
      BY <1>0, EntriesAre DEF Own
    <3> QED BY <1>0, <3>1, ListParts DEF SerialAt, SerOf, ListsOK
  <2> QED BY <1>0, <1>1, <1>9, <2>1, <2>2 DEF GetListedArena, AllocateFrom, CacheSerialArena
<1>10. ASSUME NEW t \in Thread, NEW a \in Arena, NewSerialArena(t, a)
       PROVE  ListsOK' /\ OtherTypes'
  BY <1>0, <1>1, <1>10 DEF NewSerialArena
<1>11. ASSUME NEW t \in Walkers, NEW a \in Arena, SpaceAllocated(t, a)
       PROVE  ListsOK' /\ OtherTypes'
  <2>1. t \in Thread /\ Len(chunks[a]) \in Nat /\ Listed(a) \in SUBSET Serial
    BY <1>0, RolesOK, ListedAre, ListParts DEF ListsOK
  <2> QED BY <1>0, <1>1, <1>11, <2>1 DEF SpaceAllocated, Goto
<1>12. ASSUME NEW t \in Thread, LoadHead(t)
       PROVE  ListsOK' /\ OtherTypes'
  BY <1>0, <1>1, <1>12, InArena DEF LoadHead, Goto
<1>13. ASSUME NEW t \in Thread, Reserve(t)
       PROVE  ListsOK' /\ OtherTypes'
  <2>1. ListsOK' /\ on[t] \in Arena /\ head[t] \in 1..Len(chunks[on[t]])
    BY <1>13, ReserveEffect DEF OneListChanges
  <2>2. Size(chunks[on[t]], head[t]) \in Nat
    BY <1>0, <2>1, ListParts DEF ListsOK
  <2> QED BY <1>0, <1>13, <2>1, <2>2 DEF Reserve, Goto, Size
<1>14. ASSUME NEW t \in Thread, WriteBack(t)
       PROVE  ListsOK' /\ OtherTypes'
  BY <1>0, <1>14, WriteBackEffect DEF WriteBack, Goto, OneListChanges
<1>15. ASSUME NEW t \in Thread, StoreId(t)
       PROVE  ListsOK' /\ OtherTypes'
  BY <1>0, <1>15, StoreIdEffect DEF StoreId, Goto, OneListChanges
<1>16. ASSUME NEW t \in Thread, StoreSerial(t)
       PROVE  ListsOK' /\ OtherTypes'
  BY <1>0, <1>16, StoreSerialEffect DEF StoreSerial, Goto, OneListChanges
<1>17. ASSUME NEW t \in Thread, Lock(t)
       PROVE  ListsOK' /\ OtherTypes'
  BY <1>0, <1>1, <1>17 DEF Lock, Goto
<1>18. ASSUME NEW t \in Thread, Refetch(t)
       PROVE  ListsOK' /\ OtherTypes'
  BY <1>0, <1>1, <1>18, InArena DEF Refetch, Goto
<1>19. ASSUME NEW t \in Thread, Grow(t)
       PROVE  ListsOK' /\ OtherTypes'
  BY <1>0, <1>19, GrowEffect DEF Grow, Goto, OneListChanges
<1>20. ASSUME NEW t \in Thread, FinishAdd(t)
       PROVE  ListsOK' /\ OtherTypes'
  BY <1>0, <1>1, <1>20, InArena DEF FinishAdd, AllocateFrom, CacheSerialArena
<1>21. ASSUME NEW t \in Thread, Leave(t)
       PROVE  ListsOK' /\ OtherTypes'
  BY <1>0, <1>1, <1>21 DEF Leave, Goto
<1>22. ASSUME NEW t \in Thread, WalkChunk(t)
       PROVE  ListsOK' /\ OtherTypes'
  <2>1. on[t] \in Arena /\ head[t] \in 1..Len(chunks[on[t]])
    BY <1>0, <1>22, InArena DEF WalkChunk, IInv, WalkInv, StandsIn
  <2>2. safe_size(chunks[on[t]][head[t]]) \in Nat
    BY <1>0, <2>1, ListParts DEF ListsOK, safe_size, Least, capacity, Cap, Size
  <2> QED BY <1>0, <1>1, <1>22, <2>2 DEF WalkChunk, Goto
<1>23. ASSUME NEW t \in Thread, WalkSlot(t)
       PROVE  ListsOK' /\ OtherTypes'
  <2>1. /\ on[t] \in Arena /\ head[t] \in 1..Len(chunks[on[t]]) /\ slot[t] # 0
        /\ limit[t] <= Cap(chunks[on[t]], head[t])
    BY <1>0, <1>23, InArena DEF WalkSlot, IInv, WalkInv, StandsIn
  <2>2. slot[t] <= limit[t] =>
          CountedIfSet(chunks[on[t]][head[t]].serials[slot[t]]) \subseteq Serial
    BY <1>0, <2>1, ListParts DEF ListsOK, CountedIfSet, SerOf
  <2>3. head[t] - 1 \in Nat
    BY <2>1
  <2> QED BY <1>0, <1>1, <1>23, <2>2, <2>3 DEF WalkSlot, Goto
<1>24. ASSUME NEW t \in Thread, WalkEnd(t)
       PROVE  ListsOK' /\ OtherTypes'
  BY <1>0, <1>1, <1>24 DEF WalkEnd, Goto
<1>25. ASSUME NEW t \in Thread, ThreadExit(t)
       PROVE  ListsOK' /\ OtherTypes'
  BY <1>0, <1>1, <1>25, BatchOK DEF ThreadExit, Id
<1>26. CASE UNCHANGED vars
  BY <1>0, <1>1, <1>26 DEF vars
<1> HIDE DEF OtherTypes
<1> QED
  BY <1>4, <1>5, <1>6, <1>7, <1>8, <1>9, <1>10, <1>11, <1>12, <1>13, <1>14, <1>15,
     <1>16, <1>17, <1>18, <1>19, <1>20, <1>21, <1>22, <1>23, <1>24, <1>25, <1>26
  DEF Next, GetSerialArena, Step

-------------------------------------------------------------------------------
(* Lifecycle ids. *)

\* The id that a thread will give next is not one that was given.
LEMMA NextIdNotGiven ==
  ASSUME TypeOK, IdInv, NEW t \in Thread, NEW id, id = GetNextLifeCycleId(t)
  PROVE  ~GivenBefore(id)
<1>1. CASE nextId[t].offset = 0
  <2>1. id.batch = lifecycleId /\ lifecycleId \in Nat
    BY <1>1 DEF GetNextLifeCycleId, ReservesBatch, TypeOK
  <2> QED BY <2>1 DEF GivenBefore
<1>2. CASE nextId[t].offset # 0
  <2>1. id = nextId[t] /\ nextId[t].offset \in Nat
    BY <1>2, BatchOK DEF GetNextLifeCycleId, ReservesBatch, TypeOK, Id
  <2> QED BY <1>2, <2>1 DEF GivenBefore
<1> QED BY <1>1, <1>2

LEMMA FreshId ==
  ASSUME TypeOK, IdInv, NEW t \in Thread, NEW id, id = GetNextLifeCycleId(t)
  PROVE  /\ id \in Id /\ id # NoId
         /\ \A a \in Arena : tag[a] # id
         /\ \A u \in Thread : seenId[u] # id
<1>1. id \in Id /\ id # NoId
  BY NewIdType, NoIdApart
<1> QED BY <1>1, NextIdNotGiven DEF IdInv

\* Ids that were given before another is given still were; so was that one.
LEMMA GivenStays ==
  ASSUME TypeOK, IdInv, NEW t \in Thread, NEW a \in Arena, InitArena(t, a),
         NEW g, g = GetNextLifeCycleId(t)
  PROVE  /\ \A id \in Id : GivenBefore(id) => GivenBefore(id)'
         /\ GivenBefore(g)'
         /\ \A u \in Thread : nextId'[u].offset # 0 => nextId'[u].batch < lifecycleId'
         /\ \A u, v \in Thread :
              u # v /\ nextId'[u].offset # 0 /\ nextId'[v].offset # 0 =>
                nextId'[u].batch # nextId'[v].batch
<1>n. PICK n : n = Successor(g)
  OBVIOUS
<1>1. /\ lifecycleId \in Nat /\ kPerThreadIds \in Nat
      /\ \A u \in Thread : nextId[u].batch \in Nat /\ nextId[u].offset \in Nat
      /\ \A id \in Id : id.batch \in Nat /\ id.offset \in Nat
  BY BatchOK DEF TypeOK, Id
<1>2. n \in Id /\ g \in Id
  BY <1>n, NewIdType
<1>3. nextId'[t] = n /\ \A u \in Thread : u # t => nextId'[u] = nextId[u]
  BY <1>n DEF TypeOK, InitArena
<1>4. CASE nextId[t].offset = 0
  <2>1. g.batch = lifecycleId /\ g.offset = 0 /\ lifecycleId' = lifecycleId + 1
    BY <1>4 DEF GetNextLifeCycleId, ReservesBatch, InitArena
  <2>2. n.offset # 0 => n.batch = lifecycleId /\ n.offset = 1
    BY <1>n, <1>1, <1>2, <2>1 DEF Successor, Id
  <2>3. \A id \in Id : GivenBefore(id) => GivenBefore(id)'
    BY <1>1, <1>2, <1>3, <2>1, <2>2 DEF GivenBefore
  <2>4. GivenBefore(g)'
    BY <1>1, <1>2, <1>3, <2>1, <2>2 DEF GivenBefore, IdInv
  <2>5. \A u \in Thread : nextId'[u].offset # 0 => nextId'[u].batch < lifecycleId'
    BY <1>1, <1>2, <1>3, <2>1, <2>2 DEF IdInv
  <2>6. \A u, v \in Thread :
          u # v /\ nextId'[u].offset # 0 /\ nextId'[v].offset # 0 =>
            nextId'[u].batch # nextId'[v].batch
    BY <1>1, <1>2, <1>3, <2>1, <2>2 DEF IdInv
  <2> QED BY <2>3, <2>4, <2>5, <2>6
<1>5. CASE nextId[t].offset # 0
  <2>1. g = nextId[t] /\ lifecycleId' = lifecycleId
    BY <1>5 DEF GetNextLifeCycleId, ReservesBatch, InitArena
  <2>2. n.offset # 0 => n.batch = g.batch /\ n.offset = g.offset + 1
    BY <1>n, <1>1, <1>2, <2>1 DEF Successor, Id
  <2>3. \A id \in Id : GivenBefore(id) => GivenBefore(id)'
    BY <1>1, <1>2, <1>3, <1>5, <2>1, <2>2 DEF GivenBefore
  <2>4. GivenBefore(g)'
    BY <1>1, <1>2, <1>3, <1>5, <2>1, <2>2 DEF GivenBefore, IdInv
  <2>5. \A u \in Thread : nextId'[u].offset # 0 => nextId'[u].batch < lifecycleId'
    BY <1>1, <1>2, <1>3, <1>5, <2>1, <2>2 DEF IdInv
  <2>6. \A u, v \in Thread :
          u # v /\ nextId'[u].offset # 0 /\ nextId'[v].offset # 0 =>
            nextId'[u].batch # nextId'[v].batch
    BY <1>1, <1>2, <1>3, <1>5, <2>1, <2>2 DEF IdInv
  <2> QED BY <2>3, <2>4, <2>5, <2>6
<1> QED BY <1>4, <1>5

LEMMA IdsAfterInit ==
  ASSUME TypeOK, IdInv, NEW t \in Thread, NEW a \in Arena, InitArena(t, a)
  PROVE  IdInv'
<1>1. PICK g : g = GetNextLifeCycleId(t)
  OBVIOUS
<1>2. /\ \A b \in Arena : tag'[b] = IF b = a THEN g ELSE tag[b]
      /\ \A u \in Thread : seenId'[u] = IF u = t THEN g ELSE seenId[u]
  BY <1>1 DEF InitArena, TypeOK
<1>3. /\ g \in Id /\ g # NoId
      /\ \A b \in Arena : tag[b] # g
  BY <1>1, FreshId
<1>4. /\ \A id \in Id : GivenBefore(id) => GivenBefore(id)'
      /\ GivenBefore(g)'
      /\ \A u \in Thread : nextId'[u].offset # 0 => nextId'[u].batch < lifecycleId'
      /\ \A u, v \in Thread :
           u # v /\ nextId'[u].offset # 0 /\ nextId'[v].offset # 0 =>
             nextId'[u].batch # nextId'[v].batch
  BY <1>1, GivenStays
<1>5. ASSUME NEW b \in Arena, tag'[b] # NoId
      PROVE  GivenBefore(tag[b])'
  <2>1. CASE b = a
    BY <1>2, <1>4, <2>1 DEF GivenBefore
  <2>2. CASE b # a
    <3>1. tag'[b] = tag[b] /\ tag[b] \in Id /\ GivenBefore(tag[b])
      BY <1>2, <1>5, <2>2 DEF TypeOK, IdInv
    <3>2. PICK id \in Id : id = tag[b]
      BY <3>1
    <3> QED BY <1>4, <3>1, <3>2 DEF GivenBefore
  <2> QED BY <2>1, <2>2
<1>6. ASSUME NEW u \in Thread, seenId'[u] # NoId
      PROVE  GivenBefore(seenId[u])'
  <2>1. CASE u = t
    BY <1>2, <1>4, <2>1 DEF GivenBefore
  <2>2. CASE u # t
    <3>1. seenId'[u] = seenId[u] /\ seenId[u] \in Id /\ GivenBefore(seenId[u])
      BY <1>2, <1>6, <2>2 DEF TypeOK, IdInv
    <3>2. PICK id \in Id : id = seenId[u]
      BY <3>1
    <3> QED BY <1>4, <3>1, <3>2 DEF GivenBefore
  <2> QED BY <2>1, <2>2
<1>7. \A b, c \in Arena : tag'[b] # NoId /\ tag'[b] = tag'[c] => b = c
  BY <1>2, <1>3 DEF IdInv
<1> QED BY <1>4, <1>5, <1>6, <1>7 DEF IdInv

\* Every other step leaves the ids, or forgets some, or copies one.
LEMMA IdsWithoutNew ==
  ASSUME TypeOK, IdInv, UNCHANGED <<lifecycleId>>,
         \A u \in Thread : nextId'[u] = nextId[u] \/ nextId'[u].offset = 0,
         \A a \in Arena : tag'[a] = tag[a] \/ tag'[a] = NoId,
         \A u \in Thread : \/ seenId'[u] = seenId[u] \/ seenId'[u] = NoId
                           \/ \E a \in Arena : seenId'[u] = tag[a] /\ tag[a] # NoId
  PROVE  IdInv'
<1>1. ASSUME NEW id, GivenBefore(id) PROVE GivenBefore(id)'
  BY <1>1 DEF GivenBefore
<1>2. ASSUME NEW a \in Arena, tag'[a] # NoId PROVE GivenBefore(tag[a])'
  <2>1. PICK id : id = tag[a]
    OBVIOUS
  <2>2. GivenBefore(id) /\ tag'[a] = id
    BY <1>2, <2>1 DEF IdInv
  <2> QED BY <1>1, <2>2 DEF GivenBefore
<1>3. ASSUME NEW u \in Thread, seenId'[u] # NoId PROVE GivenBefore(seenId[u])'
  <2>1. PICK id : id = seenId'[u]
    OBVIOUS
  <2>2. GivenBefore(id)
    BY <1>3, <2>1 DEF IdInv
  <2> QED BY <1>1, <2>1, <2>2 DEF GivenBefore
<1> QED BY <1>2, <1>3 DEF IdInv

LEMMA IdsInit == Init => IdInv
BY DEF Init, IdInv

LEMMA IdsStep ==
  ASSUME IInv, [Next]_vars
  PROVE  IdInv'
<1>0. TypeOK /\ IdInv
  BY DEF IInv
<1>1. ASSUME UNCHANGED <<lifecycleId, tag, nextId, seenId>> PROVE IdInv'
  BY <1>0, <1>1, IdsWithoutNew
<1>2. ASSUME NEW t \in Thread, NEW a \in Arena, tag[a] # NoId,
             UNCHANGED <<lifecycleId, tag, nextId>>,
             seenId' = [seenId EXCEPT ![t] = tag[a]]
      PROVE  IdInv'
  <2>1. \A u \in Thread : seenId'[u] = seenId[u] \/ seenId'[u] = tag[a]
    BY <1>0, <1>2 DEF TypeOK
  <2> QED BY <1>0, <1>2, <2>1, IdsWithoutNew
<1>3. ASSUME NEW t \in Managers, NEW a \in Arena, Create(t, a) \/ Reset(t, a)
      PROVE  IdInv'
  BY <1>0, <1>3, RolesOK, IdsAfterInit DEF Create, Reset
<1>4. ASSUME NEW t \in Managers, NEW a \in Arena, Destroy(t, a)
      PROVE  IdInv'
  <2>1. \A b \in Arena : tag'[b] = tag[b] \/ tag'[b] = NoId
    BY <1>0, <1>4 DEF Destroy, TypeOK
  <2> QED BY <1>0, <1>4, <2>1, IdsWithoutNew DEF Destroy, caches
<1>5. ASSUME NEW t \in Thread, ThreadExit(t)
      PROVE  IdInv'
  <2>1. \A u \in Thread : /\ nextId'[u] = nextId[u] \/ nextId'[u].offset = 0
                          /\ seenId'[u] = seenId[u] \/ seenId'[u] = NoId
    BY <1>0, <1>5 DEF ThreadExit, TypeOK
  <2> QED BY <1>0, <1>5, <2>1, IdsWithoutNew DEF ThreadExit, globals
<1>6. ASSUME NEW t \in Thread, NEW a \in Arena, GetSerialArena(t, a)
      PROVE  IdInv'
  BY <1>1, <1>2, <1>6
  DEF GetSerialArena, GetSerialArenaFast, GetFirstArena, GetListedArena,
      NewSerialArena, Miss, Live, CacheSerialArena, globals, caches
<1>7. ASSUME NEW t \in Walkers, NEW a \in Arena, SpaceAllocated(t, a)
      PROVE  IdInv'
  BY <1>1, <1>7 DEF SpaceAllocated, globals, caches
<1>8. ASSUME NEW t \in Thread, FinishAdd(t)
      PROVE  IdInv'
  <2>1. on[t] \in Arena /\ tag[on[t]] # NoId
    BY <1>8, InArena DEF FinishAdd
  <2> QED BY <1>2, <1>8, <2>1 DEF FinishAdd, CacheSerialArena, globals
<1>9. ASSUME NEW t \in Thread, Step(t), ~FinishAdd(t)
      PROVE  IdInv'
  BY <1>1, <1>9
  DEF Step, LoadHead, Reserve, WriteBack, StoreId, StoreSerial, Lock, Refetch, Grow,
      Leave, WalkChunk, WalkSlot, WalkEnd, globals, caches
<1>10. CASE UNCHANGED vars
  BY <1>1, <1>10 DEF vars
<1> QED BY <1>3, <1>4, <1>5, <1>6, <1>7, <1>8, <1>9, <1>10 DEF Next

-------------------------------------------------------------------------------
(* Free: it returns exactly the SerialArenas of its arena. *)

LEMMA ListedAreExactly ==
  ASSUME IInv, NEW a \in Arena, NEW s \in Serial
  PROVE  s \in Listed(a) <=>
           \E i \in 1..Len(chunks[a]) : \E j \in 1..Cap(chunks[a], i) :
             SerOf(chunks[a], i, j) = s
<1>0. TypeOK /\ IsList(chunks[a])
  BY ListsType DEF IInv, ListsOK
<1>1. ASSUME s \in Listed(a)
      PROVE  \E i \in 1..Len(chunks[a]) : \E j \in 1..Cap(chunks[a], i) :
               SerOf(chunks[a], i, j) = s
  BY <1>0, <1>1, ListedAre
<1>2. ASSUME NEW i \in 1..Len(chunks[a]), NEW j \in 1..Cap(chunks[a], i),
             SerOf(chunks[a], i, j) = s
      PROVE  s \in Listed(a)
  <2>1. s # NoSerial
    OBVIOUS
  <2>2. IdOf(chunks[a], i, j) # NoThread /\ ~(j > Size(chunks[a], i))
    BY <1>2, <2>1 DEF IInv, ListInv
  <2>3. Size(chunks[a], i) \in Nat /\ j \in Nat
    BY <1>0, ListParts
  <2>4. <<i, j>> \in Entries(a)
    BY <1>0, <2>2, <2>3, EntriesAre
  <2>5. SerialAt(a, <<i, j>>) = s
    BY <1>2 DEF SerialAt, SerOf
  <2> QED BY <2>1, <2>4, <2>5 DEF Listed
<1> QED BY <1>1, <1>2

LEMMA FreedAre ==
  ASSUME IInv, NEW a \in Arena, Quiet(a), NEW s \in Serial
  PROVE  Freed(a)[s] = IF parent[s] = a THEN NoArena ELSE parent[s]
<1>1. ASSUME s \in Listed(a) PROVE parent[s] = a
  <2>1. PICK i \in 1..Len(chunks[a]) : \E j \in 1..Cap(chunks[a], i) :
          SerOf(chunks[a], i, j) = s
    BY <1>1, ListedAreExactly
  <2> QED BY <2>1 DEF IInv, ListInv
<1>2. ASSUME parent[s] = a PROVE s \in Listed(a)
  <2>1. \A t \in Thread : on[t] # a
    BY DEF Quiet
  <2>2. \E i \in 1..Len(chunks[a]) : \E j \in 1..Cap(chunks[a], i) :
          SerOf(chunks[a], i, j) = s
    BY <1>2, <2>1 DEF IInv, ParentInv, Unplaced
  <2> QED BY <2>2, ListedAreExactly
<1> QED BY <1>1, <1>2 DEF Freed

-------------------------------------------------------------------------------
(* The invariant is preserved: what a thread in an arena relies on. *)

\* Create, Reset and Destroy, as far as threads and lists see them.  Only a
\* quiet arena a changes: its list is emptied and its SerialArenas are freed.
Renewed(t, a) ==
  /\ t \in Thread /\ a \in Arena /\ pc[t] = "idle" /\ Quiet(a)
  /\ \A b \in Arena : chunks'[b] = IF b = a THEN <<>> ELSE chunks[b]
  /\ \A b \in Arena : b # a => tag'[b] = tag[b] /\ firstOwner'[b] = firstOwner[b]
  /\ \/ tag'[a] = NoId /\ firstOwner'[a] = NoThread /\ UNCHANGED <<seenId, lastSerial>>
     \/ /\ tag'[a] # NoId /\ firstOwner'[a] = t
        /\ \A b \in Arena : b # a => tag'[b] # tag'[a]
        /\ \A u \in Thread : /\ u # t => seenId'[u] = seenId[u] /\ seenId'[u] # tag'[a]
                             /\ u # t => lastSerial'[u] = lastSerial[u]
        /\ seenId'[t] = tag'[a] /\ lastSerial'[t] = a
  /\ \A s \in Serial : parent'[s] = IF parent[s] = a THEN NoArena ELSE parent[s]
  /\ UNCHANGED <<mutex, pc, on, mine, head, slot, got, limit, visited, owed>>

LEMMA DeadIsQuiet ==
  ASSUME IInv, NEW a \in Arena, tag[a] = NoId
  PROVE  Quiet(a) /\ chunks[a] = <<>> /\ \A s \in Serial : parent[s] # a
<1>1. chunks[a] = <<>>
  BY DEF IInv, ThreadInv
<1>2. Quiet(a)
  <2> SUFFICES ASSUME NEW t \in Thread, on[t] = a PROVE FALSE
    BY DEF Quiet
  <2> QED BY DEF IInv, ThreadInv
<1>3. ASSUME NEW s \in Serial, parent[s] = a PROVE FALSE
  <2>1. ~ \E t \in Thread : mine[t] = s /\ on[t] = parent[s]
    BY <1>2, <1>3 DEF Quiet
  <2>2. 1..Len(chunks[a]) = {}
    BY <1>1
  <2> QED BY <1>3, <2>1, <2>2 DEF IInv, ParentInv, Unplaced
<1> QED BY <1>1, <1>2, <1>3

LEMMA InitArenaRenews ==
  ASSUME IInv, NEW t \in Thread, NEW a \in Arena, InitArena(t, a), pc[t] = "idle",
         Quiet(a), UNCHANGED <<mutex, pc, on, mine, head, slot, got, walk>>,
         \A s \in Serial : parent'[s] = IF parent[s] = a THEN NoArena ELSE parent[s]
  PROVE  Renewed(t, a)
<1>0. TypeOK /\ IdInv
  BY DEF IInv
<1>1. PICK g : g = GetNextLifeCycleId(t)
  OBVIOUS
<1>2. /\ g # NoId /\ \A b \in Arena : tag[b] # g
      /\ \A u \in Thread : seenId[u] # g
  BY <1>0, <1>1, FreshId
<1>3. /\ \A b \in Arena : tag'[b] = IF b = a THEN g ELSE tag[b]
      /\ \A b \in Arena : firstOwner'[b] = IF b = a THEN t ELSE firstOwner[b]
      /\ \A u \in Thread : seenId'[u] = IF u = t THEN g ELSE seenId[u]
      /\ \A u \in Thread : lastSerial'[u] = IF u = t THEN a ELSE lastSerial[u]
  BY <1>0, <1>1 DEF InitArena, TypeOK
<1>4. \A b \in Arena : chunks'[b] = IF b = a THEN <<>> ELSE chunks[b]
  BY <1>0 DEF InitArena, TypeOK
<1> QED BY <1>2, <1>3, <1>4 DEF Renewed, walk

LEMMA Renewal ==
  ASSUME IInv, NEW t \in Thread, NEW a \in Arena,
         Create(t, a) \/ Reset(t, a) \/ Destroy(t, a)
  PROVE  Renewed(t, a)
<1>1. CASE Create(t, a)
  <2>1. tag[a] = NoId
    BY <1>1 DEF Create, Live
  <2>2. Quiet(a) /\ \A s \in Serial : parent[s] # a
    BY <2>1, DeadIsQuiet
  <2> QED BY <1>1, <2>2, InitArenaRenews DEF Create
<1>2. CASE Reset(t, a)
  <2>1. \A s \in Serial : parent'[s] = IF parent[s] = a THEN NoArena ELSE parent[s]
    BY <1>2, FreedAre DEF Reset
  <2> QED BY <1>2, <2>1, InitArenaRenews DEF Reset
<1>3. CASE Destroy(t, a)
  <2>1. \A s \in Serial : parent'[s] = IF parent[s] = a THEN NoArena ELSE parent[s]
    BY <1>3, FreedAre DEF Destroy
  <2>2. /\ \A b \in Arena : tag'[b] = IF b = a THEN NoId ELSE tag[b]
        /\ \A b \in Arena : firstOwner'[b] = IF b = a THEN NoThread ELSE firstOwner[b]
        /\ \A b \in Arena : chunks'[b] = IF b = a THEN <<>> ELSE chunks[b]
    BY <1>3 DEF Destroy, TypeOK, IInv
  <2> QED BY <1>3, <2>1, <2>2 DEF Destroy, Renewed, caches, walk
<1> QED BY <1>1, <1>2, <1>3

\* A thread enters arena a and allocates from s, its SerialArena there.
Entered(t, a, s) ==
  /\ t \in Thread /\ a \in Arena /\ pc[t] = "idle" /\ tag[a] # NoId /\ Owned(a, t, s)
  /\ pc' = [pc EXCEPT ![t] = "using"]
  /\ on' = [on EXCEPT ![t] = a]
  /\ got' = [got EXCEPT ![t] = s]
  /\ seenId'[t] = tag[a] /\ lastSerial'[t] = s
  /\ \A u \in Thread : u # t => seenId'[u] = seenId[u] /\ lastSerial'[u] = lastSerial[u]
  /\ UNCHANGED <<tag, firstOwner, chunks, mutex, parent, mine, head, slot, limit,
                 visited, owed>>

LEMMA Entering ==
  ASSUME IInv, NEW t \in Thread, NEW a \in Arena,
         GetSerialArenaFast(t, a) \/ GetFirstArena(t, a) \/ GetListedArena(t, a)
  PROVE  \E s : Entered(t, a, s)
<1>0. TypeOK
  BY DEF IInv
<1>1. CASE GetSerialArenaFast(t, a)
  <2>1. Owned(a, t, lastSerial[t])
    BY <1>1 DEF GetSerialArenaFast, Live, IInv, CacheInv, Owned
  <2>2. Entered(t, a, lastSerial[t])
    BY <1>1, <2>1
    DEF GetSerialArenaFast, Live, AllocateFrom, Entered, globals, caches, walk
  <2> QED BY <2>2
<1>2. CASE GetFirstArena(t, a)
  <2>1. Owned(a, t, a)
    BY <1>2 DEF GetFirstArena, Owned, Owns
  <2>2. Entered(t, a, a)
    BY <1>0, <1>2, <2>1
    DEF TypeOK, GetFirstArena, Miss, Live, AllocateFrom, CacheSerialArena, Entered,
        globals, walk
  <2> QED BY <2>2
<1>3. CASE GetListedArena(t, a)
  <2>1. PICK e \in Own(a, t) : /\ CacheSerialArena(t, a, SerialAt(a, e))
                               /\ AllocateFrom(t, a, SerialAt(a, e))
    BY <1>3 DEF GetListedArena
  <2>2. PICK i, j, s : i = e[1] /\ j = e[2] /\ s = SerialAt(a, e)
    OBVIOUS
  <2>3. /\ i \in 1..Len(chunks[a]) /\ j \in 1..Cap(chunks[a], i)
        /\ IdOf(chunks[a], i, j) = t /\ SerOf(chunks[a], i, j) = s
    BY <1>0, <2>2, EntriesAre DEF Own, IdAt, IdOf, SerialAt, SerOf
  <2>4. pc[t] = "idle"
    BY <1>3 DEF GetListedArena, Miss
  <2>5. s # NoSerial
    BY <2>3, <2>4 DEF IInv, ListInv
  <2>6. Owned(a, t, s)
    BY <1>3, <2>3, <2>5 DEF GetListedArena, Owned, Owns, Placed
  <2>7. Entered(t, a, s)
    BY <1>0, <1>3, <2>1, <2>2, <2>6
    DEF TypeOK, GetListedArena, Miss, Live, AllocateFrom, CacheSerialArena, Entered,
        globals, walk
  <2> QED BY <2>7
<1> QED BY <1>1, <1>2, <1>3

\* A step of one thread leaves the others where they are.
Others(t) ==
  \A u \in Thread : u # t =>
    /\ pc'[u] = pc[u] /\ on'[u] = on[u] /\ mine'[u] = mine[u] /\ got'[u] = got[u]
    /\ head'[u] = head[u] /\ slot'[u] = slot[u] /\ limit'[u] = limit[u]
    /\ visited'[u] = visited[u] /\ owed'[u] = owed[u]
    /\ seenId'[u] = seenId[u] /\ lastSerial'[u] = lastSerial[u]

\* While it adds its SerialArena a thread stays in its arena.
LEMMA AddingFrame ==
  ASSUME TypeOK, NEW t \in Thread,
         \/ LoadHead(t) \/ Reserve(t) \/ WriteBack(t) \/ StoreId(t) \/ StoreSerial(t)
         \/ Lock(t) \/ Refetch(t) \/ Grow(t)
  PROVE  /\ Others(t) /\ pc[t] # "idle" /\ pc[t] \in Adding
         /\ UNCHANGED <<tag, firstOwner, parent, on, mine, got, limit, visited, owed,
                        seenId, lastSerial>>
<1> USE DEF TypeOK, Goto, globals, caches, walk
<1>1. /\ pc[t] \in Adding
      /\ UNCHANGED <<tag, firstOwner, parent, on, mine, got, limit, visited, owed,
                     seenId, lastSerial>>
  BY DEF LoadHead, Reserve, WriteBack, StoreId, StoreSerial, Lock, Refetch, Grow, Adding
<1>2. \A u \in Thread : u # t => pc'[u] = pc[u]
  BY DEF LoadHead, Reserve, WriteBack, StoreId, StoreSerial, Lock, Refetch, Grow
<1>3. \A u \in Thread : u # t => head'[u] = head[u] /\ slot'[u] = slot[u]
  BY DEF LoadHead, Reserve, WriteBack, StoreId, StoreSerial, Lock, Refetch, Grow
<1> QED BY <1>1, <1>2, <1>3 DEF Others, Adding

LEMMA WalkFrame ==
  ASSUME TypeOK, NEW t \in Thread, WalkChunk(t) \/ WalkSlot(t) \/ WalkEnd(t)
  PROVE  /\ Others(t) /\ pc[t] \in {"walk", "slots"}
         /\ UNCHANGED <<tag, firstOwner, chunks, mutex, parent, mine, got,
                        seenId, lastSerial>>
BY DEF TypeOK, Goto, globals, caches, walk, WalkChunk, WalkSlot, WalkEnd, Others

LEMMA ThreadsInit == Init => ThreadInv
BY DEF Init, ThreadInv, Adding

LEMMA ThreadsStep ==
  ASSUME IInv, [Next]_vars
  PROVE  ThreadInv'
<1>0. TypeOK /\ ThreadInv
  BY DEF IInv
<1> USE DEF ThreadInv, Adding, globals, caches, walk
<1>1. ASSUME NEW t \in Managers, NEW a \in Arena,
             Create(t, a) \/ Reset(t, a) \/ Destroy(t, a)
      PROVE  ThreadInv'
  <2>1. Renewed(t, a)
    BY <1>1, RolesOK, Renewal
  <2>2. \A u \in Thread : on[u] # a
    BY <2>1 DEF Renewed, Quiet
  <2>3. UNCHANGED <<pc, on, mine, head, got>>
    BY <2>1 DEF Renewed
  <2>4. ASSUME NEW u \in Thread, pc[u] # "idle"
        PROVE  tag'[on[u]] # NoId
    BY <1>0, <2>1, <2>2, <2>4 DEF Renewed
  <2>5. ASSUME NEW u \in Thread, pc[u] \in Adding
        PROVE  /\ parent'[mine[u]] = on[u]
               /\ seenId'[u] # tag'[on[u]] /\ firstOwner'[on[u]] # u
               /\ pc[u] # "add" => head[u] <= Len(chunks'[on[u]])
    BY <1>0, <2>1, <2>2, <2>5 DEF Renewed
  <2>6. ASSUME NEW b \in Arena, tag'[b] = NoId
        PROVE  chunks'[b] = <<>> /\ firstOwner'[b] = NoThread
    BY <1>0, <2>1, <2>6 DEF Renewed
  <2> QED BY <1>0, <2>3, <2>4, <2>5, <2>6
<1>2. ASSUME NEW t \in Thread, ThreadExit(t)
      PROVE  ThreadInv'
  BY <1>0, <1>2 DEF ThreadExit, TypeOK
<1>3. ASSUME NEW t \in Thread, NEW a \in Arena,
             GetSerialArenaFast(t, a) \/ GetFirstArena(t, a) \/ GetListedArena(t, a)
      PROVE  ThreadInv'
  <2>1. PICK s : Entered(t, a, s)
    BY <1>3, Entering
  <2> QED BY <1>0, <2>1 DEF Entered, TypeOK
<1>4. ASSUME NEW t \in Thread, NEW a \in Arena, NewSerialArena(t, a)
      PROVE  ThreadInv'
  <2>1. PICK s \in Serial : /\ parent[s] = NoArena
                            /\ parent' = [parent EXCEPT ![s] = a]
                            /\ mine' = [mine EXCEPT ![t] = s]
    BY <1>4 DEF NewSerialArena
  <2>2. /\ pc[t] = "idle" /\ tag[a] # NoId /\ seenId[t] # tag[a] /\ firstOwner[a] # t
        /\ UNCHANGED <<tag, firstOwner, chunks, seenId, head, got>>
    BY <1>4 DEF NewSerialArena, Miss, Live
  <2>3. /\ \A u \in Thread : mine'[u] = IF u = t THEN s ELSE mine[u]
        /\ \A u \in Thread : on'[u] = IF u = t THEN a ELSE on[u]
        /\ \A u \in Thread : pc'[u] = IF u = t THEN "add" ELSE pc[u]
        /\ \A r \in Serial : parent'[r] = IF r = s THEN a ELSE parent[r]
    BY <1>0, <1>4, <2>1 DEF NewSerialArena, TypeOK
  <2>4. ASSUME NEW u \in Thread, mine[u] = s PROVE FALSE
    <3>1. pc[u] \in Adding
      BY <1>0, <2>4
    <3>2. on[u] \in Arena /\ parent[s] = on[u]
      BY <1>0, <2>4, <3>1
    <3> QED BY <2>1, <3>2
  <2>5. \A u, v \in Thread : mine'[u] = mine'[v] /\ mine'[u] # NoSerial => u = v
    BY <1>0, <2>3, <2>4
  <2>7. ASSUME NEW u \in Thread
        PROVE  /\ pc'[u] = "idle" => on'[u] = NoArena
               /\ pc'[u] # "idle" => on'[u] \in Arena /\ tag[on'[u]] # NoId
               /\ pc'[u] # "using" => got[u] = NoSerial
               /\ pc'[u] \notin Adding => mine'[u] = NoSerial
    BY <1>0, <2>2, <2>3
  <2>8. ASSUME NEW u \in Thread, pc'[u] \in Adding
        PROVE  /\ mine'[u] \in Serial /\ parent'[mine'[u]] = on'[u]
               /\ seenId[u] # tag[on'[u]] /\ firstOwner[on'[u]] # u
               /\ pc'[u] # "add" => head[u] <= Len(chunks[on'[u]])
    BY <1>0, <2>2, <2>3, <2>4, <2>8
  <2> QED BY <1>0, <2>2, <2>5, <2>7, <2>8
<1>5. ASSUME NEW t \in Walkers, NEW a \in Arena, SpaceAllocated(t, a)
      PROVE  ThreadInv'
  <2>1. /\ pc[t] = "idle" /\ tag[a] # NoId /\ t \in Thread
        /\ UNCHANGED <<tag, firstOwner, chunks, parent, seenId, mine, got>>
        /\ \A u \in Thread : on'[u] = IF u = t THEN a ELSE on[u]
        /\ \A u \in Thread : pc'[u] = IF u = t THEN "walk" ELSE pc[u]
        /\ \A u \in Thread : u # t => head'[u] = head[u]
    BY <1>0, <1>5, RolesOK DEF SpaceAllocated, Goto, Live, TypeOK
  <2> QED BY <1>0, <2>1
<1>6. ASSUME NEW t \in Thread, LoadHead(t)
      PROVE  ThreadInv'
  BY <1>0, <1>6, InArena DEF LoadHead, Goto, TypeOK
<1>7. ASSUME NEW t \in Thread, Reserve(t)
      PROVE  ThreadInv'
  <2>1. /\ \A b \in Arena : Len(chunks'[b]) = Len(chunks[b])
        /\ on[t] \in Arena /\ chunks[on[t]] # <<>>
    BY <1>7, ReserveEffect DEF OneListChanges
  <2>2. /\ pc[t] = "reserve" /\ pc'[t] \in {"id", "full"}
        /\ \A u \in Thread : u # t => pc'[u] = pc[u]
        /\ UNCHANGED <<tag, firstOwner, parent, seenId, on, mine, head, got>>
    BY <1>0, <1>7 DEF Reserve, Goto, TypeOK
  <2>3. \A b \in Arena : b # on[t] => chunks'[b] = chunks[b]
    BY <1>7, ReserveEffect DEF OneListChanges
  <2> QED BY <1>0, <2>1, <2>2, <2>3
<1>8. ASSUME NEW t \in Thread, WriteBack(t)
      PROVE  ThreadInv'
  BY <1>0, <1>8, WriteBackEffect DEF WriteBack, Goto, TypeOK, OneListChanges
<1>9. ASSUME NEW t \in Thread, StoreId(t)
      PROVE  ThreadInv'
  BY <1>0, <1>9, StoreIdEffect DEF StoreId, Goto, TypeOK, OneListChanges
<1>10. ASSUME NEW t \in Thread, StoreSerial(t)
       PROVE  ThreadInv'
  BY <1>0, <1>10, StoreSerialEffect DEF StoreSerial, Goto, TypeOK, OneListChanges
<1>11. ASSUME NEW t \in Thread, Lock(t)
       PROVE  ThreadInv'
  BY <1>0, <1>11 DEF Lock, Goto, TypeOK
<1>12. ASSUME NEW t \in Thread, Refetch(t)
       PROVE  ThreadInv'
  BY <1>0, <1>12, InArena DEF Refetch, Goto, TypeOK
<1>13. ASSUME NEW t \in Thread, Grow(t)
       PROVE  ThreadInv'
  <2>1. /\ on[t] \in Arena
        /\ \A b \in Arena : b # on[t] => chunks'[b] = chunks[b]
        /\ Len(chunks'[on[t]]) = Len(chunks[on[t]]) + 1 /\ Len(chunks[on[t]]) \in Nat
        /\ tag[on[t]] # NoId
    <3>1. /\ on[t] \in Arena /\ OneListChanges(on[t])
          /\ HasNewChunk(chunks'[on[t]], chunks[on[t]], t, mine[t])
      BY <1>13, GrowEffect
    <3>2. tag[on[t]] # NoId /\ Len(chunks[on[t]]) \in Nat
      BY <1>13, InArena DEF Grow
    <3> QED BY <3>1, <3>2 DEF OneListChanges, HasNewChunk
  <2>2. /\ Others(t) /\ pc[t] \in Adding
        /\ UNCHANGED <<tag, firstOwner, parent, on, mine, got, seenId>>
    BY <1>0, <1>13, AddingFrame
  <2>3. pc'[t] = "done" /\ UNCHANGED head
    BY <1>0, <1>13 DEF Grow, Goto, TypeOK
  <2>4. \A u \in Thread : head[u] \in Nat /\ (on[u] \in Arena => Len(chunks[on[u]]) \in Nat)
    BY <1>0, ListsType, ListParts DEF TypeOK, ListsOK
  <2>5. ASSUME NEW u \in Thread, pc'[u] \in Adding, pc'[u] # "add"
        PROVE  head[u] <= Len(chunks'[on[u]])
    <3>1. pc[u] \in Adding /\ pc[u] # "add"
      BY <2>2, <2>5, <1>13 DEF Others, Grow
    <3>2. head[u] <= Len(chunks[on[u]]) /\ on[u] \in Arena
      BY <1>0, <3>1
    <3> QED BY <2>1, <2>4, <3>1, <3>2
  <2>6. \A u \in Thread : (pc'[u] = "idle" <=> pc[u] = "idle")
                          /\ (pc'[u] = "using" <=> pc[u] = "using")
                          /\ (pc'[u] \in Adding <=> pc[u] \in Adding)
    BY <2>2, <2>3 DEF Others
  <2> QED BY <1>0, <2>1, <2>2, <2>3, <2>5, <2>6
<1>14. ASSUME NEW t \in Thread, FinishAdd(t)
       PROVE  ThreadInv'
  BY <1>0, <1>14, InArena DEF FinishAdd, AllocateFrom, CacheSerialArena, TypeOK
<1>15. ASSUME NEW t \in Thread, Leave(t)
       PROVE  ThreadInv'
  BY <1>0, <1>15 DEF Leave, Goto, TypeOK
<1>16. ASSUME NEW t \in Thread, WalkChunk(t) \/ WalkSlot(t) \/ WalkEnd(t)
       PROVE  ThreadInv'
  BY <1>0, <1>16 DEF WalkChunk, WalkSlot, WalkEnd, Goto, TypeOK
<1>17. CASE UNCHANGED vars
  BY <1>0, <1>17 DEF vars
<1> HIDE DEF ThreadInv
<1> QED
  BY <1>1, <1>2, <1>3, <1>4, <1>5, <1>6, <1>7, <1>8, <1>9, <1>10, <1>11, <1>12,
     <1>13, <1>14, <1>15, <1>16, <1>17
  DEF Next, GetSerialArena, Step

-------------------------------------------------------------------------------
(* The invariant is preserved: what is in the lists. *)

\* The types of what is at a place of a list.
LEMMA PlaceType ==
  ASSUME IInv, NEW a \in Arena, NEW i \in 1..Len(chunks[a]), NEW j \in 1..Cap(chunks[a], i)
  PROVE  /\ Size(chunks[a], i) \in Nat /\ Cap(chunks[a], i) \in Nat
         /\ IdOf(chunks[a], i, j) \in Thread \cup {NoThread}
         /\ SerOf(chunks[a], i, j) \in Serial \cup {NoSerial}
<1>1. IsList(chunks[a])
  BY ListsType DEF IInv, ListsOK
<1> QED BY <1>1, ListParts

\* The parts of ListInv about one place, and about two places.
PlaceOK(a, i, j) ==
  /\ j > Size(chunks[a], i) => IdOf(chunks[a], i, j) = NoThread
  /\ IdOf(chunks[a], i, j) = NoThread => SerOf(chunks[a], i, j) = NoSerial
  /\ SerOf(chunks[a], i, j) # NoSerial => parent[SerOf(chunks[a], i, j)] = a
  /\ IdOf(chunks[a], i, j) # NoThread /\ SerOf(chunks[a], i, j) = NoSerial =>
       /\ pc[IdOf(chunks[a], i, j)] = "serial" /\ on[IdOf(chunks[a], i, j)] = a
       /\ head[IdOf(chunks[a], i, j)] = i /\ slot[IdOf(chunks[a], i, j)] = j

LEMMA PlaceIsOK ==
  ASSUME IInv, NEW a \in Arena, NEW i \in 1..Len(chunks[a]), NEW j \in 1..Cap(chunks[a], i)
  PROVE  PlaceOK(a, i, j)
BY DEF IInv, ListInv, PlaceOK

LEMMA ListKept ==
  ASSUME IInv, chunks' = chunks,
         \A s \in Serial : parent[s] # NoArena => parent'[s] = parent[s],
         \A u \in Thread : pc[u] = "serial" =>
           pc'[u] = "serial" /\ on'[u] = on[u] /\ head'[u] = head[u] /\ slot'[u] = slot[u]
  PROVE  ListInv'
<1>1. ASSUME NEW a \in Arena, NEW i \in 1..Len(chunks[a]), NEW j \in 1..Cap(chunks[a], i)
      PROVE  PlaceOK(a, i, j)'
  <2>1. PlaceOK(a, i, j)
    BY PlaceIsOK
  <2>2. /\ IdOf(chunks[a], i, j) \in Thread \cup {NoThread}
        /\ SerOf(chunks[a], i, j) \in Serial \cup {NoSerial}
    BY PlaceType
  <2> QED BY <2>1, <2>2 DEF PlaceOK
<1> QED BY <1>1 DEF IInv, ListInv, PlaceOK

LEMMA ListsInit == Init => ListInv
BY DEF Init, ListInv

LEMMA ListsStep ==
  ASSUME IInv, [Next]_vars
  PROVE  ListInv'
<1>0. TypeOK /\ ThreadInv /\ ListInv
  BY DEF IInv
<1> USE DEF globals, caches, walk
<1>1. ASSUME NEW t \in Managers, NEW a \in Arena,
             Create(t, a) \/ Reset(t, a) \/ Destroy(t, a)
      PROVE  ListInv'
  <2>1. Renewed(t, a)
    BY <1>1, RolesOK, Renewal
  <2>2. ASSUME NEW b \in Arena, b # a, NEW i \in 1..Len(chunks[b]), NEW j \in 1..Cap(chunks[b], i)
        PROVE  PlaceOK(b, i, j)'
    <3>1. PlaceOK(b, i, j)
      BY PlaceIsOK
    <3>2. SerOf(chunks[b], i, j) \in Serial \cup {NoSerial}
      BY PlaceType
    <3> QED BY <2>1, <2>2, <3>1, <3>2 DEF PlaceOK, Renewed
  <2>3. Len(chunks'[a]) = 0 /\ \A b \in Arena : b # a => chunks'[b] = chunks[b]
    BY <2>1 DEF Renewed
  <2>4. ASSUME NEW b \in Arena, NEW i \in 1..Len(chunks'[b]), NEW j \in 1..Cap(chunks'[b], i)
        PROVE  b # a /\ PlaceOK(b, i, j)'
    BY <2>2, <2>3
  <2>5. ASSUME NEW b \in Arena, NEW i \in 1..Len(chunks'[b]), NEW l \in 1..Len(chunks'[b]),
               NEW j \in 1..Cap(chunks'[b], i), NEW m \in 1..Cap(chunks'[b], l)
        PROVE  /\ IdOf(chunks'[b], i, j) = IdOf(chunks'[b], l, m)
                    /\ IdOf(chunks'[b], i, j) # NoThread => i = l /\ j = m
               /\ SerOf(chunks'[b], i, j) = SerOf(chunks'[b], l, m)
                    /\ SerOf(chunks'[b], i, j) # NoSerial => i = l /\ j = m
    BY <1>0, <2>3 DEF ListInv
  <2> QED BY <2>4, <2>5 DEF ListInv, PlaceOK
<1>2. ASSUME NEW t \in Thread, ThreadExit(t)
      PROVE  ListInv'
  BY <1>2, ListKept DEF ThreadExit
<1>3. ASSUME NEW t \in Thread, NEW a \in Arena,
             GetSerialArenaFast(t, a) \/ GetFirstArena(t, a) \/ GetListedArena(t, a)
      PROVE  ListInv'
  <2>1. PICK s : Entered(t, a, s)
    BY <1>3, Entering
  <2> QED BY <1>0, <2>1, ListKept DEF Entered, TypeOK
<1>4. ASSUME NEW t \in Thread, NEW a \in Arena, NewSerialArena(t, a)
      PROVE  ListInv'
  BY <1>0, <1>4, ListKept DEF NewSerialArena, Miss, TypeOK
<1>5. ASSUME NEW t \in Walkers, NEW a \in Arena, SpaceAllocated(t, a)
      PROVE  ListInv'
  BY <1>0, <1>5, ListKept, RolesOK DEF SpaceAllocated, Goto, TypeOK
<1>6. ASSUME NEW t \in Thread, LoadHead(t) \/ Lock(t) \/ Refetch(t)
      PROVE  ListInv'
  BY <1>0, <1>6, ListKept DEF LoadHead, Lock, Refetch, Goto, TypeOK
<1>7. ASSUME NEW t \in Thread, FinishAdd(t) \/ Leave(t)
      PROVE  ListInv'
  BY <1>0, <1>7, ListKept DEF FinishAdd, AllocateFrom, Leave, Goto, TypeOK
<1>8. ASSUME NEW t \in Thread, WalkChunk(t) \/ WalkSlot(t) \/ WalkEnd(t)
      PROVE  ListInv'
  <2>1. /\ Others(t) /\ pc[t] # "serial" /\ UNCHANGED <<chunks, parent>>
    BY <1>0, <1>8, WalkFrame
  <2> QED BY <2>1, ListKept DEF Others
<1>9. ASSUME NEW t \in Thread, Reserve(t) \/ WriteBack(t)
      PROVE  ListInv'
  <2>1. PICK a, q : a = on[t] /\ q = chunks[a]
    OBVIOUS
  <2>2. /\ a \in Arena /\ OneListChanges(a) /\ Len(chunks'[a]) = Len(q)
        /\ \A i \in 1..Len(q) :
              /\ Cap(chunks'[a], i) = Cap(q, i)
              /\ Size(chunks'[a], i) >= Size(q, i) \/ Size(chunks'[a], i) = Cap(q, i)
              /\ Size(chunks'[a], i) \in Nat
              /\ \A j \in 1..Cap(q, i) : /\ IdOf(chunks'[a], i, j) = IdOf(q, i, j)
                                         /\ SerOf(chunks'[a], i, j) = SerOf(q, i, j)
    <3>1. CASE Reserve(t)
      <4>1. \A i \in 1..Len(q) : Size(q, i) \in Nat /\ Cap(q, i) \in Nat
        BY <1>0, <2>1, <3>1, InArena, ListParts DEF Reserve
      <4>2. PICK h : h = head[t]
        OBVIOUS
      <4>3. /\ a \in Arena /\ OneListChanges(a) /\ Len(chunks'[a]) = Len(q)
            /\ \A i \in 1..Len(q) :
                 /\ Cap(chunks'[a], i) = Cap(q, i)
                 /\ Size(chunks'[a], i) = IF i = h THEN Size(q, i) + 1 ELSE Size(q, i)
                 /\ \A j \in 1..Cap(q, i) : /\ IdOf(chunks'[a], i, j) = IdOf(q, i, j)
                                            /\ SerOf(chunks'[a], i, j) = SerOf(q, i, j)
        BY <2>1, <3>1, <4>2, ReserveEffect
      <4>4. \A i \in 1..Len(q) :
              Size(chunks'[a], i) >= Size(q, i) /\ Size(chunks'[a], i) \in Nat
        BY <4>1, <4>3
      <4> QED BY <4>3, <4>4
    <3>2. CASE WriteBack(t)
      <4>1. \A i \in 1..Len(q) : Size(q, i) \in Nat /\ Cap(q, i) \in Nat
        BY <1>0, <2>1, <3>2, InArena, ListParts DEF WriteBack
      <4> QED BY <2>1, <3>2, <4>1, WriteBackEffect
    <3> QED BY <1>9, <3>1, <3>2
  <2>3. Others(t) /\ pc[t] # "serial" /\ UNCHANGED <<parent, on>>
    BY <1>0, <1>9, AddingFrame DEF Reserve, WriteBack
  <2>4. ASSUME NEW b \in Arena, NEW i \in 1..Len(chunks[b]), NEW j \in 1..Cap(chunks[b], i)
        PROVE  PlaceOK(b, i, j)'
    <3>1. PlaceOK(b, i, j)
      BY PlaceIsOK
    <3>2. /\ IdOf(chunks[b], i, j) \in Thread \cup {NoThread}
          /\ Size(chunks[b], i) \in Nat /\ Cap(chunks[b], i) \in Nat
      BY PlaceType
    <3>3. /\ IdOf(chunks'[b], i, j) = IdOf(chunks[b], i, j)
          /\ SerOf(chunks'[b], i, j) = SerOf(chunks[b], i, j)
          /\ Size(chunks'[b], i) >= Size(chunks[b], i) \/ Size(chunks'[b], i) = Cap(chunks[b], i)
          /\ Size(chunks'[b], i) \in Nat
      BY <2>1, <2>2, <3>2 DEF OneListChanges
    <3> QED BY <2>3, <3>1, <3>2, <3>3 DEF PlaceOK, Others
  <2>5. \A b \in Arena :
          /\ Len(chunks'[b]) = Len(chunks[b])
          /\ \A i \in 1..Len(chunks[b]) :
               /\ Cap(chunks'[b], i) = Cap(chunks[b], i)
               /\ \A j \in 1..Cap(chunks[b], i) :
                    /\ IdOf(chunks'[b], i, j) = IdOf(chunks[b], i, j)
                    /\ SerOf(chunks'[b], i, j) = SerOf(chunks[b], i, j)
    BY <2>1, <2>2 DEF OneListChanges
  <2>6. ASSUME NEW b \in Arena, NEW i \in 1..Len(chunks[b]), NEW l \in 1..Len(chunks[b]),
               NEW j \in 1..Cap(chunks[b], i), NEW m \in 1..Cap(chunks[b], l)
        PROVE  /\ IdOf(chunks'[b], i, j) = IdOf(chunks'[b], l, m)
                    /\ IdOf(chunks'[b], i, j) # NoThread => i = l /\ j = m
               /\ SerOf(chunks'[b], i, j) = SerOf(chunks'[b], l, m)
                    /\ SerOf(chunks'[b], i, j) # NoSerial => i = l /\ j = m
    BY <1>0, <2>5 DEF ListInv
  <2> QED BY <2>4, <2>5, <2>6 DEF ListInv, PlaceOK
<1>10. ASSUME NEW t \in Thread, StoreId(t)
       PROVE  ListInv'
  <2>1. PICK a, h, k : a = on[t] /\ h = head[t] /\ k = slot[t]
    OBVIOUS
  <2>2. /\ a \in Arena /\ h \in 1..Len(chunks[a]) /\ k \in 1..Cap(chunks[a], h)
        /\ OneListChanges(a) /\ Len(chunks'[a]) = Len(chunks[a])
        /\ \A i \in 1..Len(chunks[a]) :
              /\ Cap(chunks'[a], i) = Cap(chunks[a], i)
              /\ Size(chunks'[a], i) = Size(chunks[a], i)
              /\ \A j \in 1..Cap(chunks[a], i) :
                   /\ IdOf(chunks'[a], i, j) =
                        IF i = h /\ j = k THEN t ELSE IdOf(chunks[a], i, j)
                   /\ SerOf(chunks'[a], i, j) = SerOf(chunks[a], i, j)
    BY <1>10, <2>1, StoreIdEffect
  <2>3. Others(t) /\ pc[t] = "id" /\ UNCHANGED <<parent, on, head, slot>> /\ pc'[t] = "serial"
    BY <1>0, <1>10, AddingFrame DEF StoreId, Goto, TypeOK
  <2>4. k <= Size(chunks[a], h) /\ IdOf(chunks[a], h, k) = NoThread
    BY <2>1, <2>3 DEF IInv, SlotInv, SlotOK
  <2>5. \A i \in 1..Len(chunks[a]) : \A j \in 1..Cap(chunks[a], i) : IdOf(chunks[a], i, j) # t
    BY <2>1, <2>3 DEF IInv, AddInv, Unnamed, Unplaced, Unlisted
  <2>6. ASSUME NEW b \in Arena, NEW i \in 1..Len(chunks[b]), NEW j \in 1..Cap(chunks[b], i)
        PROVE  PlaceOK(b, i, j)'
    <3>1. PlaceOK(b, i, j)
      BY PlaceIsOK
    <3>2. /\ IdOf(chunks[b], i, j) \in Thread \cup {NoThread}
          /\ Size(chunks[b], i) \in Nat /\ Cap(chunks[b], i) \in Nat
      BY PlaceType
    <3>3. CASE b = a /\ i = h /\ j = k
      BY <2>1, <2>2, <2>3, <2>4, <3>1, <3>2, <3>3 DEF PlaceOK
    <3>4. CASE ~(b = a /\ i = h /\ j = k)
      <4>1. /\ IdOf(chunks'[b], i, j) = IdOf(chunks[b], i, j)
            /\ SerOf(chunks'[b], i, j) = SerOf(chunks[b], i, j)
            /\ Size(chunks'[b], i) = Size(chunks[b], i)
        BY <2>2, <3>4 DEF OneListChanges
      <4> QED BY <2>3, <3>1, <3>2, <4>1 DEF PlaceOK, Others
    <3> QED BY <3>3, <3>4
  <2>7. ASSUME NEW b \in Arena, NEW i \in 1..Len(chunks[b]), NEW l \in 1..Len(chunks[b]),
               NEW j \in 1..Cap(chunks[b], i), NEW m \in 1..Cap(chunks[b], l)
        PROVE  /\ IdOf(chunks'[b], i, j) = IdOf(chunks'[b], l, m)
                    /\ IdOf(chunks'[b], i, j) # NoThread => i = l /\ j = m
               /\ SerOf(chunks'[b], i, j) = SerOf(chunks'[b], l, m)
                    /\ SerOf(chunks'[b], i, j) # NoSerial => i = l /\ j = m
    <3>1. CASE b = a
      BY <1>0, <2>2, <2>5, <3>1 DEF ListInv
    <3>2. CASE b # a
      BY <1>0, <2>2, <3>2 DEF ListInv, OneListChanges
    <3> QED BY <3>1, <3>2
  <2>8. \A b \in Arena : /\ Len(chunks'[b]) = Len(chunks[b])
                         /\ \A i \in 1..Len(chunks[b]) : Cap(chunks'[b], i) = Cap(chunks[b], i)
    BY <2>2 DEF OneListChanges
  <2> QED BY <2>6, <2>7, <2>8 DEF ListInv, PlaceOK
<1>11. ASSUME NEW t \in Thread, StoreSerial(t)
       PROVE  ListInv'
  <2>1. PICK a, h, k, s : a = on[t] /\ h = head[t] /\ k = slot[t] /\ s = mine[t]
    OBVIOUS
  <2>2. /\ a \in Arena /\ h \in 1..Len(chunks[a]) /\ k \in 1..Cap(chunks[a], h)
        /\ OneListChanges(a) /\ Len(chunks'[a]) = Len(chunks[a])
        /\ \A i \in 1..Len(chunks[a]) :
              /\ Cap(chunks'[a], i) = Cap(chunks[a], i)
              /\ Size(chunks'[a], i) = Size(chunks[a], i)
              /\ \A j \in 1..Cap(chunks[a], i) :
                   /\ SerOf(chunks'[a], i, j) =
                        IF i = h /\ j = k THEN s ELSE SerOf(chunks[a], i, j)
                   /\ IdOf(chunks'[a], i, j) = IdOf(chunks[a], i, j)
    BY <1>11, <2>1, StoreSerialEffect
  <2>3. Others(t) /\ pc[t] = "serial" /\ UNCHANGED <<parent, on, head, slot>>
    BY <1>0, <1>11, AddingFrame DEF StoreSerial
  <2>4. k <= Size(chunks[a], h) /\ IdOf(chunks[a], h, k) = t
    BY <2>1, <2>3 DEF IInv, SlotInv, SlotOK
  <2>5. /\ s \in Serial /\ parent[s] = a
        /\ \A i \in 1..Len(chunks[a]) : \A j \in 1..Cap(chunks[a], i) : SerOf(chunks[a], i, j) # s
    BY <2>1, <2>2, <2>3 DEF IInv, AddInv, Unnamed, Unplaced, Unlisted, ThreadInv, Adding
  <2>6. ASSUME NEW b \in Arena, NEW i \in 1..Len(chunks[b]), NEW j \in 1..Cap(chunks[b], i)
        PROVE  PlaceOK(b, i, j)'
    <3>1. PlaceOK(b, i, j)
      BY PlaceIsOK
    <3>2. /\ IdOf(chunks[b], i, j) \in Thread \cup {NoThread}
          /\ Size(chunks[b], i) \in Nat /\ Cap(chunks[b], i) \in Nat
      BY PlaceType
    <3>3. CASE b = a /\ i = h /\ j = k
      BY <2>1, <2>2, <2>3, <2>4, <2>5, <3>1, <3>2, <3>3 DEF PlaceOK
    <3>4. CASE ~(b = a /\ i = h /\ j = k)
      <4>1. /\ IdOf(chunks'[b], i, j) = IdOf(chunks[b], i, j)
            /\ SerOf(chunks'[b], i, j) = SerOf(chunks[b], i, j)
            /\ Size(chunks'[b], i) = Size(chunks[b], i)
        BY <2>2, <3>4 DEF OneListChanges
      <4>2. IdOf(chunks[b], i, j) = t => SerOf(chunks[b], i, j) # NoSerial
        BY <2>1, <3>1, <3>4 DEF PlaceOK
      <4> QED BY <2>3, <3>1, <3>2, <4>1, <4>2 DEF PlaceOK, Others
    <3> QED BY <3>3, <3>4
  <2>7. ASSUME NEW b \in Arena, NEW i \in 1..Len(chunks[b]), NEW l \in 1..Len(chunks[b]),
               NEW j \in 1..Cap(chunks[b], i), NEW m \in 1..Cap(chunks[b], l)
        PROVE  /\ IdOf(chunks'[b], i, j) = IdOf(chunks'[b], l, m)
                    /\ IdOf(chunks'[b], i, j) # NoThread => i = l /\ j = m
               /\ SerOf(chunks'[b], i, j) = SerOf(chunks'[b], l, m)
                    /\ SerOf(chunks'[b], i, j) # NoSerial => i = l /\ j = m
    <3>1. CASE b = a
      BY <1>0, <2>2, <2>5, <3>1 DEF ListInv
    <3>2. CASE b # a
      BY <1>0, <2>2, <3>2 DEF ListInv, OneListChanges
    <3> QED BY <3>1, <3>2
  <2>8. \A b \in Arena : /\ Len(chunks'[b]) = Len(chunks[b])
                         /\ \A i \in 1..Len(chunks[b]) : Cap(chunks'[b], i) = Cap(chunks[b], i)
    BY <2>2 DEF OneListChanges
  <2> QED BY <2>6, <2>7, <2>8 DEF ListInv, PlaceOK
<1>12. ASSUME NEW t \in Thread, Grow(t)
       PROVE  ListInv'
  <2>1. PICK a, n, s : a = on[t] /\ n = Len(chunks[a]) + 1 /\ s = mine[t]
    OBVIOUS
  <2>2. a \in Arena /\ OneListChanges(a) /\ HasNewChunk(chunks'[a], chunks[a], t, s)
    BY <1>12, <2>1, GrowEffect
  <2>3. Others(t) /\ pc[t] = "grow" /\ UNCHANGED <<parent, on, head, slot>>
    BY <1>0, <1>12, AddingFrame DEF Grow
  <2>4. /\ Len(chunks[a]) \in Nat /\ Len(chunks'[a]) = n
        /\ \A i \in 1..n : Cap(chunks'[a], i) \in Nat
    BY <2>1, <2>2, <1>12, InArena, ListParts DEF HasNewChunk, Grow
  <2>5. /\ s \in Serial /\ parent[s] = a
        /\ \A i \in 1..Len(chunks[a]) : \A j \in 1..Cap(chunks[a], i) :
             SerOf(chunks[a], i, j) # s /\ IdOf(chunks[a], i, j) # t
    BY <2>1, <2>2, <2>3 DEF IInv, AddInv, Unnamed, Unplaced, Unlisted, ThreadInv, Adding
  <2>6. ASSUME NEW b \in Arena, NEW i \in 1..Len(chunks[b]), NEW j \in 1..Cap(chunks[b], i)
        PROVE  PlaceOK(b, i, j)'
    <3>1. PlaceOK(b, i, j)
      BY PlaceIsOK
    <3>2. IdOf(chunks[b], i, j) \in Thread \cup {NoThread}
      BY PlaceType
    <3>3. /\ IdOf(chunks'[b], i, j) = IdOf(chunks[b], i, j)
          /\ SerOf(chunks'[b], i, j) = SerOf(chunks[b], i, j)
          /\ Size(chunks'[b], i) = Size(chunks[b], i)
      BY <2>2 DEF OneListChanges, HasNewChunk
    <3>4. IdOf(chunks[b], i, j) = t => SerOf(chunks[b], i, j) # NoSerial
      BY <2>3, <3>1 DEF PlaceOK
    <3> QED BY <2>3, <3>1, <3>2, <3>3, <3>4 DEF PlaceOK, Others
  <2>7. ASSUME NEW j \in 1..Cap(chunks'[a], n)
        PROVE  PlaceOK(a, n, j)'
    <3>1. CASE j = 1
      BY <2>1, <2>2, <2>3, <2>5, <3>1 DEF PlaceOK, HasNewChunk
    <3>2. CASE j # 1
      <4>1. j \in 2..Cap(chunks'[a], n)
        BY <2>1, <2>4, <3>2
      <4> QED BY <2>1, <2>2, <4>1 DEF PlaceOK, HasNewChunk
    <3> QED BY <3>1, <3>2
  <2>8. ASSUME NEW i \in 1..n, NEW j \in 1..Cap(chunks'[a], i)
        PROVE  /\ i # n => /\ i \in 1..Len(chunks[a]) /\ j \in 1..Cap(chunks[a], i)
                           /\ IdOf(chunks'[a], i, j) = IdOf(chunks[a], i, j)
                           /\ SerOf(chunks'[a], i, j) = SerOf(chunks[a], i, j)
               /\ i = n /\ j # 1 => /\ IdOf(chunks'[a], i, j) = NoThread
                                    /\ SerOf(chunks'[a], i, j) = NoSerial
               /\ i = n /\ j = 1 => /\ IdOf(chunks'[a], i, j) = t
                                    /\ SerOf(chunks'[a], i, j) = s
    <3>1. CASE i # n
      <4>1. i \in 1..Len(chunks[a])
        BY <2>1, <2>4, <3>1
      <4> QED BY <2>2, <3>1, <4>1 DEF HasNewChunk
    <3>2. CASE i = n
      <4>1. j # 1 => j \in 2..Cap(chunks'[a], n)
        BY <2>4, <3>2
      <4> QED BY <2>1, <2>2, <3>2, <4>1 DEF HasNewChunk
    <3> QED BY <3>1, <3>2
  <2>9. ASSUME NEW i \in 1..n, NEW j \in 1..Cap(chunks'[a], i)
        PROVE  PlaceOK(a, i, j)'
    BY <2>2, <2>6, <2>7, <2>8
  <2>10. ASSUME NEW i \in 1..n, NEW l \in 1..n,
                NEW j \in 1..Cap(chunks'[a], i), NEW m \in 1..Cap(chunks'[a], l)
         PROVE  /\ IdOf(chunks'[a], i, j) = IdOf(chunks'[a], l, m)
                     /\ IdOf(chunks'[a], i, j) # NoThread => i = l /\ j = m
                /\ SerOf(chunks'[a], i, j) = SerOf(chunks'[a], l, m)
                     /\ SerOf(chunks'[a], i, j) # NoSerial => i = l /\ j = m
    <3>1. CASE i # n /\ l # n
      BY <1>0, <2>2, <2>8, <3>1 DEF ListInv
    <3>2. CASE i = n \/ l = n
      BY <2>5, <2>8, <3>2
    <3> QED BY <3>1, <3>2
  <2>11. \A b \in Arena : b # a => chunks'[b] = chunks[b]
    BY <2>2 DEF OneListChanges
  <2>12. ASSUME NEW b \in Arena, NEW i \in 1..Len(chunks'[b]), NEW j \in 1..Cap(chunks'[b], i)
         PROVE  PlaceOK(b, i, j)'
    BY <2>4, <2>6, <2>9, <2>11
  <2>13. ASSUME NEW b \in Arena, NEW i \in 1..Len(chunks'[b]), NEW l \in 1..Len(chunks'[b]),
                NEW j \in 1..Cap(chunks'[b], i), NEW m \in 1..Cap(chunks'[b], l)
         PROVE  /\ IdOf(chunks'[b], i, j) = IdOf(chunks'[b], l, m)
                     /\ IdOf(chunks'[b], i, j) # NoThread => i = l /\ j = m
                /\ SerOf(chunks'[b], i, j) = SerOf(chunks'[b], l, m)
                     /\ SerOf(chunks'[b], i, j) # NoSerial => i = l /\ j = m
    <3>1. CASE b = a
      BY <2>4, <2>10, <3>1
    <3>2. CASE b # a
      BY <1>0, <2>11, <3>2 DEF ListInv
    <3> QED BY <3>1, <3>2
  <2> QED BY <2>12, <2>13 DEF ListInv, PlaceOK
<1>13. CASE UNCHANGED vars
  BY <1>13, ListKept DEF vars
<1> QED
  BY <1>1, <1>2, <1>3, <1>4, <1>5, <1>6, <1>7, <1>8, <1>9, <1>10, <1>11, <1>12, <1>13
  DEF Next, GetSerialArena, Step

-------------------------------------------------------------------------------
(* The invariant is preserved: the slots that threads have reserved. *)

\* How a list changes while nobody frees it: what is stored in it stays.
Grows(q, r) ==
  /\ IsList(r) /\ Len(r) >= Len(q)
  /\ \A i \in 1..Len(q) :
       /\ Cap(r, i) = Cap(q, i)
       /\ Size(r, i) >= Size(q, i) \/ Size(r, i) = Cap(q, i)
       /\ \A j \in 1..Cap(q, i) :
            /\ IdOf(q, i, j) # NoThread => IdOf(r, i, j) = IdOf(q, i, j)
            /\ SerOf(q, i, j) # NoSerial => SerOf(r, i, j) = SerOf(q, i, j)

LEMMA GrowsItself ==
  ASSUME NEW q, IsList(q)
  PROVE  Grows(q, q)
<1>1. \A i \in 1..Len(q) : Size(q, i) \in Nat
  BY ListParts
<1> QED BY <1>1, ListParts DEF Grows

LEMMA AddingGrows ==
  ASSUME IInv, NEW t \in Thread,
         \/ LoadHead(t) \/ Reserve(t) \/ WriteBack(t) \/ StoreId(t) \/ StoreSerial(t)
         \/ Lock(t) \/ Refetch(t) \/ Grow(t)
  PROVE  \A b \in Arena : Grows(chunks[b], chunks'[b])
<1>0. \A b \in Arena : IsList(chunks[b])
  BY ListsType DEF ListsOK, IInv
<1>1. CASE chunks' = chunks
  BY <1>0, <1>1, GrowsItself
<1>2. ASSUME NEW a \in Arena, OneListChanges(a), Grows(chunks[a], chunks'[a])
      PROVE  \A b \in Arena : Grows(chunks[b], chunks'[b])
  BY <1>0, <1>2, GrowsItself DEF OneListChanges
<1>3. PICK a, q : a = on[t] /\ q = chunks[a]
  OBVIOUS
<1>4. CASE Reserve(t)
  <2>1. \A i \in 1..Len(q) : Size(q, i) \in Nat
    BY <1>0, <1>3, <1>4, InArena, ListParts DEF Reserve
  <2>2. /\ a \in Arena /\ OneListChanges(a) /\ Len(chunks'[a]) = Len(q)
        /\ \A i \in 1..Len(q) :
             /\ Cap(chunks'[a], i) = Cap(q, i)
             /\ Size(chunks'[a], i) >= Size(q, i)
             /\ \A j \in 1..Cap(q, i) : /\ IdOf(chunks'[a], i, j) = IdOf(q, i, j)
                                        /\ SerOf(chunks'[a], i, j) = SerOf(q, i, j)
    BY <1>3, <1>4, <2>1, ReserveEffect
  <2>3. Len(q) \in Nat
    BY <1>3, <1>4, InArena DEF Reserve
  <2>4. Grows(q, chunks'[a])
    BY <2>2, <2>3 DEF Grows, OneListChanges
  <2> QED BY <1>2, <1>3, <2>2, <2>4
<1>5. CASE WriteBack(t)
  <2>1. \A i \in 1..Len(q) : Size(q, i) \in Nat
    BY <1>0, <1>3, <1>5, InArena, ListParts DEF WriteBack
  <2>2. /\ a \in Arena /\ OneListChanges(a) /\ Len(chunks'[a]) = Len(q)
        /\ \A i \in 1..Len(q) :
             /\ Cap(chunks'[a], i) = Cap(q, i)
             /\ Size(chunks'[a], i) >= Size(q, i) \/ Size(chunks'[a], i) = Cap(q, i)
             /\ \A j \in 1..Cap(q, i) : /\ IdOf(chunks'[a], i, j) = IdOf(q, i, j)
                                        /\ SerOf(chunks'[a], i, j) = SerOf(q, i, j)
    BY <1>3, <1>5, <2>1, WriteBackEffect
  <2>3. Len(q) \in Nat
    BY <1>3, <1>5, InArena DEF WriteBack
  <2>4. Grows(q, chunks'[a])
    BY <2>2, <2>3 DEF Grows, OneListChanges
  <2> QED BY <1>2, <1>3, <2>2, <2>4
<1>6. CASE StoreId(t)
  <2>1. PICK h, k : h = head[t] /\ k = slot[t]
    OBVIOUS
  <2>2. /\ a \in Arena /\ OneListChanges(a) /\ Len(chunks'[a]) = Len(q)
        /\ \A i \in 1..Len(q) :
             /\ Cap(chunks'[a], i) = Cap(q, i)
             /\ Size(chunks'[a], i) = Size(q, i)
             /\ \A j \in 1..Cap(q, i) :
                  /\ i # h \/ j # k => IdOf(chunks'[a], i, j) = IdOf(q, i, j)
                  /\ SerOf(chunks'[a], i, j) = SerOf(q, i, j)
    BY <1>3, <1>6, <2>1, StoreIdEffect
  <2>3. IdOf(q, h, k) = NoThread
    BY <1>3, <1>6, <2>1 DEF StoreId, IInv, SlotInv, SlotOK
  <2>4. Len(q) \in Nat /\ \A i \in 1..Len(q) : Size(q, i) \in Nat
    BY <1>0, <1>3, <1>6, InArena, ListParts DEF StoreId
  <2>5. Grows(q, chunks'[a])
    BY <2>2, <2>3, <2>4 DEF Grows, OneListChanges
  <2> QED BY <1>2, <1>3, <2>2, <2>5
<1>7. CASE StoreSerial(t)
  <2>1. PICK h, k : h = head[t] /\ k = slot[t]
    OBVIOUS
  <2>2. /\ a \in Arena /\ OneListChanges(a) /\ Len(chunks'[a]) = Len(q)
        /\ \A i \in 1..Len(q) :
             /\ Cap(chunks'[a], i) = Cap(q, i)
             /\ Size(chunks'[a], i) = Size(q, i)
             /\ \A j \in 1..Cap(q, i) :
                  /\ i # h \/ j # k => SerOf(chunks'[a], i, j) = SerOf(q, i, j)
                  /\ IdOf(chunks'[a], i, j) = IdOf(q, i, j)
    BY <1>3, <1>7, <2>1, StoreSerialEffect
  <2>3. SerOf(q, h, k) = NoSerial
    BY <1>3, <1>7, <2>1 DEF StoreSerial, IInv, SlotInv, SlotOK
  <2>4. Len(q) \in Nat /\ \A i \in 1..Len(q) : Size(q, i) \in Nat
    BY <1>0, <1>3, <1>7, InArena, ListParts DEF StoreSerial
  <2>5. Grows(q, chunks'[a])
    BY <2>2, <2>3, <2>4 DEF Grows, OneListChanges
  <2> QED BY <1>2, <1>3, <2>2, <2>5
<1>8. CASE Grow(t)
  <2>1. a \in Arena /\ OneListChanges(a) /\ HasNewChunk(chunks'[a], q, t, mine[t])
    BY <1>3, <1>8, GrowEffect
  <2>2. Len(q) \in Nat /\ \A i \in 1..Len(q) : Size(q, i) \in Nat
    BY <1>0, <1>3, <1>8, InArena, ListParts DEF Grow
  <2>3. Grows(q, chunks'[a])
    BY <2>1, <2>2 DEF Grows, HasNewChunk
  <2> QED BY <1>2, <1>3, <2>1, <2>3
<1> QED BY <1>1, <1>4, <1>5, <1>6, <1>7, <1>8 DEF LoadHead, Lock, Refetch

\* A thread whose own slot does not change knows what it knew.
LEMMA SlotKept ==
  ASSUME IInv, NEW u \in Thread, pc[u] # "idle",
         NEW q, q = chunks[on[u]], NEW r, Grows(q, r),
         pc[u] \in {"id", "serial"} =>
           /\ IdOf(r, head[u], slot[u]) = IdOf(q, head[u], slot[u])
           /\ SerOf(r, head[u], slot[u]) = SerOf(q, head[u], slot[u])
  PROVE  SlotOK(r, pc[u], head[u], slot[u], u)
<1>1. SlotOK(q, pc[u], head[u], slot[u], u)
  BY DEF IInv, SlotInv
<1>2. IsList(q) /\ Len(q) \in Nat /\ Len(r) \in Nat
  BY InArena, ListParts DEF Grows
<1>3. CASE pc[u] \in {"reserve", "full", "id", "serial"}
  <2>1. head[u] \in 1..Len(q)
    BY <1>1, <1>3 DEF SlotOK
  <2>2. /\ Size(q, head[u]) \in Nat /\ Size(r, head[u]) \in Nat
        /\ Cap(q, head[u]) \in Nat /\ Cap(r, head[u]) = Cap(q, head[u])
        /\ Size(r, head[u]) >= Size(q, head[u]) \/ Size(r, head[u]) = Cap(q, head[u])
        /\ head[u] \in 1..Len(r)
    BY <1>2, <2>1, ListParts DEF Grows
  <2>3. pc[u] \in {"id", "serial"} => slot[u] \in Nat
    BY DEF IInv, TypeOK
  <2> QED BY <1>1, <1>3, <2>1, <2>2, <2>3 DEF SlotOK
<1>4. CASE pc[u] \notin {"reserve", "full", "id", "serial"}
  BY <1>4 DEF SlotOK
<1> QED BY <1>3, <1>4

\* The invariant follows from what it says of the thread that takes the step and
\* of how its step concerns the others.
LEMMA SlotFrame ==
  ASSUME IInv, NEW t \in Thread, Others(t),
         SlotOK(chunks'[on'[t]], pc'[t], head'[t], slot'[t], t),
         \A u \in Thread : u # t /\ pc[u] # "idle" =>
           /\ Grows(chunks[on[u]], chunks'[on[u]])
           /\ pc[u] \in {"id", "serial"} =>
                /\ IdOf(chunks'[on[u]], head[u], slot[u]) = IdOf(chunks[on[u]], head[u], slot[u])
                /\ SerOf(chunks'[on[u]], head[u], slot[u]) = SerOf(chunks[on[u]], head[u], slot[u])
                /\ pc'[t] \in {"id", "serial"} /\ on'[t] = on[u] /\ head'[t] = head[u] =>
                     slot'[t] # slot[u]
  PROVE  SlotInv'
<1>1. ASSUME NEW u \in Thread
      PROVE  SlotOK(chunks'[on'[u]], pc'[u], head'[u], slot'[u], u)
  <2>1. CASE u = t
    BY <2>1
  <2>2. CASE u # t /\ pc[u] = "idle"
    BY <2>2 DEF Others, SlotOK
  <2>3. CASE u # t /\ pc[u] # "idle"
    <3>1. SlotOK(chunks'[on[u]], pc[u], head[u], slot[u], u)
      BY <2>3, SlotKept
    <3> QED BY <2>3, <3>1 DEF Others
  <2> QED BY <2>1, <2>2, <2>3
<1>2. ASSUME NEW u \in Thread, NEW v \in Thread, u # v,
             pc'[u] \in {"id", "serial"}, pc'[v] \in {"id", "serial"},
             on'[u] = on'[v], head'[u] = head'[v], slot'[u] = slot'[v]
      PROVE  FALSE
  <2>1. CASE u = t \/ v = t
    BY <1>2, <2>1 DEF Others
  <2>2. CASE u # t /\ v # t
    BY <1>2, <2>2 DEF Others, IInv, SlotInv
  <2> QED BY <2>1, <2>2
<1> QED BY <1>1, <1>2 DEF SlotInv

LEMMA SlotsInit == Init => SlotInv
BY DEF Init, SlotInv, SlotOK

\* Steps that leave the lists alone and end or begin outside of a reserved slot.
LEMMA SlotIdle ==
  ASSUME IInv, NEW t \in Thread, Others(t), chunks' = chunks,
         pc'[t] \notin {"reserve", "full", "id", "serial"}
  PROVE  SlotInv'
<1>1. SlotOK(chunks'[on'[t]], pc'[t], head'[t], slot'[t], t)
  BY DEF SlotOK
<1>2. ASSUME NEW u \in Thread, u # t, pc[u] # "idle"
      PROVE  Grows(chunks[on[u]], chunks'[on[u]])
  BY <1>2, InArena, GrowsItself
<1> QED BY <1>1, <1>2, SlotFrame

LEMMA SlotsStep ==
  ASSUME IInv, [Next]_vars
  PROVE  SlotInv'
<1>0. TypeOK /\ ThreadInv /\ ListInv /\ SlotInv
  BY DEF IInv
<1> USE DEF globals, caches, walk
<1>1. ASSUME NEW t \in Managers, NEW a \in Arena,
             Create(t, a) \/ Reset(t, a) \/ Destroy(t, a)
      PROVE  SlotInv'
  <2>1. Renewed(t, a)
    BY <1>1, RolesOK, Renewal
  <2>2. UNCHANGED <<pc, on, head, slot>>
    BY <2>1 DEF Renewed
  <2>3. ASSUME NEW u \in Thread PROVE SlotOK(chunks'[on[u]], pc[u], head[u], slot[u], u)
    <3>1. CASE pc[u] = "idle"
      BY <3>1 DEF SlotOK
    <3>2. CASE pc[u] # "idle"
      <4>1. on[u] \in Arena /\ on[u] # a
        BY <2>1, <3>2, InArena DEF Renewed, Quiet
      <4> QED BY <1>0, <2>1, <4>1 DEF Renewed, SlotInv
    <3> QED BY <3>1, <3>2
  <2> QED BY <1>0, <2>2, <2>3 DEF SlotInv
<1>2. ASSUME NEW t \in Thread, ThreadExit(t)
      PROVE  SlotInv'
  BY <1>0, <1>2 DEF ThreadExit, SlotInv
<1>3. ASSUME NEW t \in Thread, NEW a \in Arena,
             GetSerialArenaFast(t, a) \/ GetFirstArena(t, a) \/ GetListedArena(t, a)
      PROVE  SlotInv'
  <2>1. PICK s : Entered(t, a, s)
    BY <1>3, Entering
  <2>2. Others(t) /\ chunks' = chunks /\ pc'[t] = "using"
    BY <1>0, <2>1 DEF Entered, Others, TypeOK
  <2> QED BY <2>2, SlotIdle
<1>4. ASSUME NEW t \in Thread, NEW a \in Arena, NewSerialArena(t, a)
      PROVE  SlotInv'
  <2>1. Others(t) /\ chunks' = chunks /\ pc'[t] = "add"
    BY <1>0, <1>4 DEF NewSerialArena, Others, TypeOK
  <2> QED BY <2>1, SlotIdle
<1>5. ASSUME NEW t \in Walkers, NEW a \in Arena, SpaceAllocated(t, a)
      PROVE  SlotInv'
  <2>1. t \in Thread /\ Others(t) /\ chunks' = chunks /\ pc'[t] = "walk"
    BY <1>0, <1>5, RolesOK DEF SpaceAllocated, Goto, Others, TypeOK
  <2> QED BY <2>1, SlotIdle
<1>6. ASSUME NEW t \in Thread, FinishAdd(t) \/ Leave(t)
      PROVE  SlotInv'
  <2>1. Others(t) /\ chunks' = chunks /\ pc'[t] \in {"using", "idle"}
    BY <1>0, <1>6 DEF FinishAdd, AllocateFrom, CacheSerialArena, Leave, Goto, Others, TypeOK
  <2> QED BY <2>1, SlotIdle
<1>7. ASSUME NEW t \in Thread, WalkChunk(t) \/ WalkSlot(t) \/ WalkEnd(t)
      PROVE  SlotInv'
  <2>1. Others(t) /\ chunks' = chunks
    BY <1>0, <1>7, WalkFrame
  <2>2. pc'[t] \in {"walk", "slots", "idle"}
    BY <1>0, <1>7 DEF WalkChunk, WalkSlot, WalkEnd, Goto, TypeOK
  <2> QED BY <2>1, <2>2, SlotIdle
<1>8. ASSUME NEW t \in Thread, LoadHead(t) \/ Lock(t) \/ Refetch(t)
      PROVE  SlotInv'
  <2>1. PICK q : q = chunks[on[t]]
    OBVIOUS
  <2>2. /\ Others(t) /\ pc[t] # "idle" /\ UNCHANGED on /\ chunks' = chunks
        /\ pc'[t] \in {"lock", "reserve", "refetch", "grow"}
    BY <1>0, <1>8, AddingFrame DEF LoadHead, Lock, Refetch, Goto, TypeOK
  <2>3. Len(q) \in Nat /\ IsList(q) /\ q = chunks'[on'[t]]
    BY <2>1, <2>2, InArena
  <2>4. pc'[t] = "reserve" => head'[t] = Len(q) /\ q # <<>>
    <3>1. CASE LoadHead(t)
      BY <1>0, <2>1, <3>1 DEF LoadHead, Goto, TypeOK
    <3>2. CASE Lock(t)
      BY <1>0, <3>2 DEF Lock, Goto, TypeOK
    <3>3. CASE Refetch(t)
      <4>1. pc'[t] = "reserve" => head'[t] = Len(q) /\ head[t] # Len(q)
        BY <1>0, <2>1, <3>3 DEF Refetch, Goto, TypeOK
      <4>2. head[t] <= Len(q) /\ head[t] \in Nat
        BY <1>0, <2>1, <3>3 DEF Refetch, ThreadInv, Adding, TypeOK
      <4> QED BY <2>3, <4>1, <4>2
    <3> QED BY <1>8, <3>1, <3>2, <3>3
  <2>5. q # <<>> => Len(q) \in 1..Len(q)
    BY <2>3, EmptySeq DEF IsList
  <2>6. SlotOK(chunks'[on'[t]], pc'[t], head'[t], slot'[t], t)
    BY <2>2, <2>3, <2>4, <2>5 DEF SlotOK
  <2>7. ASSUME NEW u \in Thread, u # t, pc[u] # "idle"
        PROVE  Grows(chunks[on[u]], chunks'[on[u]])
    BY <2>2, <2>7, InArena, GrowsItself
  <2> QED BY <2>2, <2>6, <2>7, SlotFrame
<1>9. ASSUME NEW t \in Thread, Reserve(t)
      PROVE  SlotInv'
  <2>1. PICK a, h, q : a = on[t] /\ h = head[t] /\ q = chunks[a]
    OBVIOUS
  <2>2. /\ Others(t) /\ UNCHANGED <<on, head>> /\ a \in Arena
        /\ \A b \in Arena : Grows(chunks[b], chunks'[b])
    BY <1>0, <1>9, <2>1, AddingFrame, AddingGrows, ReserveEffect DEF Reserve
  <2>3. /\ h \in 1..Len(q) /\ OneListChanges(a) /\ Len(chunks'[a]) = Len(q)
        /\ Cap(chunks'[a], h) = Cap(q, h)
        /\ Size(chunks'[a], h) = Size(q, h) + 1
        /\ \A i \in 1..Len(q) : \A j \in 1..Cap(q, i) :
             /\ IdOf(chunks'[a], i, j) = IdOf(q, i, j)
             /\ SerOf(chunks'[a], i, j) = SerOf(q, i, j)
    BY <1>9, <2>1, ReserveEffect
  <2>4. Size(q, h) \in Nat /\ Cap(q, h) \in Nat
    BY <1>0, <2>1, <2>2, <2>3, ListsType, ListParts DEF ListsOK
  <2>5. \/ /\ pc'[t] = "id" /\ slot'[t] = Size(q, h) + 1 /\ Size(q, h) < Cap(q, h)
        \/ pc'[t] = "full" /\ Size(q, h) >= Cap(q, h)
    BY <1>0, <1>9, <2>1, <2>4 DEF Reserve, Goto, HasRoom, Size, Cap, capacity, TypeOK
  <2>6. SlotOK(chunks'[on'[t]], pc'[t], head'[t], slot'[t], t)
    <3>1. CASE pc'[t] = "id"
      <4>1. slot'[t] \in 1..Cap(q, h) /\ slot'[t] > Size(q, h)
        BY <2>4, <2>5, <3>1
      <4>2. IdOf(q, h, slot'[t]) = NoThread
        BY <1>0, <2>1, <2>2, <2>3, <4>1 DEF ListInv
      <4> QED BY <2>1, <2>2, <2>3, <2>4, <2>5, <3>1, <4>1, <4>2 DEF SlotOK
    <3>2. CASE pc'[t] = "full"
      BY <2>1, <2>2, <2>3, <2>4, <2>5, <3>2 DEF SlotOK
    <3> QED BY <2>5, <3>1, <3>2
  <2>7. ASSUME NEW u \in Thread, u # t, pc[u] \in {"id", "serial"}
        PROVE  /\ IdOf(chunks'[on[u]], head[u], slot[u]) = IdOf(chunks[on[u]], head[u], slot[u])
               /\ SerOf(chunks'[on[u]], head[u], slot[u]) = SerOf(chunks[on[u]], head[u], slot[u])
               /\ pc'[t] \in {"id", "serial"} /\ on'[t] = on[u] /\ head'[t] = head[u] =>
                    slot'[t] # slot[u]
    <3>1. /\ head[u] \in 1..Len(chunks[on[u]]) /\ slot[u] \in 1..Cap(chunks[on[u]], head[u])
          /\ slot[u] <= Size(chunks[on[u]], head[u]) /\ on[u] \in Arena
      BY <1>0, <2>7, InArena DEF SlotInv, SlotOK
    <3>2. CASE on[u] = a
      BY <2>1, <2>2, <2>3, <2>4, <2>5, <3>1, <3>2
    <3>3. CASE on[u] # a
      BY <2>1, <2>2, <2>3, <3>1, <3>3 DEF OneListChanges
    <3> QED BY <3>2, <3>3
  <2>8. \A u \in Thread : pc[u] # "idle" => on[u] \in Arena
    BY InArena
  <2> QED BY <2>2, <2>6, <2>7, <2>8, SlotFrame
<1>10. ASSUME NEW t \in Thread, WriteBack(t) \/ Grow(t)
       PROVE  SlotInv'
  <2>1. PICK a : a = on[t]
    OBVIOUS
  <2>2. /\ Others(t) /\ a \in Arena /\ pc'[t] \in {"grow", "lock", "done"}
        /\ \A b \in Arena : Grows(chunks[b], chunks'[b])
    BY <1>0, <1>10, <2>1, AddingFrame, AddingGrows, InArena DEF WriteBack, Grow, Goto, TypeOK
  <2>3. /\ OneListChanges(a)
        /\ \A i \in 1..Len(chunks[a]) : \A j \in 1..Cap(chunks[a], i) :
             /\ IdOf(chunks'[a], i, j) = IdOf(chunks[a], i, j)
             /\ SerOf(chunks'[a], i, j) = SerOf(chunks[a], i, j)
    BY <1>10, <2>1, WriteBackEffect, GrowEffect DEF HasNewChunk
  <2>4. ASSUME NEW u \in Thread, u # t, pc[u] \in {"id", "serial"}
        PROVE  /\ IdOf(chunks'[on[u]], head[u], slot[u]) = IdOf(chunks[on[u]], head[u], slot[u])
               /\ SerOf(chunks'[on[u]], head[u], slot[u]) = SerOf(chunks[on[u]], head[u], slot[u])
    <3>1. /\ head[u] \in 1..Len(chunks[on[u]]) /\ slot[u] \in 1..Cap(chunks[on[u]], head[u])
          /\ on[u] \in Arena
      BY <1>0, <2>4, InArena DEF SlotInv, SlotOK
    <3> QED BY <2>1, <2>3, <3>1 DEF OneListChanges
  <2>5. SlotOK(chunks'[on'[t]], pc'[t], head'[t], slot'[t], t)
    BY <2>2 DEF SlotOK
  <2>6. \A u \in Thread : pc[u] # "idle" => on[u] \in Arena
    BY InArena
  <2> QED BY <2>2, <2>4, <2>5, <2>6, SlotFrame
<1>11. ASSUME NEW t \in Thread, StoreId(t) \/ StoreSerial(t)
       PROVE  SlotInv'
  <2>1. PICK a, h, k, q : a = on[t] /\ h = head[t] /\ k = slot[t] /\ q = chunks[a]
    OBVIOUS
  <2>2. /\ Others(t) /\ a \in Arena /\ UNCHANGED <<on, head, slot>>
        /\ pc[t] \in {"id", "serial"}
        /\ pc'[t] = IF pc[t] = "id" THEN "serial" ELSE "done"
        /\ \A b \in Arena : Grows(chunks[b], chunks'[b])
    BY <1>0, <1>11, <2>1, AddingFrame, AddingGrows, InArena
    DEF StoreId, StoreSerial, Goto, TypeOK
  <2>3. /\ h \in 1..Len(q) /\ k \in 1..Cap(q, h)
        /\ OneListChanges(a) /\ Len(chunks'[a]) = Len(q)
        /\ \A i \in 1..Len(q) :
              /\ Cap(chunks'[a], i) = Cap(q, i)
              /\ Size(chunks'[a], i) = Size(q, i)
              /\ \A j \in 1..Cap(q, i) :
                   i # h \/ j # k => /\ IdOf(chunks'[a], i, j) = IdOf(q, i, j)
                                     /\ SerOf(chunks'[a], i, j) = SerOf(q, i, j)
    BY <1>11, <2>1, StoreIdEffect, StoreSerialEffect
  <2>4. ASSUME NEW u \in Thread, u # t, pc[u] \in {"id", "serial"}
        PROVE  /\ IdOf(chunks'[on[u]], head[u], slot[u]) = IdOf(chunks[on[u]], head[u], slot[u])
               /\ SerOf(chunks'[on[u]], head[u], slot[u]) = SerOf(chunks[on[u]], head[u], slot[u])
               /\ on'[t] = on[u] /\ head'[t] = head[u] => slot'[t] # slot[u]
    <3>1. /\ head[u] \in 1..Len(chunks[on[u]]) /\ slot[u] \in 1..Cap(chunks[on[u]], head[u])
          /\ on[u] \in Arena
      BY <1>0, <2>4, InArena DEF SlotInv, SlotOK
    <3>2. on[t] = on[u] /\ head[t] = head[u] => slot[t] # slot[u]
      BY <1>0, <2>2, <2>4 DEF SlotInv
    <3>3. CASE on[u] = a
      BY <2>1, <2>2, <2>3, <3>1, <3>2, <3>3
    <3>4. CASE on[u] # a
      BY <2>1, <2>2, <2>3, <3>1, <3>4 DEF OneListChanges
    <3> QED BY <3>3, <3>4
  <2>5. SlotOK(chunks'[on'[t]], pc'[t], head'[t], slot'[t], t)
    <3>1. CASE pc[t] = "id"
      <4>1. StoreId(t)
        BY <1>11, <3>1 DEF StoreSerial
      <4>2. IdOf(chunks'[a], h, k) = t /\ SerOf(chunks'[a], h, k) = SerOf(q, h, k)
        BY <2>1, <2>3, <4>1, StoreIdEffect
      <4>3. k <= Size(q, h) /\ IdOf(q, h, k) = NoThread
        BY <1>0, <2>1, <3>1 DEF SlotInv, SlotOK
      <4>4. SerOf(q, h, k) = NoSerial
        BY <1>0, <2>1, <2>2, <2>3, <4>3 DEF ListInv
      <4> QED BY <2>1, <2>2, <2>3, <3>1, <4>2, <4>3, <4>4 DEF SlotOK
    <3>2. CASE pc[t] = "serial"
      BY <2>2, <3>2 DEF SlotOK
    <3> QED BY <2>2, <3>1, <3>2
  <2>6. \A u \in Thread : pc[u] # "idle" => on[u] \in Arena
    BY InArena
  <2> QED BY <2>2, <2>4, <2>5, <2>6, SlotFrame
<1>12. CASE UNCHANGED vars
  BY <1>0, <1>12 DEF vars, SlotInv
<1> QED
  BY <1>1, <1>2, <1>3, <1>4, <1>5, <1>6, <1>7, <1>8, <1>9, <1>10, <1>11, <1>12
  DEF Next, GetSerialArena, Step

-------------------------------------------------------------------------------
(* The invariant is preserved: who is in a list and who is not yet. *)

LEMMA PlacedStays ==
  ASSUME NEW q, NEW r, Grows(q, r), Len(q) \in Nat,
         NEW t \in Thread, NEW s, s # NoSerial, Placed(q, t, s)
  PROVE  Placed(r, t, s)
<1>1. PICK i \in 1..Len(q) : \E j \in 1..Cap(q, i) : IdOf(q, i, j) = t /\ SerOf(q, i, j) = s
  BY DEF Placed
<1>2. PICK j \in 1..Cap(q, i) : IdOf(q, i, j) = t /\ SerOf(q, i, j) = s
  BY <1>1
<1>3. Len(r) >= Len(q) /\ Len(r) \in Nat
  BY ListParts DEF Grows
<1>4. i \in 1..Len(r)
  BY <1>3
<1>5. j \in 1..Cap(r, i) /\ IdOf(r, i, j) = t /\ SerOf(r, i, j) = s
  BY <1>2 DEF Grows
<1> QED BY <1>4, <1>5 DEF Placed

\* A step of t puts nothing but t and its SerialArena into a list, and these
\* only when it stores them.
LEMMA AddingPlaces ==
  ASSUME IInv, NEW t \in Thread,
         \/ LoadHead(t) \/ Reserve(t) \/ WriteBack(t) \/ StoreId(t) \/ StoreSerial(t)
         \/ Lock(t) \/ Refetch(t) \/ Grow(t)
  PROVE  \A b \in Arena :
           /\ \A u \in Thread : u # t \/ pc[t] \notin {"id", "grow"} =>
                (Unnamed(chunks[b], u) => Unnamed(chunks'[b], u))
           /\ \A s \in Serial : s # mine[t] \/ pc[t] \notin {"serial", "grow"} =>
                (Unplaced(chunks[b], s) => Unplaced(chunks'[b], s))
<1>1. CASE chunks' = chunks
  BY <1>1
<1>2. PICK a, q : a = on[t] /\ q = chunks[a]
  OBVIOUS
<1> DEFINE Goal(b) ==
      /\ \A u \in Thread : u # t \/ pc[t] \notin {"id", "grow"} =>
           (Unnamed(chunks[b], u) => Unnamed(chunks'[b], u))
      /\ \A s \in Serial : s # mine[t] \/ pc[t] \notin {"serial", "grow"} =>
           (Unplaced(chunks[b], s) => Unplaced(chunks'[b], s))
<1>3. ASSUME OneListChanges(a), Goal(a) PROVE \A b \in Arena : Goal(b)
  <2>1. ASSUME NEW b \in Arena, b # a PROVE Goal(b)
    BY <1>3, <2>1 DEF OneListChanges
  <2> QED BY <1>3, <2>1
<1>4. CASE Reserve(t) \/ WriteBack(t)
  <2>1. /\ OneListChanges(a) /\ Len(chunks'[a]) = Len(q)
        /\ \A i \in 1..Len(q) :
             /\ Cap(chunks'[a], i) = Cap(q, i)
             /\ \A j \in 1..Cap(q, i) : /\ IdOf(chunks'[a], i, j) = IdOf(q, i, j)
                                        /\ SerOf(chunks'[a], i, j) = SerOf(q, i, j)
    BY <1>2, <1>4, ReserveEffect, WriteBackEffect
  <2>2. Goal(a)
    BY <1>2, <2>1 DEF Unnamed, Unplaced
  <2> QED BY <1>3, <2>1, <2>2
<1>5. CASE StoreId(t)
  <2>1. /\ OneListChanges(a) /\ Len(chunks'[a]) = Len(q)
        /\ \A i \in 1..Len(q) :
             /\ Cap(chunks'[a], i) = Cap(q, i)
             /\ \A j \in 1..Cap(q, i) :
                  /\ IdOf(chunks'[a], i, j) = IdOf(q, i, j) \/ IdOf(chunks'[a], i, j) = t
                  /\ SerOf(chunks'[a], i, j) = SerOf(q, i, j)
    BY <1>2, <1>5, StoreIdEffect
  <2>2. pc[t] = "id"
    BY <1>5 DEF StoreId
  <2>3. Goal(a)
    BY <1>2, <2>1, <2>2 DEF Unnamed, Unplaced
  <2> QED BY <1>3, <2>1, <2>3
<1>6. CASE StoreSerial(t)
  <2>1. /\ OneListChanges(a) /\ Len(chunks'[a]) = Len(q)
        /\ \A i \in 1..Len(q) :
             /\ Cap(chunks'[a], i) = Cap(q, i)
             /\ \A j \in 1..Cap(q, i) :
                  /\ IdOf(chunks'[a], i, j) = IdOf(q, i, j)
                  /\ SerOf(chunks'[a], i, j) = SerOf(q, i, j) \/ SerOf(chunks'[a], i, j) = mine[t]
    BY <1>2, <1>6, StoreSerialEffect
  <2>2. pc[t] = "serial"
    BY <1>6 DEF StoreSerial
  <2>3. Goal(a)
    BY <1>2, <2>1, <2>2 DEF Unnamed, Unplaced
  <2> QED BY <1>3, <2>1, <2>3
<1>7. CASE Grow(t)
  <2>1. /\ a \in Arena /\ OneListChanges(a) /\ HasNewChunk(chunks'[a], q, t, mine[t])
        /\ pc[t] = "grow" /\ Len(q) \in Nat
    <3>1. pc[t] = "grow" /\ pc[t] # "idle"
      BY <1>7 DEF Grow
    <3> QED BY <1>2, <1>7, <3>1, GrowEffect, InArena
  <2>2. ASSUME NEW i \in 1..Len(chunks'[a]), NEW j \in 1..Cap(chunks'[a], i)
        PROVE  \/ /\ i \in 1..Len(q) /\ j \in 1..Cap(q, i)
                  /\ IdOf(chunks'[a], i, j) = IdOf(q, i, j)
                  /\ SerOf(chunks'[a], i, j) = SerOf(q, i, j)
               \/ IdOf(chunks'[a], i, j) = t /\ SerOf(chunks'[a], i, j) = mine[t]
               \/ IdOf(chunks'[a], i, j) = NoThread /\ SerOf(chunks'[a], i, j) = NoSerial
    <3>1. CASE i \in 1..Len(q)
      BY <2>1, <3>1 DEF HasNewChunk
    <3>2. CASE i \notin 1..Len(q)
      <4>1. i = Len(q) + 1 /\ (j = 1 \/ j \in 2..Cap(chunks'[a], i))
        BY <2>1, <3>2 DEF HasNewChunk
      <4> QED BY <2>1, <4>1 DEF HasNewChunk
    <3> QED BY <3>1, <3>2
  <2>3. Goal(a)
    BY <1>2, <2>1, <2>2 DEF Unnamed, Unplaced
  <2> QED BY <1>3, <2>1, <2>3
<1> QED BY <1>1, <1>4, <1>5, <1>6, <1>7 DEF LoadHead, Lock, Refetch

LEMMA AddsInit == Init => AddInv
BY DEF Init, AddInv, Unlisted

\* The lists stay as they are and the thread has nothing to add, or had.
LEMMA AddIdle ==
  ASSUME IInv, NEW t \in Thread, Others(t), chunks' = chunks,
         pc'[t] \notin Unlisted \cup {"serial", "done"}
  PROVE  AddInv'
BY DEF IInv, AddInv, Others

LEMMA AddsStep ==
  ASSUME IInv, [Next]_vars
  PROVE  AddInv'
<1>0. TypeOK /\ ThreadInv /\ ListInv /\ AddInv
  BY DEF IInv
<1> USE DEF globals, caches, walk
<1>1. ASSUME NEW t \in Managers, NEW a \in Arena,
             Create(t, a) \/ Reset(t, a) \/ Destroy(t, a)
      PROVE  AddInv'
  <2>1. Renewed(t, a)
    BY <1>1, RolesOK, Renewal
  <2>2. UNCHANGED <<pc, on, mine>> /\ \A b \in Arena : b # a => chunks'[b] = chunks[b]
    BY <2>1 DEF Renewed
  <2>3. \A s : Unplaced(chunks'[a], s)
    BY <2>1 DEF Renewed, Unplaced
  <2>4. ASSUME NEW u \in Thread, pc[u] # "idle" PROVE on[u] \in Arena \ {a}
    BY <2>1, <2>4, InArena DEF Renewed, Quiet
  <2> QED BY <1>0, <2>2, <2>3, <2>4 DEF AddInv, Unlisted
<1>2. ASSUME NEW t \in Thread, ThreadExit(t)
      PROVE  AddInv'
  BY <1>0, <1>2 DEF ThreadExit, AddInv
<1>3. ASSUME NEW t \in Thread, NEW a \in Arena,
             GetSerialArenaFast(t, a) \/ GetFirstArena(t, a) \/ GetListedArena(t, a)
      PROVE  AddInv'
  <2>1. PICK s : Entered(t, a, s)
    BY <1>3, Entering
  <2>2. Others(t) /\ chunks' = chunks /\ pc'[t] = "using"
    BY <1>0, <2>1 DEF Entered, Others, TypeOK
  <2> QED BY <2>2, AddIdle DEF Unlisted
<1>4. ASSUME NEW t \in Thread, NEW a \in Arena, NewSerialArena(t, a)
      PROVE  AddInv'
  <2>1. PICK s \in Serial : parent[s] = NoArena /\ mine' = [mine EXCEPT ![t] = s]
    BY <1>4 DEF NewSerialArena
  <2>2. /\ Others(t) /\ chunks' = chunks /\ pc'[t] = "add" /\ on'[t] = a /\ mine'[t] = s
        /\ Own(a, t) = {}
    BY <1>0, <1>4, <2>1 DEF NewSerialArena, Others, TypeOK
  <2>3. Unnamed(chunks[a], t)
    <3> SUFFICES ASSUME NEW i \in 1..Len(chunks[a]), NEW j \in 1..Cap(chunks[a], i),
                        IdOf(chunks[a], i, j) = t
                 PROVE  FALSE
      BY DEF Unnamed
    <3>1. Size(chunks[a], i) \in Nat /\ Cap(chunks[a], i) \in Nat
      BY PlaceType
    <3>2. j <= Size(chunks[a], i)
      BY <1>0, <3>1 DEF ListInv
    <3>3. <<i, j>> \in Entries(a)
      BY <1>0, <3>1, <3>2, EntriesAre
    <3>4. <<i, j>> \in Own(a, t)
      BY <3>3 DEF Own, IdAt, IdOf
    <3> QED BY <2>2, <3>4
  <2>4. ASSUME NEW b \in Arena PROVE Unplaced(chunks[b], s)
    <3> SUFFICES ASSUME NEW i \in 1..Len(chunks[b]), NEW j \in 1..Cap(chunks[b], i),
                        SerOf(chunks[b], i, j) = s
                 PROVE  FALSE
      BY DEF Unplaced
    <3>1. s # NoSerial /\ parent[s] = NoArena
      BY <2>1
    <3>2. parent[s] = b
      BY <3>1, PlaceIsOK DEF PlaceOK
    <3> QED BY <3>1, <3>2
  <2> QED BY <1>0, <2>2, <2>3, <2>4 DEF AddInv, Unlisted, Others
<1>5. ASSUME NEW t \in Walkers, NEW a \in Arena, SpaceAllocated(t, a)
      PROVE  AddInv'
  <2>1. t \in Thread /\ Others(t) /\ chunks' = chunks /\ pc'[t] = "walk"
    BY <1>0, <1>5, RolesOK DEF SpaceAllocated, Goto, Others, TypeOK
  <2> QED BY <2>1, AddIdle DEF Unlisted
<1>6. ASSUME NEW t \in Thread, FinishAdd(t) \/ Leave(t)
      PROVE  AddInv'
  <2>1. Others(t) /\ chunks' = chunks /\ pc'[t] \in {"using", "idle"}
    BY <1>0, <1>6 DEF FinishAdd, AllocateFrom, CacheSerialArena, Leave, Goto, Others, TypeOK
  <2> QED BY <2>1, AddIdle DEF Unlisted
<1>7. ASSUME NEW t \in Thread, WalkChunk(t) \/ WalkSlot(t) \/ WalkEnd(t)
      PROVE  AddInv'
  <2>1. Others(t) /\ chunks' = chunks
    BY <1>0, <1>7, WalkFrame
  <2>2. pc'[t] \in {"walk", "slots", "idle"}
    BY <1>0, <1>7 DEF WalkChunk, WalkSlot, WalkEnd, Goto, TypeOK
  <2> QED BY <2>1, <2>2, AddIdle DEF Unlisted
<1>8. ASSUME NEW t \in Thread,
             \/ LoadHead(t) \/ Reserve(t) \/ WriteBack(t) \/ StoreId(t) \/ StoreSerial(t)
             \/ Lock(t) \/ Refetch(t) \/ Grow(t)
      PROVE  AddInv'
  <2>1. /\ Others(t) /\ pc[t] # "idle" /\ UNCHANGED <<on, mine>>
        /\ \A b \in Arena : Grows(chunks[b], chunks'[b])
    BY <1>0, <1>8, AddingFrame, AddingGrows
  <2>2. \A b \in Arena :
           /\ \A u \in Thread : u # t \/ pc[t] \notin {"id", "grow"} =>
                (Unnamed(chunks[b], u) => Unnamed(chunks'[b], u))
           /\ \A s \in Serial : s # mine[t] \/ pc[t] \notin {"serial", "grow"} =>
                (Unplaced(chunks[b], s) => Unplaced(chunks'[b], s))
    BY <1>8, AddingPlaces
  <2>3. ASSUME NEW u \in Thread, pc[u] \in Adding
        PROVE  on[u] \in Arena /\ mine[u] \in Serial /\ Len(chunks[on[u]]) \in Nat
    BY <1>0, <2>3, InArena DEF ThreadInv, Adding
  <2>4. ASSUME NEW u \in Thread, u # t
        PROVE  /\ pc'[u] \in Unlisted => Unnamed(chunks'[on'[u]], u)
               /\ pc'[u] \in Unlisted \cup {"serial"} => \A a \in Arena : Unplaced(chunks'[a], mine'[u])
               /\ pc'[u] = "done" => Placed(chunks'[on'[u]], u, mine'[u])
    <3>1. CASE pc[u] \notin Adding
      BY <2>1, <2>4, <3>1 DEF Adding, Unlisted, Others
    <3>2. CASE pc[u] \in Adding
      <4>1. pc'[u] = pc[u] /\ on[u] \in Arena /\ mine[u] \in Serial /\ Len(chunks[on[u]]) \in Nat
        BY <2>1, <2>3, <2>4, <3>2 DEF Others
      <4>2. mine[u] # mine[t] /\ mine[u] # NoSerial
        BY <1>0, <2>4, <4>1 DEF ThreadInv
      <4>3. pc[u] = "done" => Placed(chunks'[on[u]], u, mine[u])
        BY <1>0, <2>1, <4>1, <4>2, PlacedStays DEF AddInv
      <4>4. /\ pc[u] \in Unlisted => Unnamed(chunks'[on[u]], u)
            /\ pc[u] \in Unlisted \cup {"serial"} => \A a \in Arena : Unplaced(chunks'[a], mine[u])
        BY <1>0, <2>2, <2>4, <4>1, <4>2 DEF AddInv
      <4> QED BY <2>1, <4>1, <4>3, <4>4
    <3> QED BY <3>1, <3>2
  <2>5. /\ pc[t] \in Adding /\ on[t] \in Arena /\ mine[t] \in Serial
        /\ pc[t] \in Unlisted => Unnamed(chunks[on[t]], t)
        /\ pc[t] \in Unlisted \cup {"serial"} => \A a \in Arena : Unplaced(chunks[a], mine[t])
    BY <1>0, <1>8, <2>3, AddingFrame DEF AddInv
  <2>6. CASE LoadHead(t) \/ Reserve(t) \/ WriteBack(t) \/ Lock(t) \/ Refetch(t)
    <3>1. pc[t] \in Unlisted \ {"id", "grow", "serial"} /\ pc'[t] \in Unlisted
      BY <1>0, <2>6 DEF LoadHead, Reserve, WriteBack, Lock, Refetch, Goto, TypeOK, Unlisted
    <3> QED BY <2>1, <2>2, <2>4, <2>5, <3>1 DEF AddInv, Unlisted
  <2>7. CASE StoreId(t)
    <3>1. pc[t] = "id" /\ pc'[t] = "serial"
      BY <1>0, <2>7 DEF StoreId, Goto, TypeOK
    <3> QED BY <2>1, <2>2, <2>4, <2>5, <3>1 DEF AddInv, Unlisted
  <2>8. CASE StoreSerial(t)
    <3>1. PICK a, h, k : a = on[t] /\ h = head[t] /\ k = slot[t]
      OBVIOUS
    <3>2. /\ h \in 1..Len(chunks[a]) /\ k \in 1..Cap(chunks[a], h)
          /\ Len(chunks'[a]) = Len(chunks[a]) /\ Cap(chunks'[a], h) = Cap(chunks[a], h)
          /\ SerOf(chunks'[a], h, k) = mine[t]
          /\ IdOf(chunks'[a], h, k) = IdOf(chunks[a], h, k)
      BY <2>8, <3>1, StoreSerialEffect
    <3>3. IdOf(chunks[a], h, k) = t
      BY <2>8, <3>1 DEF StoreSerial, IInv, SlotInv, SlotOK
    <3>4. Placed(chunks'[a], t, mine[t])
      BY <3>2, <3>3 DEF Placed
    <3>5. pc'[t] = "done"
      BY <1>0, <2>8 DEF StoreSerial, Goto, TypeOK
    <3> QED BY <2>1, <2>4, <3>1, <3>4, <3>5 DEF AddInv, Unlisted
  <2>9. CASE Grow(t)
    <3>1. PICK a, n : a = on[t] /\ n = Len(chunks[a]) + 1
      OBVIOUS
    <3>2. HasNewChunk(chunks'[a], chunks[a], t, mine[t])
      BY <2>9, <3>1, GrowEffect
    <3>3. n \in 1..Len(chunks'[a]) /\ 1 \in 1..Cap(chunks'[a], n)
      <4>1. IsList(chunks'[a]) /\ Len(chunks'[a]) = n /\ n \in Nat \ {0}
        BY <2>3, <2>5, <3>1, <3>2 DEF HasNewChunk
      <4>2. Cap(chunks'[a], n) \in 1..kMaxBytes
        BY <4>1, ListParts
      <4> QED BY <4>1, <4>2, MaxBytesNat
    <3>4. Placed(chunks'[a], t, mine[t])
      BY <3>1, <3>2, <3>3 DEF Placed, HasNewChunk
    <3>5. pc'[t] = "done"
      BY <1>0, <2>9 DEF Grow, Goto, TypeOK
    <3> QED BY <2>1, <2>4, <3>1, <3>4, <3>5 DEF AddInv, Unlisted
  <2> QED BY <1>8, <2>6, <2>7, <2>8, <2>9
<1>9. CASE UNCHANGED vars
  BY <1>0, <1>9 DEF vars, AddInv
<1> QED
  BY <1>1, <1>2, <1>3, <1>4, <1>5, <1>6, <1>7, <1>8, <1>9
  DEF Next, GetSerialArena, Step

-------------------------------------------------------------------------------
(* The invariant is preserved: the mutex. *)

Holding == {"reserve", "full", "id", "serial", "refetch", "grow", "done"}

\* A step of a thread that neither holds the mutex nor needs it.
LEMMA MutexIdle ==
  ASSUME IInv, NEW t \in Thread, Others(t), mutex' = mutex, chunks' = chunks,
         pc[t] \notin Holding, pc'[t] \notin {"refetch", "grow"}
  PROVE  MutexInv'
<1>1. mutex \in [Arena -> Thread \cup {NoThread}]
  BY DEF IInv, TypeOK
<1> QED BY <1>1 DEF IInv, MutexInv, Others, Holding

LEMMA MutexInit == Init => MutexInv
BY DEF Init, MutexInv

LEMMA MutexStep ==
  ASSUME IInv, [Next]_vars
  PROVE  MutexInv'
<1>0. TypeOK /\ ThreadInv /\ MutexInv
  BY DEF IInv
<1>m. \A a \in Arena : mutex[a] # NoThread => mutex[a] \in Thread
  BY <1>0 DEF TypeOK
<1> USE DEF globals, caches, walk
<1>1. ASSUME NEW t \in Managers, NEW a \in Arena,
             Create(t, a) \/ Reset(t, a) \/ Destroy(t, a)
      PROVE  MutexInv'
  <2>1. Renewed(t, a)
    BY <1>1, RolesOK, Renewal
  <2>2. /\ UNCHANGED <<mutex, pc, on, head>>
        /\ \A b \in Arena : b # a => chunks'[b] = chunks[b]
        /\ \A u \in Thread : on[u] # a
    BY <2>1 DEF Renewed, Quiet
  <2>3. mutex[a] = NoThread
    BY <1>0, <1>m, <2>2 DEF MutexInv
  <2> QED BY <1>0, <1>m, <2>2, <2>3 DEF MutexInv
<1>2. ASSUME NEW t \in Thread, ThreadExit(t)
      PROVE  MutexInv'
  BY <1>0, <1>2 DEF ThreadExit, MutexInv
<1>3. ASSUME NEW t \in Thread, NEW a \in Arena,
             GetSerialArenaFast(t, a) \/ GetFirstArena(t, a) \/ GetListedArena(t, a)
      PROVE  MutexInv'
  <2>1. PICK s : Entered(t, a, s)
    BY <1>3, Entering
  <2>2. /\ Others(t) /\ chunks' = chunks /\ mutex' = mutex
        /\ pc[t] = "idle" /\ pc'[t] = "using"
    BY <1>0, <2>1 DEF Entered, Others, TypeOK
  <2> QED BY <2>2, MutexIdle DEF Holding
<1>4. ASSUME NEW t \in Thread, NEW a \in Arena, NewSerialArena(t, a)
      PROVE  MutexInv'
  <2>1. /\ Others(t) /\ chunks' = chunks /\ mutex' = mutex
        /\ pc[t] = "idle" /\ pc'[t] = "add"
    BY <1>0, <1>4 DEF NewSerialArena, Miss, Others, TypeOK
  <2> QED BY <2>1, MutexIdle DEF Holding
<1>5. ASSUME NEW t \in Walkers, NEW a \in Arena, SpaceAllocated(t, a)
      PROVE  MutexInv'
  <2>1. /\ t \in Thread /\ Others(t) /\ chunks' = chunks /\ mutex' = mutex
        /\ pc[t] = "idle" /\ pc'[t] = "walk"
    BY <1>0, <1>5, RolesOK DEF SpaceAllocated, Goto, Others, TypeOK
  <2> QED BY <2>1, MutexIdle DEF Holding
<1>6. ASSUME NEW t \in Thread, Leave(t)
      PROVE  MutexInv'
  <2>1. /\ Others(t) /\ chunks' = chunks /\ mutex' = mutex
        /\ pc[t] = "using" /\ pc'[t] = "idle"
    BY <1>0, <1>6 DEF Leave, Goto, Others, TypeOK
  <2> QED BY <2>1, MutexIdle DEF Holding
<1>7. ASSUME NEW t \in Thread, WalkChunk(t) \/ WalkSlot(t) \/ WalkEnd(t)
      PROVE  MutexInv'
  <2>1. Others(t) /\ chunks' = chunks /\ mutex' = mutex /\ pc[t] \in {"walk", "slots"}
    BY <1>0, <1>7, WalkFrame
  <2>2. pc'[t] \in {"walk", "slots", "idle"}
    BY <1>0, <1>7 DEF WalkChunk, WalkSlot, WalkEnd, Goto, TypeOK
  <2> QED BY <2>1, <2>2, MutexIdle DEF Holding
<1>8. ASSUME NEW t \in Thread, LoadHead(t)
      PROVE  MutexInv'
  <2>1. /\ Others(t) /\ chunks' = chunks /\ mutex' = mutex
        /\ pc[t] = "add" /\ pc'[t] \in {"lock", "reserve"}
    BY <1>0, <1>8 DEF LoadHead, Goto, Others, TypeOK
  <2> QED BY <2>1, MutexIdle DEF Holding
<1>9. ASSUME NEW t \in Thread, Lock(t)
      PROVE  MutexInv'
  <2>1. PICK a : a = on[t]
    OBVIOUS
  <2>2. /\ Others(t) /\ UNCHANGED <<on, head, chunks>> /\ a \in Arena
        /\ pc[t] = "lock" /\ pc'[t] = "refetch" /\ mutex[a] = NoThread
        /\ \A b \in Arena : mutex'[b] = IF b = a THEN t ELSE mutex[b]
    BY <1>0, <1>9, <2>1, AddingFrame, InArena DEF Lock, Goto, TypeOK
  <2>3. ASSUME NEW b \in Arena, mutex'[b] # NoThread
        PROVE  /\ on'[mutex'[b]] = b /\ pc'[mutex'[b]] \in Holding
               /\ pc'[mutex'[b]] \in {"reserve", "full", "grow"} =>
                    head'[mutex'[b]] = Len(chunks'[b])
    <3>1. CASE b = a
      BY <2>1, <2>2, <3>1 DEF Holding
    <3>2. CASE b # a
      <4>1. mutex'[b] = mutex[b] /\ mutex[b] \in Thread /\ mutex[b] # t
        BY <1>0, <1>m, <2>1, <2>2, <2>3, <3>2 DEF MutexInv
      <4> QED BY <1>0, <2>2, <2>3, <4>1 DEF MutexInv, Others, Holding
    <3> QED BY <3>1, <3>2
  <2>4. ASSUME NEW u \in Thread, pc'[u] \in {"refetch", "grow"}
        PROVE  mutex'[on'[u]] = u
    <3>1. CASE u = t
      BY <2>1, <2>2, <3>1
    <3>2. CASE u # t
      <4>1. pc[u] = pc'[u] /\ on'[u] = on[u] /\ on[u] \in Arena /\ mutex[on[u]] = u
        BY <1>0, <2>2, <2>4, <3>2, InArena DEF MutexInv, Others
      <4> QED BY <2>2, <4>1
    <3> QED BY <3>1, <3>2
  <2> QED BY <2>3, <2>4 DEF MutexInv, Holding
<1>10. ASSUME NEW t \in Thread,
              Reserve(t) \/ WriteBack(t) \/ StoreId(t) \/ StoreSerial(t) \/ Refetch(t)
       PROVE  MutexInv'
  <2>1. PICK a : a = on[t]
    OBVIOUS
  <2>2. /\ Others(t) /\ UNCHANGED <<on, mutex>> /\ a \in Arena
    BY <1>0, <1>10, <2>1, AddingFrame, InArena
    DEF Reserve, WriteBack, StoreId, StoreSerial, Refetch
  <2>3. \A b \in Arena : Len(chunks'[b]) = Len(chunks[b])
    <3>1. CASE Refetch(t)
      BY <3>1 DEF Refetch
    <3>2. CASE ~Refetch(t)
      <4>1. OneListChanges(a) /\ Len(chunks'[a]) = Len(chunks[a])
        BY <1>10, <2>1, <3>2, ReserveEffect, WriteBackEffect, StoreIdEffect, StoreSerialEffect
      <4> QED BY <4>1 DEF OneListChanges
    <3> QED BY <3>1, <3>2
  <2>4. /\ pc'[t] \in Holding \/ mutex[a] # t
        /\ pc'[t] \in {"refetch", "grow"} => mutex[a] = t
        /\ mutex[a] = t /\ pc'[t] \in {"reserve", "full", "grow"} => head'[t] = Len(chunks[a])
    <3>1. CASE Reserve(t)
      <4>1. pc[t] = "reserve" /\ pc'[t] \in {"id", "full"} /\ head'[t] = head[t]
        BY <1>0, <3>1 DEF Reserve, Goto, TypeOK
      <4>2. mutex[a] = t => head[t] = Len(chunks[a])
        BY <1>0, <2>2, <4>1 DEF MutexInv
      <4> QED BY <4>1, <4>2 DEF Holding
    <3>2. CASE WriteBack(t)
      <4>1. /\ pc[t] = "full" /\ head'[t] = head[t]
            /\ pc'[t] = IF mutex[a] = t THEN "grow" ELSE "lock"
        BY <1>0, <2>1, <3>2 DEF WriteBack, Goto, TypeOK
      <4>2. mutex[a] = t => head[t] = Len(chunks[a])
        BY <1>0, <2>2, <4>1 DEF MutexInv
      <4> QED BY <4>1, <4>2 DEF Holding
    <3>3. CASE StoreId(t) \/ StoreSerial(t)
      BY <1>0, <3>3 DEF StoreId, StoreSerial, Goto, TypeOK, Holding
    <3>4. CASE Refetch(t)
      <4>1. /\ pc[t] = "refetch" /\ head'[t] = Len(chunks[a])
            /\ pc'[t] \in {"reserve", "grow"}
        BY <1>0, <2>1, <3>4 DEF Refetch, Goto, TypeOK
      <4>2. mutex[a] = t
        BY <1>0, <2>1, <4>1 DEF MutexInv
      <4> QED BY <4>1, <4>2 DEF Holding
    <3> QED BY <1>10, <3>1, <3>2, <3>3, <3>4
  <2>5. ASSUME NEW b \in Arena, mutex[b] # NoThread
        PROVE  /\ on'[mutex[b]] = b /\ pc'[mutex[b]] \in Holding
               /\ pc'[mutex[b]] \in {"reserve", "full", "grow"} =>
                    head'[mutex[b]] = Len(chunks'[b])
    <3>1. mutex[b] \in Thread /\ on[mutex[b]] = b
      BY <1>0, <1>m, <2>5 DEF MutexInv
    <3>2. CASE mutex[b] = t
      BY <2>1, <2>2, <2>3, <2>4, <3>1, <3>2
    <3>3. CASE mutex[b] # t
      BY <1>0, <2>2, <2>3, <2>5, <3>1, <3>3 DEF MutexInv, Others, Holding
    <3> QED BY <3>2, <3>3
  <2>6. ASSUME NEW u \in Thread, pc'[u] \in {"refetch", "grow"}
        PROVE  mutex[on[u]] = u
    <3>1. CASE u = t
      BY <2>1, <2>4, <2>6, <3>1
    <3>2. CASE u # t
      BY <1>0, <2>2, <2>6, <3>2 DEF MutexInv, Others
    <3> QED BY <3>1, <3>2
  <2> QED BY <2>2, <2>5, <2>6 DEF MutexInv, Holding
<1>11. ASSUME NEW t \in Thread, Grow(t)
       PROVE  MutexInv'
  <2>1. PICK a : a = on[t]
    OBVIOUS
  <2>2. /\ Others(t) /\ UNCHANGED <<on, mutex, head>> /\ a \in Arena /\ mutex[a] = t
        /\ pc'[t] = "done" /\ OneListChanges(a)
    <3>1. Others(t) /\ UNCHANGED on
      BY <1>0, <1>11, AddingFrame
    <3>2. a \in Arena /\ mutex[a] = t /\ OneListChanges(a)
      BY <1>11, <2>1, GrowEffect
    <3>3. UNCHANGED <<mutex, head>> /\ pc'[t] = "done"
      BY <1>0, <1>11 DEF Grow, Goto, TypeOK
    <3> QED BY <3>1, <3>2, <3>3
  <2>3. ASSUME NEW b \in Arena, mutex[b] # NoThread
        PROVE  /\ on'[mutex[b]] = b /\ pc'[mutex[b]] \in Holding
               /\ pc'[mutex[b]] \in {"reserve", "full", "grow"} =>
                    head'[mutex[b]] = Len(chunks'[b])
    <3>1. mutex[b] \in Thread /\ on[mutex[b]] = b
      BY <1>0, <1>m, <2>3 DEF MutexInv
    <3>2. CASE mutex[b] = t
      BY <2>1, <2>2, <3>1, <3>2 DEF Holding
    <3>3. CASE mutex[b] # t
      <4>1. chunks'[b] = chunks[b]
        BY <2>2, <3>3 DEF OneListChanges
      <4> QED BY <1>0, <2>2, <2>3, <3>1, <3>3, <4>1 DEF MutexInv, Others, Holding
    <3> QED BY <3>2, <3>3
  <2>4. ASSUME NEW u \in Thread, pc'[u] \in {"refetch", "grow"}
        PROVE  mutex[on[u]] = u
    BY <1>0, <2>2, <2>4 DEF MutexInv, Others
  <2> QED BY <2>2, <2>3, <2>4 DEF MutexInv, Holding
<1>12. ASSUME NEW t \in Thread, FinishAdd(t)
       PROVE  MutexInv'
  <2>1. PICK a : a = on[t]
    OBVIOUS
  <2>2. /\ a \in Arena /\ Others(t) /\ chunks' = chunks /\ pc'[t] = "using"
        /\ \A b \in Arena : mutex'[b] = IF b = a /\ mutex[b] = t THEN NoThread ELSE mutex[b]
    BY <1>0, <1>12, <2>1, InArena
    DEF FinishAdd, AllocateFrom, CacheSerialArena, Others, TypeOK
  <2>3. ASSUME NEW b \in Arena, mutex'[b] # NoThread
        PROVE  mutex'[b] = mutex[b] /\ mutex[b] \in Thread \ {t}
    BY <1>0, <1>m, <2>1, <2>2, <2>3 DEF MutexInv
  <2>4. ASSUME NEW u \in Thread, pc'[u] \in {"refetch", "grow"}
        PROVE  mutex'[on'[u]] = u
    <3>1. u # t /\ pc[u] = pc'[u] /\ on'[u] = on[u] /\ on[u] \in Arena
      BY <2>2, <2>4, InArena DEF Others
    <3>2. mutex[on[u]] = u
      BY <1>0, <2>4, <3>1 DEF MutexInv
    <3> QED BY <2>2, <3>1, <3>2
  <2> QED BY <1>0, <2>2, <2>3, <2>4 DEF MutexInv, Others
<1>13. CASE UNCHANGED vars
  BY <1>0, <1>13 DEF vars, MutexInv
<1> QED
  BY <1>1, <1>2, <1>3, <1>4, <1>5, <1>6, <1>7, <1>8, <1>9, <1>10, <1>11, <1>12, <1>13
  DEF Next, GetSerialArena, Step

-------------------------------------------------------------------------------
(* The invariant is preserved: every SerialArena has its place. *)

LEMMA UnplacedBefore ==
  ASSUME NEW q, NEW r, Grows(q, r), Len(q) \in Nat,
         NEW s, s # NoSerial, Unplaced(r, s)
  PROVE  Unplaced(q, s)
<1>1. Len(r) \in Nat /\ Len(r) >= Len(q)
  BY ListParts DEF Grows
<1> QED BY <1>1 DEF Grows, Unplaced

\* The lists only grow, and whoever has a SerialArena to add still has it,
\* unless it is in the list now.
LEMMA ParentKept ==
  ASSUME IInv, parent' = parent,
         \A b \in Arena : Grows(chunks[b], chunks'[b]),
         \A u \in Thread : mine[u] # NoSerial /\ pc[u] # "done" =>
           /\ mine'[u] = mine[u] /\ on'[u] = on[u]
           /\ pc'[u] = "done" => Placed(chunks'[on[u]], u, mine[u])
  PROVE  ParentInv'
<1> SUFFICES ASSUME NEW s \in Serial, parent[s] # NoArena
             PROVE  \/ \E t \in Thread : mine'[t] = s /\ on'[t] = parent[s] /\ pc'[t] # "done"
                    \/ ~Unplaced(chunks'[parent[s]], s)
  BY DEF ParentInv
<1>1. parent[s] \in Arena
  BY DEF IInv, TypeOK
<1>2. CASE \E t \in Thread : mine[t] = s /\ on[t] = parent[s] /\ pc[t] # "done"
  <2>1. PICK t \in Thread : mine[t] = s /\ on[t] = parent[s] /\ pc[t] # "done"
    BY <1>2
  <2>2. CASE pc'[t] = "done"
    BY <2>1, <2>2 DEF Placed, Unplaced
  <2> QED BY <2>1, <2>2
<1>3. CASE ~Unplaced(chunks[parent[s]], s)
  <2>1. Len(chunks[parent[s]]) \in Nat
    BY <1>1, ListsType, ListParts DEF IInv, ListsOK
  <2> QED BY <1>1, <1>3, <2>1, UnplacedBefore
<1> QED BY <1>2, <1>3 DEF IInv, ParentInv

LEMMA NothingToAdd ==
  ASSUME IInv, NEW t \in Thread, pc[t] \in {"idle", "using", "walk", "slots"}
  PROVE  mine[t] = NoSerial
BY DEF IInv, ThreadInv, Adding

LEMMA ParentsInit == Init => ParentInv
BY DEF Init, ParentInv

LEMMA ParentsStep ==
  ASSUME IInv, [Next]_vars
  PROVE  ParentInv'
<1>0. TypeOK /\ ThreadInv /\ ParentInv
  BY DEF IInv
<1>a. AddInv'
  BY AddsStep
<1>g. ASSUME chunks' = chunks PROVE \A b \in Arena : Grows(chunks[b], chunks'[b])
  BY <1>0, <1>g, GrowsItself, ListsType DEF ListsOK
<1> USE DEF globals, caches, walk
<1>1. ASSUME NEW t \in Managers, NEW a \in Arena,
             Create(t, a) \/ Reset(t, a) \/ Destroy(t, a)
      PROVE  ParentInv'
  <2>1. Renewed(t, a)
    BY <1>1, RolesOK, Renewal
  <2>2. UNCHANGED <<mine, on, pc>> /\ \A b \in Arena : b # a => chunks'[b] = chunks[b]
    BY <2>1 DEF Renewed
  <2>3. \A s \in Serial : parent'[s] = IF parent[s] = a THEN NoArena ELSE parent[s]
    BY <2>1 DEF Renewed
  <2>4. parent \in [Serial -> Arena \cup {NoArena}]
    BY <1>0 DEF TypeOK
  <2> QED BY <1>0, <2>2, <2>3, <2>4 DEF ParentInv
<1>2. ASSUME NEW t \in Thread, ThreadExit(t)
      PROVE  ParentInv'
  BY <1>0, <1>2 DEF ThreadExit, ParentInv
<1>3. ASSUME NEW t \in Thread, NEW a \in Arena,
             GetSerialArenaFast(t, a) \/ GetFirstArena(t, a) \/ GetListedArena(t, a)
      PROVE  ParentInv'
  <2>1. PICK s : Entered(t, a, s)
    BY <1>3, Entering
  <2>2. Others(t) /\ UNCHANGED <<chunks, parent, mine>> /\ pc[t] = "idle"
    BY <1>0, <2>1 DEF Entered, Others, TypeOK
  <2> QED BY <1>g, <2>2, NothingToAdd, ParentKept DEF Others
<1>4. ASSUME NEW t \in Thread, NEW a \in Arena, NewSerialArena(t, a)
      PROVE  ParentInv'
  <2>1. PICK s \in Serial : /\ parent[s] = NoArena
                            /\ parent' = [parent EXCEPT ![s] = a]
                            /\ mine' = [mine EXCEPT ![t] = s]
    BY <1>4 DEF NewSerialArena
  <2>2. /\ Others(t) /\ chunks' = chunks /\ pc'[t] = "add" /\ on'[t] = a
        /\ mine'[t] = s /\ pc[t] = "idle"
        /\ \A r \in Serial : parent'[r] = IF r = s THEN a ELSE parent[r]
    BY <1>0, <1>4, <2>1 DEF NewSerialArena, Miss, Others, TypeOK
  <2>3. ASSUME NEW r \in Serial, r # s, parent[r] # NoArena
        PROVE  \/ \E u \in Thread : mine'[u] = r /\ on'[u] = parent[r] /\ pc'[u] # "done"
               \/ ~Unplaced(chunks[parent[r]], r)
    BY <1>0, <2>2, <2>3, NothingToAdd DEF ParentInv, Others
  <2> QED BY <2>2, <2>3 DEF ParentInv
<1>5. ASSUME NEW t \in Walkers, NEW a \in Arena, SpaceAllocated(t, a)
      PROVE  ParentInv'
  <2>1. t \in Thread /\ Others(t) /\ UNCHANGED <<chunks, parent, mine>> /\ pc[t] = "idle"
    BY <1>0, <1>5, RolesOK DEF SpaceAllocated, Goto, Others, TypeOK
  <2> QED BY <1>g, <2>1, NothingToAdd, ParentKept DEF Others
<1>6. ASSUME NEW t \in Thread, FinishAdd(t)
      PROVE  ParentInv'
  <2>1. Others(t) /\ UNCHANGED <<chunks, parent>> /\ pc[t] = "done"
    BY <1>0, <1>6 DEF FinishAdd, AllocateFrom, CacheSerialArena, Others, TypeOK
  <2>2. \A u \in Thread : u # t => pc[u] = pc'[u]
    BY <2>1 DEF Others
  <2> QED BY <1>g, <2>1, <2>2, ParentKept DEF Others
<1>7. ASSUME NEW t \in Thread,
             Leave(t) \/ WalkChunk(t) \/ WalkSlot(t) \/ WalkEnd(t)
      PROVE  ParentInv'
  <2>1. /\ Others(t) /\ UNCHANGED <<chunks, parent, mine>>
        /\ pc[t] \in {"using", "walk", "slots"}
    <3>1. CASE Leave(t)
      BY <1>0, <3>1 DEF Leave, Goto, Others, TypeOK
    <3>2. CASE ~Leave(t)
      BY <1>0, <1>7, <3>2, WalkFrame
    <3> QED BY <3>1, <3>2
  <2> QED BY <1>g, <2>1, NothingToAdd, ParentKept DEF Others
<1>8. ASSUME NEW t \in Thread,
             \/ LoadHead(t) \/ Reserve(t) \/ WriteBack(t) \/ StoreId(t) \/ StoreSerial(t)
             \/ Lock(t) \/ Refetch(t) \/ Grow(t)
      PROVE  ParentInv'
  <2>1. /\ UNCHANGED <<parent, on, mine>>
        /\ \A b \in Arena : Grows(chunks[b], chunks'[b])
    BY <1>0, <1>8, AddingFrame, AddingGrows
  <2>2. \A u \in Thread : pc'[u] = "done" => Placed(chunks'[on[u]], u, mine[u])
    BY <1>a, <2>1 DEF AddInv
  <2> QED BY <2>1, <2>2, ParentKept
<1>9. CASE UNCHANGED vars
  BY <1>0, <1>9 DEF vars, ParentInv
<1> QED
  BY <1>1, <1>2, <1>3, <1>4, <1>5, <1>6, <1>7, <1>8, <1>9
  DEF Next, GetSerialArena, Step

-------------------------------------------------------------------------------
(* The invariant is preserved: the caches. *)

LEMMA OwnsStays ==
  ASSUME NEW q, NEW r, Grows(q, r), Len(q) \in Nat,
         NEW f, NEW a, NEW t \in Thread, NEW s, Owns(f, q, a, t, s)
  PROVE  Owns(f, r, a, t, s)
BY PlacedStays DEF Owns

\* The lists only grow, no id and no cache changes, and no thread gets its
\* SerialArena.
LEMMA CacheKept ==
  ASSUME IInv, \A b \in Arena : Grows(chunks[b], chunks'[b]),
         UNCHANGED <<tag, firstOwner, seenId, lastSerial>>,
         \A u \in Thread : pc'[u] = "using" =>
           pc[u] = "using" /\ on'[u] = on[u] /\ got'[u] = got[u]
  PROVE  CacheInv'
<1>1. \A b \in Arena : Len(chunks[b]) \in Nat
  BY ListsType, ListParts DEF IInv, ListsOK
<1>2. ASSUME NEW u \in Thread, NEW b \in Arena, tag[b] # NoId, seenId[u] = tag[b]
      PROVE  Owns(firstOwner[b], chunks'[b], b, u, lastSerial[u])
  BY <1>1, <1>2, OwnsStays DEF IInv, CacheInv
<1>3. ASSUME NEW u \in Thread, pc'[u] = "using"
      PROVE  Owns(firstOwner[on[u]], chunks'[on[u]], on[u], u, got[u])
  <2>1. pc[u] = "using" /\ on[u] \in Arena
    BY <1>3, InArena
  <2>2. Owns(firstOwner[on[u]], chunks[on[u]], on[u], u, got[u])
    BY <2>1 DEF IInv, CacheInv
  <2> QED BY <1>1, <2>1, <2>2, OwnsStays
<1> QED BY <1>2, <1>3 DEF CacheInv

LEMMA CachesInit == Init => CacheInv
BY DEF Init, CacheInv

LEMMA CachesStep ==
  ASSUME IInv, [Next]_vars
  PROVE  CacheInv'
<1>0. TypeOK /\ ThreadInv /\ IdInv /\ CacheInv
  BY DEF IInv
<1>g. ASSUME chunks' = chunks PROVE \A b \in Arena : Grows(chunks[b], chunks'[b])
  BY <1>0, <1>g, GrowsItself, ListsType DEF ListsOK
<1> USE DEF globals, caches, walk
<1>1. ASSUME NEW t \in Managers, NEW a \in Arena,
             Create(t, a) \/ Reset(t, a) \/ Destroy(t, a)
      PROVE  CacheInv'
  <2>1. Renewed(t, a)
    BY <1>1, RolesOK, Renewal
  <2>2. /\ UNCHANGED <<pc, on, got>> /\ \A u \in Thread : on[u] # a
        /\ \A b \in Arena : b # a => /\ chunks'[b] = chunks[b] /\ tag'[b] = tag[b]
                                     /\ firstOwner'[b] = firstOwner[b]
    BY <2>1 DEF Renewed, Quiet
  <2>3. ASSUME NEW u \in Thread, NEW b \in Arena, tag'[b] # NoId, seenId'[u] = tag'[b]
        PROVE  Owns(firstOwner'[b], chunks'[b], b, u, lastSerial'[u])
    <3>1. CASE b = a
      BY <2>1, <2>3, <3>1 DEF Renewed, Owns
    <3>2. CASE b # a
      <4>1. seenId'[u] = seenId[u] /\ lastSerial'[u] = lastSerial[u]
        BY <2>1, <2>3, <3>2 DEF Renewed
      <4> QED BY <1>0, <2>2, <2>3, <3>2, <4>1 DEF CacheInv
    <3> QED BY <3>1, <3>2
  <2>4. ASSUME NEW u \in Thread, pc[u] = "using"
        PROVE  Owns(firstOwner'[on[u]], chunks'[on[u]], on[u], u, got[u])
    <3>1. on[u] \in Arena /\ on[u] # a
      BY <2>2, <2>4, InArena
    <3> QED BY <1>0, <2>2, <2>4, <3>1 DEF CacheInv
  <2> QED BY <2>2, <2>3, <2>4 DEF CacheInv
<1>2. ASSUME NEW t \in Thread, ThreadExit(t)
      PROVE  CacheInv'
  <2>1. /\ UNCHANGED <<tag, firstOwner, chunks, pc, on, got>> /\ seenId'[t] = NoId
        /\ \A u \in Thread : u # t => seenId'[u] = seenId[u] /\ lastSerial'[u] = lastSerial[u]
    BY <1>0, <1>2 DEF ThreadExit, TypeOK
  <2> QED BY <1>0, <2>1 DEF CacheInv
<1>3. ASSUME NEW t \in Thread, NEW a \in Arena,
             GetSerialArenaFast(t, a) \/ GetFirstArena(t, a) \/ GetListedArena(t, a)
      PROVE  CacheInv'
  <2>1. PICK s : Entered(t, a, s)
    BY <1>3, Entering
  <2>2. /\ UNCHANGED <<tag, firstOwner, chunks>> /\ Others(t) /\ tag[a] # NoId
        /\ on'[t] = a /\ got'[t] = s /\ seenId'[t] = tag[a] /\ lastSerial'[t] = s
        /\ Owns(firstOwner[a], chunks[a], a, t, s)
    BY <1>0, <2>1 DEF Entered, Owned, Others, TypeOK
  <2>3. \A b \in Arena : tag[b] = tag[a] => b = a
    BY <1>0, <2>2 DEF IdInv
  <2> QED BY <1>0, <2>2, <2>3 DEF CacheInv, Others
<1>4. ASSUME NEW t \in Thread, NEW a \in Arena, NewSerialArena(t, a)
      PROVE  CacheInv'
  <2>1. /\ UNCHANGED <<tag, firstOwner, chunks, seenId, lastSerial>>
        /\ Others(t) /\ pc'[t] = "add"
    BY <1>0, <1>4 DEF NewSerialArena, Others, TypeOK
  <2> QED BY <1>g, <2>1, CacheKept DEF Others
<1>5. ASSUME NEW t \in Walkers, NEW a \in Arena, SpaceAllocated(t, a)
      PROVE  CacheInv'
  <2>1. /\ UNCHANGED <<tag, firstOwner, chunks, seenId, lastSerial>>
        /\ t \in Thread /\ Others(t) /\ pc'[t] = "walk"
    BY <1>0, <1>5, RolesOK DEF SpaceAllocated, Goto, Others, TypeOK
  <2> QED BY <1>g, <2>1, CacheKept DEF Others
<1>6. ASSUME NEW t \in Thread, FinishAdd(t)
      PROVE  CacheInv'
  <2>1. PICK a, s : a = on[t] /\ s = mine[t]
    OBVIOUS
  <2>2. /\ UNCHANGED <<tag, firstOwner, chunks>> /\ Others(t) /\ pc[t] = "done"
        /\ on'[t] = a /\ got'[t] = s /\ seenId'[t] = tag[a] /\ lastSerial'[t] = s
    BY <1>0, <1>6, <2>1 DEF FinishAdd, AllocateFrom, CacheSerialArena, Others, TypeOK
  <2>3. /\ a \in Arena /\ tag[a] # NoId /\ firstOwner[a] # t /\ s \in Serial
        /\ Placed(chunks[a], t, s)
    <3>1. Placed(chunks[a], t, s)
      BY <2>1, <2>2 DEF IInv, AddInv
    <3> QED BY <1>0, <2>1, <2>2, <3>1 DEF ThreadInv, Adding
  <2>4. Owns(firstOwner[a], chunks[a], a, t, s)
    BY <2>3 DEF Owns
  <2>5. \A b \in Arena : tag[b] = tag[a] => b = a
    BY <1>0, <2>3 DEF IdInv
  <2> QED BY <1>0, <2>2, <2>4, <2>5 DEF CacheInv, Others
<1>7. ASSUME NEW t \in Thread, Leave(t)
      PROVE  CacheInv'
  <2>1. /\ UNCHANGED <<tag, firstOwner, chunks, seenId, lastSerial>>
        /\ Others(t) /\ pc'[t] = "idle"
    BY <1>0, <1>7 DEF Leave, Goto, Others, TypeOK
  <2> QED BY <1>g, <2>1, CacheKept DEF Others
<1>8. ASSUME NEW t \in Thread, WalkChunk(t) \/ WalkSlot(t) \/ WalkEnd(t)
      PROVE  CacheInv'
  <2>1. /\ UNCHANGED <<tag, firstOwner, chunks, seenId, lastSerial>> /\ Others(t)
    BY <1>0, <1>8, WalkFrame
  <2>2. pc'[t] \in {"walk", "slots", "idle"}
    BY <1>0, <1>8 DEF WalkChunk, WalkSlot, WalkEnd, Goto, TypeOK
  <2> QED BY <1>g, <2>1, <2>2, CacheKept DEF Others
<1>9. ASSUME NEW t \in Thread,
             \/ LoadHead(t) \/ Reserve(t) \/ WriteBack(t) \/ StoreId(t) \/ StoreSerial(t)
             \/ Lock(t) \/ Refetch(t) \/ Grow(t)
      PROVE  CacheInv'
  <2>1. /\ UNCHANGED <<tag, firstOwner, seenId, lastSerial>> /\ Others(t)
        /\ \A b \in Arena : Grows(chunks[b], chunks'[b])
    BY <1>0, <1>9, AddingFrame, AddingGrows
  <2>2. pc'[t] # "using"
    BY <1>0, <1>9
    DEF LoadHead, Reserve, WriteBack, StoreId, StoreSerial, Lock, Refetch, Grow, Goto, TypeOK
  <2> QED BY <2>1, <2>2, CacheKept DEF Others
<1>10. CASE UNCHANGED vars
  BY <1>0, <1>10 DEF vars, CacheInv
<1> QED
  BY <1>1, <1>2, <1>3, <1>4, <1>5, <1>6, <1>7, <1>8, <1>9, <1>10
  DEF Next, GetSerialArena, Step

-------------------------------------------------------------------------------
(* The invariant is preserved: the walks. *)

\* What WalkInv says of one walk: it is over the list q of arena a, at p, in
\* chunk h, at entry k of the span that ends at l; v was counted, o is owed.
WalkOK(q, par, a, p, h, k, l, v, o) ==
  /\ StandsIn(q, p, h, k, l)
  /\ \A s \in v : s = a \/ (s \in Serial /\ par[s] = a)
  /\ \A s \in o \ v : Ahead(q, p, h, k, l, s)

LEMMA WalkIs ==
  WalkInv <=> \A t \in Thread : pc[t] \in {"walk", "slots"} =>
    WalkOK(chunks[on[t]], parent, on[t], pc[t], head[t], slot[t], limit[t], visited[t], owed[t])
BY DEF WalkInv, WalkOK

LEMMA WalkIsNext ==
  WalkInv' <=> \A t \in Thread : pc'[t] \in {"walk", "slots"} =>
    WalkOK(chunks'[on'[t]], parent', on'[t], pc'[t], head'[t], slot'[t], limit'[t],
           visited'[t], owed'[t])
BY DEF WalkInv, WalkOK

\* A walk goes on as it was over a list that grows.
LEMMA WalkKept ==
  ASSUME IInv, NEW u \in Thread, pc[u] \in {"walk", "slots"},
         NEW q, q = chunks[on[u]], NEW r, Grows(q, r),
         NEW par, \A s \in Serial : parent[s] = on[u] => par[s] = on[u]
  PROVE  WalkOK(r, par, on[u], pc[u], head[u], slot[u], limit[u], visited[u], owed[u])
<1>1. WalkOK(q, parent, on[u], pc[u], head[u], slot[u], limit[u], visited[u], owed[u])
  BY WalkIs DEF IInv
<1>2. /\ Len(q) \in Nat /\ Len(r) \in Nat /\ Len(r) >= Len(q)
      /\ head[u] \in Nat /\ limit[u] \in Nat /\ owed[u] \subseteq Serial
  BY InArena, ListParts DEF Grows, IInv, TypeOK
<1>3. StandsIn(q, pc[u], head[u], slot[u], limit[u])
  BY <1>1 DEF WalkOK
<1>4. StandsIn(r, pc[u], head[u], slot[u], limit[u])
  <2>1. CASE head[u] = 0
    BY <1>2, <1>3, <2>1 DEF StandsIn
  <2>2. CASE head[u] # 0
    <3>1. head[u] \in 1..Len(q)
      BY <1>2, <1>3, <2>2 DEF StandsIn
    <3>2. Cap(r, head[u]) = Cap(q, head[u])
      BY <3>1 DEF Grows
    <3> QED BY <1>2, <1>3, <3>1, <3>2 DEF StandsIn
  <2> QED BY <2>1, <2>2
<1>5. ASSUME NEW s \in owed[u] \ visited[u]
      PROVE  Ahead(r, pc[u], head[u], slot[u], limit[u], s)
  <2>1. PICK i \in 1..Len(q) : \E j \in 1..Cap(q, i) :
          /\ SerOf(q, i, j) = s
          /\ i < head[u] \/ (i = head[u] /\ (pc[u] = "walk" \/ (slot[u] <= j /\ j <= limit[u])))
    BY <1>1 DEF WalkOK, Ahead
  <2>2. PICK j \in 1..Cap(q, i) :
          /\ SerOf(q, i, j) = s
          /\ i < head[u] \/ (i = head[u] /\ (pc[u] = "walk" \/ (slot[u] <= j /\ j <= limit[u])))
    BY <2>1
  <2>3. s # NoSerial
    BY <1>2
  <2>4. i \in 1..Len(r) /\ j \in 1..Cap(r, i) /\ SerOf(r, i, j) = s
    BY <1>2, <2>2, <2>3 DEF Grows
  <2> QED BY <2>2, <2>4 DEF Ahead
<1>6. \A s \in visited[u] : s = on[u] \/ (s \in Serial /\ par[s] = on[u])
  BY <1>1 DEF WalkOK
<1> QED BY <1>4, <1>5, <1>6 DEF WalkOK

\* The invariant follows from what it says of the thread that takes the step.
LEMMA WalkFrameInv ==
  ASSUME IInv, NEW t \in Thread, Others(t),
         \A b \in Arena : Grows(chunks[b], chunks'[b]),
         \A s \in Serial : parent[s] # NoArena => parent'[s] = parent[s],
         pc'[t] \in {"walk", "slots"} =>
           WalkOK(chunks'[on'[t]], parent', on'[t], pc'[t], head'[t], slot'[t], limit'[t],
                  visited'[t], owed'[t])
  PROVE  WalkInv'
<1>1. ASSUME NEW u \in Thread, u # t, pc'[u] \in {"walk", "slots"}
      PROVE  WalkOK(chunks'[on'[u]], parent', on'[u], pc'[u], head'[u], slot'[u], limit'[u],
                    visited'[u], owed'[u])
  <2>1. pc[u] \in {"walk", "slots"} /\ pc[u] # "idle"
    BY <1>1 DEF Others
  <2>2. on[u] \in Arena
    BY <2>1, InArena
  <2>3. \A s \in Serial : parent[s] = on[u] => parent'[s] = on[u]
    BY <2>2
  <2>4. WalkOK(chunks'[on[u]], parent', on[u], pc[u], head[u], slot[u], limit[u],
               visited[u], owed[u])
    BY <2>1, <2>2, <2>3, WalkKept
  <2> QED BY <1>1, <2>4 DEF Others
<1> QED BY <1>1, WalkIsNext

LEMMA WalksInit == Init => WalkInv
BY DEF Init, WalkInv

LEMMA WalksStep ==
  ASSUME IInv, [Next]_vars
  PROVE  WalkInv'
<1>0. TypeOK /\ ThreadInv /\ ListInv /\ WalkInv
  BY DEF IInv
<1>g. ASSUME chunks' = chunks PROVE \A b \in Arena : Grows(chunks[b], chunks'[b])
  BY <1>0, <1>g, GrowsItself, ListsType DEF ListsOK
<1> USE DEF globals, caches, walk
<1>1. ASSUME NEW t \in Managers, NEW a \in Arena,
             Create(t, a) \/ Reset(t, a) \/ Destroy(t, a)
      PROVE  WalkInv'
  <2>1. Renewed(t, a)
    BY <1>1, RolesOK, Renewal
  <2>2. UNCHANGED <<pc, on, head, slot, limit, visited, owed>>
    BY <2>1 DEF Renewed
  <2>3. ASSUME NEW u \in Thread, pc[u] \in {"walk", "slots"}
        PROVE  WalkOK(chunks'[on[u]], parent', on[u], pc[u], head[u], slot[u], limit[u],
                      visited[u], owed[u])
    <3>1. on[u] \in Arena /\ on[u] # a /\ IsList(chunks[on[u]])
      BY <2>1, <2>3, InArena DEF Renewed, Quiet
    <3>2. /\ chunks'[on[u]] = chunks[on[u]]
          /\ \A s \in Serial : parent[s] = on[u] => parent'[s] = on[u]
      BY <2>1, <3>1 DEF Renewed
    <3> QED BY <2>3, <3>1, <3>2, GrowsItself, WalkKept
  <2> QED BY <2>2, <2>3, WalkIsNext
<1>2. ASSUME NEW t \in Thread, ThreadExit(t)
      PROVE  WalkInv'
  BY <1>0, <1>2 DEF ThreadExit, WalkInv
<1>3. ASSUME NEW t \in Thread, NEW a \in Arena,
             GetSerialArenaFast(t, a) \/ GetFirstArena(t, a) \/ GetListedArena(t, a)
      PROVE  WalkInv'
  <2>1. PICK s : Entered(t, a, s)
    BY <1>3, Entering
  <2>2. Others(t) /\ UNCHANGED <<chunks, parent>> /\ pc'[t] = "using"
    BY <1>0, <2>1 DEF Entered, Others, TypeOK
  <2> QED BY <1>g, <2>2, WalkFrameInv
<1>4. ASSUME NEW t \in Thread, NEW a \in Arena, NewSerialArena(t, a)
      PROVE  WalkInv'
  <2>1. /\ Others(t) /\ chunks' = chunks /\ pc'[t] = "add"
        /\ \A s \in Serial : parent[s] # NoArena => parent'[s] = parent[s]
    BY <1>0, <1>4 DEF NewSerialArena, Others, TypeOK
  <2> QED BY <1>g, <2>1, WalkFrameInv
<1>5. ASSUME NEW t \in Walkers, NEW a \in Arena, SpaceAllocated(t, a)
      PROVE  WalkInv'
  <2>1. PICK q : q = chunks[a]
    OBVIOUS
  <2>2. /\ t \in Thread /\ Others(t) /\ UNCHANGED <<chunks, parent>>
        /\ pc'[t] = "walk" /\ on'[t] = a /\ head'[t] = Len(q)
        /\ visited'[t] = {a} /\ owed'[t] = Listed(a)
    BY <1>0, <1>5, <2>1, RolesOK DEF SpaceAllocated, Goto, Others, TypeOK
  <2>3. IsList(q) /\ Len(q) \in Nat
    BY <1>0, <2>1, ListsType, ListParts DEF ListsOK
  <2>4. ASSUME NEW s \in Listed(a)
        PROVE  Ahead(q, "walk", Len(q), slot'[t], limit'[t], s)
    <3>1. PICK i \in 1..Len(q) : \E j \in 1..Cap(q, i) : SerOf(q, i, j) = s
      BY <1>0, <2>1, ListedAre
    <3>2. i < Len(q) \/ i = Len(q)
      BY <2>3
    <3> QED BY <3>1, <3>2 DEF Ahead
  <2>5. StandsIn(q, "walk", Len(q), slot'[t], limit'[t])
    BY <2>3 DEF StandsIn
  <2>6. WalkOK(chunks'[on'[t]], parent', on'[t], pc'[t], head'[t], slot'[t], limit'[t],
               visited'[t], owed'[t])
    BY <2>1, <2>2, <2>4, <2>5 DEF WalkOK
  <2> QED BY <1>g, <2>2, <2>6, WalkFrameInv
<1>6. ASSUME NEW t \in Thread, FinishAdd(t) \/ Leave(t)
      PROVE  WalkInv'
  <2>1. Others(t) /\ UNCHANGED <<chunks, parent>> /\ pc'[t] \in {"using", "idle"}
    BY <1>0, <1>6 DEF FinishAdd, AllocateFrom, CacheSerialArena, Leave, Goto, Others, TypeOK
  <2> QED BY <1>g, <2>1, WalkFrameInv
<1>7. ASSUME NEW t \in Thread,
             \/ LoadHead(t) \/ Reserve(t) \/ WriteBack(t) \/ StoreId(t) \/ StoreSerial(t)
             \/ Lock(t) \/ Refetch(t) \/ Grow(t)
      PROVE  WalkInv'
  <2>1. /\ UNCHANGED parent /\ Others(t)
        /\ \A b \in Arena : Grows(chunks[b], chunks'[b])
    BY <1>0, <1>7, AddingFrame, AddingGrows
  <2>2. pc'[t] \notin {"walk", "slots"}
    BY <1>0, <1>7
    DEF LoadHead, Reserve, WriteBack, StoreId, StoreSerial, Lock, Refetch, Grow, Goto, TypeOK
  <2> QED BY <2>1, <2>2, WalkFrameInv
<1>8. ASSUME NEW t \in Thread, WalkEnd(t)
      PROVE  WalkInv'
  <2>1. Others(t) /\ UNCHANGED <<chunks, parent>>
    BY <1>0, <1>8, WalkFrame
  <2>2. pc'[t] = "idle"
    BY <1>0, <1>8 DEF WalkEnd, Goto, TypeOK
  <2> QED BY <1>g, <2>1, <2>2, WalkFrameInv
<1>9. ASSUME NEW t \in Thread, WalkChunk(t)
      PROVE  WalkInv'
  <2>1. PICK a, h, q, l : a = on[t] /\ h = head[t] /\ q = chunks[a] /\ l = safe_size(q[h])
    OBVIOUS
  <2>2. Others(t) /\ UNCHANGED <<chunks, parent>>
    BY <1>0, <1>9, WalkFrame
  <2>3. /\ pc[t] = "walk" /\ h # 0 /\ on'[t] = a /\ pc'[t] = "slots" /\ head'[t] = h
        /\ slot'[t] = 1 /\ limit'[t] = l /\ visited'[t] = visited[t] /\ owed'[t] = owed[t]
    BY <1>0, <1>9, <2>1 DEF WalkChunk, Goto, TypeOK
  <2>4. WalkOK(q, parent, a, "walk", h, slot[t], limit[t], visited[t], owed[t])
    BY <1>0, <2>1, <2>3, WalkIs
  <2>5. /\ a \in Arena /\ IsList(q) /\ Len(q) \in Nat /\ h \in 1..Len(q)
        /\ Cap(q, h) \in Nat /\ Size(q, h) \in Nat
    <3>1. a \in Arena /\ IsList(q) /\ Len(q) \in Nat
      BY <2>1, <2>3, InArena
    <3>2. h \in 1..Len(q)
      BY <1>0, <2>1, <2>3, <2>4, <3>1 DEF WalkOK, StandsIn, TypeOK
    <3> QED BY <3>1, <3>2, ListParts
  <2>6. l \in Nat /\ l <= Cap(q, h) /\ \A j \in Nat : j <= Cap(q, h) /\ j <= Size(q, h) => j <= l
    BY <2>1, <2>5 DEF safe_size, Least, capacity, Cap, Size
  <2>7. StandsIn(q, "slots", h, 1, l)
    BY <2>5, <2>6 DEF StandsIn
  <2>8. ASSUME NEW s \in owed[t] \ visited[t] PROVE Ahead(q, "slots", h, 1, l, s)
    <3>1. PICK i \in 1..Len(q), j \in Nat :
            j \in 1..Cap(q, i) /\ SerOf(q, i, j) = s /\ (i < h \/ i = h)
      BY <2>4, <2>5, ListParts DEF WalkOK, Ahead
    <3>2. CASE i < h
      BY <3>1, <3>2 DEF Ahead
    <3>3. CASE i = h
      <4>1. s # NoSerial
        BY <1>0 DEF TypeOK
      <4>2. ~(j > Size(q, h))
        BY <1>0, <2>1, <2>5, <3>1, <3>3, <4>1 DEF ListInv
      <4>3. 1 <= j /\ j <= l
        BY <2>5, <2>6, <3>1, <3>3, <4>2
      <4> QED BY <3>1, <3>3, <4>3 DEF Ahead
    <3> QED BY <3>1, <3>2, <3>3
  <2>9. WalkOK(chunks'[on'[t]], parent', on'[t], pc'[t], head'[t], slot'[t], limit'[t],
               visited'[t], owed'[t])
    BY <2>1, <2>2, <2>3, <2>4, <2>7, <2>8 DEF WalkOK
  <2> QED BY <1>g, <2>2, <2>9, WalkFrameInv
<1>10. ASSUME NEW t \in Thread, WalkSlot(t)
       PROVE  WalkInv'
  <2>1. PICK a, h, k, l, q : a = on[t] /\ h = head[t] /\ k = slot[t] /\ l = limit[t] /\ q = chunks[a]
    OBVIOUS
  <2>2. Others(t) /\ UNCHANGED <<chunks, parent>> /\ pc[t] = "slots"
        /\ on'[t] = a /\ limit'[t] = l /\ owed'[t] = owed[t]
    BY <1>0, <1>10, <2>1, WalkFrame DEF WalkSlot
  <2>3. WalkOK(q, parent, a, "slots", h, k, l, visited[t], owed[t])
    BY <1>0, <2>1, <2>2, WalkIs
  <2>4. /\ a \in Arena /\ IsList(q) /\ Len(q) \in Nat /\ h \in 1..Len(q)
        /\ k \in Nat /\ k # 0 /\ l \in Nat /\ l <= Cap(q, h) /\ Cap(q, h) \in Nat
    <3>1. a \in Arena /\ IsList(q) /\ Len(q) \in Nat
      BY <2>1, <2>2, InArena
    <3>2. h \in 1..Len(q) /\ k \in Nat /\ k # 0 /\ l \in Nat /\ l <= Cap(q, h)
      BY <1>0, <2>1, <2>2, <2>3, <3>1 DEF WalkOK, StandsIn, TypeOK
    <3> QED BY <3>1, <3>2, ListParts
  <2>5. ASSUME NEW s \in owed[t] \ visited[t]
        PROVE  \E i \in 1..Len(q), j \in Nat :
                 /\ j \in 1..Cap(q, i) /\ SerOf(q, i, j) = s
                 /\ i < h \/ (i = h /\ k <= j /\ j <= l)
    BY <2>3, <2>4, ListParts DEF WalkOK, Ahead
  <2>6. CASE k <= l
    <3>1. PICK c : c = SerOf(q, h, k)
      OBVIOUS
    <3>2. /\ visited'[t] = visited[t] \cup CountedIfSet(c) /\ slot'[t] = k + 1
          /\ head'[t] = h /\ pc'[t] = "slots"
      BY <1>0, <1>10, <2>1, <2>2, <2>4, <2>6, <3>1 DEF WalkSlot, Goto, SerOf, TypeOK
    <3>3. c # NoSerial => c \in Serial /\ parent[c] = a
      <4>1. k \in 1..Cap(q, h)
        BY <2>4, <2>6
      <4>2. c \in Serial \cup {NoSerial}
        BY <2>4, <3>1, <4>1, ListParts
      <4>3. c # NoSerial => parent[c] = a
        BY <1>0, <2>1, <2>4, <3>1, <4>1 DEF ListInv
      <4> QED BY <4>2, <4>3
    <3>4. \A s \in visited'[t] : s = a \/ (s \in Serial /\ parent[s] = a)
      BY <2>3, <3>2, <3>3 DEF WalkOK, CountedIfSet
    <3>5. ASSUME NEW s \in owed[t] \ visited'[t] PROVE Ahead(q, "slots", h, k + 1, l, s)
      <4>1. PICK i \in 1..Len(q), j \in Nat :
              /\ j \in 1..Cap(q, i) /\ SerOf(q, i, j) = s
              /\ i < h \/ (i = h /\ k <= j /\ j <= l)
        BY <2>5, <3>2
      <4>2. s # NoSerial
        BY <1>0 DEF TypeOK
      <4>3. s # c
        BY <3>2, <4>2 DEF CountedIfSet
      <4>4. i = h => j # k
        BY <3>1, <4>1, <4>3
      <4> QED BY <2>4, <4>1, <4>4 DEF Ahead
    <3>6. StandsIn(q, "slots", h, k + 1, l)
      BY <2>4 DEF StandsIn
    <3>7. WalkOK(chunks'[on'[t]], parent', on'[t], pc'[t], head'[t], slot'[t], limit'[t],
                 visited'[t], owed'[t])
      BY <2>1, <2>2, <3>2, <3>4, <3>5, <3>6 DEF WalkOK
    <3> QED BY <1>g, <2>2, <3>7, WalkFrameInv
  <2>7. CASE k > l
    <3>1. /\ visited'[t] = visited[t] /\ slot'[t] = k /\ head'[t] = h - 1 /\ pc'[t] = "walk"
      BY <1>0, <1>10, <2>1, <2>2, <2>4, <2>7 DEF WalkSlot, Goto, TypeOK
    <3>2. ASSUME NEW s \in owed[t] \ visited[t] PROVE Ahead(q, "walk", h - 1, k, l, s)
      <4>1. PICK i \in 1..Len(q), j \in Nat :
              /\ j \in 1..Cap(q, i) /\ SerOf(q, i, j) = s
              /\ i < h \/ (i = h /\ k <= j /\ j <= l)
        BY <2>5
      <4>2. i < h - 1 \/ i = h - 1
        BY <2>4, <2>7, <4>1
      <4> QED BY <4>1, <4>2 DEF Ahead
    <3>3. StandsIn(q, "walk", h - 1, k, l)
      BY <2>4 DEF StandsIn
    <3>4. WalkOK(chunks'[on'[t]], parent', on'[t], pc'[t], head'[t], slot'[t], limit'[t],
                 visited'[t], owed'[t])
      BY <2>1, <2>2, <2>3, <3>1, <3>2, <3>3 DEF WalkOK
    <3> QED BY <1>g, <2>2, <3>4, WalkFrameInv
  <2> QED BY <2>4, <2>6, <2>7
<1>11. CASE UNCHANGED vars
  BY <1>0, <1>11 DEF vars, WalkInv
<1> QED
  BY <1>1, <1>2, <1>3, <1>4, <1>5, <1>6, <1>7, <1>8, <1>9, <1>10, <1>11
  DEF Next, GetSerialArena, Step

-------------------------------------------------------------------------------
(* The invariant is preserved: the entries that are reserved but not filled. *)

LEMMA ReservedKept ==
  ASSUME IInv, chunks' = chunks,
         \A u \in Thread : pc[u] = "id" =>
           pc'[u] = "id" /\ on'[u] = on[u] /\ head'[u] = head[u] /\ slot'[u] = slot[u]
  PROVE  ReservedInv'
BY DEF IInv, ReservedInv

LEMMA ReservedInit == Init => ReservedInv
BY DEF Init, ReservedInv

LEMMA ReservedStep ==
  ASSUME IInv, [Next]_vars
  PROVE  ReservedInv'
<1>0. TypeOK /\ ThreadInv /\ ReservedInv
  BY DEF IInv
<1> USE DEF globals, caches, walk
<1>1. ASSUME NEW t \in Managers, NEW a \in Arena,
             Create(t, a) \/ Reset(t, a) \/ Destroy(t, a)
      PROVE  ReservedInv'
  <2>1. Renewed(t, a)
    BY <1>1, RolesOK, Renewal
  <2>2. UNCHANGED <<pc, on, head, slot>> /\ 1..Len(chunks'[a]) = {}
        /\ \A b \in Arena : b # a => chunks'[b] = chunks[b]
    BY <2>1 DEF Renewed
  <2> QED BY <1>0, <2>2 DEF ReservedInv
<1>2. ASSUME NEW t \in Thread, ThreadExit(t)
      PROVE  ReservedInv'
  BY <1>2, ReservedKept DEF ThreadExit
<1>3. ASSUME NEW t \in Thread, NEW a \in Arena,
             GetSerialArenaFast(t, a) \/ GetFirstArena(t, a) \/ GetListedArena(t, a)
      PROVE  ReservedInv'
  <2>1. PICK s : Entered(t, a, s)
    BY <1>3, Entering
  <2> QED BY <1>0, <2>1, ReservedKept DEF Entered, TypeOK
<1>4. ASSUME NEW t \in Thread, NEW a \in Arena, NewSerialArena(t, a)
      PROVE  ReservedInv'
  BY <1>0, <1>4, ReservedKept DEF NewSerialArena, Miss, TypeOK
<1>5. ASSUME NEW t \in Walkers, NEW a \in Arena, SpaceAllocated(t, a)
      PROVE  ReservedInv'
  BY <1>0, <1>5, ReservedKept, RolesOK DEF SpaceAllocated, Goto, TypeOK
<1>6. ASSUME NEW t \in Thread, LoadHead(t) \/ Lock(t) \/ Refetch(t)
      PROVE  ReservedInv'
  BY <1>0, <1>6, ReservedKept DEF LoadHead, Lock, Refetch, Goto, TypeOK
<1>7. ASSUME NEW t \in Thread, FinishAdd(t) \/ Leave(t)
      PROVE  ReservedInv'
  BY <1>0, <1>7, ReservedKept DEF FinishAdd, AllocateFrom, Leave, Goto, TypeOK
<1>8. ASSUME NEW t \in Thread, WalkChunk(t) \/ WalkSlot(t) \/ WalkEnd(t)
      PROVE  ReservedInv'
  <2>1. Others(t) /\ pc[t] # "id" /\ chunks' = chunks
    BY <1>0, <1>8, WalkFrame
  <2> QED BY <2>1, ReservedKept DEF Others
<1>9. ASSUME NEW t \in Thread, Reserve(t)
      PROVE  ReservedInv'
  <2>1. PICK a, h, q : a = on[t] /\ h = head[t] /\ q = chunks[a]
    OBVIOUS
  <2>2. /\ a \in Arena /\ h \in 1..Len(q) /\ OneListChanges(a) /\ Len(chunks'[a]) = Len(q)
        /\ \A i \in 1..Len(q) :
              /\ Cap(chunks'[a], i) = Cap(q, i)
              /\ Size(chunks'[a], i) = IF i = h THEN Size(q, i) + 1 ELSE Size(q, i)
              /\ \A j \in 1..Cap(q, i) : IdOf(chunks'[a], i, j) = IdOf(q, i, j)
    BY <1>9, <2>1, ReserveEffect
  <2>3. Others(t) /\ pc[t] = "reserve" /\ UNCHANGED <<on, head>>
    BY <1>0, <1>9, AddingFrame DEF Reserve
  <2>4. Size(q, h) \in Nat /\ Cap(q, h) \in Nat
    BY <1>0, <2>1, <2>2, ListsType, ListParts DEF ListsOK
  <2>5. \/ pc'[t] = "id" /\ slot'[t] = Size(q, h) + 1
        \/ Size(q, h) >= Cap(q, h)
    BY <1>0, <1>9, <2>1, <2>4 DEF Reserve, Goto, HasRoom, Size, Cap, capacity, TypeOK
  <2>6. ASSUME NEW i \in 1..Len(q), NEW j \in 1..Cap(q, i),
               j <= Size(chunks'[a], i), IdOf(q, i, j) = NoThread
        PROVE  \E u \in Thread : pc'[u] = "id" /\ on'[u] = a /\ head'[u] = i /\ slot'[u] = j
    <3>1. CASE j <= Size(q, i)
      <4>1. PICK u \in Thread : pc[u] = "id" /\ on[u] = a /\ head[u] = i /\ slot[u] = j
        BY <1>0, <2>1, <2>2, <2>6, <3>1 DEF ReservedInv
      <4> QED BY <2>3, <4>1 DEF Others
    <3>2. CASE ~(j <= Size(q, i))
      <4>1. i = h /\ j = Size(q, h) + 1
        BY <2>2, <2>4, <2>6, <3>2
      <4>2. pc'[t] = "id" /\ slot'[t] = j
        BY <2>4, <2>5, <4>1
      <4> QED BY <2>1, <2>3, <4>1, <4>2
    <3> QED BY <3>1, <3>2
  <2>7. ASSUME NEW b \in Arena, b # a, NEW i \in 1..Len(chunks[b]), NEW j \in 1..Cap(chunks[b], i),
               j <= Size(chunks[b], i), IdOf(chunks[b], i, j) = NoThread
        PROVE  \E u \in Thread : pc'[u] = "id" /\ on'[u] = b /\ head'[u] = i /\ slot'[u] = j
    <3>1. PICK u \in Thread : pc[u] = "id" /\ on[u] = b /\ head[u] = i /\ slot[u] = j
      BY <1>0, <2>7 DEF ReservedInv
    <3> QED BY <2>3, <3>1 DEF Others
  <2>8. \A b \in Arena : b # a => chunks'[b] = chunks[b]
    BY <2>2 DEF OneListChanges
  <2> QED BY <2>1, <2>2, <2>6, <2>7, <2>8 DEF ReservedInv
<1>10. ASSUME NEW t \in Thread, WriteBack(t) \/ StoreId(t) \/ StoreSerial(t) \/ Grow(t)
       PROVE  ReservedInv'
  <2>1. PICK a, q : a = on[t] /\ q = chunks[a]
    OBVIOUS
  <2>2. Others(t) /\ pc[t] # "idle" /\ a \in Arena /\ Len(q) \in Nat
    BY <1>0, <1>10, <2>1, AddingFrame, InArena
  <2>3. \A i \in 1..Len(q) : Size(q, i) \in Nat /\ Cap(q, i) \in Nat
    BY <1>0, <2>1, <2>2, ListsType, ListParts DEF ListsOK
  <2>4. /\ OneListChanges(a)
        /\ \A i \in 1..Len(chunks'[a]) : \A j \in 1..Cap(chunks'[a], i) :
             j <= Size(chunks'[a], i) /\ IdOf(chunks'[a], i, j) = NoThread =>
               /\ i \in 1..Len(q) /\ j \in 1..Cap(q, i)
               /\ j <= Size(q, i) /\ IdOf(q, i, j) = NoThread
               /\ ~(pc[t] = "id" /\ head[t] = i /\ slot[t] = j)
    <3>1. CASE WriteBack(t)
      <4>1. pc[t] = "full" /\ Size(q, head[t]) >= Cap(q, head[t])
        BY <2>1, <3>1 DEF WriteBack, IInv, SlotInv, SlotOK
      <4>2. /\ head[t] \in 1..Len(q) /\ OneListChanges(a) /\ Len(chunks'[a]) = Len(q)
            /\ \A i \in 1..Len(q) :
                 /\ Cap(chunks'[a], i) = Cap(q, i)
                 /\ Size(chunks'[a], i) = IF i = head[t] THEN Cap(q, i) ELSE Size(q, i)
                 /\ \A j \in 1..Cap(q, i) : IdOf(chunks'[a], i, j) = IdOf(q, i, j)
        BY <2>1, <3>1, WriteBackEffect
      <4> QED BY <2>3, <4>1, <4>2
    <3>2. CASE StoreId(t)
      <4>1. PICK h : h = head[t]
        OBVIOUS
      <4>2. /\ OneListChanges(a) /\ Len(chunks'[a]) = Len(q)
            /\ \A i \in 1..Len(q) :
                 /\ Cap(chunks'[a], i) = Cap(q, i) /\ Size(chunks'[a], i) = Size(q, i)
                 /\ \A j \in 1..Cap(q, i) :
                      IdOf(chunks'[a], i, j) =
                        IF i = h /\ j = slot[t] THEN t ELSE IdOf(q, i, j)
        BY <2>1, <3>2, <4>1, StoreIdEffect
      <4> QED BY <4>1, <4>2
    <3>3. CASE StoreSerial(t)
      <4>1. PICK h : h = head[t]
        OBVIOUS
      <4>2. /\ OneListChanges(a) /\ Len(chunks'[a]) = Len(q)
            /\ \A i \in 1..Len(q) :
                 /\ Cap(chunks'[a], i) = Cap(q, i) /\ Size(chunks'[a], i) = Size(q, i)
                 /\ \A j \in 1..Cap(q, i) : IdOf(chunks'[a], i, j) = IdOf(q, i, j)
        BY <2>1, <3>3, <4>1, StoreSerialEffect
      <4>3. pc[t] # "id"
        BY <3>3 DEF StoreSerial
      <4> QED BY <4>2, <4>3
    <3>4. CASE Grow(t)
      <4>1. HasNewChunk(chunks'[a], q, t, mine[t]) /\ OneListChanges(a)
        BY <2>1, <3>4, GrowEffect
      <4>3. pc[t] # "id"
        BY <3>4 DEF Grow
      <4>2. ASSUME NEW i \in 1..Len(chunks'[a]), NEW j \in 1..Cap(chunks'[a], i),
                   j <= Size(chunks'[a], i), IdOf(chunks'[a], i, j) = NoThread
            PROVE  /\ i \in 1..Len(q) /\ j \in 1..Cap(q, i)
                   /\ j <= Size(q, i) /\ IdOf(q, i, j) = NoThread
        <5>1. CASE i \in 1..Len(q)
          BY <4>1, <4>2, <5>1 DEF HasNewChunk
        <5>2. CASE i \notin 1..Len(q)
          <6>1. i = Len(q) + 1 /\ Size(chunks'[a], i) = 1
            BY <2>2, <4>1, <5>2 DEF HasNewChunk
          <6>2. j = 1
            BY <4>2, <6>1
          <6> QED BY <4>1, <4>2, <6>1, <6>2 DEF HasNewChunk
        <5> QED BY <5>1, <5>2
      <4> QED BY <4>1, <4>2, <4>3
    <3> QED BY <1>10, <3>1, <3>2, <3>3, <3>4
  <2>5. \A b \in Arena : b # a => chunks'[b] = chunks[b]
    BY <2>4 DEF OneListChanges
  <2>6. ASSUME NEW b \in Arena, NEW i \in 1..Len(chunks'[b]), NEW j \in 1..Cap(chunks'[b], i),
               j <= Size(chunks'[b], i), IdOf(chunks'[b], i, j) = NoThread
        PROVE  \E u \in Thread : pc'[u] = "id" /\ on'[u] = b /\ head'[u] = i /\ slot'[u] = j
    <3>1. /\ i \in 1..Len(chunks[b]) /\ j \in 1..Cap(chunks[b], i)
          /\ j <= Size(chunks[b], i) /\ IdOf(chunks[b], i, j) = NoThread
          /\ b = a => ~(pc[t] = "id" /\ head[t] = i /\ slot[t] = j)
      <4>1. CASE b = a
        BY <2>1, <2>4, <2>6, <4>1
      <4>2. CASE b # a
        BY <2>5, <2>6, <4>2
      <4> QED BY <4>1, <4>2
    <3>2. PICK u \in Thread : pc[u] = "id" /\ on[u] = b /\ head[u] = i /\ slot[u] = j
      BY <1>0, <3>1 DEF ReservedInv
    <3>3. u # t
      BY <2>1, <3>1, <3>2
    <3> QED BY <2>2, <3>2, <3>3 DEF Others
  <2>7. \A b \in Arena : \A i \in 1..Len(chunks'[b]) : \A j \in 1..Cap(chunks'[b], i) :
          j <= Size(chunks'[b], i) /\ IdOf(chunks'[b], i, j) = NoThread =>
            \E u \in Thread : pc'[u] = "id" /\ on'[u] = b /\ head'[u] = i /\ slot'[u] = j
    BY <2>6
  <2> QED BY <2>7 DEF ReservedInv
<1>11. CASE UNCHANGED vars
  BY <1>11, ReservedKept DEF vars
<1> QED
  BY <1>1, <1>2, <1>3, <1>4, <1>5, <1>6, <1>7, <1>8, <1>9, <1>10, <1>11
  DEF Next, GetSerialArena, Step

-------------------------------------------------------------------------------
(* The theorems. *)

LEMMA InvInit == Init => IInv
BY TypeInit, IdsInit, ThreadsInit, ListsInit, SlotsInit, ReservedInit, AddsInit, MutexInit,
   ParentsInit, CachesInit, WalksInit
DEF IInv

LEMMA InvStep == IInv /\ [Next]_vars => IInv'
BY TypeStep, IdsStep, ThreadsStep, ListsStep, SlotsStep, ReservedStep, AddsStep, MutexStep,
   ParentsStep, CachesStep, WalksStep
DEF IInv

\* The inductive invariant holds of every state that the code reaches: what each
\* thread knows of the slot it reserved, of the chunk list and of its caches.
THEOREM Invariant == Spec => []IInv
BY InvInit, InvStep, PTL DEF Spec

\* Every variable keeps its type; in particular no chunk index, slot or capacity
\* that the code computes is out of its range.
THEOREM TypeCorrect == Spec => []TypeOK
<1>1. IInv => TypeOK
  BY DEF IInv
<1> QED BY <1>1, Invariant, PTL

LEMMA FreshStep ==
  ASSUME IInv, [Next]_vars, NEW a \in Arena, tag'[a] # NoId, tag'[a] # tag[a]
  PROVE  /\ \A b \in Arena : tag[b] # tag'[a]
         /\ \A t \in Thread : seenId[t] # tag'[a]
<1>0. TypeOK /\ IdInv
  BY DEF IInv
<1>1. ASSUME NEW t \in Thread, NEW b \in Arena, InitArena(t, b)
      PROVE  /\ \A c \in Arena : tag[c] # tag'[a]
             /\ \A u \in Thread : seenId[u] # tag'[a]
  <2>1. PICK id : id = GetNextLifeCycleId(t)
    OBVIOUS
  <2>2. \A c \in Arena : tag'[c] = IF c = b THEN id ELSE tag[c]
    BY <1>0, <1>1, <2>1 DEF InitArena, TypeOK
  <2> QED BY <1>0, <2>1, <2>2, FreshId
<1>2. ASSUME NEW t \in Managers, NEW b \in Arena, Destroy(t, b) PROVE FALSE
  BY <1>0, <1>2 DEF Destroy, TypeOK
<1>3. ASSUME tag' = tag PROVE FALSE
  BY <1>3
<1> QED
  BY <1>1, <1>2, <1>3, RolesOK
  DEF Next, Create, Reset, GetSerialArena, GetSerialArenaFast, GetFirstArena, GetListedArena,
      NewSerialArena, SpaceAllocated, Step, LoadHead, Reserve, WriteBack, StoreId, StoreSerial,
      Lock, Refetch, Grow, FinishAdd, Leave, WalkChunk, WalkSlot, WalkEnd, ThreadExit,
      globals, vars

\* A lifecycle id that Create or Reset gives an arena is in no thread's cache and
\* no arena has it, however many arenas were at the same address before.
THEOREM FreshIds == Spec => IdsAreFresh
<1>1. IInv /\ [Next]_vars =>
        [\A a \in Arena : Live(a)' /\ tag'[a] # tag[a] =>
           /\ \A b \in Arena : tag[b] # tag'[a]
           /\ \A t \in Thread : seenId[t] # tag'[a]]_vars
  BY FreshStep DEF Live
<1> QED BY <1>1, Invariant, PTL DEF Spec, IdsAreFresh

\* The one place of a SerialArena, and of a thread, in a list.
LEMMA EntryIsPlace ==
  ASSUME IInv, NEW a \in Arena, NEW e \in Entries(a)
  PROVE  /\ e[1] \in 1..Len(chunks[a]) /\ e[2] \in 1..Cap(chunks[a], e[1])
         /\ e[2] \in Nat /\ e[2] <= Size(chunks[a], e[1]) /\ e = <<e[1], e[2]>>
         /\ IdAt(a, e) = IdOf(chunks[a], e[1], e[2])
         /\ SerialAt(a, e) = SerOf(chunks[a], e[1], e[2])
BY EntriesAre DEF IInv, IdAt, IdOf, SerialAt, SerOf

LEMMA FilledIsEntry ==
  ASSUME IInv, NEW a \in Arena, NEW i \in 1..Len(chunks[a]), NEW j \in 1..Cap(chunks[a], i),
         IdOf(chunks[a], i, j) # NoThread
  PROVE  <<i, j>> \in Entries(a)
<1>1. Size(chunks[a], i) \in Nat /\ Cap(chunks[a], i) \in Nat
  BY PlaceType
<1>2. ~(j > Size(chunks[a], i))
  BY DEF IInv, ListInv
<1> QED BY <1>1, <1>2, EntriesAre DEF IInv

\* Grant is what Owns says.
LEMMA GrantIsOwned ==
  ASSUME IInv, NEW a \in Arena, NEW t \in Thread, NEW s,
         Owns(firstOwner[a], chunks[a], a, t, s)
  PROVE  Grant(a, t) = s /\ (s \in Serial => parent[s] = a)
<1>1. CASE firstOwner[a] = t
  BY <1>1 DEF Owns, Grant
<1>2. CASE firstOwner[a] # t
  <2>1. s # NoSerial /\ Placed(chunks[a], t, s)
    BY <1>2 DEF Owns
  <2>2. PICK i \in 1..Len(chunks[a]) :
          \E j \in 1..Cap(chunks[a], i) : IdOf(chunks[a], i, j) = t /\ SerOf(chunks[a], i, j) = s
    BY <2>1 DEF Placed
  <2>3. PICK j \in 1..Cap(chunks[a], i) :
          IdOf(chunks[a], i, j) = t /\ SerOf(chunks[a], i, j) = s
    BY <2>2
  <2>4. <<i, j>> \in Entries(a) /\ IdAt(a, <<i, j>>) = t /\ SerialAt(a, <<i, j>>) = s
    BY <2>3, FilledIsEntry, EntryIsPlace DEF IdAt, IdOf, SerialAt, SerOf
  <2>5. ASSUME NEW e \in Entries(a), IdAt(a, e) = t PROVE SerialAt(a, e) = s
    BY <2>3, <2>5, EntryIsPlace DEF IInv, ListInv
  <2>6. {SerialAt(a, e) : e \in {d \in Entries(a) : IdAt(a, d) = t}} \ {NoSerial} = {s}
    BY <2>1, <2>4, <2>5
  <2>7. parent[s] = a
    BY <2>1, <2>3 DEF IInv, ListInv
  <2> QED BY <1>2, <2>6, <2>7 DEF Grant
<1> QED BY <1>1, <1>2

\* Whenever a thread's cache matches an arena, its pointer is that thread's live
\* SerialArena of that arena: the fast path never hands out another's, or a freed one.
THEOREM CacheHits == Spec => []CacheHitsAreRight
<1>1. IInv => CacheHitsAreRight
  <2> SUFFICES ASSUME IInv, NEW t \in Thread, NEW a \in Arena, Live(a), seenId[t] = tag[a]
               PROVE  /\ lastSerial[t] = Grant(a, t)
                      /\ lastSerial[t] \in Serial => parent[lastSerial[t]] = a
    BY DEF CacheHitsAreRight
  <2>1. Owns(firstOwner[a], chunks[a], a, t, lastSerial[t])
    BY DEF IInv, CacheInv, Live
  <2> QED BY <2>1, GrantIsOwned
<1> QED BY <1>1, Invariant, PTL

\* No SerialArena is lost in a race for a slot or for the head, none is listed
\* twice, and a quiet arena has no unfilled entry.
THEOREM AllListedOnce == Spec => []ListedOnce
<1>1. IInv => ListedOnce
  <2> SUFFICES ASSUME IInv PROVE ListedOnce
    OBVIOUS
  <2>1. ASSUME NEW s \in Serial, parent[s] # NoArena
        PROVE  \/ \E t \in Thread : mine[t] = s /\ on[t] = parent[s] /\ pc[t] # "done"
               \/ Cardinality({e \in Entries(parent[s]) : SerialAt(parent[s], e) = s}) = 1
    <3>1. PICK a \in Arena : a = parent[s]
      BY <2>1 DEF IInv, TypeOK
    <3>2. CASE ~Unplaced(chunks[a], s)
      <4>1. PICK i \in 1..Len(chunks[a]), j \in Nat :
              j \in 1..Cap(chunks[a], i) /\ SerOf(chunks[a], i, j) = s
        <5>1. PICK i \in 1..Len(chunks[a]) :
                \E j \in 1..Cap(chunks[a], i) : SerOf(chunks[a], i, j) = s
          BY <3>2 DEF Unplaced
        <5>2. PICK j \in 1..Cap(chunks[a], i) : SerOf(chunks[a], i, j) = s
          BY <5>1
        <5>3. j \in Nat
          BY PlaceType
        <5> QED BY <5>2, <5>3
      <4>2. IdOf(chunks[a], i, j) # NoThread
        BY <4>1 DEF IInv, ListInv
      <4>3. <<i, j>> \in Entries(a) /\ SerialAt(a, <<i, j>>) = s
        BY <4>1, <4>2, FilledIsEntry DEF SerialAt, SerOf
      <4>4. ASSUME NEW e \in Entries(a), SerialAt(a, e) = s PROVE e = <<i, j>>
        <5>1. /\ e[1] \in 1..Len(chunks[a]) /\ e[2] \in 1..Cap(chunks[a], e[1])
              /\ SerOf(chunks[a], e[1], e[2]) = s /\ e = <<e[1], e[2]>>
          BY <4>4, EntryIsPlace
        <5>2. e[1] = i /\ e[2] = j
          BY <4>1, <5>1 DEF IInv, ListInv
        <5> QED BY <5>1, <5>2
      <4>5. {e \in Entries(a) : SerialAt(a, e) = s} = {<<i, j>>}
        BY <4>3, <4>4
      <4> QED BY <3>1, <4>5, FS_Singleton
    <3> QED BY <2>1, <3>1, <3>2 DEF IInv, ParentInv
  <2>2. ASSUME NEW a \in Arena, Quiet(a), NEW e \in Entries(a)
        PROVE  SerialAt(a, e) # NoSerial /\ parent[SerialAt(a, e)] = a
    <3>1. \A t \in Thread : on[t] # a
      BY <2>2 DEF Quiet
    <3>2. PICK i, j : i = e[1] /\ j = e[2]
      OBVIOUS
    <3>3. /\ i \in 1..Len(chunks[a]) /\ j \in 1..Cap(chunks[a], i)
          /\ j <= Size(chunks[a], i) /\ SerialAt(a, e) = SerOf(chunks[a], i, j)
      BY <3>2, EntryIsPlace
    <3>4. IdOf(chunks[a], i, j) # NoThread
      BY <3>1, <3>3 DEF IInv, ReservedInv
    <3>5. IdOf(chunks[a], i, j) \in Thread
      BY <3>3, <3>4, PlaceType
    <3>6. SerOf(chunks[a], i, j) # NoSerial
      BY <3>1, <3>3, <3>4, <3>5 DEF IInv, ListInv
    <3> QED BY <3>3, <3>6 DEF IInv, ListInv
  <2>3. ASSUME NEW a \in Arena, NEW d \in Entries(a), NEW e \in Entries(a),
               IdAt(a, d) = IdAt(a, e), IdAt(a, d) # NoThread
        PROVE  d = e
    <3>1. d[1] = e[1] /\ d[2] = e[2]
      BY <2>3, EntryIsPlace DEF IInv, ListInv
    <3> QED BY <3>1, EntryIsPlace
  <2> QED BY <2>1, <2>2, <2>3 DEF ListedOnce
<1> QED BY <1>1, Invariant, PTL

\* A walk that runs beside insertions counts only SerialArenas of its arena, and
\* in the end all that were listed when it began.
THEOREM WalksCount == Spec => []WalkCountsListed
<1>1. IInv => WalkCountsListed
  <2> SUFFICES ASSUME IInv, NEW t \in Thread, pc[t] \in {"walk", "slots"}
               PROVE  /\ \A s \in visited[t] \ {on[t]} : s # NoSerial /\ parent[s] = on[t]
                      /\ head[t] = 0 => owed[t] \subseteq visited[t]
    BY DEF WalkCountsListed
  <2>1. WalkOK(chunks[on[t]], parent, on[t], pc[t], head[t], slot[t], limit[t], visited[t], owed[t])
    BY WalkIs DEF IInv
  <2>2. \A s \in visited[t] \ {on[t]} : s # NoSerial /\ parent[s] = on[t]
    BY <2>1 DEF WalkOK
  <2>3. ASSUME head[t] = 0, NEW s \in owed[t] PROVE s \in visited[t]
    <3>1. Len(chunks[on[t]]) \in Nat
      BY InArena
    <3>2. ~Ahead(chunks[on[t]], pc[t], head[t], slot[t], limit[t], s)
      BY <2>3, <3>1 DEF Ahead
    <3> QED BY <2>1, <3>2 DEF WalkOK
  <2> QED BY <2>2, <2>3
<1> QED BY <1>1, Invariant, PTL

-------------------------------------------------------------------------------
(* The refinement. *)

\* The region that an arena a, created by f and with the list q, has for t.
GrantIn(f, q, a, t) ==
  IF f = t THEN a
  ELSE IF \E s : s # NoSerial /\ Placed(q, t, s)
       THEN CHOOSE s : s # NoSerial /\ Placed(q, t, s) ELSE NoSerial

\* No thread has two regions in the list q.
OneRegion(q) ==
  \A t \in Thread : \A r, s :
    r # NoSerial /\ s # NoSerial /\ Placed(q, t, r) /\ Placed(q, t, s) => r = s

SameRegions(q, r, t) == \A s : s # NoSerial => (Placed(q, t, s) <=> Placed(r, t, s))

LEMMA GrantInIs ==
  ASSUME NEW q, OneRegion(q), NEW f, NEW a, NEW t \in Thread, NEW s, Owns(f, q, a, t, s)
  PROVE  GrantIn(f, q, a, t) = s
<1>1. CASE f = t
  BY <1>1 DEF GrantIn, Owns
<1>2. CASE f # t
  <2>1. s # NoSerial /\ Placed(q, t, s)
    BY <1>2 DEF Owns
  <2>2. PICK c : c = CHOOSE r : r # NoSerial /\ Placed(q, t, r)
    OBVIOUS
  <2>3. c # NoSerial /\ Placed(q, t, c)
    BY <2>1, <2>2
  <2>4. c = s
    BY <2>1, <2>3 DEF OneRegion
  <2> QED BY <1>2, <2>1, <2>2, <2>4 DEF GrantIn
<1> QED BY <1>1, <1>2

LEMMA GrantInSame ==
  ASSUME NEW q, OneRegion(q), NEW r, OneRegion(r), NEW f, NEW a, NEW t \in Thread,
         SameRegions(q, r, t)
  PROVE  GrantIn(f, q, a, t) = GrantIn(f, r, a, t)
<1>1. CASE f # t /\ \E s : s # NoSerial /\ Placed(q, t, s)
  <2>1. PICK s : s # NoSerial /\ Placed(q, t, s)
    BY <1>1
  <2>2. Owns(f, q, a, t, s) /\ Owns(f, r, a, t, s)
    BY <1>1, <2>1 DEF Owns, SameRegions
  <2> QED BY <2>2, GrantInIs
<1>2. CASE ~(f # t /\ \E s : s # NoSerial /\ Placed(q, t, s))
  BY <1>2 DEF GrantIn, SameRegions
<1> QED BY <1>1, <1>2

\* What GrantIn says of a region.
LEMMA GrantInOwns ==
  ASSUME NEW q, NEW f, NEW a \in Arena, NEW t \in Thread,
         GrantIn(f, q, a, t) # NoSerial
  PROVE  Owns(f, q, a, t, GrantIn(f, q, a, t))
<1>1. CASE f = t
  BY <1>1 DEF GrantIn, Owns
<1>2. CASE f # t
  <2>1. \E s : s # NoSerial /\ Placed(q, t, s)
    BY <1>2 DEF GrantIn
  <2>2. PICK c : c = CHOOSE r : r # NoSerial /\ Placed(q, t, r)
    OBVIOUS
  <2>3. c # NoSerial /\ Placed(q, t, c)
    BY <2>1, <2>2
  <2> QED BY <1>2, <2>1, <2>2, <2>3 DEF GrantIn, Owns
<1> QED BY <1>1, <1>2

grantNow ==
  [a \in Arena |-> [t \in Thread |-> GrantIn(firstOwner[a], chunks[a], a, t)]]

LEMMA OneRegionEach == IInv => \A a \in Arena : OneRegion(chunks[a])
<1> SUFFICES ASSUME IInv, NEW a \in Arena, NEW t \in Thread, NEW r, NEW s,
                    r # NoSerial, s # NoSerial, Placed(chunks[a], t, r), Placed(chunks[a], t, s)
             PROVE  r = s
  BY DEF OneRegion
<1> QED BY DEF Placed, IInv, ListInv

LEMMA GrantedIs == IInv => granted = grantNow
<1> SUFFICES ASSUME IInv, NEW a \in Arena, NEW t \in Thread
             PROVE  Grant(a, t) = GrantIn(firstOwner[a], chunks[a], a, t)
  BY DEF granted, grantNow
<1>1. PICK g : g = GrantIn(firstOwner[a], chunks[a], a, t)
  OBVIOUS
<1>2. CASE g # NoSerial
  BY <1>1, <1>2, GrantInOwns, GrantIsOwned
<1>3. CASE g = NoSerial
  <2>1. firstOwner[a] # t
    BY <1>1, <1>3 DEF GrantIn
  <2>2. ASSUME NEW s, s # NoSerial, Placed(chunks[a], t, s) PROVE FALSE
    <3>1. Owns(firstOwner[a], chunks[a], a, t, s)
      BY <2>1, <2>2 DEF Owns
    <3> QED BY <1>1, <1>3, <2>2, <3>1, GrantInIs, OneRegionEach
  <2>3. ASSUME NEW e \in Entries(a), IdAt(a, e) = t PROVE SerialAt(a, e) = NoSerial
    BY <2>2, <2>3, EntryIsPlace DEF Placed
  <2>4. {SerialAt(a, e) : e \in {d \in Entries(a) : IdAt(a, d) = t}} \ {NoSerial} = {}
    BY <2>3
  <2> QED BY <1>1, <1>3, <2>1, <2>4 DEF Grant
<1> QED BY <1>2, <1>3

LEMMA OneRegionEachNext == IInv' => \A a \in Arena : OneRegion(chunks'[a])
<1>1. IInv' => (\A a \in Arena : OneRegion(chunks[a]))'
  BY OneRegionEach, PTL
<1> QED BY <1>1

LEMMA GrantedIsNext == IInv' => granted' = grantNow'
<1>1. IInv' => (granted = grantNow)'
  BY GrantedIs, PTL
<1> QED BY <1>1

\* A region in a list is a SerialArena of that arena; no region belongs to two
\* arenas or to two threads.
LEMMA PlacedIsSerial ==
  ASSUME IInv, NEW a \in Arena, NEW t \in Thread, NEW s, s # NoSerial, Placed(chunks[a], t, s)
  PROVE  s \in Serial /\ parent[s] = a
<1>1. PICK i \in 1..Len(chunks[a]) :
        \E j \in 1..Cap(chunks[a], i) : IdOf(chunks[a], i, j) = t /\ SerOf(chunks[a], i, j) = s
  BY DEF Placed
<1>2. PICK j \in 1..Cap(chunks[a], i) :
        IdOf(chunks[a], i, j) = t /\ SerOf(chunks[a], i, j) = s
  BY <1>1
<1> QED BY <1>2, PlaceType DEF IInv, ListInv

LEMMA OwnedOnce ==
  ASSUME IInv, NEW a \in Arena, NEW b \in Arena, NEW t \in Thread, NEW u \in Thread, NEW s,
         Owned(a, t, s), Owned(b, u, s)
  PROVE  a = b /\ t = u
<1>1. CASE s \in Arena
  BY <1>1, PlacedIsSerial DEF Owned, Owns
<1>2. CASE s \notin Arena
  <2>1. s # NoSerial /\ Placed(chunks[a], t, s) /\ Placed(chunks[b], u, s)
    BY <1>2 DEF Owned, Owns
  <2>2. a = b
    BY <2>1, PlacedIsSerial
  <2>3. t = u
    BY <2>1, <2>2 DEF Placed, IInv, ListInv
  <2> QED BY <2>2, <2>3
<1> QED BY <1>1, <1>2

\* grantNow, at one arena and one thread.
LEMMA GrantNowAt ==
  ASSUME NEW a \in Arena, NEW t \in Thread
  PROVE  grantNow[a][t] = GrantIn(firstOwner[a], chunks[a], a, t)
BY DEF grantNow

LEMMA GrantNowAtNext ==
  ASSUME NEW a \in Arena, NEW t \in Thread
  PROVE  grantNow'[a][t] = GrantIn(firstOwner'[a], chunks'[a], a, t)
BY DEF grantNow

LEMMA GrantNowOwned ==
  ASSUME NEW a \in Arena, NEW t \in Thread, grantNow[a][t] # NoSerial
  PROVE  Owned(a, t, grantNow[a][t])
BY GrantNowAt, GrantInOwns DEF Owned

\* What a thread is allocating from is its region of the arena it is in.
LEMMA GotIsOwned ==
  ASSUME IInv, NEW t \in Thread, got[t] # NoSerial
  PROVE  pc[t] = "using" /\ on[t] \in Arena /\ Owned(on[t], t, got[t])
<1>1. pc[t] = "using"
  BY DEF IInv, ThreadInv
<1> QED BY <1>1, InArena DEF IInv, CacheInv, Owned

\* Nothing that the promise speaks of changes.
LEMMA NothingChanges ==
  ASSUME IInv, IInv', UNCHANGED <<tag, firstOwner, got>>,
         \A b \in Arena, u \in Thread : SameRegions(chunks[b], chunks'[b], u)
  PROVE  UNCHANGED Promise!vars
<1>1. ASSUME NEW b \in Arena, NEW u \in Thread
      PROVE  GrantIn(firstOwner'[b], chunks'[b], b, u) = GrantIn(firstOwner[b], chunks[b], b, u)
  <2>1. OneRegion(chunks[b]) /\ OneRegion(chunks'[b])
    BY OneRegionEach, OneRegionEachNext
  <2> QED BY <2>1, GrantInSame
<1>2. grantNow' = grantNow
  BY <1>1 DEF grantNow
<1>3. opened' = opened
  BY DEF opened, Live
<1> QED BY <1>2, <1>3, GrantedIs, GrantedIsNext DEF Promise!vars

\* Create and Reset open an arena; its creator owns the region inside it.
LEMMA RenewalRefines ==
  ASSUME IInv, IInv', NEW t \in Thread, NEW a \in Arena, Renewed(t, a)
  PROVE  Promise!Next
<1>1. ASSUME NEW u \in Thread, got[u] # NoSerial PROVE got[u] # granted[a][u]
  <2> SUFFICES ASSUME got[u] = grantNow[a][u] PROVE FALSE
    BY GrantedIs
  <2>1. Owned(a, u, got[u]) /\ Owned(on[u], u, got[u]) /\ on[u] \in Arena
    BY <1>1, GotIsOwned, GrantNowOwned
  <2>2. on[u] # a
    BY DEF Renewed, Quiet
  <2> QED BY <2>1, <2>2, OwnedOnce
<1>2. got' = got
  BY DEF Renewed
<1>3. ASSUME NEW u \in Thread
      PROVE  GrantIn(firstOwner'[a], chunks'[a], a, u) = IF firstOwner'[a] = u THEN a ELSE NoSerial
  <2>1. chunks'[a] = <<>>
    BY DEF Renewed
  <2>2. \A s : ~Placed(chunks'[a], u, s)
    BY <2>1 DEF Placed
  <2> QED BY <2>2 DEF GrantIn
<1>4. ASSUME NEW b \in Arena, b # a, NEW u \in Thread
      PROVE  GrantIn(firstOwner'[b], chunks'[b], b, u) = GrantIn(firstOwner[b], chunks[b], b, u)
  BY <1>4 DEF Renewed
<1>5. grantNow' = [grantNow EXCEPT ![a] =
                     [u \in Thread |-> IF firstOwner'[a] = u THEN a ELSE NoSerial]]
  BY <1>3, <1>4 DEF grantNow
<1>6. granted' = [granted EXCEPT ![a] =
                    [u \in Thread |-> IF firstOwner'[a] = u THEN a ELSE NoSerial]]
  BY <1>5, GrantedIs, GrantedIsNext
<1>7. CASE tag'[a] = NoId
  <2>1. firstOwner'[a] = NoThread
    BY <1>7 DEF Renewed
  <2>2. granted' = [granted EXCEPT ![a] = [u \in Thread |-> NoSerial]]
    BY <1>6, <2>1
  <2>3. opened' = opened \ {a}
    BY <1>7 DEF opened, Live, Renewed
  <2>4. Promise!Close(a)
    BY <1>1, <1>2, <2>2, <2>3 DEF Promise!Close
  <2> QED BY <2>4 DEF Promise!Next
<1>8. CASE tag'[a] # NoId
  <2>1. firstOwner'[a] = t
    BY <1>8 DEF Renewed
  <2>2. granted' = [granted EXCEPT ![a] = [u \in Thread |-> IF u = t THEN a ELSE NoSerial]]
    BY <1>6, <2>1
  <2>3. opened' = opened \cup {a}
    BY <1>8 DEF opened, Live, Renewed
  <2>4. ASSUME NEW b \in Arena \ {a}, NEW u \in Thread PROVE granted[b][u] # a
    <3> SUFFICES ASSUME grantNow[b][u] = a PROVE FALSE
      BY GrantedIs
    <3>1. Owned(b, u, a)
      BY GrantNowOwned
    <3> QED BY <3>1, PlacedIsSerial DEF Owned, Owns
  <2>5. a \notin {granted[b][u] : b \in Arena \ {a}, u \in Thread}
    BY <2>4
  <2>6. Promise!Open(t, a, a)
    BY <1>1, <1>2, <2>2, <2>3, <2>5 DEF Promise!Open
  <2>7. a \in (Arena \cup Serial) \ {NoSerial}
    OBVIOUS
  <2> QED BY <2>6, <2>7 DEF Promise!Next
<1> QED BY <1>7, <1>8

\* A thread begins to allocate from its region.
LEMMA EnteringRefines ==
  ASSUME IInv, IInv', NEW t \in Thread, NEW a \in Arena, NEW s, Owned(a, t, s),
         tag[a] # NoId, pc[t] # "using", got' = [got EXCEPT ![t] = s],
         UNCHANGED <<tag, firstOwner, chunks>>
  PROVE  Promise!Next
<1>1. grantNow[a][t] = s
  BY GrantNowAt, GrantInIs, OneRegionEach DEF Owned
<1>2. got[t] = NoSerial
  BY DEF IInv, ThreadInv
<1>3. s # NoSerial
  BY DEF Owned, Owns
<1>4. granted' = granted /\ granted = grantNow
  BY GrantedIs, GrantedIsNext DEF grantNow
<1>5. a \in opened /\ opened' = opened
  BY DEF opened, Live
<1>6. Promise!Enter(t, a)
  BY <1>1, <1>2, <1>3, <1>4, <1>5 DEF Promise!Enter
<1> QED BY <1>6 DEF Promise!Next

\* The SerialArena s of t comes into the list of the arena a.
LEMMA PlacingRefines ==
  ASSUME IInv, IInv', NEW t \in Thread, NEW a \in Arena, NEW s \in Serial,
         tag[a] # NoId, firstOwner[a] # t,
         \A r : r # NoSerial => ~Placed(chunks[a], t, r),
         \A b \in Arena : Unplaced(chunks[b], s),
         Placed(chunks'[a], t, s),
         \A b \in Arena, u \in Thread :
           b # a \/ u # t => SameRegions(chunks[b], chunks'[b], u),
         UNCHANGED <<tag, firstOwner, got>>
  PROVE  Promise!Next
<1>0. \A b \in Arena : OneRegion(chunks[b]) /\ OneRegion(chunks'[b])
  BY OneRegionEach, OneRegionEachNext
<1>1. GrantIn(firstOwner[a], chunks[a], a, t) = NoSerial
  BY DEF GrantIn
<1>2. GrantIn(firstOwner'[a], chunks'[a], a, t) = s
  <2>1. Owns(firstOwner'[a], chunks'[a], a, t, s)
    BY DEF Owns
  <2> QED BY <1>0, <2>1, GrantInIs
<1>3. ASSUME NEW b \in Arena, NEW u \in Thread, b # a \/ u # t
      PROVE  GrantIn(firstOwner'[b], chunks'[b], b, u) = GrantIn(firstOwner[b], chunks[b], b, u)
  BY <1>0, <1>3, GrantInSame
<1>4. grantNow' = [grantNow EXCEPT ![a][t] = s]
  <2>1. \A b \in Arena, u \in Thread :
          grantNow'[b][u] = IF b = a /\ u = t THEN s ELSE grantNow[b][u]
    BY <1>2, <1>3, GrantNowAt, GrantNowAtNext
  <2>2. grantNow' = [b \in Arena |-> [u \in Thread |-> grantNow'[b][u]]]
    BY DEF grantNow
  <2>3. grantNow = [b \in Arena |-> [u \in Thread |-> grantNow[b][u]]]
    BY DEF grantNow
  <2> HIDE DEF grantNow
  <2> QED BY <2>1, <2>2, <2>3
<1>5. granted = grantNow /\ granted' = [granted EXCEPT ![a][t] = s]
  BY <1>4, GrantedIs, GrantedIsNext
<1>6. granted[a][t] = NoSerial
  BY <1>1, <1>5, GrantNowAt
<1>7. ASSUME NEW b \in Arena, NEW u \in Thread PROVE granted[b][u] # s
  <2> SUFFICES ASSUME grantNow[b][u] = s PROVE FALSE
    BY <1>5
  <2>1. Owned(b, u, s)
    BY GrantNowOwned
  <2> QED BY <2>1 DEF Owned, Owns, Placed, Unplaced
<1>8. s \notin Promise!Granted
  BY <1>7 DEF Promise!Granted
<1>9. a \in opened /\ opened' = opened
  BY DEF opened, Live
<1>10. Promise!Allot(t, a, s)
  BY <1>5, <1>6, <1>8, <1>9 DEF Promise!Allot
<1> QED BY <1>10 DEF Promise!Next

\* Regions stay, and none comes: every filled place of r with the id u was one of q.
LEMMA NoNewRegion ==
  ASSUME NEW q, NEW r, Grows(q, r), Len(q) \in Nat, NEW u \in Thread,
         \A i \in 1..Len(r) : \A j \in 1..Cap(r, i) :
           IdOf(r, i, j) = u /\ SerOf(r, i, j) # NoSerial =>
             /\ i \in 1..Len(q) /\ j \in 1..Cap(q, i)
             /\ IdOf(q, i, j) = u /\ SerOf(q, i, j) = SerOf(r, i, j)
  PROVE  SameRegions(q, r, u)
<1>1. ASSUME NEW s, s # NoSerial, Placed(r, u, s) PROVE Placed(q, u, s)
  BY <1>1 DEF Placed
<1> QED BY <1>1, PlacedStays DEF SameRegions

LEMMA SameIfUnchanged == chunks' = chunks => \A b, u : SameRegions(chunks[b], chunks'[b], u)
BY DEF SameRegions

\* The places that thread t fills hold no region before.
LEMMA NoRegionYet ==
  ASSUME IInv, NEW t \in Thread, pc[t] \in Unlisted \cup {"serial"}, NEW s, s # NoSerial
  PROVE  ~Placed(chunks[on[t]], t, s)
<1>1. CASE pc[t] \in Unlisted
  BY <1>1 DEF IInv, AddInv, Unnamed, Placed
<1>2. CASE pc[t] = "serial"
  <2>1. on[t] \in Arena
    BY <1>2, InArena
  <2>2. /\ head[t] \in 1..Len(chunks[on[t]]) /\ slot[t] \in 1..Cap(chunks[on[t]], head[t])
        /\ IdOf(chunks[on[t]], head[t], slot[t]) = t
        /\ SerOf(chunks[on[t]], head[t], slot[t]) = NoSerial
    BY <1>2 DEF IInv, SlotInv, SlotOK
  <2>3. ASSUME NEW i \in 1..Len(chunks[on[t]]), NEW j \in 1..Cap(chunks[on[t]], i),
               IdOf(chunks[on[t]], i, j) = t
        PROVE  i = head[t] /\ j = slot[t]
    BY <2>1, <2>2, <2>3 DEF IInv, ListInv
  <2> QED BY <2>2, <2>3 DEF Placed
<1> QED BY <1>1, <1>2

\* Steps of AddSerialArena that put no region into a list.
LEMMA AddingStutters ==
  ASSUME IInv, IInv', NEW t \in Thread,
         \/ LoadHead(t) \/ Reserve(t) \/ WriteBack(t) \/ StoreId(t) \/ Lock(t) \/ Refetch(t)
  PROVE  UNCHANGED Promise!vars
<1>0. UNCHANGED <<tag, firstOwner, got>> /\ on[t] \in Arena /\ pc[t] \in Adding
  BY AddingFrame, InArena DEF IInv
<1>1. PICK a, q : a = on[t] /\ q = chunks[a]
  OBVIOUS
<1>2. \A b \in Arena : Grows(chunks[b], chunks'[b]) /\ Len(chunks[b]) \in Nat
  BY AddingGrows, ListsType, ListParts DEF IInv, ListsOK
<1>3. ASSUME NEW b \in Arena, NEW u \in Thread
      PROVE  SameRegions(chunks[b], chunks'[b], u)
  <2>1. CASE chunks' = chunks
    BY <2>1, SameIfUnchanged
  <2>2. CASE Reserve(t) \/ WriteBack(t)
    <3>1. /\ OneListChanges(a) /\ Len(chunks'[a]) = Len(q)
          /\ \A i \in 1..Len(q) :
               /\ Cap(chunks'[a], i) = Cap(q, i)
               /\ \A j \in 1..Cap(q, i) : /\ IdOf(chunks'[a], i, j) = IdOf(q, i, j)
                                          /\ SerOf(chunks'[a], i, j) = SerOf(q, i, j)
      <4>1. CASE Reserve(t)
        BY <1>1, <4>1, ReserveEffect
      <4>2. CASE WriteBack(t)
        BY <1>1, <4>2, WriteBackEffect
      <4> QED BY <2>2, <4>1, <4>2
    <3>2. CASE b = a
      BY <1>1, <1>2, <3>1, <3>2, NoNewRegion
    <3>3. CASE b # a
      BY <3>1, <3>3 DEF OneListChanges, SameRegions
    <3> QED BY <3>2, <3>3
  <2>3. CASE StoreId(t)
    <3>1. /\ head[t] \in 1..Len(q) /\ slot[t] \in 1..Cap(q, head[t])
          /\ OneListChanges(a) /\ Len(chunks'[a]) = Len(q)
          /\ \A i \in 1..Len(q) :
               /\ Cap(chunks'[a], i) = Cap(q, i)
               /\ \A j \in 1..Cap(q, i) :
                    /\ IdOf(chunks'[a], i, j) =
                         IF i = head[t] /\ j = slot[t] THEN t ELSE IdOf(q, i, j)
                    /\ SerOf(chunks'[a], i, j) = SerOf(q, i, j)
      BY <1>1, <2>3, StoreIdEffect
    <3>2. SerOf(q, head[t], slot[t]) = NoSerial
      <4>1. IdOf(q, head[t], slot[t]) = NoThread
        BY <1>1, <2>3 DEF StoreId, IInv, SlotInv, SlotOK
      <4> QED BY <1>0, <1>1, <3>1, <4>1 DEF IInv, ListInv
    <3>3. ASSUME NEW i \in 1..Len(q), NEW j \in 1..Cap(q, i),
                 IdOf(chunks'[a], i, j) = u, SerOf(chunks'[a], i, j) # NoSerial
          PROVE  IdOf(q, i, j) = u /\ SerOf(q, i, j) = SerOf(chunks'[a], i, j)
      BY <3>1, <3>2, <3>3
    <3>4. CASE b = a
      BY <1>1, <1>2, <3>1, <3>3, <3>4, NoNewRegion
    <3>5. CASE b # a
      BY <3>1, <3>5 DEF OneListChanges, SameRegions
    <3> QED BY <3>4, <3>5
  <2> QED BY <2>1, <2>2, <2>3 DEF LoadHead, Lock, Refetch
<1> QED BY <1>0, <1>3, NothingChanges

\* The two steps by which a SerialArena comes into the list.
LEMMA PlacingSteps ==
  ASSUME IInv, IInv', NEW t \in Thread, StoreSerial(t) \/ Grow(t)
  PROVE  Promise!Next
<1>0. /\ UNCHANGED <<tag, firstOwner, got, on, mine>> /\ pc[t] \in {"serial", "grow"}
      /\ pc'[t] = "done"
  BY AddingFrame DEF IInv, StoreSerial, Grow, Goto, TypeOK
<1>1. PICK a, q, s : a = on[t] /\ q = chunks[a] /\ s = mine[t]
  OBVIOUS
<1>2. a \in Arena /\ s \in Serial /\ tag[a] # NoId /\ firstOwner[a] # t
  BY <1>0, <1>1 DEF IInv, ThreadInv, Adding
<1>3. \A r : r # NoSerial => ~Placed(chunks[a], t, r)
  BY <1>0, <1>1, NoRegionYet DEF Unlisted
<1>4. \A b \in Arena : Unplaced(chunks[b], s)
  BY <1>0, <1>1 DEF IInv, AddInv, Unlisted
<1>5. Placed(chunks'[a], t, s)
  BY <1>0, <1>1 DEF IInv, AddInv
<1>6. \A b \in Arena : Grows(chunks[b], chunks'[b]) /\ Len(chunks[b]) \in Nat
  BY AddingGrows, ListsType, ListParts DEF IInv, ListsOK
<1>7. ASSUME NEW u \in Thread, u # t,
             NEW i \in 1..Len(chunks'[a]), NEW j \in 1..Cap(chunks'[a], i),
             IdOf(chunks'[a], i, j) = u, SerOf(chunks'[a], i, j) # NoSerial
      PROVE  /\ i \in 1..Len(q) /\ j \in 1..Cap(q, i)
             /\ IdOf(q, i, j) = u /\ SerOf(q, i, j) = SerOf(chunks'[a], i, j)
  <2>1. CASE StoreSerial(t)
    <3>1. /\ head[t] \in 1..Len(q) /\ slot[t] \in 1..Cap(q, head[t])
          /\ Len(chunks'[a]) = Len(q)
          /\ \A k \in 1..Len(q) :
               /\ Cap(chunks'[a], k) = Cap(q, k)
               /\ \A l \in 1..Cap(q, k) :
                    /\ SerOf(chunks'[a], k, l) =
                         IF k = head[t] /\ l = slot[t] THEN mine[t] ELSE SerOf(q, k, l)
                    /\ IdOf(chunks'[a], k, l) = IdOf(q, k, l)
      BY <1>1, <2>1, StoreSerialEffect
    <3>2. IdOf(q, head[t], slot[t]) = t
      BY <1>1, <2>1 DEF StoreSerial, IInv, SlotInv, SlotOK
    <3> QED BY <1>7, <3>1, <3>2
  <2>2. CASE Grow(t)
    <3>1. HasNewChunk(chunks'[a], q, t, s)
      BY <1>1, <2>2, GrowEffect
    <3>2. CASE i \in 1..Len(q)
      BY <1>7, <3>1, <3>2 DEF HasNewChunk
    <3>3. CASE i \notin 1..Len(q)
      <4>1. i = Len(q) + 1 /\ (j = 1 \/ j \in 2..Cap(chunks'[a], i))
        BY <1>1, <1>2, <1>6, <3>1, <3>3 DEF HasNewChunk
      <4> QED BY <1>7, <3>1, <4>1 DEF HasNewChunk
    <3> QED BY <3>2, <3>3
  <2> QED BY <2>1, <2>2
<1>8. ASSUME NEW b \in Arena, NEW u \in Thread, b # a \/ u # t
      PROVE  SameRegions(chunks[b], chunks'[b], u)
  <2>1. OneListChanges(a)
    BY <1>1, StoreSerialEffect, GrowEffect
  <2>2. CASE b # a
    BY <2>1, <2>2 DEF OneListChanges, SameRegions
  <2>3. CASE b = a
    BY <1>1, <1>6, <1>7, <1>8, <2>3, NoNewRegion
  <2> QED BY <2>2, <2>3
<1> HIDE DEF Promise!Next
<1> QED BY <1>0, <1>2, <1>3, <1>4, <1>5, <1>8, PlacingRefines

LEMMA InitRefines == Init => Promise!Init
<1> SUFFICES ASSUME Init PROVE Promise!Init
  OBVIOUS
<1>1. ASSUME NEW a \in Arena, NEW t \in Thread PROVE grantNow[a][t] = NoSerial
  <2>1. chunks[a] = <<>> /\ firstOwner[a] # t
    BY DEF Init
  <2>2. \A s : ~Placed(chunks[a], t, s)
    BY <2>1 DEF Placed
  <2> QED BY <2>1, <2>2, GrantNowAt DEF GrantIn
<1>2. granted = [a \in Arena |-> [t \in Thread |-> NoSerial]]
  BY <1>1, InvInit, GrantedIs DEF grantNow
<1>3. opened = {} /\ got = [t \in Thread |-> NoSerial]
  BY DEF Init, opened, Live
<1> QED BY <1>2, <1>3 DEF Promise!Init

LEMMA NextRefines == IInv /\ [Next]_vars => [Promise!Next]_(Promise!vars)
<1> SUFFICES ASSUME IInv, [Next]_vars
             PROVE  Promise!Next \/ UNCHANGED Promise!vars
  OBVIOUS
<1>0. IInv' /\ TypeOK
  BY InvStep DEF IInv
<1> HIDE DEF Promise!Next, Promise!vars
<1>s. ASSUME UNCHANGED <<tag, firstOwner, got, chunks>> PROVE UNCHANGED Promise!vars
  BY <1>0, <1>s, SameIfUnchanged, NothingChanges
<1>1. ASSUME NEW t \in Managers, NEW a \in Arena,
             Create(t, a) \/ Reset(t, a) \/ Destroy(t, a)
      PROVE  Promise!Next
  <2>1. t \in Thread /\ Renewed(t, a)
    BY <1>1, RolesOK, Renewal
  <2> QED BY <1>0, <2>1, RenewalRefines
<1>2. ASSUME NEW t \in Thread, NEW a \in Arena,
             GetSerialArenaFast(t, a) \/ GetFirstArena(t, a) \/ GetListedArena(t, a)
      PROVE  Promise!Next
  <2>1. PICK s : Entered(t, a, s)
    BY <1>2, Entering
  <2>2. /\ Owned(a, t, s) /\ tag[a] # NoId /\ pc[t] # "using"
        /\ got' = [got EXCEPT ![t] = s] /\ UNCHANGED <<tag, firstOwner, chunks>>
    BY <2>1 DEF Entered
  <2> QED BY <1>0, <2>2, EnteringRefines
<1>3. ASSUME NEW t \in Thread, FinishAdd(t)
      PROVE  Promise!Next
  <2>1. PICK a, s : a = on[t] /\ s = mine[t]
    OBVIOUS
  <2>2. /\ pc[t] = "done" /\ got' = [got EXCEPT ![t] = s]
        /\ UNCHANGED <<tag, firstOwner, chunks>>
    BY <1>3, <2>1 DEF FinishAdd, AllocateFrom, globals
  <2>3. a \in Arena /\ tag[a] # NoId /\ s \in Serial /\ firstOwner[a] # t
    BY <2>1, <2>2 DEF IInv, ThreadInv, Adding
  <2>4. Owned(a, t, s)
    BY <2>1, <2>2, <2>3 DEF IInv, AddInv, Owned, Owns
  <2> QED BY <1>0, <2>2, <2>3, <2>4, EnteringRefines
<1>4. ASSUME NEW t \in Thread, Leave(t)
      PROVE  Promise!Next
  <2>1. got' = [got EXCEPT ![t] = NoSerial] /\ UNCHANGED <<tag, firstOwner, chunks>>
    BY <1>4 DEF Leave, globals
  <2>2. opened' = opened /\ granted' = granted
    BY <1>0, <2>1, GrantedIs, GrantedIsNext DEF grantNow, opened, Live
  <2>3. Promise!Leave(t)
    BY <2>1, <2>2 DEF Promise!Leave
  <2> QED BY <2>3 DEF Promise!Next
<1>5. ASSUME NEW t \in Thread, StoreSerial(t) \/ Grow(t)
      PROVE  Promise!Next
  BY <1>0, <1>5, PlacingSteps
<1>6. ASSUME NEW t \in Thread,
             \/ LoadHead(t) \/ Reserve(t) \/ WriteBack(t) \/ StoreId(t) \/ Lock(t) \/ Refetch(t)
      PROVE  UNCHANGED Promise!vars
  BY <1>0, <1>6, AddingStutters
<1>7. ASSUME NEW t \in Thread,
             ThreadExit(t) \/ WalkChunk(t) \/ WalkSlot(t) \/ WalkEnd(t)
      PROVE  UNCHANGED Promise!vars
  BY <1>7, <1>s DEF ThreadExit, WalkChunk, WalkSlot, WalkEnd, globals
<1>8. ASSUME NEW t \in Thread, NEW a \in Arena, NewSerialArena(t, a)
      PROVE  UNCHANGED Promise!vars
  BY <1>8, <1>s DEF NewSerialArena, globals
<1>9. ASSUME NEW t \in Walkers, NEW a \in Arena, SpaceAllocated(t, a)
      PROVE  UNCHANGED Promise!vars
  BY <1>9, <1>s DEF SpaceAllocated, globals
<1>10. CASE UNCHANGED vars
  BY <1>10, <1>s DEF vars
<1> QED
  BY <1>1, <1>2, <1>3, <1>4, <1>5, <1>6, <1>7, <1>8, <1>9, <1>10
  DEF Next, GetSerialArena, Step

\* Lifecycle ids, thread caches, slots reserved without a lock and chunk lists are
\* an implementation of arenas that give each thread one region, always the same
\* and never another's, from their creation or Reset to the next.
THEOREM Refinement == Spec => ImplementsArenaThreads
<1>1. Init => Promise!Init
  BY InitRefines
<1>2. IInv /\ [Next]_vars => [Promise!Next]_(Promise!vars)
  BY NextRefines
<1> QED BY <1>1, <1>2, Invariant, PTL DEF Spec, ImplementsArenaThreads, Promise!Spec
===============================================================================
