--------------------------- MODULE ThreadSafeArena ---------------------------
(***************************************************************************)
(* ThreadSafeArena: an arena that many threads allocate from.  Each thread *)
(* gets a SerialArena of its own; the arena lists them in chunks to which  *)
(* entries are added without a lock.  A thread finds its SerialArena again *)
(* through a thread-local ThreadCache, which holds the lifecycle id of the *)
(* last arena it used: ids are never used twice, so a cache that outlives  *)
(* a Reset or the arena cannot be mistaken for a valid one.                *)
(*                                                                         *)
(* A thread is named by the address of its ThreadCache, as in the code: a  *)
(* thread that exits is followed by one whose cache is at the same address *)
(* but new.  The SerialArena inside an arena object, first_arena_, is      *)
(* named by the arena; the others are at addresses of the heap, which are  *)
(* used again after they were freed, and so are those of arenas.           *)
(***************************************************************************)
EXTENDS Naturals, Sequences, FiniteSets

CONSTANTS
  Thread, Arena, Serial,
  kPerThreadIds,  \* lifecycle ids a thread reserves at a time
  kHeaderSize, kEntrySize, kMaxBytes, kGrowthFactor,  \* of the chunks
  NoThread, NoArena, NoSerial, NoId,
  Managers,       \* bound: the threads that create, reset and destroy arenas
  Walkers,        \* bound: the threads that call SpaceAllocated
  MaxBatches      \* bound on the batches of lifecycle ids that are reserved

Least(i, j) == IF i < j THEN i ELSE j

AllocSize(n) == kHeaderSize + kEntrySize * n

\* The capacity of the chunk that follows one of the given capacity.
NextCapacity(prev) ==
  (Least(kMaxBytes, AllocSize(prev) * kGrowthFactor) - kHeaderSize) \div kEntrySize

ASSUME SentinelsApart ==
  NoThread \notin Thread /\ NoArena \notin Arena /\ NoSerial \notin Serial \cup Arena
  /\ Arena \cap Serial = {}
ASSUME RolesOK == Managers \subseteq Thread /\ Walkers \subseteq Thread
ASSUME BatchOK == kPerThreadIds \in Nat \ {0} /\ MaxBatches \in Nat
ASSUME CapacityOK ==
  kMaxBytes \in Nat /\ \A n \in 0..kMaxBytes : NextCapacity(n) \in 1..kMaxBytes

VARIABLES
  lifecycleId,  \* lifecycle_id_: the batches handed out so far
  tag,          \* tag_and_id_ of each arena, NoId while there is none
  firstOwner,   \* first_owner_
  chunks,       \* the list at head_, oldest chunk first
  mutex,        \* holder of mutex_
  parent,       \* parent_ of each SerialArena, NoArena once it is freed
  nextId,       \* ThreadCache::next_lifecycle_id
  seenId,       \* ThreadCache::last_lifecycle_id_seen
  lastSerial,   \* ThreadCache::last_serial_arena
  pc, on,       \* where each thread is, and in which arena
  mine,         \* the SerialArena a thread is adding
  head, slot,   \* the chunk (0 is the sentry) and the entry it works on
  limit,        \* the end of the span a walk is in
  got,          \* the SerialArena a thread is allocating from
  visited,      \* the SerialArenas a SpaceAllocated walk has counted
  owed          \* history: those that were listed when the walk began

globals == <<lifecycleId, tag, firstOwner>>
caches == <<nextId, seenId, lastSerial>>
walk == <<limit, visited, owed>>
vars == <<lifecycleId, tag, firstOwner, chunks, mutex, parent, nextId, seenId,
          lastSerial, pc, on, mine, head, slot, limit, got, visited, owed>>

\* A lifecycle id is written with two digits in base kPerThreadIds: the batch
\* it comes from and its place there.
Id == [batch : Nat, offset : 0..kPerThreadIds - 1]
ASSUME NoIdApart == NoId \notin Id

Successor(id) ==
  IF id.offset = kPerThreadIds - 1
  THEN [batch |-> id.batch + 1, offset |-> 0]
  ELSE [id EXCEPT !.offset = @ + 1]

Chunk == [size : Nat \ {0}, ids : Seq(Thread \cup {NoThread}),
          serials : Seq(Serial \cup {NoSerial})]

capacity(c) == Len(c.ids)
safe_size(c) == Least(capacity(c), c.size)

NewSerialArenaChunk(prev, t, s) ==
  LET n == NextCapacity(prev) IN
  [size |-> 1,
   ids |-> [i \in 1..n |-> IF i = 1 THEN t ELSE NoThread],
   serials |-> [i \in 1..n |-> IF i = 1 THEN s ELSE NoSerial]]

\* The entries of an arena, as pairs of a chunk and a place in it.
Entries(a) ==
  {e \in (1..Len(chunks[a])) \X (1..kMaxBytes) : e[2] <= safe_size(chunks[a][e[1]])}
IdAt(a, e) == chunks[a][e[1]].ids[e[2]]
SerialAt(a, e) == chunks[a][e[1]].serials[e[2]]
Listed(a) == {SerialAt(a, e) : e \in Entries(a)} \ {NoSerial}

Live(a) == tag[a] # NoId
Quiet(a) == \A t \in Thread : on[t] # a

TypeOK ==
  /\ lifecycleId \in Nat
  /\ tag \in [Arena -> Id \cup {NoId}]
  /\ firstOwner \in [Arena -> Thread \cup {NoThread}]
  /\ chunks \in [Arena -> Seq(Chunk)]
  /\ \A a \in Arena : \A i \in 1..Len(chunks[a]) :
       Len(chunks[a][i].serials) = capacity(chunks[a][i])
       /\ capacity(chunks[a][i]) \in 1..kMaxBytes
  /\ mutex \in [Arena -> Thread \cup {NoThread}]
  /\ parent \in [Serial -> Arena \cup {NoArena}]
  /\ nextId \in [Thread -> Id]
  /\ seenId \in [Thread -> Id \cup {NoId}]
  /\ lastSerial \in [Thread -> Arena \cup Serial \cup {NoSerial}]
  /\ pc \in [Thread -> {"idle", "using", "add", "reserve", "full", "id",
                        "serial", "lock", "refetch", "grow", "done", "walk",
                        "slots"}]
  /\ on \in [Thread -> Arena \cup {NoArena}]
  /\ mine \in [Thread -> Serial \cup {NoSerial}]
  /\ head \in [Thread -> Nat] /\ slot \in [Thread -> Nat]
  /\ limit \in [Thread -> Nat]
  /\ got \in [Thread -> Arena \cup Serial \cup {NoSerial}]
  /\ visited \in [Thread -> SUBSET (Arena \cup Serial)]
  /\ owed \in [Thread -> SUBSET Serial]

Init ==
  /\ lifecycleId = 0
  /\ tag = [a \in Arena |-> NoId]
  /\ firstOwner = [a \in Arena |-> NoThread]
  /\ chunks = [a \in Arena |-> <<>>]
  /\ mutex = [a \in Arena |-> NoThread]
  /\ parent = [s \in Serial |-> NoArena]
  /\ nextId = [t \in Thread |-> [batch |-> 0, offset |-> 0]]
  /\ seenId = [t \in Thread |-> NoId]
  /\ lastSerial = [t \in Thread |-> NoSerial]
  /\ pc = [t \in Thread |-> "idle"] /\ on = [t \in Thread |-> NoArena]
  /\ mine = [t \in Thread |-> NoSerial]
  /\ head = [t \in Thread |-> 0] /\ slot = [t \in Thread |-> 0]
  /\ limit = [t \in Thread |-> 0]
  /\ got = [t \in Thread |-> NoSerial]
  /\ visited = [t \in Thread |-> {}] /\ owed = [t \in Thread |-> {}]

-------------------------------------------------------------------------------
(* Creation, Reset and destruction.  They need the arena to be quiet; a Reset
   that is not synchronised with the users of the arena is their error
   (arena.cc:871).  The only state they share with other threads is
   lifecycle_id_, which one fetch_add touches. *)

\* GetNextLifeCycleId: a thread that has used up its batch reserves another.
ReservesOnce(t) == nextId[t] = [batch |-> 0, offset |-> 0]  \* only the first batch
ReservesBatch(t) == nextId[t].offset = 0
GetNextLifeCycleId(t) ==
  IF ReservesBatch(t) THEN [batch |-> lifecycleId, offset |-> 0] ELSE nextId[t]

InitArena(t, a) ==
  LET id == GetNextLifeCycleId(t) IN
  /\ ReservesBatch(t) => lifecycleId < MaxBatches
  /\ lifecycleId' = IF ReservesBatch(t) THEN lifecycleId + 1 ELSE lifecycleId
  /\ nextId' = [nextId EXCEPT ![t] = Successor(id)]
  /\ tag' = [tag EXCEPT ![a] = id]
  /\ chunks' = [chunks EXCEPT ![a] = <<>>]
  /\ firstOwner' = [firstOwner EXCEPT ![a] = t]
  /\ seenId' = [seenId EXCEPT ![t] = id]
  /\ lastSerial' = [lastSerial EXCEPT ![t] = a]

\* Free: every listed SerialArena goes back to the heap.
Freed(a) == [s \in Serial |-> IF s \in Listed(a) THEN NoArena ELSE parent[s]]

Create(t, a) ==
  /\ pc[t] = "idle" /\ ~Live(a)
  /\ InitArena(t, a)
  /\ UNCHANGED <<mutex, parent, pc, on, mine, head, slot, got, walk>>

ResetKeepingId(t, a) ==  \* everything but the lifecycle id is new
  /\ pc[t] = "idle" /\ Live(a) /\ Quiet(a)
  /\ parent' = Freed(a)
  /\ chunks' = [chunks EXCEPT ![a] = <<>>]
  /\ firstOwner' = [firstOwner EXCEPT ![a] = t]
  /\ seenId' = [seenId EXCEPT ![t] = tag[a]]
  /\ lastSerial' = [lastSerial EXCEPT ![t] = a]
  /\ UNCHANGED <<lifecycleId, tag, nextId, mutex, pc, on, mine, head, slot, got, walk>>

Reset(t, a) ==
  /\ pc[t] = "idle" /\ Live(a) /\ Quiet(a)
  /\ parent' = Freed(a)
  /\ InitArena(t, a)
  /\ UNCHANGED <<mutex, pc, on, mine, head, slot, got, walk>>

\* The caches of other threads, and this one's, are left as they are.
Destroy(t, a) ==
  /\ pc[t] = "idle" /\ Live(a) /\ Quiet(a)
  /\ parent' = Freed(a)
  /\ tag' = [tag EXCEPT ![a] = NoId]
  /\ chunks' = [chunks EXCEPT ![a] = <<>>]
  /\ firstOwner' = [firstOwner EXCEPT ![a] = NoThread]
  /\ UNCHANGED <<lifecycleId, mutex, caches, pc, on, mine, head, slot, got, walk>>

\* A thread ends and another begins whose ThreadCache is at the same address.
ThreadExit(t) ==
  /\ pc[t] = "idle"
  /\ nextId' = [nextId EXCEPT ![t] = [batch |-> 0, offset |-> 0]]
  /\ seenId' = [seenId EXCEPT ![t] = NoId]
  /\ lastSerial' = [lastSerial EXCEPT ![t] = NoSerial]
  /\ UNCHANGED <<globals, chunks, mutex, parent, pc, on, mine, head, slot, got, walk>>

-------------------------------------------------------------------------------
(* GetSerialArena: how a thread comes by its SerialArena. *)

CacheSerialArena(t, a, s) ==
  /\ seenId' = [seenId EXCEPT ![t] = tag[a]]
  /\ lastSerial' = [lastSerial EXCEPT ![t] = s]

AllocateFrom(t, a, s) ==
  /\ pc' = [pc EXCEPT ![t] = "using"]
  /\ on' = [on EXCEPT ![t] = a]
  /\ got' = [got EXCEPT ![t] = s]

Miss(t, a) == pc[t] = "idle" /\ Live(a) /\ seenId[t] # tag[a]

GetSerialArenaFast(t, a) ==
  /\ pc[t] = "idle" /\ Live(a) /\ seenId[t] = tag[a]
  /\ AllocateFrom(t, a, lastSerial[t])
  /\ UNCHANGED <<globals, chunks, mutex, parent, caches, mine, head, slot, walk>>

GetFirstArena(t, a) ==
  /\ Miss(t, a) /\ firstOwner[a] = t
  /\ CacheSerialArena(t, a, a)
  /\ AllocateFrom(t, a, a)
  /\ UNCHANGED <<globals, chunks, mutex, parent, nextId, mine, head, slot, walk>>

\* The walk over all chunks for an entry of this thread.  It is one step: the
\* entries with id t are written by t alone, and no chunk leaves the list.
Own(a, t) == {e \in Entries(a) : IdAt(a, e) = t}

GetListedArena(t, a) ==
  /\ Miss(t, a) /\ firstOwner[a] # t
  /\ \E e \in Own(a, t) :
       /\ CacheSerialArena(t, a, SerialAt(a, e))
       /\ AllocateFrom(t, a, SerialAt(a, e))
  /\ UNCHANGED <<globals, chunks, mutex, parent, nextId, mine, head, slot, walk>>

\* SerialArena::New, in a block of its own.
NewSerialArena(t, a) ==
  /\ Miss(t, a) /\ firstOwner[a] # t /\ Own(a, t) = {}
  /\ \E s \in Serial :
       /\ parent[s] = NoArena
       /\ parent' = [parent EXCEPT ![s] = a]
       /\ mine' = [mine EXCEPT ![t] = s]
  /\ on' = [on EXCEPT ![t] = a]
  /\ pc' = [pc EXCEPT ![t] = "add"]
  /\ UNCHANGED <<globals, chunks, mutex, caches, head, slot, got, walk>>

-------------------------------------------------------------------------------
(* AddSerialArena, split at every atomic operation. *)

Goto(t, l) == pc' = [pc EXCEPT ![t] = l]

LoadHead(t) ==
  /\ pc[t] = "add"
  /\ head' = [head EXCEPT ![t] = Len(chunks[on[t]])]
  /\ Goto(t, IF chunks[on[t]] = <<>> THEN "lock" ELSE "reserve")
  /\ UNCHANGED <<globals, chunks, mutex, parent, caches, on, mine, slot, got, walk>>

\* insert: size().fetch_add(1).
HasRoom(c) == c.size < capacity(c)
Reserve(t) ==
  LET c == chunks[on[t]][head[t]] IN
  /\ pc[t] = "reserve"
  /\ chunks' = [chunks EXCEPT ![on[t]][head[t]].size = @ + 1]
  /\ slot' = [slot EXCEPT ![t] = IF HasRoom(c) THEN c.size + 1 ELSE @]
  /\ Goto(t, IF HasRoom(c) THEN "id" ELSE "full")
  /\ UNCHANGED <<globals, mutex, parent, caches, on, mine, head, got, walk>>

\* "Write old value back to avoid potential overflow."
WriteBack(t) ==
  /\ pc[t] = "full"
  /\ chunks' = [chunks EXCEPT ![on[t]][head[t]].size =
                  capacity(chunks[on[t]][head[t]])]
  /\ Goto(t, IF mutex[on[t]] = t THEN "grow" ELSE "lock")
  /\ UNCHANGED <<globals, mutex, parent, caches, on, mine, head, slot, got, walk>>

StoreId(t) ==
  /\ pc[t] = "id"
  /\ chunks' = [chunks EXCEPT ![on[t]][head[t]].ids[slot[t]] = t]
  /\ Goto(t, "serial")
  /\ UNCHANGED <<globals, mutex, parent, caches, on, mine, head, slot, got, walk>>

StoreSerial(t) ==
  /\ pc[t] = "serial"
  /\ chunks' = [chunks EXCEPT ![on[t]][head[t]].serials[slot[t]] = mine[t]]
  /\ Goto(t, "done")
  /\ UNCHANGED <<globals, mutex, parent, caches, on, mine, head, slot, got, walk>>

Lock(t) ==
  /\ pc[t] = "lock" /\ mutex[on[t]] = NoThread
  /\ mutex' = [mutex EXCEPT ![on[t]] = t]
  /\ Goto(t, "refetch")
  /\ UNCHANGED <<globals, chunks, parent, caches, on, mine, head, slot, got, walk>>

\* "Refetch and if someone else installed a new head, try allocating on that!"
StaleHead(t) ==  \* links the new chunk to the head seen before the lock
  /\ pc[t] = "refetch"
  /\ Goto(t, "grow")
  /\ UNCHANGED <<globals, chunks, mutex, parent, caches, on, mine, head, slot, got, walk>>
Refetch(t) ==
  /\ pc[t] = "refetch"
  /\ head' = [head EXCEPT ![t] = Len(chunks[on[t]])]
  /\ Goto(t, IF head'[t] # head[t] THEN "reserve" ELSE "grow")
  /\ UNCHANGED <<globals, chunks, mutex, parent, caches, on, mine, slot, got, walk>>

\* NewSerialArenaChunk, set_next(head) and the store to head_.
Grow(t) ==
  LET older == SubSeq(chunks[on[t]], 1, head[t])
      prev == IF head[t] = 0 THEN 0 ELSE capacity(chunks[on[t]][head[t]]) IN
  /\ pc[t] = "grow"
  /\ chunks' = [chunks EXCEPT ![on[t]] =
                  Append(older, NewSerialArenaChunk(prev, t, mine[t]))]
  /\ Goto(t, "done")
  /\ UNCHANGED <<globals, mutex, parent, caches, on, mine, head, slot, got, walk>>

\* ~MutexLock on the slow path, CacheSerialArena and return.
FinishAddLocked(t) ==  \* returns without unlocking
  /\ pc[t] = "done"
  /\ CacheSerialArena(t, on[t], mine[t])
  /\ AllocateFrom(t, on[t], mine[t])
  /\ mine' = [mine EXCEPT ![t] = NoSerial]
  /\ head' = [head EXCEPT ![t] = 0] /\ slot' = [slot EXCEPT ![t] = 0]
  /\ UNCHANGED <<globals, chunks, mutex, parent, nextId, walk>>

FinishAdd(t) ==
  /\ pc[t] = "done"
  /\ mutex' = [mutex EXCEPT ![on[t]] = IF @ = t THEN NoThread ELSE @]
  /\ CacheSerialArena(t, on[t], mine[t])
  /\ AllocateFrom(t, on[t], mine[t])
  /\ mine' = [mine EXCEPT ![t] = NoSerial]
  /\ head' = [head EXCEPT ![t] = 0] /\ slot' = [slot EXCEPT ![t] = 0]
  /\ UNCHANGED <<globals, chunks, parent, nextId, walk>>

\* The thread has allocated from its SerialArena and leaves the arena.
Leave(t) ==
  /\ pc[t] = "using"
  /\ Goto(t, "idle")
  /\ on' = [on EXCEPT ![t] = NoArena]
  /\ got' = [got EXCEPT ![t] = NoSerial]
  /\ UNCHANGED <<globals, chunks, mutex, parent, caches, mine, head, slot, walk>>

-------------------------------------------------------------------------------
(* SpaceAllocated: VisitSerialArena without any lock. *)

SpaceAllocated(t, a) ==
  /\ pc[t] = "idle" /\ Live(a)
  /\ Goto(t, "walk")
  /\ on' = [on EXCEPT ![t] = a]
  /\ head' = [head EXCEPT ![t] = Len(chunks[a])]
  /\ visited' = [visited EXCEPT ![t] = {a}]
  /\ owed' = [owed EXCEPT ![t] = Listed(a)]
  /\ UNCHANGED <<globals, chunks, mutex, parent, caches, mine, slot, limit, got>>

WalkChunk(t) ==
  /\ pc[t] = "walk" /\ head[t] # 0
  /\ limit' = [limit EXCEPT ![t] = safe_size(chunks[on[t]][head[t]])]
  /\ slot' = [slot EXCEPT ![t] = 1]
  /\ Goto(t, "slots")
  /\ UNCHANGED <<globals, chunks, mutex, parent, caches, on, mine, head, got,
                 visited, owed>>

\* A slot that is reserved but not filled yet is skipped.
CountedIfSet(s) == {s} \ {NoSerial}
EndAtGap(t) ==  \* takes an unfilled slot for the end of the list
  LET s == chunks[on[t]][head[t]].serials[slot[t]] IN
  /\ pc[t] = "slots"
  /\ \/ /\ slot[t] <= limit[t] /\ s # NoSerial
        /\ visited' = [visited EXCEPT ![t] = @ \cup {s}]
        /\ slot' = [slot EXCEPT ![t] = @ + 1]
        /\ UNCHANGED <<pc, head>>
     \/ /\ ~(slot[t] <= limit[t] /\ s # NoSerial)
        /\ head' = [head EXCEPT ![t] = IF slot[t] <= limit[t] THEN 0 ELSE @ - 1]
        /\ Goto(t, "walk")
        /\ UNCHANGED <<visited, slot>>
  /\ UNCHANGED <<globals, chunks, mutex, parent, caches, on, mine, limit, got, owed>>

WalkSlot(t) ==
  /\ pc[t] = "slots"
  /\ \/ /\ slot[t] <= limit[t]
        /\ visited' = [visited EXCEPT ![t] =
             @ \cup CountedIfSet(chunks[on[t]][head[t]].serials[slot[t]])]
        /\ slot' = [slot EXCEPT ![t] = @ + 1]
        /\ UNCHANGED <<pc, head>>
     \/ /\ slot[t] > limit[t]
        /\ head' = [head EXCEPT ![t] = @ - 1]
        /\ Goto(t, "walk")
        /\ UNCHANGED <<visited, slot>>
  /\ UNCHANGED <<globals, chunks, mutex, parent, caches, on, mine, limit, got, owed>>

WalkEnd(t) ==
  /\ pc[t] = "walk" /\ head[t] = 0
  /\ Goto(t, "idle")
  /\ on' = [on EXCEPT ![t] = NoArena]
  /\ visited' = [visited EXCEPT ![t] = {}] /\ owed' = [owed EXCEPT ![t] = {}]
  /\ slot' = [slot EXCEPT ![t] = 0] /\ limit' = [limit EXCEPT ![t] = 0]
  /\ UNCHANGED <<globals, chunks, mutex, parent, caches, mine, head, got>>

-------------------------------------------------------------------------------
GetSerialArena(t, a) ==
  \/ GetSerialArenaFast(t, a) \/ GetFirstArena(t, a) \/ GetListedArena(t, a)
  \/ NewSerialArena(t, a)

Step(t) ==
  \/ LoadHead(t) \/ Reserve(t) \/ WriteBack(t) \/ StoreId(t) \/ StoreSerial(t)
  \/ Lock(t) \/ Refetch(t) \/ Grow(t) \/ FinishAdd(t) \/ Leave(t)
  \/ WalkChunk(t) \/ WalkSlot(t) \/ WalkEnd(t)

Next ==
  \/ \E t \in Managers, a \in Arena : Create(t, a) \/ Reset(t, a) \/ Destroy(t, a)
  \/ \E t \in Thread, a \in Arena : GetSerialArena(t, a)
  \/ \E t \in Walkers, a \in Arena : SpaceAllocated(t, a)
  \/ \E t \in Thread : Step(t) \/ ThreadExit(t)

Spec == Init /\ [][Next]_vars

\* absl::Mutex does not starve a waiter, and every running thread advances.
Fairness == \A t \in Thread : WF_vars(Step(t)) /\ SF_vars(Lock(t))

FairSpec == Spec /\ Fairness
-------------------------------------------------------------------------------
(* Properties. *)

\* The region of an arena that belongs to a thread, if it has one.
Grant(a, t) ==
  LET its == {SerialAt(a, e) : e \in {d \in Entries(a) : IdAt(a, d) = t}} \ {NoSerial}
  IN IF firstOwner[a] = t THEN a
     ELSE IF its = {} THEN NoSerial ELSE CHOOSE s \in its : TRUE

\* A lifecycle id that an arena is given is known to no thread's cache but that
\* of the thread that gave it, and to no other arena: a ThreadCache that
\* outlived any number of arenas at the same address never matches the next
\* one (thread_safe_arena.h:127 "Unique for each arena. Changes on Reset()").
IdsAreFresh ==
  [][\A a \in Arena : Live(a)' /\ tag'[a] # tag[a] =>
       /\ \A b \in Arena : tag[b] # tag'[a]
       /\ \A t \in Thread : seenId[t] # tag'[a]]_vars

\* Whenever a ThreadCache matches an arena, its pointer is the thread's own,
\* live SerialArena of that arena (thread_safe_arena.h:182 asks nothing else).
CacheHitsAreRight ==
  \A t \in Thread, a \in Arena : Live(a) /\ seenId[t] = tag[a] =>
    /\ lastSerial[t] = Grant(a, t)
    /\ lastSerial[t] \in Serial => parent[lastSerial[t]] = a

\* Every SerialArena of an arena is listed exactly once or about to be, so
\* that Free reaches it: losing a race for a slot or for the head loses none.
\* When the arena is quiet, as Free and CleanupList need it to be, every entry
\* of its list is filled with a SerialArena that was not freed yet
\* (ABSL_DCHECK_NE(serial, nullptr), arena.cc:767 and 938).  A thread has at most
\* one entry, also after its cache went to other arenas in between.
ListedOnce ==
  /\ \A s \in Serial : parent[s] # NoArena =>
       \/ \E t \in Thread : mine[t] = s /\ on[t] = parent[s] /\ pc[t] # "done"
       \/ Cardinality({e \in Entries(parent[s]) : SerialAt(parent[s], e) = s}) = 1
  /\ \A a \in Arena : Quiet(a) => \A e \in Entries(a) :
       SerialAt(a, e) # NoSerial /\ parent[SerialAt(a, e)] = a
  /\ \A a \in Arena : \A d, e \in Entries(a) :
       IdAt(a, d) = IdAt(a, e) /\ IdAt(a, d) # NoThread => d = e

\* A SpaceAllocated that runs beside insertions counts only SerialArenas of
\* its arena, and when it ends it has counted all that were listed before it
\* began.
WalkCountsListed ==
  \A t \in Thread : pc[t] \in {"walk", "slots"} =>
    /\ \A s \in visited[t] \ {on[t]} : s # NoSerial /\ parent[s] = on[t]
    /\ head[t] = 0 => owed[t] \subseteq visited[t]

\* Every allocation and every walk of the list ends, also when threads wait for the
\* mutex of AddSerialArena (arena.cc:703), whose holder may try the head that another
\* installed before it makes one, and when chunks are added in front of a walk.
EveryAccessEnds == \A t \in Thread : pc[t] # "idle" ~> pc[t] = "idle"

\* What a client sees of the arenas: which exist, and whose region is whose.
opened == {a \in Arena : Live(a)}
granted == [a \in Arena |-> [t \in Thread |-> Grant(a, t)]]

Promise == INSTANCE ArenaThreads WITH
  open <- opened, grant <- granted,
  Region <- Arena \cup Serial, Nowhere <- NoSerial

\* From the creation or Reset of an arena to the next, GetSerialArena gives a
\* thread always the same region of it, and gives that region to nobody else.
ImplementsArenaThreads == Promise!Spec
===============================================================================
