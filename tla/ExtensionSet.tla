----------------------------- MODULE ExtensionSet -----------------------------
(***************************************************************************)
(* ExtensionSet (extension_set.h, extension_set.cc): the extensions of a    *)
(* message, in an array that is sorted by number and becomes a tree when    *)
(* there are too many.  An extension that was cleared stays with its        *)
(* message for the next value.  Sets live on the heap or on an arena, and   *)
(* merge and swap across.  Extensions are singular messages here.           *)
(***************************************************************************)
EXTENDS Naturals, FiniteSets, SequencesExt

CONSTANTS
  Sets,
  Number,                 \* of extensions, naturals
  Value, Empty, None,     \* of messages; Empty is the value of a new one, None of none
  Where,                  \* where the sets may be: functions to "heap" and names of arenas
  kMaximumFlatCapacity,
  MaxUser                 \* bound on the messages that the user holds

VARIABLES
  arena,    \* where each set is
  s,        \* the sets, the user's messages, and what is allocated on the heap
  answer    \* the value of the message that the last call released

vars == <<arena, s, answer>>

-------------------------------------------------------------------------------
(* Memory.  The heap counts the messages and the tables (arrays and trees)   *)
(* that are on it; `wrong` says that something else was given back to it.    *)

NewMessage(m, at, val) == [m EXCEPT !.messages = @ + (IF at = "heap" THEN 1 ELSE 0), !.new = [at |-> at, val |-> val]]
DeleteMessage(m, msg) ==
  [m EXCEPT !.messages = IF msg.at = "heap" THEN @ - 1 ELSE @, !.wrong = @ \/ msg.at # "heap"]

NewTable(m, at) == [m EXCEPT !.tables = @ + (IF at = "heap" THEN 1 ELSE 0)]
\* An array is given back, to the heap or to its arena, with the size it has.
DeleteFlatMap(m, f, at) ==
  LET X == m.set[f] IN
  IF X.flat_capacity_ = 0 THEN m
  ELSE [m EXCEPT !.tables = @ - (IF at = "heap" THEN 1 ELSE 0), !.wrong = @ \/ X.flat_capacity_ # X.room]

-------------------------------------------------------------------------------
(* The array and the tree.                                                   *)

NoExtensions == [flat_capacity_ |-> 0, room |-> 0, is_large |-> FALSE, exts |-> <<>>]

At(m, f, n) == {i \in DOMAIN m.set[f].exts : m.set[f].exts[i].number = n}
Find(m, f, n) == m.set[f].exts[CHOOSE i \in At(m, f, n) : TRUE]
Change(m, f, n, ext) == [m EXCEPT !.set[f].exts[CHOOSE i \in At(m, f, n) : TRUE] = ext]

Quadrupled(capacity) == {(IF capacity = 0 THEN 1 ELSE 4 * capacity) * 4^k : k \in 0..7}
GrowCapacity(m, f, minimum, at) ==
  LET X == m.set[f]
      new == Min({c \in Quadrupled(X.flat_capacity_) : c >= minimum})
      tree == new > kMaximumFlatCapacity IN
  IF X.is_large \/ X.flat_capacity_ >= minimum THEN m
  ELSE [NewTable(DeleteFlatMap(m, f, at), at) EXCEPT
          !.set[f] = [flat_capacity_ |-> new, room |-> IF tree THEN 0 ELSE new, is_large |-> tree, exts |-> X.exts]]

\* A number that is not there; growing may make a tree of the array.
Insert(m, f, ext, at) ==
  LET X == m.set[f]
      i == Cardinality({j \in DOMAIN X.exts : X.exts[j].number < ext.number}) + 1
      grown == IF ~X.is_large /\ Len(X.exts) = X.flat_capacity_ THEN GrowCapacity(m, f, Len(X.exts) + 1, at) ELSE m IN
  [grown EXCEPT !.set[f].exts = InsertAt(@, i, ext)]

Erase(m, f, n) == [m EXCEPT !.set[f].exts = SelectSeq(@, LAMBDA e : e.number # n)]

IsCompletelyEmpty(X) == X.exts = <<>> /\ X.flat_capacity_ = 0

BitCeil(n) == Min({c \in {2^k : k \in 0..15} : c >= n})
Allocated(m, f, capacity, at) ==
  [NewTable(m, at) EXCEPT !.set[f].flat_capacity_ = capacity, !.set[f].room = capacity]
InternalReduceSmallCapacity(m, f, at) ==
  Allocated(DeleteFlatMap(m, f, at), f, BitCeil(Len(m.set[f].exts)), at)

-------------------------------------------------------------------------------
(* Values.                                                                   *)

Extension(n, m) == [number |-> n, message |-> m.new, is_cleared |-> FALSE]
Merged(old, new) == IF new = Empty THEN old ELSE new

ClearExtension(m, f, n) ==
  IF At(m, f, n) = {} THEN m
  ELSE Change(m, f, n, [Find(m, f, n) EXCEPT !.message.val = Empty, !.is_cleared = TRUE])
Clear(m, f) ==
  [m EXCEPT !.set[f].exts = [i \in DOMAIN @ |-> [@[i] EXCEPT !.message.val = Empty, !.is_cleared = TRUE]]]

StaysCleared(m, f, ext, at) ==
  LET copied == NewMessage(m, at, ext.message.val) IN
  IF At(m, f, ext.number) = {} THEN Insert(copied, f, [ext EXCEPT !.message = copied.new], at)
  ELSE Change(m, f, ext.number, [Find(m, f, ext.number) EXCEPT !.message.val = Merged(@, ext.message.val)])
\* A new extension is a copy, also of one that is cleared.
InternalExtensionMergeFrom(m, f, ext, at) ==
  LET copied == NewMessage(m, at, ext.message.val)
      mine == Find(m, f, ext.number) IN
  IF At(m, f, ext.number) = {} THEN Insert(copied, f, [ext EXCEPT !.message = copied.new], at)
  ELSE IF ext.is_cleared THEN m
  ELSE Change(m, f, ext.number,
         [mine EXCEPT !.is_cleared = FALSE, !.message.val = Merged(@, ext.message.val)])

\* The array is reserved when the first extension that is not cleared is met, for
\* all that follow, and made smaller if that was too much.
InternalMergeFromSmallToEmpty(m, f, from, at) ==
  LET exts == m.set[from].exts
      live == SelectSeq(exts, LAMBDA e : ~e.is_cleared)
      before == Min({i \in DOMAIN exts : ~exts[i].is_cleared}) - 1
      copy(t, e) == LET c == NewMessage(t, at, e.message.val) IN
                    [c EXCEPT !.set[f].exts = Append(@, [e EXCEPT !.message = c.new])]
      filled == FoldLeft(copy, Allocated(m, f, BitCeil(Len(exts) - before), at), live) IN
  IF live = <<>> THEN m
  ELSE IF filled.set[f].flat_capacity_ >= 2 * Len(live) THEN InternalReduceSmallCapacity(filled, f, at)
  ELSE filled

SizeOfUnion(X, Y) ==
  Len(X.exts) + Cardinality({i \in DOMAIN Y.exts :
    ~Y.exts[i].is_cleared /\ \A j \in DOMAIN X.exts : X.exts[j].number # Y.exts[i].number})
InternalMergeFromSlow(m, f, from, at) ==
  FoldLeft(LAMBDA t, e : InternalExtensionMergeFrom(t, f, e, at),
           GrowCapacity(m, f, SizeOfUnion(m.set[f], m.set[from]), at), m.set[from].exts)

MergeFrom(m, f, from, at) ==
  IF IsCompletelyEmpty(m.set[f]) /\ ~m.set[from].is_large
  THEN InternalMergeFromSmallToEmpty(m, f, from, at)
  ELSE InternalMergeFromSlow(m, f, from, at)

\* ~ExtensionSet; on an arena nothing is deleted.
Destroyed(m, f, at) ==
  LET X == m.set[f]
      freed == FoldLeft(LAMBDA t, e : DeleteMessage(t, e.message), m, X.exts)
      gone == IF X.is_large THEN [freed EXCEPT !.tables = @ - 1] ELSE DeleteFlatMap(freed, f, "heap") IN
  [(IF at = "heap" THEN gone ELSE m) EXCEPT !.set[f] = NoExtensions]

InternalSwap(m, f, g) == [m EXCEPT !.set[f] = m.set[g], !.set[g] = m.set[f]]
\* The temporary is on the heap.
SwapAcross(m, f, g) ==
  LET taken == Clear(MergeFrom(m, "temp", g, "heap"), g)
      given == Clear(MergeFrom(taken, g, f, arena[g]), f) IN
  Destroyed(MergeFrom(given, f, "temp", arena[f]), "temp", "heap")

\* Within an arena, extensions move with their messages.
UnsafeShallowSwapExtension(m, f, g, n) ==
  LET one(a, b) == Erase(Insert(m, a, Find(m, b, n), arena[a]), b, n) IN
  IF At(m, f, n) = {} THEN one(f, g) ELSE IF At(m, g, n) = {} THEN one(g, f)
  ELSE Change(Change(m, f, n, Find(m, g, n)), g, n, Find(m, f, n))

ErasedOnly(m, f, g, n) ==
  LET one(a, b) == Erase(InternalExtensionMergeFrom(m, a, Find(m, b, n), arena[a]), b, n) IN
  IF At(m, f, n) = {} THEN one(f, g) ELSE IF At(m, g, n) = {} THEN one(g, f) ELSE m
SwapExtensionAcross(m, f, g, n) ==
  LET one(a, b) == LET moved == InternalExtensionMergeFrom(m, a, Find(m, b, n), arena[a]) IN
                   Erase(IF arena[b] = "heap" THEN DeleteMessage(moved, Find(m, b, n).message) ELSE moved, b, n)
      taken == ClearExtension(InternalExtensionMergeFrom(m, "temp", Find(m, g, n), "heap"), g, n)
      given == ClearExtension(InternalExtensionMergeFrom(taken, g, Find(m, f, n), arena[g]), f, n)
      back == InternalExtensionMergeFrom(given, f, Find(taken, "temp", n), arena[f]) IN
  IF At(m, f, n) = {} THEN one(f, g) ELSE IF At(m, g, n) = {} THEN one(g, f)
  ELSE Destroyed(back, "temp", "heap")

-------------------------------------------------------------------------------
(* A user.                                                                   *)

Becomes(m) == s' = [m EXCEPT !.new = None] /\ answer' = None /\ UNCHANGED arena

\* MutableMessage, and perhaps a field of the message.
MutableMessage(f, n) ==
  \E val \in Value \cup {Empty} :
    LET made == NewMessage(s, arena[f], Empty)
        m == IF At(s, f, n) = {} THEN Insert(made, f, Extension(n, made), arena[f]) ELSE s
        ext == Find(m, f, n) IN
    Becomes(Change(m, f, n, [ext EXCEPT !.is_cleared = FALSE, !.message.val = Merged(@, val)]))

\* Of a heap set the message itself, of an arena's a copy.
ReleaseMessage(f, n) ==
  /\ At(s, f, n) # {} /\ Cardinality(DOMAIN s.user) < MaxUser
  /\ LET msg == Find(s, f, n).message
         m == IF arena[f] = "heap" THEN [s EXCEPT !.new = msg] ELSE NewMessage(s, "heap", msg.val) IN
     /\ s' = [Erase(m, f, n) EXCEPT !.user = Append(@, m.new), !.new = None]
     /\ answer' = msg.val
  /\ UNCHANGED arena

\* A message of the heap is owned by the arena from now on; one of another arena
\* is not allowed.
SetAllocatedMessage(f, n) ==
  \E i \in DOMAIN s.user :
    LET msg == s.user[i]
        given == [s EXCEPT !.user = RemoveAt(@, i), !.new = [msg EXCEPT !.at = arena[f]],
                           !.messages = IF msg.at # arena[f] THEN @ - 1 ELSE @]
        old == Find(s, f, n).message IN
    /\ msg.at \in {"heap", arena[f]}
    /\ Becomes(IF At(s, f, n) = {} THEN Insert(given, f, Extension(n, given), arena[f])
               ELSE Change(IF arena[f] = "heap" THEN DeleteMessage(given, old) ELSE given,
                           f, n, Extension(n, given)))

Merge(f, g) == f # g /\ Becomes(MergeFrom(s, f, g, arena[f]))
Swap(f, g) == f # g /\ Becomes(IF arena[f] = arena[g] THEN InternalSwap(s, f, g) ELSE SwapAcross(s, f, g))
SwapExtension(f, g, n) ==
  /\ f # g /\ At(s, f, n) \cup At(s, g, n) # {}
  /\ Becomes(IF arena[f] = arena[g] THEN UnsafeShallowSwapExtension(s, f, g, n) ELSE SwapExtensionAcross(s, f, g, n))
Destroy(f) == Becomes(Destroyed(s, f, arena[f]))

UserNew(at) ==
  /\ Len(s.user) < MaxUser
  /\ \E val \in Value \cup {Empty} : LET m == NewMessage(s, at, val) IN Becomes([m EXCEPT !.user = Append(@, m.new)])
UserDelete ==
  \E i \in DOMAIN s.user :
    Becomes([(IF s.user[i].at = "heap" THEN DeleteMessage(s, s.user[i]) ELSE s) EXCEPT !.user = RemoveAt(@, i)])

Init ==
  /\ arena \in Where
  /\ s = [set |-> [f \in Sets \cup {"temp"} |-> NoExtensions], user |-> <<>>, new |-> None,
          messages |-> 0, tables |-> 0, wrong |-> FALSE]
  /\ answer = None

Next ==
  \/ \E f \in Sets, n \in Number : \/ MutableMessage(f, n) \/ ReleaseMessage(f, n) \/ SetAllocatedMessage(f, n)
                                   \/ Becomes(ClearExtension(s, f, n))
  \/ \E f \in Sets : Becomes(Clear(s, f)) \/ Destroy(f) \/ UserNew(arena[f])
  \/ \E f, g \in Sets : Merge(f, g) \/ Swap(f, g) \/ \E n \in Number : SwapExtension(f, g, n)
  \/ UserDelete

Spec == Init /\ [][Next]_vars

-------------------------------------------------------------------------------
(* Properties. *)

\* Everything on the heap has one owner, so that it is deleted once and not lost:
\* messages are in one set on the heap or with the user, and each set there has
\* one table; the messages of a set are on its arena.  Arrays are as large as
\* their set believes, sorted, and hold all extensions.
EveryMessageHasOneOwner ==
  LET inHeapSets == FoldFunctionOnSet(+, 0, [f \in Sets |-> Len(s.set[f].exts)], {f \in Sets : arena[f] = "heap"}) IN
  /\ ~s.wrong /\ s.set["temp"] = NoExtensions
  /\ s.messages = inHeapSets + Len(SelectSeq(s.user, LAMBDA msg : msg.at = "heap"))
  /\ s.tables = Cardinality({f \in Sets : arena[f] = "heap" /\ s.set[f].flat_capacity_ > 0})
  /\ \A f \in Sets : LET X == s.set[f] IN
       /\ \A i \in DOMAIN X.exts : X.exts[i].message.at = arena[f]
       /\ \A i \in 1..(Len(X.exts) - 1) : X.exts[i].number < X.exts[i + 1].number
       /\ ~X.is_large => X.room = X.flat_capacity_ /\ Len(X.exts) <= X.room
       /\ X.is_large <=> X.flat_capacity_ > kMaximumFlatCapacity

ValueOf(f, n) ==
  IF At(s, f, n) = {} \/ Find(s, f, n).is_cleared THEN None ELSE Find(s, f, n).message.val

Values == INSTANCE ExtensionValues WITH values <- [f \in Sets |-> [n \in Number |-> ValueOf(f, n)]]

\* Cleared extensions that stay, arrays that grow, shrink and become trees, and
\* copies across arenas never show: each set has the values that its user gave it.
ImplementsExtensions == Values!Spec
===============================================================================
