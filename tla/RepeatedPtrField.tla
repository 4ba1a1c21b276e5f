--------------------------- MODULE RepeatedPtrField ---------------------------
(***************************************************************************)
(* RepeatedPtrField (repeated_ptr_field.h, repeated_ptr_field.cc): a list   *)
(* of messages or strings that keeps the elements it no longer needs,       *)
(* cleared, for the next ones, holds its first element without an array,    *)
(* and lives on the heap or on an arena.  Elements go in and out by         *)
(* pointer, and are copied whenever they would end up with an owner on      *)
(* another arena.  The state is memory: a method takes it to what it is     *)
(* afterwards.                                                              *)
(***************************************************************************)
EXTENDS Integers, Sequences, FiniteSets, SequencesExt

CONSTANTS
  Field, Value, Empty,
  Where,      \* where the fields may be: functions to "heap" and names of arenas
  MaxSize, MaxUser   \* bounds on a field, and on what its user holds

VARIABLES
  arena,      \* where each field is
  m,          \* the objects, the fields, what the user holds, and whether the
              \* wrong object was ever deleted
  answer      \* the values that were taken out by the last call

vars == <<arena, m, answer>>

Greatest(a, b) == IF a > b THEN a ELSE b
Lesser(a, b) == IF a < b THEN a ELSE b

-------------------------------------------------------------------------------
(* Objects.  `at` is the arena that will delete an object, or "heap".        *)

Highest(s) == Max(DOMAIN s.obj \cup {0})
New(s, at, vals) ==
  LET n == Highest(s) IN
  [s EXCEPT !.obj = [i \in DOMAIN @ \cup (n + 1)..(n + Len(vals)) |->
                       IF i <= n THEN @[i] ELSE [at |-> at, val |-> vals[i - n]]]]

Delete(s, ids) ==
  [s EXCEPT !.obj = [i \in DOMAIN @ \ ToSet(ids) |-> @[i]],
            !.wrong = \/ @ \/ ~IsInjective(ids)
                      \/ \E id \in ToSet(ids) : id \notin DOMAIN s.obj \/ s.obj[id].at # "heap"]

\* The objects ids[1], ids[2], ... get these values.
Set(s, ids, vals) ==
  [s EXCEPT !.obj = [i \in DOMAIN @ |->
     IF i \in ToSet(ids) THEN [@[i] EXCEPT !.val = vals[CHOOSE k \in DOMAIN ids : ids[k] = i]] ELSE @[i]]]
ClearEach(s, ids) == Set(s, ids, [k \in DOMAIN ids |-> Empty])

\* The objects in the order in which they are found; those of arenas that nothing
\* points to are left out, and names have no meaning.
Found(s) ==
  LET fields == SetToSeq(Field)
      held == FlattenSeq([i \in DOMAIN fields |-> s.field[fields[i]].elems]) \o SetToSeq(s.user)
      lost == {i \in DOMAIN s.obj : s.obj[i].at = "heap"} \ ToSet(held) IN
  held \o SetToSeq(lost)

Renamed(s) ==
  LET found == Found(s)
      name(id) == CHOOSE i \in DOMAIN found : found[i] = id /\ \A j \in 1..(i - 1) : found[j] # id
      names(ids) == {name(id) : id \in ids}
      inField(F) == [F EXCEPT !.elems = [i \in DOMAIN @ |-> name(@[i])]] IN
  [s EXCEPT !.obj = [i \in names(ToSet(found) \cap DOMAIN @) |-> @[found[i]]],
            !.field = [f \in DOMAIN @ |-> inField(@[f])],
            !.user = names(@)]

-------------------------------------------------------------------------------
(* RepeatedPtrFieldBase.  elems are the elements that are allocated, cleared  *)
(* ones included; a capacity of one is the field's own word.                  *)

NoElements == [capacity |-> 1, elems |-> <<>>, size |-> 0]

ClearedCount(F) == Len(F.elems) - F.size
Reserved(F, n) ==
  IF n <= F.capacity THEN F
  ELSE [F EXCEPT !.capacity = Greatest(2 * @ + 1, n)]

Hold(s, f, elems, size) == [s EXCEPT !.field[f].elems = elems, !.field[f].size = size]

Values(s, f) == [i \in 1..s.field[f].size |-> s.obj[s.field[f].elems[i]].val]

\* An element is made, or reused as it is.
AddInternal(s, f, at) ==
  LET F == s.field[f] IN
  IF ClearedCount(F) > 0
  THEN [s EXCEPT !.field[f].size = @ + 1]
  ELSE [New(s, at, <<Empty>>) EXCEPT
          !.field[f] = [Reserved(F, F.size + 1) EXCEPT !.elems = Append(@, Highest(s) + 1), !.size = @ + 1]]
AddValue(s, f, at, val) ==
  LET t == AddInternal(s, f, at)  F == t.field[f] IN Set(t, <<F.elems[F.size]>>, <<val>>)

RemoveLastUncleared(s, f) == [s EXCEPT !.field[f].size = @ - 1]
RemoveLast(s, f) ==
  LET F == s.field[f] IN ClearEach([s EXCEPT !.field[f].size = @ - 1], <<F.elems[F.size]>>)

Clear(s, f) ==
  LET F == s.field[f] IN [ClearEach(s, SubSeq(F.elems, 1, F.size)) EXCEPT !.field[f].size = 0]

CloseGap(s, f, start, num) ==
  LET F == s.field[f] IN
  Hold(s, f, SubSeq(F.elems, 1, start) \o SubSeq(F.elems, start + num + 1, Len(F.elems)), F.size - num)

\* The first elements are merged into those that are cleared, so that what these
\* hold stays, and the others are copied.
MergeFrom(s, f, from, at) ==
  LET F == s.field[f]
      vals == Values(s, from)
      count == Lesser(ClearedCount(F), Len(vals))
      cleared == SubSeq(F.elems, F.size + 1, F.size + count)
      merged == [k \in 1..count |-> LET old == s.obj[cleared[k]].val IN IF old = Empty THEN vals[k] ELSE old]
      copied == SubSeq(vals, count + 1, Len(vals)) IN
  [Set(New(s, at, copied), cleared, merged) EXCEPT
     !.field[f] = [Reserved(F, F.size + Len(vals)) EXCEPT
                     !.elems = @ \o [k \in DOMAIN copied |-> Highest(s) + k], !.size = @ + Len(vals)]]

CopyFrom(s, f, from, at) ==
  IF f = from THEN s
  ELSE IF s.field[from].size = 0 THEN Clear(s, f) ELSE MergeFrom(Clear(s, f), f, from, at)

AppendElement(s, f, id) ==
  LET F == s.field[f] IN
  Hold([s EXCEPT !.field[f] = Reserved(@, F.size + 1)], f, Append(F.elems, id), F.size + 1)

AddAllocatedOverCleared(s, f, id, at) ==
  LET F == s.field[f] IN
  IF F.size = F.capacity \/ F.size = Len(F.elems) THEN AppendElement(s, f, id)
  ELSE Hold(s, f, [F.elems EXCEPT ![F.size + 1] = id], F.size + 1)

\* If all allocated elements fill the array, a cleared one gives way; otherwise
\* it moves to the end.
UnsafeArenaAddAllocated(s, f, id, at) ==
  LET F == s.field[f]
      cleared == F.elems[F.size + 1]
      placed == [F.elems EXCEPT ![F.size + 1] = id] IN
  IF F.size = F.capacity THEN AppendElement(s, f, id)
  ELSE IF Len(F.elems) = F.capacity
  THEN Hold(IF at = "heap" THEN Delete(s, <<cleared>>) ELSE s, f, placed, F.size + 1)
  ELSE IF F.size < Len(F.elems) THEN Hold(s, f, Append(placed, cleared), F.size + 1)
  ELSE AppendElement(s, f, id)

\* The user gives an object away: an arena owns it if it was on the heap, and a
\* field elsewhere than its arena gets a copy.
AddAllocated(s, f, id, at) ==
  LET from == s.obj[id].at
      given == [s EXCEPT !.user = @ \ {id}] IN
  IF at # "heap" /\ from = "heap" THEN UnsafeArenaAddAllocated([given EXCEPT !.obj[id].at = at], f, id, at)
  ELSE IF at # from THEN UnsafeArenaAddAllocated(New(s, at, <<s.obj[id].val>>), f, Highest(s) + 1, at)
  ELSE UnsafeArenaAddAllocated(given, f, id, at)

\* The last element that is allocated takes the place of the one that leaves.
UnsafeArenaReleaseLast(s, f) ==
  LET F == s.field[f]  n == Len(F.elems) IN
  Hold(s, f, SubSeq([F.elems EXCEPT ![F.size] = F.elems[n]], 1, n - 1), F.size - 1)

\* The user gets objects, or copies of those that an arena owns.
Hand(s, ids, at) ==
  IF at = "heap" THEN [s EXCEPT !.user = @ \cup ToSet(ids)]
  ELSE [New(s, "heap", [k \in DOMAIN ids |-> s.obj[ids[k]].val]) EXCEPT
          !.user = @ \cup (Highest(s) + 1)..(Highest(s) + Len(ids))]

ReleaseLast(s, f, at) ==
  LET F == s.field[f] IN Hand(UnsafeArenaReleaseLast(s, f), <<F.elems[F.size]>>, at)

Subrange(s, f, start, num) == SubSeq(s.field[f].elems, start + 1, start + num)
ExtractSubrange(s, f, start, num, at) == CloseGap(Hand(s, Subrange(s, f, start, num), at), f, start, num)
DeleteSubrange(s, f, start, num, at) ==
  CloseGap(IF at = "heap" THEN Delete(s, Subrange(s, f, start, num)) ELSE s, f, start, num)

\* ~RepeatedPtrField; the elements on an arena are the arena's.
Destroyed(s, f, at) ==
  [(IF at = "heap" THEN Delete(s, s.field[f].elems) ELSE s) EXCEPT !.field[f] = NoElements]

InternalSwap(s, f, g) == [s EXCEPT !.field[f] = s.field[g], !.field[g] = s.field[f]]

\* The temporary is on the other field's arena.
SwapFallback(s, f, g, at, other) ==
  LET t == IF s.field[f].size = 0 THEN s ELSE MergeFrom(s, "temp", f, other) IN
  Destroyed(InternalSwap(CopyFrom(t, f, g, at), g, "temp"), "temp", other)

-------------------------------------------------------------------------------
(* A user. *)

Becomes(s) == m' = Renamed(s) /\ answer' = <<>> /\ UNCHANGED arena
Takes(s, values) == m' = Renamed(s) /\ answer' = values /\ UNCHANGED arena
Room(f, n) == m.field[f].size + n <= MaxSize

Add(f) == Room(f, 1) /\ Becomes(AddInternal(m, f, arena[f]))
AddOf(f, val) == Room(f, 1) /\ Becomes(AddValue(m, f, arena[f], val))
DropLast(f) == m.field[f].size > 0 /\ Becomes(RemoveLast(m, f))
ClearAll(f) == Becomes(Clear(m, f))
Reserve(f) == Becomes([m EXCEPT !.field[f] = Reserved(@, MaxSize)])
Merge(f, g) ==
  /\ f # g /\ m.field[g].size > 0 /\ Room(f, m.field[g].size)
  /\ Becomes(MergeFrom(m, f, g, arena[f]))
Copy(f, g) == Becomes(CopyFrom(m, f, g, arena[f]))

Swap(f, g) ==
  /\ f # g
  /\ Becomes(IF arena[f] = arena[g] THEN InternalSwap(m, f, g) ELSE SwapFallback(m, f, g, arena[f], arena[g]))

Move(f, g) ==
  /\ f # g
  /\ Becomes(IF arena[f] = arena[g] THEN InternalSwap(m, f, g) ELSE CopyFrom(m, f, g, arena[f]))

SwapElements(f) ==
  \E i, j \in 1..m.field[f].size :
    LET elems == m.field[f].elems IN
    Becomes([m EXCEPT !.field[f].elems = [elems EXCEPT ![i] = elems[j], ![j] = elems[i]]])

GiveObject(f) == Room(f, 1) /\ \E id \in m.user : Becomes(AddAllocated(m, f, id, arena[f]))
TakeLast(f) ==
  /\ m.field[f].size > 0 /\ Cardinality(m.user) < MaxUser
  /\ Takes(ReleaseLast(m, f, arena[f]), <<Last(Values(m, f))>>)
TakeRange(f) ==
  \E start \in 0..m.field[f].size : \E num \in 1..(m.field[f].size - start) :
    /\ Cardinality(m.user) + num <= MaxUser
    /\ Takes(ExtractSubrange(m, f, start, num, arena[f]), SubSeq(Values(m, f), start + 1, start + num))
DeleteRange(f) ==
  \E start \in 0..m.field[f].size : \E num \in 0..(m.field[f].size - start) :
    Becomes(DeleteSubrange(m, f, start, num, arena[f]))
Destroy(f) == Becomes(Destroyed(m, f, arena[f]))

UserNew(at) ==
  /\ Cardinality(m.user) < MaxUser
  /\ \E val \in Value : Becomes([New(m, at, <<val>>) EXCEPT !.user = @ \cup {Highest(m) + 1}])
UserDelete ==
  \E id \in m.user : Becomes([(IF m.obj[id].at = "heap" THEN Delete(m, <<id>>) ELSE m) EXCEPT !.user = @ \ {id}])

Init ==
  /\ arena \in Where
  /\ m = [obj |-> <<>>, user |-> {}, wrong |-> FALSE,
          field |-> [f \in Field \cup {"temp"} |-> NoElements]]
  /\ answer = <<>>

Next ==
  \/ \E f \in Field : \/ Add(f) \/ (\E val \in Value : AddOf(f, val)) \/ DropLast(f) \/ ClearAll(f) \/ Reserve(f)
                      \/ SwapElements(f) \/ GiveObject(f) \/ TakeLast(f) \/ TakeRange(f) \/ DeleteRange(f)
                      \/ Destroy(f)
  \/ \E f, g \in Field : Merge(f, g) \/ Copy(f, g) \/ Swap(f, g) \/ Move(f, g)
  \/ (\E f \in Field : UserNew(arena[f])) \/ UserDelete

Spec == Init /\ [][Next]_vars

-------------------------------------------------------------------------------
(* Properties. *)

\* Every object has one owner: it is in one place, among the allocated elements of
\* one field or in the hands of the user, and in none only on an arena, so that what
\* is on the heap is deleted once and not lost; the elements of a field are all
\* there, and on its arena; and nothing was deleted that was not the field's.
EveryObjectHasOneOwner ==
  LET places(id) == UNION {{f} \X {i \in DOMAIN m.field[f].elems : m.field[f].elems[i] = id} : f \in DOMAIN m.field} IN
  /\ ~m.wrong
  /\ m.user \subseteq DOMAIN m.obj
  /\ \A f \in Field : /\ ToSet(m.field[f].elems) \subseteq DOMAIN m.obj
                      /\ \A id \in ToSet(m.field[f].elems) : m.obj[id].at = arena[f]
                      /\ m.field[f].size <= Len(m.field[f].elems)
                      /\ Len(m.field[f].elems) <= m.field[f].capacity
  /\ \A id \in DOMAIN m.obj :
       /\ Cardinality(places(id)) <= 1
       /\ id \in m.user => places(id) = {}
       /\ m.obj[id].at = "heap" => places(id) # {} \/ id \in m.user

Lists == INSTANCE RepeatedLists WITH lists <- [f \in Field |-> Values(m, f)]

\* Cleared elements, arrays that grow, copies across arenas and gaps that are
\* closed never show: each field is the list its user made.
ImplementsLists == Lists!Spec
===============================================================================
