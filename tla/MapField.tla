------------------------------- MODULE MapField -------------------------------
(***************************************************************************)
(* MapFieldBase: a map field keeps its content in a hash map and, once     *)
(* reflection has asked for it, also in a repeated field of entries that   *)
(* lives in a ReflectionPayload.  A state word says which copy is newer;   *)
(* the older one is rebuilt on demand, by const accessors, which may run   *)
(* on several threads.                                                     *)
(*                                                                         *)
(* Const accessors are split at every atomic load, store, CAS and mutex    *)
(* operation.  Mutators are single steps that need the field to be quiet:  *)
(* "by our API it's the callers responsibility to have these calls         *)
(* properly ordered" (map_field.h:394).                                    *)
(***************************************************************************)
EXTENDS Naturals, Sequences, FiniteSets

CONSTANTS
  Field, Thread, Key, Value,
  PayloadId,   \* addresses at which a ReflectionPayload can be allocated
  ArenaOf,     \* the arena (or the heap) each field was allocated on
  Absent, NoPayload, NoThread, NoField,
  MaxEntries   \* bound on the entries a caller adds to one repeated field

ASSUME KeysFinite == IsFiniteSet(Key)
ASSUME SentinelsDistinct ==
  /\ Absent \notin Value
  /\ NoPayload \notin PayloadId
  /\ NoThread \notin Thread
  /\ NoField \notin Field
ASSUME BoundOK == MaxEntries \in Nat

VARIABLES
  map,      \* the hash map of each field
  payload,  \* globals_or_payload_: the published payload of each field
  state,    \* state_ of each payload
  rep,      \* repeated_field_ of each payload, a sequence of entries
  holder,   \* owner of the mutex_ of each payload
  mapRef,   \* the caller holds a Map* that MutableMap gave it
  repRef,   \* the caller holds a RepeatedPtrField* from MutableRepeatedField
  pc, op, on,  \* the const accessor each thread is in, and on which field
  mine,     \* the payload a thread allocated or found
  todo,     \* the keys a thread has still to copy, map to repeated
  pos,      \* the next entry a thread copies, repeated to map
  answer    \* what the last accessor of each thread returned

shared == <<map, payload, state, rep, holder, mapRef, repRef>>
Threads == <<pc, op, on, mine, todo, pos, answer>>
vars == <<map, payload, state, rep, holder, mapRef, repRef,
          pc, op, on, mine, todo, pos, answer>>

State == {"MODIFIED_MAP", "MODIFIED_REPEATED", "CLEAN"}
Accessor == {"GetMap", "GetRepeatedField", "SpaceUsed"}
Entry == [key : Key, value : Value]
Contents == [Key -> Value \cup {Absent}]
Empty == [k \in Key |-> Absent]

Present(m) == {k \in Key : m[k] # Absent}

\* The map a sequence of entries denotes: a later entry of a key wins.
LastAt(s, k) ==
  CHOOSE i \in 1..Len(s) :
    s[i].key = k /\ \A j \in 1..Len(s) : s[j].key = k => j <= i
MapOf(s) ==
  [k \in Key |-> IF \E i \in 1..Len(s) : s[i].key = k
                 THEN s[LastAt(s, k)].value ELSE Absent]

\* The sequences that list every entry of m once, in any hash order.
Listings(m) ==
  {[i \in DOMAIN ks |-> [key |-> ks[i], value |-> m[ks[i]]]] :
     ks \in {q \in [1..Cardinality(Present(m)) -> Present(m)] :
               \A k \in Present(m) : \E i \in DOMAIN q : q[i] = k}}

\* state(): without a payload the map is the only copy.
StateOf(f) ==
  IF payload[f] = NoPayload THEN "MODIFIED_MAP" ELSE state[payload[f]]

\* The content a field stands for.
Content(f) ==
  IF StateOf(f) = "MODIFIED_REPEATED" THEN MapOf(rep[payload[f]]) ELSE map[f]

\* UntypedMergeFrom: the entries of the source win.
Merged(dst, src) ==
  [k \in Key |-> IF src[k] = Absent THEN dst[k] ELSE src[k]]

Quiet(f) == \A t \in Thread : on[t] # f

Fresh(p) == /\ p \notin {payload[f] : f \in Field}
            /\ p \notin {mine[t] : t \in Thread}

TypeOK ==
  /\ map \in [Field -> Contents]
  /\ payload \in [Field -> PayloadId \cup {NoPayload}]
  /\ state \in [PayloadId -> State]
  /\ rep \in [PayloadId -> Seq(Entry)]
  /\ holder \in [PayloadId -> Thread \cup {NoThread}]
  /\ mapRef \in [Field -> BOOLEAN]
  /\ repRef \in [Field -> BOOLEAN]
  /\ pc \in [Thread -> {"idle", "state", "payload", "cas", "lock", "check",
                        "fill", "publish", "unlock", "read"}]
  /\ op \in [Thread -> Accessor \cup {"none"}]
  /\ on \in [Thread -> Field \cup {NoField}]
  /\ mine \in [Thread -> PayloadId \cup {NoPayload}]
  /\ todo \in [Thread -> SUBSET Key]
  /\ pos \in [Thread -> Nat \ {0}]
  /\ answer \in [Thread -> Contents]

Init ==
  /\ map = [f \in Field |-> Empty]
  /\ payload = [f \in Field |-> NoPayload]
  /\ state = [p \in PayloadId |-> "MODIFIED_MAP"]
  /\ rep = [p \in PayloadId |-> <<>>]
  /\ holder = [p \in PayloadId |-> NoThread]
  /\ mapRef = [f \in Field |-> FALSE]
  /\ repRef = [f \in Field |-> FALSE]
  /\ pc = [t \in Thread |-> "idle"]
  /\ op = [t \in Thread |-> "none"]
  /\ on = [t \in Thread |-> NoField]
  /\ mine = [t \in Thread |-> NoPayload]
  /\ todo = [t \in Thread |-> {}]
  /\ pos = [t \in Thread |-> 1]
  /\ answer = [t \in Thread |-> Empty]

-------------------------------------------------------------------------------
(* Const accessors: SyncMapWithRepeatedField, SyncRepeatedFieldWithMap(false)
   and SpaceUsedExcludingSelfLong, interleaved. *)

Goto(t, l) == pc' = [pc EXCEPT ![t] = l]

\* A map accessor may invalidate the caller's RepeatedPtrField*, a repeated
\* accessor its Map*: the call can leave the other copy CLEAN.
Begin(t, f, o) ==
  /\ pc[t] = "idle"
  /\ op' = [op EXCEPT ![t] = o]
  /\ on' = [on EXCEPT ![t] = f]
  /\ Goto(t, IF o = "SpaceUsed" THEN "payload" ELSE "state")
  /\ repRef' = [repRef EXCEPT ![f] = @ /\ o # "GetMap"]
  /\ mapRef' = [mapRef EXCEPT ![f] = @ /\ o # "GetRepeatedField"]
  /\ UNCHANGED <<map, payload, state, rep, holder, mine, todo, pos, answer>>

\* The copy an accessor wants is out of date.
Stale(o, s) == \/ o = "GetMap" /\ s = "MODIFIED_REPEATED"
               \/ o = "GetRepeatedField" /\ s = "MODIFIED_MAP"

\* The first look at state(), an acquire load outside the lock.
LoadState(t) ==
  LET s == StateOf(on[t]) IN
  /\ pc[t] = "state"
  /\ mine' = [mine EXCEPT ![t] = payload[on[t]]]
  /\ Goto(t, IF Stale(op[t], s) THEN "payload" ELSE "read")
  /\ UNCHANGED <<shared, op, on, todo, pos, answer>>

\* payload(), maybe_payload() and the allocation half of PayloadSlow.  An
\* empty map without payload is answered without one.
LoadPayload(t) ==
  LET p == payload[on[t]] IN
  /\ pc[t] = "payload"
  /\ \/ /\ p # NoPayload
        /\ mine' = [mine EXCEPT ![t] = p]
        /\ Goto(t, "lock")
     \/ /\ p = NoPayload
        /\ op[t] = "SpaceUsed" \/ map[on[t]] = Empty
        /\ mine' = [mine EXCEPT ![t] = NoPayload]
        /\ Goto(t, "read")
     \/ /\ p = NoPayload
        /\ op[t] = "GetRepeatedField" /\ map[on[t]] # Empty
        /\ \E q \in PayloadId : Fresh(q) /\ mine' = [mine EXCEPT ![t] = q]
        /\ Goto(t, "cas")
  /\ UNCHANGED <<shared, op, on, todo, pos, answer>>

\* compare_exchange_strong: the loser throws its payload away.
StorePayload(t) ==  \* a plain store instead of the exchange
  /\ pc[t] = "cas"
  /\ payload' = [payload EXCEPT ![on[t]] = mine[t]]
  /\ Goto(t, "lock")
  /\ UNCHANGED <<map, state, rep, holder, mapRef, repRef, op, on, mine, todo,
                 pos, answer>>

CasPayload(t) ==
  /\ pc[t] = "cas"
  /\ payload' = [payload EXCEPT ![on[t]] = IF @ = NoPayload THEN mine[t] ELSE @]
  /\ mine' = [mine EXCEPT ![t] = payload'[on[t]]]
  /\ Goto(t, "lock")
  /\ UNCHANGED <<map, state, rep, holder, mapRef, repRef, op, on, todo, pos,
                 answer>>

LockWithoutWaiting(t) ==  \* the mutex is taken for granted
  /\ pc[t] = "lock"
  /\ holder' = [holder EXCEPT ![mine[t]] = t]
  /\ Goto(t, IF op[t] = "SpaceUsed" THEN "read" ELSE "check")
  /\ UNCHANGED <<map, payload, state, rep, mapRef, repRef, op, on, mine, todo,
                 pos, answer>>

Lock(t) ==
  /\ pc[t] = "lock"
  /\ holder[mine[t]] = NoThread
  /\ holder' = [holder EXCEPT ![mine[t]] = t]
  /\ Goto(t, IF op[t] = "SpaceUsed" THEN "read" ELSE "check")
  /\ UNCHANGED <<map, payload, state, rep, mapRef, repRef, op, on, mine, todo,
                 pos, answer>>

\* "Another thread may have seen the same state and done the synchronization
\* before": the double check under the lock.
NotCheckedAgain(t) == TRUE
StillStale(t) == Stale(op[t], state[mine[t]])

\* Empty the copy that is to be rebuilt.
CheckAgain(t) ==
  /\ pc[t] = "check"
  /\ \/ /\ ~StillStale(t)
        /\ Goto(t, "unlock")
        /\ UNCHANGED <<map, rep, todo, pos>>
     \/ /\ StillStale(t) /\ op[t] = "GetMap"
        /\ map' = [map EXCEPT ![on[t]] = Empty]
        /\ pos' = [pos EXCEPT ![t] = 1]
        /\ Goto(t, "fill")
        /\ UNCHANGED <<rep, todo>>
     \/ /\ StillStale(t) /\ op[t] = "GetRepeatedField"
        /\ rep' = [rep EXCEPT ![mine[t]] = <<>>]
        /\ todo' = [todo EXCEPT ![t] = Present(map[on[t]])]
        /\ Goto(t, "fill")
        /\ UNCHANGED <<map, pos>>
  /\ UNCHANGED <<payload, state, holder, mapRef, repRef, op, on, mine, answer>>

\* InsertOrLookupMapValueNoSync and the store through the MapValueRef: a key
\* that is already there is overwritten.
Inserted(m, e) == [m EXCEPT ![e.key] = e.value]

\* One iteration of SyncMapWithRepeatedFieldNoLock.
NextEntry(i) == i + 1
FillMap(t) ==
  LET r == rep[mine[t]] IN
  /\ pc[t] = "fill" /\ op[t] = "GetMap"
  /\ \/ /\ pos[t] <= Len(r)
        /\ map' = [map EXCEPT ![on[t]] = Inserted(@, r[pos[t]])]
        /\ pos' = [pos EXCEPT ![t] = NextEntry(@)]
        /\ UNCHANGED pc
     \/ /\ pos[t] > Len(r)
        /\ Goto(t, "publish")
        /\ UNCHANGED <<map, pos>>
  /\ UNCHANGED <<payload, state, rep, holder, mapRef, repRef, op, on, mine,
                 todo, answer>>

\* One iteration of SyncRepeatedFieldWithMapNoLock: append one entry.
FillRepeated(t) ==
  /\ pc[t] = "fill" /\ op[t] = "GetRepeatedField"
  /\ \/ \E k \in todo[t] :
          /\ rep' = [rep EXCEPT ![mine[t]] =
                       Append(@, [key |-> k, value |-> map[on[t]][k]])]
          /\ todo' = [todo EXCEPT ![t] = @ \ {k}]
          /\ UNCHANGED pc
     \/ /\ todo[t] = {}
        /\ Goto(t, "publish")
        /\ UNCHANGED <<rep, todo>>
  /\ UNCHANGED <<map, payload, state, holder, mapRef, repRef, op, on, mine,
                 pos, answer>>

\* set_state_release(CLEAN): from here on the fast path reads both copies.
Publish(t) ==
  /\ pc[t] = "publish"
  /\ state' = [state EXCEPT ![mine[t]] = "CLEAN"]
  /\ Goto(t, "unlock")
  /\ UNCHANGED <<map, payload, rep, holder, mapRef, repRef, op, on, mine, todo,
                 pos, answer>>

Unlock(t) ==
  /\ pc[t] = "unlock"
  /\ holder' = [holder EXCEPT ![mine[t]] = NoThread]
  /\ Goto(t, "read")
  /\ UNCHANGED <<map, payload, state, rep, mapRef, repRef, op, on, mine, todo,
                 pos, answer>>

\* What a thread in "read" reads: a repeated accessor without payload answers
\* with the empty default.
Seen(t) ==
  IF op[t] = "GetRepeatedField"
  THEN IF mine[t] = NoPayload THEN Empty ELSE MapOf(rep[mine[t]])
  ELSE map[on[t]]

\* The accessor returns.  SpaceUsed measures under the lock when there is a
\* payload and returns no content.
Return(t) ==
  /\ pc[t] = "read"
  /\ answer' = [answer EXCEPT ![t] = IF op[t] = "SpaceUsed" THEN @ ELSE Seen(t)]
  /\ holder' = [p \in PayloadId |->
                  IF holder[p] = t THEN NoThread ELSE holder[p]]
  /\ op' = [op EXCEPT ![t] = "none"]
  /\ on' = [on EXCEPT ![t] = NoField]
  /\ mine' = [mine EXCEPT ![t] = NoPayload]
  /\ pos' = [pos EXCEPT ![t] = 1]
  /\ Goto(t, "idle")
  /\ UNCHANGED <<map, payload, state, rep, mapRef, repRef, todo>>

Step(t) ==
  \/ LoadState(t) \/ LoadPayload(t) \/ CasPayload(t) \/ Lock(t)
  \/ CheckAgain(t) \/ FillMap(t) \/ FillRepeated(t) \/ Publish(t)
  \/ Unlock(t) \/ Return(t)

-------------------------------------------------------------------------------
(* Mutators.  Dirty(f) is SetMapDirty: a field without payload is already
   taken for MODIFIED_MAP. *)

Undirtied(f) == state  \* SetMapDirty forgotten
Dirty(f) == [p \in PayloadId |->
               IF p = payload[f] THEN "MODIFIED_MAP" ELSE state[p]]

\* MutableMap: sync the map, mark it dirty, hand out a pointer to it.
MutableMap(f) ==
  /\ Quiet(f)
  /\ map' = [map EXCEPT ![f] = Content(f)]
  /\ state' = Dirty(f)
  /\ mapRef' = [mapRef EXCEPT ![f] = TRUE]
  /\ repRef' = [repRef EXCEPT ![f] = FALSE]
  /\ UNCHANGED <<payload, rep, holder, Threads>>

\* The caller writes or erases through the Map* it holds.
WriteThroughMap(f, k, v) ==
  /\ Quiet(f) /\ mapRef[f]
  /\ map' = [map EXCEPT ![f][k] = v]
  /\ UNCHANGED <<payload, state, rep, holder, mapRef, repRef, Threads>>

\* InsertOrLookupMapValue and the store through the MapValueRef it returns.
InsertOrLookupMapValue(f, k, v) ==
  /\ Quiet(f)
  /\ map' = [map EXCEPT ![f] = [Content(f) EXCEPT ![k] = v]]
  /\ state' = Dirty(f)
  /\ repRef' = [repRef EXCEPT ![f] = FALSE]
  /\ UNCHANGED <<payload, rep, holder, mapRef, Threads>>

\* DeleteMapValue erases from *MutableMap().
DeleteMapValue(f, k) ==
  /\ Quiet(f)
  /\ map' = [map EXCEPT ![f] = [Content(f) EXCEPT ![k] = Absent]]
  /\ state' = Dirty(f)
  /\ repRef' = [repRef EXCEPT ![f] = FALSE]
  /\ UNCHANGED <<payload, rep, holder, mapRef, Threads>>

\* MutableRepeatedField: sync the repeated field for mutation, which
\* allocates the payload, and mark it dirty.
MutableRepeatedField(f) ==
  /\ Quiet(f)
  /\ \E p \in PayloadId :
       /\ payload[f] = p \/ (payload[f] = NoPayload /\ Fresh(p))
       /\ payload' = [payload EXCEPT ![f] = p]
       /\ state' = [state EXCEPT ![p] = "MODIFIED_REPEATED"]
       /\ \/ /\ StateOf(f) = "MODIFIED_MAP"
             /\ \E l \in Listings(map[f]) : rep' = [rep EXCEPT ![p] = l]
          \/ /\ StateOf(f) # "MODIFIED_MAP"
             /\ UNCHANGED rep
  /\ repRef' = [repRef EXCEPT ![f] = TRUE]
  /\ mapRef' = [mapRef EXCEPT ![f] = FALSE]
  /\ UNCHANGED <<map, holder, Threads>>

\* The caller adds an entry through the RepeatedPtrField* it holds.
AddEntry(f, k, v) ==
  /\ Quiet(f) /\ repRef[f]
  /\ Len(rep[payload[f]]) < MaxEntries
  /\ rep' = [rep EXCEPT ![payload[f]] = Append(@, [key |-> k, value |-> v])]
  /\ UNCHANGED <<map, payload, state, holder, mapRef, repRef, Threads>>

\* The caller removes the last entry, which may uncover an older duplicate.
RemoveLast(f) ==
  /\ Quiet(f) /\ repRef[f]
  /\ rep[payload[f]] # <<>>
  /\ rep' = [rep EXCEPT ![payload[f]] = SubSeq(@, 1, Len(@) - 1)]
  /\ UNCHANGED <<map, payload, state, holder, mapRef, repRef, Threads>>

\* Clear empties both copies but may not claim CLEAN: the caller's Map*
\* stays valid and may be written next.
ClearToClean(f) ==  \* takes "both are empty" for CLEAN
  /\ Quiet(f)
  /\ map' = [map EXCEPT ![f] = Empty]
  /\ rep' = [p \in PayloadId |-> IF p = payload[f] THEN <<>> ELSE rep[p]]
  /\ state' = [p \in PayloadId |-> IF p = payload[f] THEN "CLEAN" ELSE state[p]]
  /\ repRef' = [repRef EXCEPT ![f] = FALSE]
  /\ UNCHANGED <<payload, holder, mapRef, Threads>>

Clear(f) ==
  /\ Quiet(f)
  /\ map' = [map EXCEPT ![f] = Empty]
  /\ rep' = [p \in PayloadId |-> IF p = payload[f] THEN <<>> ELSE rep[p]]
  /\ state' = Dirty(f)
  /\ repRef' = [repRef EXCEPT ![f] = FALSE]
  /\ UNCHANGED <<payload, holder, mapRef, Threads>>

\* MergeFrom: MutableMap() of the target, GetMap() of the source.
MergeFrom(f, g) ==
  /\ f # g /\ Quiet(f) /\ Quiet(g)
  /\ map' = [map EXCEPT ![f] = Merged(Content(f), Content(g)),
                        ![g] = Content(g)]
  /\ state' = [p \in PayloadId |->
                 IF p = payload[g] /\ state[p] = "MODIFIED_REPEATED" THEN "CLEAN"
                 ELSE Dirty(f)[p]]
  /\ repRef' = [repRef EXCEPT ![f] = FALSE, ![g] = FALSE]
  /\ UNCHANGED <<payload, rep, holder, mapRef, Threads>>

ForgetRefs(f, g) ==
  /\ mapRef' = [mapRef EXCEPT ![f] = FALSE, ![g] = FALSE]
  /\ repRef' = [repRef EXCEPT ![f] = FALSE, ![g] = FALSE]

\* SwapPayload on one arena.
PayloadSwapped(f, g) ==
  [payload EXCEPT ![f] = payload[g], ![g] = payload[f]]

\* Same arena: the maps and the payload pointers change places.
InternalSwap(f, g) ==
  /\ f # g /\ Quiet(f) /\ Quiet(g)
  /\ ArenaOf[f] = ArenaOf[g]
  /\ map' = [map EXCEPT ![f] = map[g], ![g] = map[f]]
  /\ payload' = PayloadSwapped(f, g)
  /\ ForgetRefs(f, g)
  /\ UNCHANGED <<state, rep, holder, Threads>>

\* ReflectionPayload::Swap of payloads p of f and q of g; one that was just
\* created has an empty repeated field and stands for MODIFIED_MAP.
StateKept(f, g, p, q) == state
StateSwapped(f, g, p, q) ==
  [state EXCEPT ![p] = StateOf(g), ![q] = StateOf(f)]
RepSwapped(f, g, p, q) ==
  [rep EXCEPT ![p] = IF payload[g] = NoPayload THEN <<>> ELSE rep[q],
              ![q] = IF payload[f] = NoPayload THEN <<>> ELSE rep[p]]

\* Different arenas: a payload cannot move, so its repeated field and its
\* state word are exchanged; a missing payload is created first.
SwapAcrossArenas(f, g) ==
  /\ f # g /\ Quiet(f) /\ Quiet(g)
  /\ ArenaOf[f] # ArenaOf[g]
  /\ map' = [map EXCEPT ![f] = map[g], ![g] = map[f]]
  /\ \/ /\ payload[f] = NoPayload /\ payload[g] = NoPayload
        /\ UNCHANGED <<payload, state, rep>>
     \/ /\ payload[f] # NoPayload \/ payload[g] # NoPayload
        /\ \E p, q \in PayloadId :
             /\ p # q
             /\ payload[f] = p \/ (payload[f] = NoPayload /\ Fresh(p))
             /\ payload[g] = q \/ (payload[g] = NoPayload /\ Fresh(q))
             /\ payload' = [payload EXCEPT ![f] = p, ![g] = q]
             /\ state' = StateSwapped(f, g, p, q)
             /\ rep' = RepSwapped(f, g, p, q)
  /\ ForgetRefs(f, g)
  /\ UNCHANGED <<holder, Threads>>

Mutate(f) ==
  \/ MutableMap(f) \/ MutableRepeatedField(f) \/ RemoveLast(f) \/ Clear(f)
  \/ \E k \in Key :
       \/ DeleteMapValue(f, k)
       \/ WriteThroughMap(f, k, Absent)
       \/ \E v \in Value : \/ WriteThroughMap(f, k, v)
                           \/ InsertOrLookupMapValue(f, k, v)
                           \/ AddEntry(f, k, v)
  \/ \E g \in Field :
       MergeFrom(f, g) \/ InternalSwap(f, g) \/ SwapAcrossArenas(f, g)

Next ==
  \/ \E t \in Thread, f \in Field, o \in Accessor : Begin(t, f, o)
  \/ \E t \in Thread : Step(t)
  \/ \E f \in Field : Mutate(f)

Spec == Init /\ [][Next]_vars

\* absl::Mutex does not starve a waiter, and every running thread advances.
Fairness == \A t \in Thread : WF_vars(Step(t)) /\ SF_vars(Lock(t))

FairSpec == Spec /\ Fairness

-------------------------------------------------------------------------------
(* Properties. *)

WritesMap(t) == pc[t] = "fill" /\ op[t] = "GetMap"
WritesRepeated(t) == pc[t] = "fill" /\ op[t] = "GetRepeatedField"
ReadsMap(t) ==
  \/ pc[t] = "fill" /\ op[t] = "GetRepeatedField"
  \/ pc[t] = "read" /\ op[t] \in {"GetMap", "SpaceUsed"}
ReadsRepeated(t) ==
  \/ pc[t] = "fill" /\ op[t] = "GetMap"
  \/ pc[t] = "read" /\ op[t] # "GetMap" /\ mine[t] # NoPayload

\* No const accessor reads or rebuilds a copy that another thread is
\* rebuilding: the lock-free fast path of state() (map_field.cc:305 and 425)
\* never lets a reader into a map or repeated field that is half built.
NoTornAccess ==
  \A t, u \in Thread : t # u /\ on[t] = on[u] /\ on[t] # NoField =>
    /\ WritesMap(t) => ~(ReadsMap(u) \/ WritesMap(u))
    /\ WritesRepeated(t) => ~(ReadsRepeated(u) \/ WritesRepeated(u))

\* Whatever a returning accessor reads is the content of the field, whichever
\* copy it reads and whichever thread rebuilt it.
ReadersSeeContent ==
  \A t \in Thread : pc[t] = "read" /\ op[t] # "SpaceUsed" =>
    Seen(t) = Content(on[t])

\* A state word of CLEAN means what map_field.h:422 says: the two copies hold
\* the same data.
CleanMeansSame ==
  \A f \in Field : StateOf(f) = "CLEAN" => MapOf(rep[payload[f]]) = map[f]

\* A pointer the caller still holds writes to the copy that counts, so that
\* no later accessor takes the other copy for the newer one (Clear's comment,
\* map_field.cc:517).
RefsWriteTheNewerCopy ==
  \A f \in Field :
    /\ mapRef[f] => StateOf(f) = "MODIFIED_MAP"
    /\ repRef[f] => StateOf(f) = "MODIFIED_REPEATED"

\* Every thread past PayloadSlow works on the one published payload; two
\* mutexes would guard nothing.
OnePayloadPerField ==
  /\ \A t \in Thread : pc[t] \in {"lock", "check", "fill", "publish", "unlock"}
       => mine[t] = payload[on[t]]
  /\ \A f, g \in Field : payload[f] = payload[g] /\ payload[f] # NoPayload
       => f = g

\* A const accessor never changes what a field stands for.
ConstAccessKeepsContent ==
  [][(\E t \in Thread : pc'[t] # pc[t]) =>
       \A f \in Field : Content(f)' = Content(f)]_vars

\* Every const accessor returns, also when several race for the mutex.
EveryAccessorReturns ==
  \A t \in Thread : pc[t] # "idle" ~> pc[t] = "idle"

\* The inductive invariant behind these properties is IInv, below.  A thread inside an
\* accessor knows its field and, from PayloadSlow on, its payload.
LocalsOK ==
  \A t \in Thread :
    /\ pc[t] # "idle" => on[t] \in Field /\ op[t] \in Accessor
    /\ pc[t] = "idle" => on[t] = NoField
    /\ pc[t] \in {"state", "check", "fill", "publish", "unlock"} =>
         op[t] # "SpaceUsed"

InPayload(t) == pc[t] \in {"lock", "check", "fill", "publish", "unlock"}
InLock(t) == \/ pc[t] \in {"check", "fill", "publish", "unlock"}
             \/ pc[t] = "read" /\ op[t] = "SpaceUsed" /\ mine[t] # NoPayload

\* Payloads are not shared between fields, and the mutex of one is held by
\* the thread that works on it.
NotShared ==
  \A f, g \in Field : payload[f] = payload[g] /\ payload[f] # NoPayload => f = g
MutexOK ==
  \A t \in Thread, p \in PayloadId :
    holder[p] = t <=> InLock(t) /\ mine[t] = p
WorkOK(t) ==
  InPayload(t) \/ InLock(t) => mine[t] \in PayloadId /\ mine[t] = payload[on[t]]
CasOK(t) ==
  pc[t] = "cas" =>
    /\ op[t] = "GetRepeatedField" /\ mine[t] \in PayloadId
    /\ \A f \in Field : payload[f] # mine[t]
    /\ \A u \in Thread : u # t => mine[u] # mine[t]

LockInv == NotShared /\ MutexOK /\ \A t \in Thread : WorkOK(t) /\ CasOK(t)

\* What a thread knows of the state word, which while it runs only moves to
\* CLEAN.
UnpublishedOK ==
  \A p \in PayloadId : (\A f \in Field : payload[f] # p) =>
    state[p] = "MODIFIED_MAP" /\ rep[p] = <<>>
StateOK(t) ==
  /\ pc[t] \in {"fill", "publish"} => StillStale(t)
  /\ pc[t] = "unlock" => ~StillStale(t)
  /\ pc[t] = "cas" =>
       StateOf(on[t]) # "MODIFIED_REPEATED" /\ map[on[t]] # Empty
  /\ pc[t] = "read" /\ op[t] = "GetRepeatedField" =>
       \/ /\ mine[t] \in PayloadId /\ mine[t] = payload[on[t]]
          /\ StateOf(on[t]) # "MODIFIED_MAP"
       \/ /\ mine[t] = NoPayload /\ payload[on[t]] = NoPayload
          /\ map[on[t]] = Empty
  /\ pc[t] = "read" /\ (op[t] = "SpaceUsed" => mine[t] = NoPayload)
     /\ op[t] # "GetRepeatedField"
       => StateOf(on[t]) # "MODIFIED_REPEATED"

StateInv == UnpublishedOK /\ \A t \in Thread : StateOK(t)

\* How far a rebuild has come.
RebuildOK(t) ==
  /\ pc[t] = "fill" /\ op[t] = "GetMap" =>
       /\ pos[t] <= Len(rep[mine[t]]) + 1
       /\ map[on[t]] = MapOf(SubSeq(rep[mine[t]], 1, pos[t] - 1))
  /\ pc[t] = "fill" /\ op[t] = "GetRepeatedField" =>
       /\ todo[t] \subseteq Present(map[on[t]])
       /\ MapOf(rep[mine[t]]) =
            [k \in Key |-> IF k \in todo[t] THEN Absent ELSE map[on[t]][k]]
  /\ pc[t] = "publish" => MapOf(rep[mine[t]]) = map[on[t]]

FillInv == \A t \in Thread : RebuildOK(t)

\* A caller that started a const accessor gave up the pointer it invalidates.
RefsInv ==
  /\ RefsWriteTheNewerCopy
  /\ \A t \in Thread : pc[t] # "idle" =>
       /\ op[t] = "GetRepeatedField" => ~mapRef[on[t]]
       /\ op[t] = "GetMap" => ~repRef[on[t]]

IInv == /\ TypeOK /\ LocalsOK /\ LockInv /\ StateInv /\ FillInv
        /\ CleanMeansSame /\ RefsInv

\* The map field implements one content per field: every accessor answers
\* with it, at one instant between its call and its return.
Promise == INSTANCE MapContents WITH content <- [f \in Field |-> Content(f)]

ImplementsMapContents == Promise!Spec

\* What the calls on one field promise, and those on two.
EditsDoAsPromised(f) ==
  /\ MutableMap(f) \/ MutableRepeatedField(f) => UNCHANGED Promise!vars
  /\ Clear(f) => Promise!Clear(f)
  /\ \A k \in Key : DeleteMapValue(f, k) => Promise!Put(f, k, Absent)
  /\ \A k \in Key, v \in Value \cup {Absent} :
       WriteThroughMap(f, k, v) => Promise!Put(f, k, v)
  /\ \A k \in Key, v \in Value :
       InsertOrLookupMapValue(f, k, v) \/ AddEntry(f, k, v) => Promise!Put(f, k, v)
  /\ RemoveLast(f) => \E v \in Value \cup {Absent} :
       Promise!Put(f, rep[payload[f]][Len(rep[payload[f]])].key, v)
PairsDoAsPromised(f, g) ==
  /\ MergeFrom(f, g) => Promise!Merge(f, g)
  /\ InternalSwap(f, g) \/ SwapAcrossArenas(f, g) => Promise!Swap(f, g)

\* Each mutator does to the contents what its name says, and to no other field's,
\* in whichever copies and payloads they are: a swap exchanges them, also when one
\* field has no payload or is on another arena (map_field.cc:246), a merge keeps what
\* only the target has and leaves the source its own, a synchronisation changes none.
EachDoesAsPromised ==
  \A f \in Field : /\ EditsDoAsPromised(f)
                   /\ \A g \in Field : PairsDoAsPromised(f, g)
\* No step of a mutator does anything else (map_field.h, map_field.cc).
MutatorsDoAsPromised == [][EachDoesAsPromised]_vars
===============================================================================
