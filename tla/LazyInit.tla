------------------------------- MODULE LazyInit -------------------------------
(***************************************************************************)
(* What the reflection of generated messages makes on first use: files are  *)
(* registered, descriptors are assigned, fields are linked to the types     *)
(* they name, prototypes are found or made, unknown enum values and         *)
(* memoized projections get an object.  Each of these has a once flag or a  *)
(* lock of its own, and they call each other.                               *)
(* A thread is a stack of calls, the innermost first; a step is what        *)
(* happens between two operations on a lock or a once flag.                 *)
(***************************************************************************)
EXTENDS Naturals, Sequences, FiniteSets

CONSTANTS
  Thread,
  File,          \* files whose generated code is linked into the program
  LazyFiles,     \* of these, the ones registered on first use, in order
  Eager,         \* the files whose tables say is_eager
  Deps,          \* [File -> Seq(File)], the tables' deps
  Type,          \* message types
  FileOf,        \* [Type -> File]
  Fields,        \* [Type -> Seq(Type)], the singular fields of a message type
  DroppedTypes,  \* types whose default instance the linker dropped
  Number,        \* numbers that an enum does not declare
  Key,           \* pairs of descriptor and function for MemoizeProjection
  Question,      \* what callers ask, records of op and on
  MaxCalls,
  None,
  Generated, Dropped    \* a default instance from generated code; a null one

ToSet(s) == {s[i] : i \in DOMAIN s}
Lazy == ToSet(LazyFiles)
Pair == {p \in Type \X Type : p[2] \in ToSet(Fields[p[1]])}

ASSUME GraphOK ==
  /\ LazyFiles \in Seq(File) /\ Eager \subseteq File /\ DroppedTypes \subseteq Type
  /\ Deps \in [File -> Seq(File)]
  /\ FileOf \in [Type -> File] /\ Fields \in [Type -> Seq(Type)]
  /\ MaxCalls \in Nat

\* The files that are registered late need nothing but each other: descriptor.proto
\* imports no file, cpp_features.proto imports it and declares fields of no type
\* from elsewhere (cpp_features.proto:12).
ASSUME LazyOK == \A F \in Lazy :
  /\ ToSet(Deps[F]) \subseteq Lazy
  /\ \A p \in Pair : FileOf[p[1]] = F => FileOf[p[2]] \in {F} \cup ToSet(Deps[F])

\* What callers can ask.
ASSUME QuestionsOK ==
  Question \subseteq [op : {"assign"}, on : File] \cup [op : {"lookup", "prototype"}, on : Type]
                     \cup [op : {"type"}, on : Pair] \cup [op : {"unknown"}, on : Number]
                     \cup [op : {"memo"}, on : Key]

\* Null pointers, generated instances, files, threads and the numbers of the
\* objects made on the way are different things.
ASSUME ValuesOK ==
  /\ None \notin File \cup Type \cup Thread \cup Nat
  /\ Generated \notin Nat \cup {None, Dropped} /\ Dropped \notin Nat \cup {None}
  /\ {"new", "none", "done"} \cap Thread = {} /\ File \cap Pair = {}

VARIABLES
  stack,         \* the calls a thread is in, the innermost first
  ret,           \* what the last call that ended gave to its caller
  asked,         \* what the thread was asked from outside
  calls,
  lock,          \* who holds which mutex, for writing
  once,          \* once flags of files and of lazily linked fields
  initialized,   \* DescriptorTable::is_initialized
  database,      \* files in GeneratedDatabase()
  registered,    \* GeneratedMessageFactory::files_
  built,         \* files in the generated pool's tables
  link,          \* fields whose message_type is set
  assigned,      \* files whose messages have descriptor and reflection
  type_map,      \* GeneratedMessageFactory::type_map_
  prototypes,    \* DynamicMessageFactory::prototypes_ of the fallback factory
  linked,        \* dynamic prototypes that are cross-linked
  unknown,       \* unknown_enum_values_by_number_
  memo,          \* field_memo_table_
  made,          \* objects made so far
  answers,       \* pairs of a question and an answer it was given
  dead           \* a CHECK or LOG(FATAL) ended the program

threads == <<stack, ret, asked, calls>>
tables == <<initialized, database, registered>>
pool == <<built, link, assigned>>
caches == <<type_map, prototypes, linked, unknown, memo, made>>
vars == <<threads, lock, once, tables, pool, caches, answers, dead>>

Lock == {"add", "pool", "factory", "prototypes", "unknown", "memo"}

-------------------------------------------------------------------------------
(* Calls. *)

\* A call of `op` on `on` that stands at `at`.
Frame(op, on, at) == [op |-> op, on |-> on, at |-> at]
Top(t) == Head(stack[t])
At(t, op, at) == stack[t] # <<>> /\ ~dead /\ Top(t).op = op /\ Top(t).at = at

\* The innermost call makes other ones, one after the other, and goes on at
\* `at` when the last has returned.
Enter(t, frames, at) ==
  /\ stack' = [stack EXCEPT ![t] = frames \o <<[Head(@) EXCEPT !.at = at]>> \o Tail(@)]
  /\ UNCHANGED <<ret, asked, calls, answers>>
Go(t, at) == Enter(t, <<>>, at)

Return(t, v) ==
  /\ stack' = [stack EXCEPT ![t] = Tail(@)]
  /\ ret' = [ret EXCEPT ![t] = v]
  /\ answers' = IF Len(stack[t]) = 1 THEN answers \cup {<<asked[t], v>>} ELSE answers
  /\ UNCHANGED <<asked, calls>>

Idle(l) == lock[l] = None
Take(t, l) == Idle(l) /\ lock' = [lock EXCEPT ![l] = t]
Release(l) == lock' = [lock EXCEPT ![l] = None]

-------------------------------------------------------------------------------
(* FindFileByName and FindByNameHelper of the generated pool.  The pool      *)
(* builds lazily: building a file builds no import of it, and a field whose  *)
(* type is in a file that is not built yet is linked when it is first asked  *)
(* for its type.                                                             *)

FindCached(t) ==
  /\ At(t, "find", "cached") /\ Idle("pool")
  /\ IF Top(t).on \in built THEN Return(t, Top(t).on) ELSE Go(t, "lock")
  /\ UNCHANGED <<lock, once, tables, pool, caches, dead>>

FindLock(t) ==
  /\ At(t, "find", "lock") /\ Take(t, "pool")
  /\ Go(t, "build")
  /\ UNCHANGED <<once, tables, pool, caches, dead>>

FindBuild(t) ==
  LET F == Top(t).on IN
  /\ At(t, "find", "build")
  /\ IF F \in built \/ F \notin database THEN UNCHANGED <<built, link, once>>
     ELSE LET fields == {p \in Pair : FileOf[p[1]] = F}
              direct == {p \in fields : FileOf[p[2]] \in built \cup {F}} IN
          /\ built' = built \cup {F}
          /\ link' = link \cup direct
          /\ once' = [x \in DOMAIN once |-> IF x \in fields \ direct THEN "new" ELSE once[x]]
  /\ Release("pool")
  /\ Return(t, IF F \in built' THEN F ELSE None)
  /\ UNCHANGED <<tables, assigned, caches, dead>>

\* FieldDescriptor::message_type(), with a once flag if the field has one.
TypeEnter(t) ==
  LET p == Top(t).on IN
  /\ At(t, "type", "enter")
  /\ \/ /\ once[p] \in {"none", "done"} /\ UNCHANGED once
        /\ Return(t, IF p \in link THEN p[2] ELSE None)
     \/ /\ once[p] = "new" /\ once' = [once EXCEPT ![p] = t]
        /\ Enter(t, <<Frame("find", FileOf[p[2]], "cached")>>, "link")
  /\ UNCHANGED <<lock, tables, pool, caches, dead>>

\* FieldDescriptor::InternalTypeOnceInit
TypeLink(t) ==
  LET p == Top(t).on IN
  /\ At(t, "type", "link")
  /\ link' = IF ret[t] = None THEN link ELSE link \cup {p}
  /\ once' = [once EXCEPT ![p] = "done"]
  /\ Return(t, IF p \in link' THEN p[2] ELSE None)
  /\ UNCHANGED <<lock, tables, built, assigned, caches, dead>>

-------------------------------------------------------------------------------
(* AssignDescriptors, and what it registers first. *)

\* DescriptorPool::generated_pool(): descriptor.proto and cpp_features.proto
\* are assigned before the pool is given out.
Calls(op, ons, at) == [i \in DOMAIN ons |-> Frame(op, ons[i], at)]
GeneratedPool == IF Lazy \subseteq assigned THEN <<>> ELSE Calls("assign", LazyFiles, "once")

\* call_once of AssignDescriptorsOnceInnerCall, or, from the table of an eager
\* file, of AssignDescriptorsImpl.
AssignOnce(t) ==
  LET F == Top(t).on IN
  /\ \/ At(t, "assign", "once")
     \/ At(t, "assign eagerly", "once")
  /\ \/ once[F] = "done" /\ Return(t, IF F \in assigned THEN F ELSE None) /\ UNCHANGED once
     \/ /\ once[F] = "new" /\ once' = [once EXCEPT ![F] = t]
        /\ Enter(t, IF F \in Lazy \/ Top(t).op = "assign eagerly" THEN <<>> ELSE GeneratedPool, "add")
  /\ UNCHANGED <<lock, tables, pool, caches, dead>>

AssignAdd(t) ==
  /\ At(t, "assign", "add") \/ At(t, "assign eagerly", "add")
  /\ Take(t, "add")
  /\ Enter(t, <<Frame("add", Top(t).on, "start")>>, "added")
  /\ UNCHANGED <<once, tables, pool, caches, dead>>

\* AddDescriptors, which recurs into the dependencies first.
AddStart(t) ==
  LET F == Top(t).on IN
  /\ At(t, "add", "start")
  /\ IF F \in initialized THEN Return(t, None) /\ UNCHANGED initialized
     ELSE initialized' = initialized \cup {F} /\ Enter(t, Calls("add", Deps[F], "start"), "database")
  /\ UNCHANGED <<lock, once, database, registered, pool, caches, dead>>

\* InternalAddGeneratedFile, under the pool's mutex.
AddDatabase(t) ==
  LET F == Top(t).on IN
  /\ At(t, "add", "database") /\ Idle("pool")
  /\ database' = database \cup {F}
  /\ dead' = (F \in database)
  /\ Go(t, "files")
  /\ UNCHANGED <<lock, once, initialized, registered, pool, caches>>

\* GeneratedMessageFactory::RegisterFile, under no lock of the factory.
AddFile(t) ==
  LET F == Top(t).on IN
  /\ At(t, "add", "files")
  /\ registered' = registered \cup {F}
  /\ dead' = (F \in registered)
  /\ Return(t, None)
  /\ UNCHANGED <<lock, once, initialized, database, pool, caches>>

\* The dependencies of an eager file come before it.
AssignAdded(t) ==
  LET F == Top(t).on
      eager == Top(t).op = "assign eagerly" \/ F \in Eager IN
  /\ At(t, "assign", "added") \/ At(t, "assign eagerly", "added")
  /\ Release("add")
  /\ Enter(t, (IF eager THEN Calls("assign eagerly", Deps[F], "once") ELSE <<>>)
               \o <<Frame("find", F, "lock")>>, "assign")
  /\ UNCHANGED <<once, tables, pool, caches, dead>>

AssignMessages(t) ==
  LET F == Top(t).on IN
  /\ At(t, "assign", "assign") \/ At(t, "assign eagerly", "assign")
  /\ dead' = (ret[t] = None)
  /\ assigned' = assigned \cup {F}
  /\ once' = [once EXCEPT ![F] = "done"]
  /\ Return(t, F)
  /\ UNCHANGED <<lock, tables, built, link, caches>>

-------------------------------------------------------------------------------
(* Prototypes. *)

TryReadUninitialized(t) ==
  LET T == Top(t).on IN
  /\ At(t, "try", "read") /\ Idle("factory")
  /\ IF type_map[T] \notin {None, Dropped} THEN Return(t, type_map[T]) ELSE Go(t, "files")
  /\ UNCHANGED <<lock, once, tables, pool, caches, dead>>

\* GeneratedMessageFactory::TryGetPrototype, which calls
\* RegisterFileLevelMetadata under the factory's mutex.  The address of the pool, with
\* which the type's pool is compared, is had by a call of generated_pool().
TryRead(t) ==
  LET T == Top(t).on IN
  /\ At(t, "try", "read") /\ Idle("factory")
  /\ IF type_map[T] \notin {None, Dropped} THEN Return(t, type_map[T])
     ELSE Enter(t, GeneratedPool, "files")
  /\ UNCHANGED <<lock, once, tables, pool, caches, dead>>

\* FindInFileMap, under no lock.
TryFiles(t) ==
  /\ At(t, "try", "files")
  /\ dead' = (FileOf[Top(t).on] \notin registered)
  /\ Go(t, "lock")
  /\ UNCHANGED <<lock, once, tables, pool, caches>>

TryLock(t) ==
  LET T == Top(t).on IN
  /\ At(t, "try", "lock") /\ Take(t, "factory")
  /\ IF type_map[T] = None THEN LET F == FileOf[T] IN
       Enter(t, <<Frame("assign", F, "once"), Frame("find", F, "lock"), Frame("register", F, "types")>>,
             "unlock")
     ELSE Go(t, "unlock")
  /\ UNCHANGED <<once, tables, pool, caches, dead>>

TryUnlock(t) ==
  LET T == Top(t).on IN
  /\ At(t, "try", "unlock")
  /\ Release("factory")
  /\ Return(t, IF type_map[T] = Dropped THEN None ELSE type_map[T])
  /\ UNCHANGED <<once, tables, pool, caches, dead>>

RegisterTypes(t) ==
  LET types == {T \in Type : FileOf[T] = Top(t).on} IN
  /\ At(t, "register", "types")
  /\ dead' = (\E T \in types : type_map[T] # None)
  /\ type_map' = [T \in Type |-> IF T \notin types THEN type_map[T]
                                 ELSE IF T \in DroppedTypes THEN Dropped ELSE Generated]
  /\ Return(t, None)
  /\ UNCHANGED <<lock, once, tables, pool, prototypes, linked, unknown, memo, made>>

GetTriedUnderLock(t) ==
  /\ At(t, "prototype", "tried")
  /\ \/ ret[t] # None /\ Return(t, ret[t]) /\ UNCHANGED lock
     \/ /\ ret[t] = None /\ Take(t, "factory")
        /\ Enter(t, <<Frame("dynamic", Top(t).on, "lock")>>, "set")
  /\ UNCHANGED <<once, tables, pool, caches, dead>>

\* GeneratedMessageFactory::GetPrototype tries, makes a prototype if there is
\* none, while it does not hold the factory's mutex, and enters it.
GetTried(t) ==
  /\ At(t, "prototype", "tried")
  /\ IF ret[t] # None THEN Return(t, ret[t])
     ELSE Enter(t, <<Frame("dynamic", Top(t).on, "lock")>>, "set")
  /\ UNCHANGED <<lock, once, tables, pool, caches, dead>>

GetSet(t) ==
  /\ At(t, "prototype", "set") /\ Idle("factory")
  /\ type_map' = [type_map EXCEPT ![Top(t).on] = ret[t]]
  /\ Return(t, ret[t])
  /\ UNCHANGED <<lock, once, tables, pool, prototypes, linked, unknown, memo, made, dead>>

Getting(T) == <<Frame("try", T, "read"), Frame("prototype", T, "tried")>>

\* DynamicMessageFactory::GetPrototype.  GetPrototypeNoLock asks the generated
\* factory first, and enters a new prototype before it cross-links its fields.
Make(T) == <<Frame("try", T, "read"), [op |-> "make", on |-> T, at |-> "target", i |-> 1]>>

DynamicLock(t) ==
  /\ At(t, "dynamic", "lock") /\ Take(t, "prototypes")
  /\ Enter(t, Make(Top(t).on), "unlock")
  /\ UNCHANGED <<once, tables, pool, caches, dead>>

DynamicUnlock(t) ==
  /\ At(t, "dynamic", "unlock")
  /\ Release("prototypes")
  /\ Return(t, ret[t])
  /\ UNCHANGED <<once, tables, pool, caches, dead>>

MakeTarget(t) ==
  LET T == Top(t).on IN
  /\ At(t, "make", "target")
  /\ \/ /\ ret[t] # None \/ prototypes[T] # None
        /\ Return(t, IF ret[t] # None THEN ret[t] ELSE prototypes[T])
        /\ UNCHANGED <<prototypes, made>>
     \/ /\ ret[t] = None /\ prototypes[T] = None
        /\ prototypes' = [prototypes EXCEPT ![T] = made] /\ made' = made + 1
        /\ Go(t, "type")
  /\ UNCHANGED <<lock, once, tables, pool, type_map, linked, unknown, memo, dead>>

\* CrossLinkPrototypes: the type of each field, then the prototype of it.
MakeType(t) ==
  LET T == Top(t).on  i == Top(t).i IN
  /\ At(t, "make", "type")
  /\ IF i > Len(Fields[T]) THEN linked' = linked \cup {prototypes[T]} /\ Return(t, prototypes[T])
     ELSE Enter(t, <<Frame("type", <<T, Fields[T][i]>>, "enter")>>, "field") /\ UNCHANGED linked
  /\ UNCHANGED <<lock, once, tables, pool, type_map, prototypes, unknown, memo, made, dead>>

MakeField(t) ==
  LET next == [op |-> "make", on |-> Top(t).on, at |-> "type", i |-> Top(t).i + 1] IN
  /\ At(t, "make", "field")
  /\ stack' = [stack EXCEPT ![t] = Make(ret[t]) \o <<next>> \o Tail(@)]
  /\ UNCHANGED <<ret, asked, calls, answers, lock, once, tables, pool, caches, dead>>

-------------------------------------------------------------------------------
(* Tables under a lock for readers and writers. *)

\* FindEnumValueByNumberCreatingIfUnknown
UnknownRead(t) ==
  LET n == Top(t).on IN
  /\ At(t, "unknown", "read") /\ Idle("unknown")
  /\ IF unknown[n] # None THEN Return(t, unknown[n]) ELSE Go(t, "write")
  /\ UNCHANGED <<lock, once, tables, pool, caches, dead>>

UnknownWriteUnchecked(t) ==
  /\ At(t, "unknown", "write") /\ Take(t, "unknown")
  /\ Enter(t, GeneratedPool, "create")
  /\ UNCHANGED <<once, tables, pool, caches, dead>>

UnknownWrite(t) ==
  LET n == Top(t).on IN
  /\ At(t, "unknown", "write")
  /\ \/ Idle("unknown") /\ unknown[n] # None /\ Return(t, unknown[n]) /\ UNCHANGED lock
     \/ unknown[n] = None /\ Take(t, "unknown") /\ Enter(t, GeneratedPool, "create")
  /\ UNCHANGED <<once, tables, pool, caches, dead>>

\* The memory for the new value comes from the pool, under the pool's mutex.
UnknownCreate(t) ==
  LET n == Top(t).on IN
  /\ At(t, "unknown", "create") /\ Idle("pool")
  /\ unknown' = [unknown EXCEPT ![n] = made] /\ made' = made + 1
  /\ Release("unknown")
  /\ Return(t, made)
  /\ UNCHANGED <<once, tables, pool, type_map, prototypes, linked, memo, dead>>

\* MemoizeProjection: the value is computed between the two locks.
MemoRead(t) ==
  LET k == Top(t).on IN
  /\ At(t, "memo", "read") /\ Idle("memo")
  /\ IF memo[k] # None THEN Return(t, memo[k]) ELSE Go(t, "write")
  /\ UNCHANGED <<lock, once, tables, pool, caches, dead>>

MemoWrite(t) ==
  LET k == Top(t).on IN
  /\ At(t, "memo", "write") /\ Idle("memo")
  /\ memo' = IF memo[k] = None THEN [memo EXCEPT ![k] = made] ELSE memo
  /\ made' = made + 1
  /\ Return(t, memo'[k])
  /\ UNCHANGED <<lock, once, tables, pool, type_map, prototypes, linked, unknown, dead>>

-------------------------------------------------------------------------------
(* Calls from outside. *)

\* The first step of what answers a question.  Who asks about a type has its
\* descriptor, from the generated code or from the pool.
Opening(q) ==
  CASE q.op = "assign"    -> <<Frame("assign", q.on, "once")>>
    [] q.op = "lookup"    -> GeneratedPool \o <<Frame("lookup", q.on, "find")>>
    [] q.op = "prototype" -> Getting(q.on)
    [] q.op = "type"      -> <<Frame("type", q.on, "enter")>>
    [] q.op = "unknown"   -> <<Frame("unknown", q.on, "read")>>
    [] q.op = "memo"      -> <<Frame("memo", q.on, "read")>>

CanAsk(q) ==
  CASE q.op = "prototype" -> FileOf[q.on] \in built
    [] q.op = "type"      -> FileOf[q.on[1]] \in built
    [] q.op \in {"unknown", "memo"} -> built # {}
    [] OTHER -> TRUE

Ask(t) ==
  \E q \in Question :
    /\ stack[t] = <<>> /\ ~dead /\ calls[t] < MaxCalls /\ CanAsk(q)
    /\ stack' = [stack EXCEPT ![t] = Opening(q)]
    /\ asked' = [asked EXCEPT ![t] = q]
    /\ calls' = [calls EXCEPT ![t] = @ + 1]
    /\ UNCHANGED <<ret, lock, once, tables, pool, caches, answers, dead>>

\* generated_pool()->FindMessageTypeByName()
LookupFind(t) ==
  /\ At(t, "lookup", "find")
  /\ Enter(t, <<Frame("find", FileOf[Top(t).on], "cached")>>, "return")
  /\ UNCHANGED <<lock, once, tables, pool, caches, dead>>

LookupReturn(t) ==
  /\ At(t, "lookup", "return")
  /\ Return(t, IF ret[t] = None THEN None ELSE Top(t).on)
  /\ UNCHANGED <<lock, once, tables, pool, caches, dead>>

-------------------------------------------------------------------------------
Finding(t) == FindCached(t) \/ FindLock(t) \/ FindBuild(t) \/ TypeEnter(t) \/ TypeLink(t)
Assigning(t) ==
  \/ AssignOnce(t) \/ AssignAdd(t) \/ AddStart(t) \/ AddDatabase(t) \/ AddFile(t)
  \/ AssignAdded(t) \/ AssignMessages(t)
Prototyping(t) ==
  \/ TryRead(t) \/ TryFiles(t) \/ TryLock(t) \/ TryUnlock(t)
  \/ RegisterTypes(t) \/ GetTried(t) \/ GetSet(t) \/ DynamicLock(t) \/ DynamicUnlock(t)
  \/ MakeTarget(t) \/ MakeType(t) \/ MakeField(t)
Tabling(t) ==
  \/ UnknownRead(t) \/ UnknownWrite(t) \/ UnknownCreate(t) \/ MemoRead(t) \/ MemoWrite(t)
  \/ LookupFind(t) \/ LookupReturn(t)
Progress(t) == Finding(t) \/ Assigning(t) \/ Prototyping(t) \/ Tabling(t)

\* Every file but the lazily initialized ones was registered before main.
Init ==
  /\ stack = [t \in Thread |-> <<>>] /\ ret = [t \in Thread |-> None]
  /\ asked = [t \in Thread |-> None] /\ calls = [t \in Thread |-> 0]
  /\ lock = [l \in Lock |-> None]
  /\ once = [x \in File \cup Pair |-> IF x \in File THEN "new" ELSE "none"]
  /\ initialized = File \ Lazy /\ database = File \ Lazy /\ registered = File \ Lazy
  /\ built = {} /\ link = {} /\ assigned = {}
  /\ type_map = [T \in Type |-> None] /\ prototypes = [T \in Type |-> None] /\ linked = {}
  /\ unknown = [n \in Number |-> None] /\ memo = [k \in Key |-> None] /\ made = 1
  /\ answers = {} /\ dead = FALSE

Rest == (\A t \in Thread : stack[t] = <<>> /\ calls[t] = MaxCalls) /\ UNCHANGED vars

Next == Rest \/ \E t \in Thread : Ask(t) \/ Progress(t)

Spec == Init /\ [][Next]_vars

\* A running thread goes on; absl::Mutex gives itself to whoever waits.
LiveSpec == Spec /\ \A t \in Thread : SF_vars(Progress(t))

-------------------------------------------------------------------------------
(* Properties. *)

\* Who asks the same question gets the same object, and never a null pointer
\* that another thread was about to set.  The comment in GetPrototype argues
\* that a thread that raced it wrote the same prototype (message.cc:613); the
\* table of unknown enum values exists to "return the same pointer later".  A
\* dynamic prototype that a caller was given has prototypes in all its fields,
\* though it is entered into the table before they are known.
OneAnswer ==
  /\ \A x, y \in answers : x[1] = y[1] => x[2] = y[2] /\ x[2] # None
  /\ \A x \in answers : x[1].op = "prototype" /\ x[2] \in 1..made => x[2] \in linked

\* files_ is read without a lock because it is "only written at static init
\* time" (message.cc:550).  descriptor.proto and cpp_features.proto are entered
\* later, but never while a thread is about to read the table.
FilesReadQuietly ==
  ~\E t, u \in Thread : At(t, "add", "files") /\ At(u, "try", "files")

\* Every call returns: no circle of once flags and mutexes ever closes, and no
\* file or type is registered twice, which would end the program.  That a build asks
\* for no lazily linked type while it holds the pool's mutex is part of the model
\* (FindBuild), as descriptor.cc:6685 and 6711 skip the checks that would.
EveryQuestionIsAnswered ==
  \A t \in Thread : stack[t] # <<>> ~> stack[t] = <<>>
===============================================================================
