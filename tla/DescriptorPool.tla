---------------------------- MODULE DescriptorPool ----------------------------
(***************************************************************************)
(* A DescriptorPool builds the files of a DescriptorDatabase when they are *)
(* asked for.  A lookup that misses takes the pool's mutex and builds the  *)
(* file with everything it imports; resolving the names in a file may      *)
(* build further files in the middle of it.  The tables are checkpointed,  *)
(* so that a file with errors is taken out again together with all that    *)
(* was added since; what needs the mutex itself is validated after it was  *)
(* released.  A file is the part of a FileDescriptorProto the pool acts    *)
(* on; the pool has no underlay, enforces dependencies and builds eagerly; *)
(* imports are private, and types are defined at the top level of a file.  *)
(***************************************************************************)
EXTENDS Naturals, Sequences, FiniteSets, SequencesExt

CONSTANTS
  Thread,
  File,
  Symbol,       \* full names: of types, and of packages
  Databases,    \* what the pool may be given, see DatabaseOK
  OptionType,   \* the option message that deferred validation looks up
  MaxCalls(_, _),  \* calls of each thread, given a database
  None

(* db.kind is "database", or "none" for a pool that is filled by BuildFile.  *)
(* db.has are the files it finds by name, db.finds[s] the file it returns    *)
(* for a symbol, db.proto[f] the content of a file:                          *)
(*   imports, weak   the imported files, in order, and which are weak        *)
(*   package, defines  its package and the full names of its types           *)
(*   refs            its type names, each the scopes that it is tried in     *)
(*   broken          whether it has errors of its own                        *)
(*   features        "none", or feature values whose lifetimes are "valid"   *)
(*                   or "invalid" in the edition of the file                 *)
DatabaseOK(d) ==
  /\ d.kind \in {"database", "none"} /\ d.has \subseteq File
  /\ d.finds \in [Symbol -> File \cup {None}]
  /\ \A f \in File :
       /\ d.proto[f].imports \in Seq(File)
       /\ d.proto[f].defines \subseteq Symbol /\ IsFiniteSet(d.proto[f].defines)
       /\ d.proto[f].package \in (Symbol \ d.proto[f].defines) \cup {None}
       /\ d.proto[f].refs \in Seq(Seq(Symbol) \ {<<>>})
       /\ d.proto[f].broken \in BOOLEAN

ASSUME DatabasesOK == \A d \in Databases : DatabaseOK(d)
ASSUME NoneOK == None \notin File \cup Symbol \cup Thread /\ OptionType \notin Symbol

VARIABLES
  db,
  files,                \* files_by_name_
  symbols,              \* symbols_by_name_: who defines a symbol, and as what
  links,                \* the files to which a descriptor's pointers lead
  checkpoints, symbols_after_checkpoint, files_after_checkpoint,
  pending_files, known_bad_files, known_bad_symbols,
  stack,                \* the calls of DescriptorBuilder::BuildFile
  holder,               \* who holds mutex_ for writing
  pc, want, result,     \* the lookup of each thread
  deferred,             \* its DeferredValidation: files to validate
  calls,
  given                 \* history: files that callers have pointers to

tables == <<files, symbols, links>>
marks == <<checkpoints, symbols_after_checkpoint, files_after_checkpoint>>
known == <<known_bad_files, known_bad_symbols>>
lookups == <<pc, want, result, calls, given>>
vars == <<db, tables, marks, pending_files, known, stack, holder, lookups, deferred>>

proto(f) == db.proto[f]
Undefined == [file |-> None, package |-> FALSE]
Defined(s) == symbols[s] # Undefined

Init ==
  /\ db \in Databases
  /\ files = {} /\ symbols = [s \in Symbol |-> Undefined]
  /\ links = [f \in File |-> {}]
  /\ checkpoints = <<>> /\ symbols_after_checkpoint = <<>>
  /\ files_after_checkpoint = <<>>
  /\ pending_files = <<>> /\ known_bad_files = {} /\ known_bad_symbols = {}
  /\ stack = <<>> /\ holder = None
  /\ pc = [t \in Thread |-> "idle"]
  /\ want = [t \in Thread |-> None] /\ result = [t \in Thread |-> None]
  /\ deferred = [t \in Thread |-> {}]
  /\ calls = [t \in Thread |-> 0] /\ given = {}

-------------------------------------------------------------------------------
(* DescriptorBuilder::BuildFile, run by the thread that holds the mutex. *)

top == stack[Len(stack)]
Top(frame) == [stack EXCEPT ![Len(stack)] = frame]

\* A frame builds a file, for the sake of a symbol or None: it loads import
\* number i, then resolves reference number k, in scope number c, for which a
\* file was not "tried", or was "built", or "failed" to build.
Frame(f, via) ==
  [file |-> f, via |-> via, at |-> "load", i |-> 1, k |-> 1, c |-> 1,
   tried |-> "no", errors |-> FALSE]

TryAgain == stack
\* Import i is there or will not be: go on with the next.
NextImport == Top([top EXCEPT !.i = @ + 1])

\* Scope c does not have the name: try the next, if there is one.
NextScope ==
  LET last == top.c = Len(proto(top.file).refs[top.k]) IN
  Top([top EXCEPT !.tried = "no",
         !.c = IF last THEN 1 ELSE @ + 1,
         !.k = IF last THEN @ + 1 ELSE @,
         !.errors = @ \/ last])

\* TryFindFileInFallbackDatabase for the next import.
Loading == stack # <<>> /\ top.at = "load"
LoadImport ==
  /\ Loading /\ db.kind = "database" /\ top.i <= Len(proto(top.file).imports)
  /\ LET f == proto(top.file).imports[top.i] IN
     \/ /\ f \in files \cup known_bad_files
        /\ stack' = NextImport
        /\ UNCHANGED <<pending_files, known_bad_files>>
     \/ /\ f \notin files \cup known_bad_files
        /\ f \notin db.has \/ f \in ToSet(pending_files)   \* recursive import
        /\ known_bad_files' = known_bad_files \cup {f}
        /\ stack' = NextImport
        /\ UNCHANGED pending_files
     \/ /\ f \notin files \cup known_bad_files
        /\ f \in db.has /\ f \notin ToSet(pending_files)
        /\ stack' = Append(stack, Frame(f, None))
        /\ pending_files' = Append(pending_files, f)
        /\ UNCHANGED known_bad_files
  /\ UNCHANGED <<db, tables, marks, known_bad_symbols, holder, lookups, deferred>>

\* A file is added once under its name.
AnyIsNew(f) == TRUE
IsNew(f) == f \notin files

\* AddCheckpoint and the first half of BuildFileImpl: the file, its package and
\* its types are added to the tables and its imports are looked up.
CheckPoint ==
  [symbols |-> Len(symbols_after_checkpoint), files |-> Len(files_after_checkpoint)]
Loaded ==
  Loading /\ (db.kind = "none" \/ top.i > Len(proto(top.file).imports))
LoadedImports(f) == ToSet(proto(f).imports) \cap files
MissingImports(f) == ToSet(proto(f).imports) \ (files \cup proto(f).weak)

AddToTables ==
  /\ Loaded
  /\ pending_files' = IF db.kind = "none" THEN pending_files ELSE Front(pending_files)
  /\ checkpoints' = Append(checkpoints, CheckPoint)
  /\ LET f == top.file
         p == proto(f).package
         importsItself == f \in ToSet(proto(f).imports)
         newPackage == {p} \ ({None} \cup {s \in Symbol : Defined(s)})
         newTypes == IF importsItself THEN {}
                     ELSE {s \in proto(f).defines : ~Defined(s)}
         clash == \/ (p # None /\ Defined(p) /\ ~symbols[p].package)
                  \/ \E s \in proto(f).defines : Defined(s)
     IN IF ~IsNew(f)
        THEN /\ stack' = Top([top EXCEPT !.at = "finish", !.errors = TRUE])
             /\ UNCHANGED <<tables, symbols_after_checkpoint, files_after_checkpoint>>
        ELSE /\ files' = files \cup {f}
             /\ files_after_checkpoint' = Append(files_after_checkpoint, f)
             /\ symbols' = [s \in Symbol |->
                  IF s \in newTypes THEN [file |-> f, package |-> FALSE]
                  ELSE IF s \in newPackage THEN [file |-> f, package |-> TRUE]
                  ELSE symbols[s]]
             /\ symbols_after_checkpoint' =
                  symbols_after_checkpoint \o SetToSeq(newPackage \cup newTypes)
             /\ links' = [links EXCEPT ![f] = LoadedImports(f)]
             /\ stack' = Top([top EXCEPT !.at = IF importsItself THEN "finish" ELSE "link",
                                !.errors = importsItself \/ clash \/ proto(f).broken
                                           \/ MissingImports(f) # {}])
  /\ UNCHANGED <<db, known, holder, lookups, deferred>>

\* CrossLinkFile: the next name, in the next scope.
Linking == stack # <<>> /\ top.at = "link" /\ top.k <= Len(proto(top.file).refs)
name == proto(top.file).refs[top.k][top.c]

VisibleInside(s) == ~symbols[s].package /\ symbols[s].file = top.file
\* A name resolves to a type that the file itself or one of its imports defines.
Visible(s) ==
  ~symbols[s].package /\ symbols[s].file \in {top.file} \cup links[top.file]
Resolve ==
  /\ Linking /\ top.tried # "failed" /\ Defined(name)
  /\ IF Visible(name)
     THEN /\ links' = [links EXCEPT ![top.file] = @ \cup {symbols[name].file}]
          /\ stack' = Top([top EXCEPT !.k = @ + 1, !.c = 1, !.tried = "no"])
     ELSE stack' = NextScope /\ UNCHANGED links
  /\ UNCHANGED <<db, files, symbols, marks, pending_files, known, holder, lookups,
                 deferred>>

\* A lookup that has built a file does not look further.
GiveUpScope ==
  /\ Linking
  /\ \/ top.tried = "failed"
     \/ /\ ~Defined(name)
        /\ top.tried = "built" \/ db.kind = "none" \/ name \in known_bad_symbols
  /\ stack' = NextScope
  /\ UNCHANGED <<db, tables, marks, pending_files, known, holder, lookups, deferred>>

\* TryFindSymbolInFallbackDatabase.
BuildForSymbol ==
  /\ Linking /\ top.tried = "no" /\ ~Defined(name)
  /\ db.kind = "database" /\ name \notin known_bad_symbols
  /\ LET f == db.finds[name] IN
     \/ /\ f \in {None} \cup files \cup known_bad_files \cup ToSet(pending_files)
        /\ known_bad_symbols' = known_bad_symbols \cup {name}
        /\ known_bad_files' = known_bad_files \cup ({f} \cap ToSet(pending_files))
        /\ stack' = NextScope
        /\ UNCHANGED pending_files
     \/ /\ f \notin {None} \cup files \cup known_bad_files \cup ToSet(pending_files)
        /\ stack' = Append(stack, Frame(f, name))
        /\ pending_files' = Append(pending_files, f)
        /\ UNCHANGED known
  /\ UNCHANGED <<db, tables, marks, holder, lookups, deferred>>

\* The end of BuildFile: the caller goes on, or the lookup is done.
Built ==
  /\ stack # <<>>
  /\ top.at = "finish" \/ (top.at = "link" /\ ~Linking)
Caller(outcome) ==
  LET below == Front(stack)
      n == Len(below)
  IN IF n = 0 THEN <<>>
     ELSE IF below[n].at = "load" THEN [below EXCEPT ![n].i = @ + 1]
     ELSE [below EXCEPT ![n].tried = outcome]

Lookup(w) ==
  IF w.kind \in {"FindFileByName", "BuildFile"}
  THEN IF w.name \in files THEN w.name ELSE None
  ELSE symbols[w.name].file

Unlock(answer) ==
  IF Len(stack) = 1
  THEN /\ holder' = None
       /\ result' = [result EXCEPT ![holder] = answer]
       /\ pc' = [pc EXCEPT ![holder] = "validate"]
       /\ UNCHANGED <<want, calls, given>>
  ELSE UNCHANGED <<holder, lookups>>

\* ClearLastCheckpoint commits when no other file is being built.
ClearLastCheckpoint ==
  /\ checkpoints' = Front(checkpoints)
  /\ IF Len(checkpoints) = 1
     THEN symbols_after_checkpoint' = <<>> /\ files_after_checkpoint' = <<>>
     ELSE UNCHANGED <<symbols_after_checkpoint, files_after_checkpoint>>

Commit ==
  /\ Built /\ ~top.errors
  /\ ClearLastCheckpoint
  /\ deferred' = IF proto(top.file).features = "none" THEN deferred
                 ELSE [deferred EXCEPT ![holder] = @ \cup {top.file}]
  /\ stack' = Caller("built")
  /\ Unlock(Lookup(want[holder]))
  /\ UNCHANGED <<db, tables, pending_files, known>>

WithoutTypes(erased) ==
  [s \in Symbol |-> IF s \in erased /\ ~symbols[s].package THEN Undefined ELSE symbols[s]]
Without(erased) == [s \in Symbol |-> IF s \in erased THEN Undefined ELSE symbols[s]]
AllDeferred(fs, erased) == fs
StillDeferred(fs, erased) == fs \ erased
Since(seq, n) == ToSet(SubSeq(seq, n + 1, Len(seq)))
RollbackToLastCheckpoint ==
  LET last == checkpoints[Len(checkpoints)]
      newSymbols == Since(symbols_after_checkpoint, last.symbols)
      newFiles == Since(files_after_checkpoint, last.files)
  IN
  /\ symbols' = Without(newSymbols)
  /\ files' = files \ newFiles
  /\ links' = [f \in File |-> IF f \in newFiles THEN {} ELSE links[f]]
  /\ deferred' = [deferred EXCEPT ![holder] = StillDeferred(@, newFiles)]
  /\ symbols_after_checkpoint' = SubSeq(symbols_after_checkpoint, 1, last.symbols)
  /\ files_after_checkpoint' = SubSeq(files_after_checkpoint, 1, last.files)
  /\ checkpoints' = Front(checkpoints)

Rollback ==
  /\ Built /\ top.errors
  /\ RollbackToLastCheckpoint
  /\ known_bad_files' = IF db.kind = "none" THEN known_bad_files
                        ELSE known_bad_files \cup {top.file}
  /\ known_bad_symbols' = known_bad_symbols \cup ({top.via} \ {None})
  /\ stack' = Caller("failed")
  /\ Unlock(None)
  /\ UNCHANGED <<db, pending_files>>

BuildStep ==
  \/ LoadImport \/ AddToTables \/ Resolve \/ GiveUpScope \/ BuildForSymbol
  \/ Commit \/ Rollback

-------------------------------------------------------------------------------
(* The calls of the pool. *)

Call(t, kind, n, at) ==
  /\ pc[t] = "idle" /\ calls[t] < MaxCalls(db, t)
  /\ calls' = [calls EXCEPT ![t] = @ + 1]
  /\ want' = [want EXCEPT ![t] = [kind |-> kind, name |-> n]]
  /\ pc' = [pc EXCEPT ![t] = at]
  /\ UNCHANGED <<db, tables, marks, pending_files, known, stack, holder, result,
                 deferred, given>>

FindFileByName(t, f) == Call(t, "FindFileByName", f, "lock")
FindFileContainingSymbol(t, s) == Call(t, "FindFileContainingSymbol", s, "lock")
FindByName(t, s) ==
  Call(t, "FindByName", s, IF db.kind = "none" THEN "lock" ELSE "cached")

NoReaderLock == TRUE
ReaderLock == holder = None

\* The fast path of FindByNameHelper, under the reader lock.
FindCached(t) ==
  /\ pc[t] = "cached" /\ ReaderLock
  /\ IF known_bad_files = {} /\ known_bad_symbols = {} /\ Defined(want[t].name)
     THEN /\ result' = [result EXCEPT ![t] = symbols[want[t].name].file]
          /\ pc' = [pc EXCEPT ![t] = "return"]
     ELSE pc' = [pc EXCEPT ![t] = "lock"] /\ UNCHANGED result
  /\ UNCHANGED <<db, tables, marks, pending_files, known, stack, holder, want, calls,
                 deferred, given>>

\* The slow path takes the mutex and forgets what was bad in earlier calls.
BuiltFor(w) ==
  IF db.kind = "none" THEN None
  ELSE IF w.kind # "FindFileByName" THEN db.finds[w.name]
  ELSE IF w.name \in db.has THEN w.name ELSE None
ByName(w) == w.kind = "FindFileByName"
Forget(bad, new) == IF db.kind = "none" THEN bad ELSE new

Locking(t) == pc[t] = "lock" /\ want[t].kind # "BuildFile" /\ holder = None
Answer(t, file) ==
  /\ result' = [result EXCEPT ![t] = file]
  /\ pc' = [pc EXCEPT ![t] = "return"]

FindLocked(t) ==
  /\ Locking(t) /\ Lookup(want[t]) # None
  /\ Answer(t, Lookup(want[t]))
  /\ known_bad_files' = Forget(known_bad_files, {})
  /\ known_bad_symbols' = Forget(known_bad_symbols, {})
  /\ UNCHANGED <<db, tables, marks, pending_files, stack, holder, want, calls, deferred,
                 given>>

\* The database has nothing, or a file that is built and lacks the symbol.
FindNothing(t) ==
  /\ Locking(t) /\ Lookup(want[t]) = None
  /\ BuiltFor(want[t]) \in {None} \cup files
  /\ Answer(t, None)
  /\ LET bad == {want[t].name} IN
     /\ known_bad_files' = Forget(known_bad_files, IF ByName(want[t]) THEN bad ELSE {})
     /\ known_bad_symbols' = Forget(known_bad_symbols, IF ByName(want[t]) THEN {} ELSE bad)
  /\ UNCHANGED <<db, tables, marks, pending_files, stack, holder, want, calls, deferred,
                 given>>

FindInDatabase(t) ==
  LET f == BuiltFor(want[t]) IN
  /\ Locking(t) /\ Lookup(want[t]) = None /\ f \notin {None} \cup files
  /\ known_bad_files' = Forget(known_bad_files, {})
  /\ known_bad_symbols' = Forget(known_bad_symbols, {})
  /\ IF f \in Forget(known_bad_files, {})
     THEN Answer(t, None) /\ UNCHANGED <<stack, pending_files, holder>>
     ELSE /\ holder' = t
          /\ stack' = <<Frame(f, IF ByName(want[t]) THEN None ELSE want[t].name)>>
          /\ pending_files' = <<f>>
          /\ UNCHANGED <<result, pc>>
  /\ UNCHANGED <<db, tables, marks, want, calls, deferred, given>>

\* A pool without a database has no mutex: its user serialises the calls.  If
\* the file is there and matches it is returned; another one of its name is
\* refused in the course of the build.
BuildFile(t, f, matches) ==
  /\ db.kind = "none" /\ \A u \in Thread : pc[u] = "idle"
  /\ calls[t] < MaxCalls(db, t) /\ (matches \/ f \in files)
  /\ calls' = [calls EXCEPT ![t] = @ + 1]
  /\ want' = [want EXCEPT ![t] = [kind |-> "BuildFile", name |-> f]]
  /\ known_bad_files' = {} /\ known_bad_symbols' = {}
  /\ IF f \in files /\ matches
     THEN Answer(t, f) /\ UNCHANGED <<stack, holder>>
     ELSE /\ stack' = <<Frame(f, None)>> /\ holder' = t
          /\ pc' = [pc EXCEPT ![t] = "lock"]
          /\ UNCHANGED result
  /\ UNCHANGED <<db, tables, marks, pending_files, deferred, given>>

\* DeferredValidation::Validate, after the mutex was released: it looks up the
\* option messages, which this database does not have, in calls of their own.
Invalid(f) == proto(f).features = "invalid"
Validate(t) ==
  /\ pc[t] = "validate"
  /\ IF deferred[t] = {} \/ db.kind = "none" THEN UNCHANGED known
     ELSE holder = None /\ known_bad_files' = {} /\ known_bad_symbols' = {OptionType}
  /\ Answer(t, IF \E f \in deferred[t] : Invalid(f) THEN None ELSE result[t])
  /\ deferred' = [deferred EXCEPT ![t] = {}]
  /\ UNCHANGED <<db, tables, marks, pending_files, stack, holder, want, calls, given>>

Return(t) ==
  /\ pc[t] = "return"
  /\ given' = given \cup ({result[t]} \ {None})
  /\ pc' = [pc EXCEPT ![t] = "idle"]
  /\ want' = [want EXCEPT ![t] = None] /\ result' = [result EXCEPT ![t] = None]
  /\ UNCHANGED <<db, tables, marks, pending_files, known, stack, holder, deferred, calls>>

Progress(t) ==
  \/ FindCached(t) \/ FindLocked(t) \/ FindNothing(t) \/ FindInDatabase(t)
  \/ Validate(t) \/ Return(t)

\* All calls of the model are made.
Rest ==
  /\ \A t \in Thread : pc[t] = "idle" /\ calls[t] = MaxCalls(db, t)
  /\ UNCHANGED vars

Next ==
  \/ BuildStep \/ Rest
  \/ \E t \in Thread :
       \/ Progress(t)
       \/ \E f \in File : FindFileByName(t, f)
       \/ \E s \in Symbol : FindFileContainingSymbol(t, s) \/ FindByName(t, s)
       \/ \E f \in File, matches \in BOOLEAN : BuildFile(t, f, matches)

Spec == Init /\ [][Next]_vars

\* A thread that can go on does, and absl::Mutex starves nobody who waits.
LiveSpec ==
  /\ Spec
  /\ WF_vars(BuildStep)
  /\ \A t \in Thread : SF_vars(Progress(t))

-------------------------------------------------------------------------------
(* Properties. *)

\* The variables have their types.
TypeOK ==
  /\ files \subseteq File
  /\ symbols \in [Symbol -> [file : File, package : BOOLEAN] \cup {Undefined}]
  /\ links \in [File -> SUBSET File]
  /\ \A i \in DOMAIN checkpoints :
       /\ checkpoints[i].symbols \in 0..Len(symbols_after_checkpoint)
       /\ checkpoints[i].files \in 0..Len(files_after_checkpoint)
  /\ ToSet(symbols_after_checkpoint) \subseteq Symbol
  /\ ToSet(files_after_checkpoint) \subseteq File
  /\ ToSet(pending_files) \subseteq File
  /\ known_bad_files \subseteq File
  /\ known_bad_symbols \subseteq Symbol \cup {OptionType}
  /\ \A i \in DOMAIN stack :
       /\ stack[i].at \in {"load", "link", "finish"}
       /\ stack[i].i \in 1..(Len(proto(stack[i].file).imports) + 1)
       /\ stack[i].k \in 1..(Len(proto(stack[i].file).refs) + 1)
  /\ holder \in Thread \cup {None} /\ (holder = None <=> stack = <<>>)
  /\ pc \in [Thread -> {"idle", "cached", "lock", "validate", "return"}]
  /\ result \in [Thread -> File \cup {None}]
  /\ deferred \in [Thread -> SUBSET File]
  /\ \A t \in Thread : calls[t] \in 0..MaxCalls(db, t) /\ given \subseteq File

\* At no time, not in the middle of a build either, does anything point to a
\* file that was rolled back: not a symbol, not a descriptor of a file that is
\* still there, and not a validation that was put off.
NoDanglingPointers ==
  /\ \A s \in Symbol : Defined(s) => symbols[s].file \in files
  /\ \A f \in File : links[f] \subseteq (IF f \in files THEN files ELSE {})
  /\ \A t \in Thread : deferred[t] \subseteq files

\* While nobody builds, every checkpoint was committed or rolled back, nothing
\* is on the lists that a checkpoint refers to (descriptor.cc:1708), and the
\* tables hold whole files: all that a file in them defines, and nothing of a
\* file that is not in them.
BuildsLeaveWholeFiles ==
  holder = None =>
    /\ checkpoints = <<>> /\ pending_files = <<>>
    /\ symbols_after_checkpoint = <<>> /\ files_after_checkpoint = <<>>
    /\ \A f \in files :
         /\ \A s \in proto(f).defines : symbols[s] = [file |-> f, package |-> FALSE]
         /\ proto(f).package # None => symbols[proto(f).package].package
    /\ \A s \in Symbol : Defined(s) =>
         /\ symbols[s].file \in files
         /\ s \in IF symbols[s].package THEN {proto(symbols[s].file).package}
                                        ELSE proto(symbols[s].file).defines

\* What was added while no checkpoint is left is there for good: no later build
\* that fails takes it with it (descriptor.cc:1726).
Committed == files \ ToSet(files_after_checkpoint)
CommittedStays == [][Committed \subseteq Committed']_vars

\* No caller, and no call that is about to return, has a file that could still
\* be rolled back, though files are in the tables while they are built.
GivenIsCommitted ==
  given \cup {result[t] : t \in Thread} \subseteq Committed \cup {None}

\* While nobody builds, no file in the pool has errors: what it must import is
\* there, and each of its names has led to a type of its own or of an import.
FilesAreComplete ==
  holder = None =>
    \A f \in files :
      /\ ~proto(f).broken /\ ToSet(proto(f).imports) \ proto(f).weak \subseteq files
      /\ \A i \in DOMAIN proto(f).refs : \E s \in ToSet(proto(f).refs[i]) :
           symbols[s].file \in {f} \cup (links[f] \cap ToSet(proto(f).imports))

\* While nobody builds, the tables hold whole files, and none of them has errors.
BuildsLeaveCompleteFiles == BuildsLeaveWholeFiles /\ FilesAreComplete

(* What a database offers, if every type has one definition, no import is  *)
(* weak, the lifetimes of features are right, and what is found for a      *)
(* symbol is found by name: the files that have no errors and import, in   *)
(* the end, only such.                                                     *)
Consistent(d) ==
  /\ d.kind = "database"
  /\ \A s \in Symbol :
       /\ d.finds[s] \in d.has \cup {None}
       /\ Cardinality({f \in File : s \in d.proto[f].defines \cup {d.proto[f].package}}) <= 1
  /\ \A f \in File : d.proto[f].weak = {} /\ d.proto[f].features # "invalid"
FullyQualified(d) ==
  \A f \in File : \A i \in DOMAIN d.proto[f].refs : Len(d.proto[f].refs[i]) = 1

\* The files that can be built once these can: their names lead to types of their
\* own or of an import.
Ready(d, built) ==
  {f \in d.has :
     LET p == d.proto[f]
         types == UNION {d.proto[g].defines : g \in {f} \cup ToSet(p.imports)} IN
     /\ ~p.broken /\ ToSet(p.imports) \subseteq built
     /\ \A i \in DOMAIN p.refs : ToSet(p.refs[i]) \cap types # {}}
Levels(d) ==
  LET level[n \in 0..Cardinality(File)] == IF n = 0 THEN {} ELSE Ready(d, level[n - 1]) IN level
Buildable(d) == Levels(d)[Cardinality(File)]

Offered(d, w) ==
  IF ByName(w) THEN w.name \in Buildable(d)
  ELSE \E f \in Buildable(d) \cap {d.finds[w.name]} : w.name \in d.proto[f].defines

\* A lookup finds what the database offers (descriptor.h:2296: "when it can't
\* find something among the descriptors already in the pool, looks for it in
\* the given DescriptorDatabase").
OffersAreFound ==
  \A t \in Thread :
    pc[t] = "return" /\ result[t] = None /\ Consistent(db) => ~Offered(db, want[t])

\* The same where names are fully qualified: then it does not matter what
\* failed in this call or in the ones before it.
QualifiedOffersAreFound == FullyQualified(db) => OffersAreFound

\* A lookup finds nothing else, although imports and names may lead in circles.
OnlyOffersAreFound ==
  \A t \in Thread :
    pc[t] = "return" /\ result[t] # None /\ Consistent(db) => result[t] \in Buildable(db)

\* A lookup finds what the database offers and nothing else.
OffersAreFoundExactly == QualifiedOffersAreFound /\ OnlyOffersAreFound

\* What is refused as invalid is not given to anybody: "nullptr if there were
\* problems with the input" (descriptor.h:2458).
InvalidIsNotGiven == \A f \in given : ~Invalid(f)

\* Every call comes back, although files may import and name each other.
EveryCallReturns == \A t \in Thread : pc[t] # "idle" ~> pc[t] = "idle"
===============================================================================
