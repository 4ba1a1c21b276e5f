# Verification of the protobuf runtime in ProtoTest

ProtoTest is an Unreal project whose own game module is empty
(`Source/ProtoTest`); what it contains is the C++ protobuf runtime and compiler,
vendored whole in `Source/LibProtobuf/google/protobuf`, and one generated
message (`Source/ProtoFiles`).  This directory holds TLA+ modules of the parts of
that runtime in which threads, buffers, owners or nested operations meet, TLC
configurations that check them on small instances, and TLAPS proofs.

All paths below are relative to `Source/LibProtobuf/google/protobuf`.
`PROJECT.json` maps every definition to the lines it translates.

## 1. The system

Generated messages are plain objects.  Behind them stands machinery with state of
its own, and around that a library of data types, formats and generators.

| Component | Code | State | Operations | What is hard |
|---|---|---|---|---|
| Map field | `map_field.{h,cc}` | a hash map; a repeated field of entries in a `ReflectionPayload`; a state word that says which is newer; a mutex | const accessors that rebuild the older copy; mutators; merge, swap, clear | const accessors run in parallel: an unlocked test of the state word, a lock, a second test; the payload is published by compare-and-swap |
| Thread-safe arena | `thread_safe_arena.h`, `arena.cc` | a list of chunks of SerialArenas, a mutex for its head, a lifecycle id; thread-local caches | find or add the thread's SerialArena; walks; Reset, destruction | slots are claimed with `fetch_add` and filled later; ids stand between a stale cache and freed memory |
| Serial arena | `serial_arena.h`, `string_block.h`, `arena_cleanup.h`, `arena.cc` | blocks, string blocks, counters, free lists, cleanup list | allocate, return an array, register a destructor; SpaceUsed from other threads | counters read one by one while they change; free lists that live in free memory; the order of destruction |
| Repeated pointer fields | `repeated_ptr_field.{h,cc}` | an array of elements, some of them cleared, on the heap or on an arena | add, remove, merge, swap, give and take elements | cleared elements are kept for reuse; elements change owners between heap and arenas |
| Extension set | `extension_set.{h,cc}` | an array sorted by number, or a tree; cleared extensions | mutable, release, set allocated, merge, swap all or one | an array that grows, shrinks and becomes a tree under pointers into it; owners, as above |
| Wire input | `parse_context.{h,cc}` | a window on the current chunk, a 2 x 16 byte patch buffer, limits relative to its end | Done, read, skip, push and pop limits, read a cord, end the parse | reads of 16 bytes past the window are allowed; every exchange of a buffer rebases pointers and limits |
| CodedInputStream | `io/coded_stream.{h,cc}` | a buffer of the input, counts of what was read, overflowed and hidden by INT_MAX, two limits | read, skip, push and pop limits, tags, ConsumedEntireMessage | limits that are negative, overflow or lie outside of each other; what of a buffer is hidden and must be given back |
| Wire output | `io/coded_stream.{h,cc}` | a patch buffer in front of the output's buffer, an error flag | write raw, string, cord, alias, skip, direct buffers, Trim | writers run past the end by up to 16 bytes; a flush that fails must be seen |
| Zero-copy streams | `io/zero_copy_stream*` | positions, buffers that were handed out, limits | Next, BackUp, Skip, ReadCord, ByteCount | overrunning a limit and giving it back; failures half way |
| Descriptor pool | `descriptor.{h,cc}` | tables of files and symbols, checkpoints, files being built, known failures, a mutex | lookups that build files on demand, BuildFile | nested builds and nested rollbacks; validation after the unlock; failures that depend on what was being loaded |
| Descriptor databases | `descriptor_database.{h,cc}` | sorted indices of names, symbols and extensions, in a tree and in a vector | Add, find by name, symbol, extension; a merge of databases | a symbol is found by its predecessor, so no symbol may be inside another; what is refused must leave nothing behind |
| First use of generated code | `generated_message_reflection.cc`, `message.cc`, `dynamic_message.cc`, `descriptor.cc` | once flags, registered files, prototypes, lazily linked types, unknown enum values, memoized projections | assign descriptors, find a prototype, link a type | once flags inside of locks and locks inside of once flags; tables filled by whoever is first |
| Map hash table, strings, unknown fields, scalars | `map.h`, `arenastring.h`, `micro_string.h`, `unknown_field_set.cc`, `repeated_field.h` | arrays that grow, tagged pointers | add, remove, merge, release | pointers stale after growth; ownership by arena or heap |
| Parsers, text format, JSON, utilities | `wire_format.cc`, `generated_message_tctable_lite.cc`, `text_format.cc`, `json/`, `util/` | little | parse, print, compare | data more than control |
| Compiler | `compiler/` | little | parse .proto files, generate code | text output |

They interact as follows.  A parser reads through the wire input (or, in older and
generic code, through a CodedInputStream), which reads a zero-copy stream; messages
are written through the wire output to another.  A parser allocates from an arena;
the arena gives each thread a serial arena, in which repeated fields, maps and
extension sets recycle their arrays and messages register destructors; a parsed map
field is read through its map, and through reflection through its repeated field;
reflection is set up on first use and needs descriptors, which a pool builds from a
database, in calls that any thread may make.

What each component must guarantee:

* Map field: both copies denote one content; no reader meets a half-built copy; a
  const accessor changes nothing that can be seen; a pointer that the caller still
  holds writes into the copy that counts.
* Thread-safe arena: a thread always gets its own SerialArena of the arena it asked,
  also when arenas, threads and addresses come and go; none is lost to Free.
* Serial arena: memory has one use at a time and is as large as was asked; what was
  constructed is destroyed once, before its memory goes; the counters are true.
* Repeated pointer fields and extension sets: every object has one owner; what the
  user sees is a list, or a value for each number, whatever the memory looks like.
* Wire input: the parser sees the bytes of the stream, as if they were in one
  piece; it accepts exactly the input; the stream stands behind it afterwards.
* CodedInputStream: calls answer as they would on the whole input in one piece; what
  was not consumed is given back.
* Zero-copy streams: bytes come once and in order, and again after BackUp; a limited
  stream never shows what is behind the limit.
* Wire output: what comes out is what was written; no write leaves the buffers;
  a failure is told.
* Descriptor pool: what is in the tables is whole and stays; a failed build leaves
  no trace; a lookup answers what the database offers.
* Descriptor databases: what was accepted is found, by each of its names, whatever
  was added before or after.
* First use: equal questions get equal answers, nothing is given out before it is
  complete, every call returns.

## 2. Modules

| Module | Models | Code |
|---|---|---|
| `MapContents` | what a map field promises: one content, accessors that answer with it | abstract |
| `MapField` | `MapFieldBase` at the granularity of atomics and mutex operations | map_field.{h,cc} |
| `MapField_proofs` | theorems about `MapField` | |
| `ArenaThreads` | what a shared arena promises: one region for each thread | abstract |
| `ThreadSafeArena` | lifecycle ids, thread caches, the list of chunks, SpaceAllocated | thread_safe_arena.h, arena.cc |
| `ThreadSafeArena_proofs` | theorems about `ThreadSafeArena` | |
| `SerialArenaSpace` | blocks, string blocks and their counters, with a concurrent SpaceUsed | serial_arena.h, string_block.h, arena.cc |
| `CachedBlocks` | recycling of array memory | serial_arena.h |
| `ArenaCleanup` | cleanup lists, string blocks, Reset and destruction | arena_cleanup.h, arena.cc |
| `SerialArena_proofs` | theorems about `SerialArenaSpace`, `CachedBlocks` and `ArenaCleanup` | |
| `RepeatedLists` | what repeated fields promise: lists | abstract |
| `RepeatedPtrField` | elements, cleared elements, capacities, owners | repeated_ptr_field.{h,cc} |
| `RepeatedPtrField_proofs` | theorems about `RepeatedPtrField` | |
| `ExtensionValues` | what extension sets promise: a value for each number | abstract |
| `ExtensionSet` | array, tree, cleared extensions, owners | extension_set.{h,cc} |
| `EpsCopyInputStream` | the window of the parser and its limits | parse_context.{h,cc}, message_lite.cc |
| `EpsCopyInputStream_proofs` | theorems about `EpsCopyInputStream` | |
| `ByteStream` | what a zero-copy input stream promises | abstract |
| `ZeroCopyStreams` | array, Cord, copying, concatenating and limiting input streams, nested | io/zero_copy_stream*.{h,cc} |
| `CodedInputStream` | buffers, limits, tags | io/coded_stream.{h,cc} |
| `ZeroCopyOutputStreams` | array, string, Cord and copying output streams | io/zero_copy_stream*.{h,cc} |
| `EpsCopyOutputStream` | the patch buffer of the writer, on one of those | io/coded_stream.{h,cc} |
| `DescriptorPool` | lookups, builds, checkpoints, rollback, deferred validation | descriptor.cc |
| `DescriptorPool_proofs` | theorems about `DescriptorPool` | |
| `DescriptorIndex` | the simple, the encoded and the merged database | descriptor_database.{h,cc} |
| `LazyInit` | registration, assignment, prototypes, lazily linked types, tables | generated_message_reflection.cc, message.cc, dynamic_message.cc, descriptor.cc |
| `LazyInit_proofs` | theorems about `LazyInit` | |
| `SequenceFacts` | induction on sets of numbers, and facts about sequences, for the proofs | |
| `MCMapField`, `MCThreadSafeArena`, `MCDescriptorPool`, `MCDescriptorIndex`, `MCCodedInputStream`, `MCZeroCopyStreams`, `MCEpsCopyOutputStream`, `MCLazyInit` | instances of one module each | |
| `MCMemory`, `MCWireStreams`, `MCDescriptors` | several components side by side | |

The harnesses in the last line have a variable `part` that is chosen at the beginning
and never changes: only that component moves.  Their components share no state in
the code, so that an interleaving of them would show nothing that each alone does
not.  Components that do interact are composed in the module: the wire output
writes to streams of `ZeroCopyOutputStreams`, limiting and concatenating streams
read from streams, `LazyInit` has the pool, the factories and reflection in one.

Definitions that stand before another one and resemble it (`NoReaderLock` before
`ReaderLock`, `IndexRoundedDown` before `IndexToTake`) are plausible
mistakes in the code: `PROJECT.json` lists under "mutants" which property each of
them breaks when it takes the place of its neighbour.  No specification uses them.

Some modules have a constant `Careless`: the calls that run into a defect which is
described in section 4.  The runs leave it empty, so that the properties can be
checked of everything else, and a configuration that is run by hand fills it.

### MapField

`payload`, `state`, `rep` and `map` are the members of `MapFieldBase` and
`ReflectionPayload`; a payload is an address from `PayloadId`, so that swaps that
exchange payloads can be told from swaps that exchange contents.  A const accessor
(`GetMap`, `GetRepeatedField`, `SpaceUsed...`) is a thread that moves through one
step for each atomic load, store, CAS and mutex operation, and one for every entry
that is copied during a rebuild (`SyncRepeatedFieldWithMap`,
`SyncMapWithRepeatedField`, `PayloadSlow`).  Mutators are single steps that need the
field to be quiet, which is what map_field.h:394 asks of callers.  `mapRef` and
`repRef` are pointers that mutators gave out and through which the caller writes
later.  Contents are functions from keys to values; a repeated field is a sequence
of entries in which a later one of a key wins.

### ThreadSafeArena

A thread is named by the address of its `ThreadCache`: a thread that exits is
followed by one with a new cache at the same address.  Arenas and SerialArenas are
addresses that are used again after they were freed; this is the situation that
lifecycle ids exist for.  An id is a pair of a batch and a digit below
`kPerThreadIds`, as in `GetNextLifeCycleId`.  Chunks have the capacities that
`NewSerialArenaChunk` computes, with small constants.  Adding a SerialArena is split
at `fetch_add`, the write-back of an overfull size, the two stores to a slot, the
lock, the second load of the head, and its store; SpaceAllocated walks at one slot
for each step.

### SerialArenaSpace, CachedBlocks, ArenaCleanup

Three views of a SerialArena that do not share state.  `SerialArenaSpace` splits its
owner at every store that SpaceUsed can see and SpaceUsed at each of its loads;
counters are words modulo `Word` and wrap as in the code.  `CachedBlocks` numbers
memory regions and keeps their real sizes in bytes, so that the rounding of indices
is the code's.  `ArenaCleanup` records the order in which objects and strings are
created and destroyed, over chunks of SerialArenas that are walked from the newest
and nodes that are walked from the last.

### RepeatedPtrField, ExtensionSet

The state is memory as a value (`m`, `s`): objects with the arena that will delete
them, what each field points to, and what the user holds.  A method is an operator
from memory to memory, an action calls one method.  `RepeatedPtrField` gives every
object a name, so that an object in two places can be told from two equal ones, and
renames after each call.  `ExtensionSet` counts the messages and the arrays on the
heap, and keeps for each array its real size (`room`) beside the size that the set
believes (`flat_capacity_`), with which it will be returned.  Both map to an abstract
module, in which there are no owners and no cleared elements.

### EpsCopyInputStream

A byte is its position in the stream, so that "the parser sees the stream" can be
said directly: byte `ptr + i` of the window is number `consumed + i + 1`.  Memory
that belongs to nobody reads 0 and is never taken for a byte of the stream.  The
initial states are all inputs up to `MaxLength` bytes in all chunkings, for each way
to start a parse (flat array, stream, bounded stream, coded stream that stops at a
tag).  The parser reads fields of every size the format allows: 1 to `kSlopBytes`
bytes at once, or a sized string that is appended, skipped or read as a cord, or a
nested message behind a pushed limit.  The answer of `ParseEndsInSlopRegion` is an
input (`stop`).

### ZeroCopyStreams, CodedInputStream, ZeroCopyOutputStreams, EpsCopyOutputStream

A stream is a record of the fields of its class, with the stream it reads from
inside.  A method is the set of its outcomes (records of the stream afterwards and
what was returned), since what is below it may choose: the size of a chunk, a
failure.  Bytes are positions again: what `Next` hands out says which bytes of the
source it holds.  A failed `ABSL_CHECK` makes `checks` false, and so do calls that
a stream makes against the contract of the one below.  `CodedInputStream` keeps, apart from the fields
of the class, how much its caller has `taken`, and where each pushed limit ends.  The
cursor of `EpsCopyOutputStream` is a position in the patch buffer or in the output,
by `buffer_end_`, as in the code.

### DescriptorPool

`stack` holds the calls of `DescriptorBuilder::BuildFile`: each frame loads its
imports, then adds the file to the tables, then follows the names in it, scope by
scope; a name may build another file, whose frame is pushed.  `checkpoints`,
`symbols_after_checkpoint` and `files_after_checkpoint` are those of `Tables`.
`links` says to which files the pointers of a file's descriptors lead; it is what
would dangle.  A lookup is a thread that reads under the reader lock, or takes the
mutex, perhaps builds, releases it, validates what was put off, and returns.
Everything between two mutex operations happens under the mutex, so builds need no
finer steps than these.  A file is a record of what the pool acts on (imports,
package, types, names, errors, features).  A pool without a database is filled by
BuildFile and its user serialises the calls (the code has no mutex then).

### DescriptorIndex

Here a name is a sequence of characters, and a character its rank in the order of
bytes, since what the index relies on is that the dot sorts before everything that
a name may contain, and what it forgets is what sorts before the dot.  The simple
database has sets and one sorted sequence; the encoded one has a tree and a vector
of each kind, and empties the trees into the vectors before a lookup (`EnsureFlat`).
Trees sort by `SymbolCompare`, which compares a package and a symbol without joining
them.  `slips` collects what an `Add` overlooked.

### LazyInit

A thread is a stack of calls; each frame says at which lock or once flag the call
is.  `once` holds for every file and every lazily linked field whether its flag is
new, running in a thread, or done; a mutex is held by a thread; who meets either
waits.  `initialized`, `database` and `registered` say how far the registration of a
file has come, `prototypes`, `type_map`, `unknown` and `memo` are the tables, and
`answers` records every question with what it was given.

## 3. What the runs show

| Run | Question | Bounds |
|---|---|---|
| `map_field_threads` (`MapFieldThreads.cfg`) | Do racing const accessors between mutators ever tear, lose or change the content? | 2 threads, 2 keys, 2 values, 2 entries: more than one entry of a key, a rebuild that another thread interrupts |
| `map_field_swap` (`MapFieldSwap.cfg`) | Does each mutator do to the contents what its name says, in particular swaps and merges on one arena and across two? | 3 fields, one of them on an arena of its own, 2 keys, 2 payloads for them, so that a swap meets fields with and without one |
| `arena_insert` (`ArenaInsert.cfg`) | Is a SerialArena lost when several threads add theirs? Does a walk beside them count what was listed? | 4 threads, chunks of 1 and 2 entries: slots overshot or still empty when a walk passes, heads exchanged under a waiting thread |
| `arena_reuse` (`ArenaReuse.cfg`) | Can a cache be taken for valid when addresses are used again? Does the arena implement `ArenaThreads`? Does every allocation and every walk end? | two scenes: 2 threads, 2 arenas, 2 batches of ids of 2 digits (a thread uses a batch up while the other's is open); 3 threads at one arena, where 2 contend for the mutex while the third walks |
| `memory` (`Memory.cfg`) | Do the counters of a SerialArena add up? Is array memory used once? Is all destroyed once and in order? Do repeated fields and extension sets keep one owner for each object, and are they lists and values? | below |
| `arena_space_race` (`ArenaSpaceRace.cfg`) | see section 4 | |
| `wire_streams` (`WireStreams.cfg`) | Do parsers see the input, whatever the chunks? Is what is written what comes out? Is every stream the bytes it stands for? | below |
| `had_error` (`EpsCopyOutputErrors.cfg`) | see section 4 | |
| `pool` (`Descriptors.cfg`) | Does a failed build leave a trace, does a lookup answer what the database offers, can a caller get a file that may still be rolled back, does every call return? Is what was added to a database found? | below |
| `pool_invalid` (`DescriptorPoolInvalid.cfg`) | see section 4 | |
| `symbol_index` (`SymbolIndex.cfg`) | see section 4 | |
| `lazy_init` (`LazyInit.cfg`) | Do equal questions get equal answers, is everything complete before it is given out, does any circle of once flags and mutexes close? | 2 threads with 2 calls each, 4 files of which two are registered late and one is eager, 3 types |

`map_field_swap` has no thread of const accessors: mutators need a field to be quiet, and
a merge leaves its source CLEAN, so that each state of the copies occurs without them.
Its property names the call of each step.  The refinement `ImplementsMapContents` alone
would accept a swap that copies or does nothing, as the abstract steps do not say which
call makes them; this holds of `ImplementsContainers`, too, where `EveryObjectHasOneOwner`
is what stops a call from losing or copying an object.

`MCThreadSafeArena` has scenes: a behaviour of `arena_reuse` plays in one of two, with
bounds of its own within those of the constants (`Reuse`, `Contention`).

The bounds of the three runs of several components:

* `memory`: blocks of 4 to 8 bytes, string blocks of 1 to 3 strings, 12 bytes given out
  (all kinds of exchange); array sizes 16, 24, 40, 1040 around powers of two in 4
  regions (the lists move twice and reach the cap of 64); 4 SerialArenas in chunks of
  2, with 3 objects and 3 strings (lists and blocks of more than one chunk); two
  repeated fields of up to 2 elements, of which the user may hold 2, in 5
  arrangements on the heap and on arenas; two extension sets with either an array that
  holds both numbers and may grow to 4 entries, on two arenas or one and the heap, or
  three numbers and an array of at most 2, so that the third makes it a tree.
* `wire_streams`: for EpsCopyInputStream a slop of 2, cords from 5 bytes on, inputs of
  up to 6 bytes in all chunkings, nesting of 2 (fields shorter than, equal to and
  longer than the slop and the patch buffer; a slop of 2 is too short for `IsExceedingLimit` to
  be true where a tag is read, which only the theorem covers); input streams of every kind with up to
  two limits, and counts of 1, 2 and 4, on both sides of a chunk; for CodedInputStream
  chunks of up to 3 bytes, `INT_MAX` of 6 (less than the input), varints of up to 3
  bytes, 5 calls and 2 limits; for the output a slop of 2, writes of 0, 1, 3 and 5 bytes,
  6 bytes in total, on each output and in the smallest blocks.
* `pool`: 3 files, every graph of imports without self-import, 3 ways to name types,
  10 complications, 2 calls of one thread; 2 threads on a few of these; a database of
  up to 4 of 8 files that conflict in names, symbols and extensions.

Other configurations are run by hand.  `EpsCopy.cfg` checks `EpsCopyInputStream` alone.
`MapFieldLive.cfg` checks
that every accessor returns, with 2 threads that also race for the CAS, and the
inductive invariant `IInv` of the proofs with `ReadersSeeContent`; `ArenaIds.cfg` the `IInv` of
`ThreadSafeArena_proofs` and that no lifecycle id is given twice (`IdsAreFresh`).  These find
no error.  `ArenaSpaceTotal.cfg`, `DescriptorPoolScopes.cfg`, `LimitedCord.cfg` and
`RefusedFile.cfg` give the counterexamples of section 4.

Why the bounds are enough.  Races in the map field and the arena are between two
threads and a third that waits; a third key or value adds no new order of
steps.  In the serial arena and the streams the sizes are scaled down together:
each relation that the code distinguishes (fits, fits exactly, does not fit; shorter
than the slop, than the patch buffer, than the chunk) occurs.  In containers, every
method has at most two operands, and every array passes through empty, full, grown
and, with cleared elements, full but short.  In the pool, every
defect needs a file that is loaded, one that it imports and one that a name leads
to; where a fourth is needed (`DescriptorPoolScopes.cfg`) the instance has four.  In
`LazyInit` a circle of two locks needs two threads; the only longer chain of locks in
the code is pool, once flag, factory, and a third thread could only wait in it.  Bounds
that are not in the code: `MaxEntries` (entries added to one repeated field),
`MaxBatches` (id ranges), `Managers` and `Walkers` (the roles of threads), `MaxUsed` (bytes
given out), `MaxRegions`, `MaxSerials`, `MaxObjects`, `MaxStrings`, `MaxSize` and `MaxUser`
(elements of a field, and objects with the user), `MaxLength`, `MaxDepth`, `MaxChunk`,
`MaxLimits`, `MaxBytes`, `MaxSkipped`, `MaxAdds`, `MaxCalls`.  Each appears in a guard or in
an initial set by that name.

Deadlock is checked in every listed run but `had_error`, in which the bound on bytes
can be used up.  In the others a state in which no call is left makes steps to itself.

Fairness.  Liveness (`EveryAccessEnds` of the arena, `EveryCallReturns` of the pool and
`EveryQuestionIsAnswered` of `LazyInit`) is checked
under two assumptions: a running thread takes its next step (weak fairness), and a
thread that waits for an `absl::Mutex` or a once flag gets it if it is free again and
again (strong fairness; absl queues its waiters).  Where one action stands for both
kinds of steps (the calls of `DescriptorPool` and `LazyInit`) it has strong fairness.
Callers are not assumed to call.

Memory order.  All models are sequentially consistent.  Where the code uses relaxed
accesses the modelled claim does not depend on their order with other locations
(`SpaceUsed` excepted, whose every interleaving is explored).

## 4. Findings

With a run:

* A `SpaceUsed` that runs while the owner installs a larger string block subtracts
  the new unused count from the old size and wraps (arena.cc:347), against arena.h:461,
  which bounds the error by a block.  Run `arena_space_race`.
* BuildFile returns nullptr for a file that uses a feature outside its lifetime and
  leaves the file in the pool, where lookups find it (descriptor.cc:5100), against
  descriptor.h:2460.  Run `pool_invalid`.
* A symbol that precedes all others in the index of a database is compared with the
  second of them and not with the first: `foo` is accepted before `foo.bar`, and then
  `foo.baz` is not found (descriptor_database.cc:174), against
  descriptor_database.h:223.  Run `symbol_index`.
* `HadError()` after `Trim()` is false although the flush failed: `BackUp(0)` of the
  copying output stream drops the answer of its `Flush()`
  (io/zero_copy_stream_impl_lite.cc:320), against io/coded_stream.h:1097.  Run `had_error`.

Seen while modelling, with a configuration to run by hand or an element of `Careless`
that lets the calls in:

* `SpaceUsed` of a serial arena without a block leaves out every retired string block
  (arena.cc:350), against arena.h:456 (`SpaceUsedIsTotal` under `ArenaSpaceTotal.cfg`).
* A pool does not find a sound file in its database at the first try, and finds it
  at the second, when a relative name was tried in a scope whose file imports a
  file that was being loaded (descriptor.cc:3002), against descriptor.h:2296
  (`OffersAreFound` under `DescriptorPoolScopes.cfg`).  `OffersAreFoundExactly` shows
  that fully qualified names, which protoc writes, are not affected.
* `LimitingInputStream::ReadCord` after a `Next` that ran over the limit and was backed
  up takes the bytes that were hidden for bytes that may be read
  (io/zero_copy_stream_impl_lite.cc:466; `NothingBeyondLimit` under `LimitedCord.cfg`).
* A file that the encoded database refuses since its name is already in the vector
  has its name in the tree then, and hides the accepted one from the next lookup;
  the symbols that it added before it failed stay as well
  (descriptor_database.cc:675; `WhatWasAddedIsFound` under `RefusedFile.cfg`).
* `FileInputStream::Skip` past the end succeeds where the file can seek, against what
  its interface says of the end (`Careless` `"seek"` of `ZeroCopyStreams`).
* A limit that ends at `INT_MAX` is not told from a legitimate end by
  `CodedInputStream::ReadTagSlow` (io/coded_stream.cc:572 to 590), nor is the total
  limit by `ExpectAtEnd` (`Careless` `"int max"` and `"at end"` of `CodedInputStream`).
* `GetDirectBufferPointer` may answer true with an empty buffer, against
  io/coded_stream.h:180.
* A `WriteAliasedRaw`, or a `Next` of a copying stream, after a failed write may succeed
  again, against "All errors are permanent" in io/zero_copy_stream.h.

## 5. What is proved

`MapField_proofs` proves, for any number of fields, threads, keys (finitely many),
values and payload addresses:

| Theorem | Statement |
|---|---|
| `Invariant` | `Spec => []IInv` |
| `TypeCorrect` | `Spec => []TypeOK` |
| `NoTornAccessTheorem` | no accessor reads or rebuilds a copy that another is rebuilding |
| `OnePayload` | all threads work on the one published payload, fields share none |
| `CleanTheorem` | CLEAN means that both copies hold the same data |
| `RefsTheorem` | a pointer that the caller still has writes to the newer copy |
| `ReadersTheorem` | what an accessor reads is the content of the field |
| `ConstAccessTheorem` | a const accessor changes no content |
| `MutatorsTheorem` | each mutator does to the contents what its name says, and to no other field's |
| `Refinement` | the map field implements `MapContents` |

The assumptions are those of `MapField`: `KeysFinite` (a rebuild ends),
`SentinelsDistinct` and `BoundOK`.

None of the properties is inductive: that CLEAN is true after a rebuild depends on
what the rebuilding thread copied, that nobody wrote meanwhile, and that it held the
right mutex.  The inductive invariant `IInv` has a part for each of these:

* `TypeOK`, `LocalsOK`: a thread inside an accessor knows its field.
* `LockInv`: payloads are not shared; the mutex of a payload is held by the thread
  that works on it; a payload that is about to be published is known to one thread.
* `StateInv`: what a thread learnt from the state word still holds, as the word only
  moves to CLEAN while accessors run.
* `FillInv`: how far a rebuild has come, as an equation between the copied prefix
  and the copy that is being built.
* `CleanMeansSame`, and `RefsInv`: who calls a const accessor gave up the pointer that
  it invalidates.

The proof has a lemma for every action and part that it can disturb; lemmas on
sequences of entries (`MapOf` of a longer prefix, of an appended entry) carry
`FillInv`.  The refinement maps the content of a field to the newer copy; every step
of an accessor but its return stutters.

`MutatorsTheorem` needs of `IInv` the types, that fields share no payload, that CLEAN
copies hold the same data, and that a pointer the caller still has writes to the newer
copy; with these the contents after a call are computed from the contents before it,
one mutator at a time.

`IInv` is also an invariant of `MapFieldLive.cfg`, so that TLC saw it hold before it was
proved.

`ThreadSafeArena_proofs` proves, for any number of threads, arenas and heap
addresses, any capacities of chunks and any size of the batches of ids:

| Theorem | Statement |
|---|---|
| `Invariant` | `Spec => []IInv` |
| `TypeCorrect` | `Spec => []TypeOK`: no chunk, slot or capacity is out of range |
| `FreshIds` | a lifecycle id that is given is in no cache and in no arena |
| `CacheHits` | a thread cache that matches an arena holds the thread's own, live SerialArena of it |
| `AllListedOnce` | no SerialArena is lost or listed twice, and a quiet arena has no unfilled entry |
| `WalksCount` | a SpaceAllocated walk counts what was listed when it began, and nothing else |
| `Refinement` | the arena implements `ArenaThreads` |

The assumptions are those of `ThreadSafeArena`: `SentinelsApart` and `NoIdApart` (null
pointers and "no id" are no values), `RolesOK`, `BatchOK` (a batch has an id) and
`CapacityOK` (a new chunk has at least one entry; arena.cc:683 computes it so).
`Managers`, `Walkers` and `MaxBatches` are free, so that the bounds of the runs play no
part; what the model abstracts (a quiet arena at Reset, sequential consistency) holds
for the theorems as for the runs.

The properties speak of the moment when a cache matches or an arena is quiet; what
makes them true was done earlier, by several threads.  `IInv` says what each step
relies on:

* `IdInv`: ids in use come before the next one of the batch they are from, and no two
  threads have the same batch.  Hence the next id is new, whatever stale ids are left.
* `ThreadInv`, `MutexInv`: a thread that adds a SerialArena is in a live arena that does
  not know it; who is about to store a new head holds the mutex, and the chunk it
  links to is still the newest.
* `SlotInv`, `ReservedInv`: a reserved slot is one thread's, inside the capacity also
  after others have overshot the size; every entry in use that has no id yet is
  reserved by somebody.
* `ListInv`, `AddInv`, `ParentInv`: no id and no SerialArena is in a list twice; an entry
  with an id and no SerialArena is the one its thread is just filling; every SerialArena
  that is not free is listed or about to be.
* `CacheInv`: a matching cache, and a thread at work, have what the arena has for them.
* `WalkInv`: what a walk still owes lies in chunks and entries ahead of it.

`Grows` carries most of the proof: until an arena is freed its list only grows, and
what is stored in a slot stays.  The lemmas `...Effect` say once what each step of
AddSerialArena does to every place of the list; there is one lemma `...Step` for each part
of `IInv`, with a case for each action.  In the refinement the region of a thread is the
arena itself for its creator, and otherwise the SerialArena in the entry with its id.
A region appears at the store to a slot or of the head (`Allot`), GetSerialArena
enters it, creation and Reset are `Open`, and all else stutters.

`IInv` of this module is an invariant of `ArenaIds.cfg`.

### SerialArena_proofs

| About | Theorem | Statement |
|---|---|---|
| `SerialArenaSpace` | `SpaceInvariant`, `TypeCorrect` | `SpaceSpec => []IInv`, `SpaceSpec => []TypeOK`: no allocation runs past the end of its block |
| | `CountersAreExactAlways` | between two allocations an arena with a block accounts for exactly what it gave out and what it allocated |
| | `SteadyReadIsBracketedAlways` | a SpaceUsed during which no block is exchanged returns a number between two true values |
| `ArenaCleanup` | `CleanupInvariant` | `CleanupSpec => []CleanupInv` |
| | `ConstructedIsDestroyedAlways` | when memory is freed no object is alive, the strings that were handed out are destroyed and no place that was not, and nothing is left |
| | `DestroyedInOrderAlways` | objects are destroyed newest first, from the newest SerialArena to the first, while all strings and memory are there |
| `CachedBlocks` | `CachedInvariant` | `Spec => []CachedInv` |
| | `ArraysHaveTheirMemoryAlways` | each array has enough memory, and no byte has two uses |
| | `CachedUntilReusedAlways` | no free list forgets a block |

They hold for any sizes of objects, strings, headers and blocks and any number of each, and for
any number of SerialArenas in chunks of any size.
Assumed are `CleanupBoundsOK` (numbers, and no chunk without a place), `SpaceSizesOK` (a string block has room for a string, blocks have a size, and what
is given out fits in a `size_t`: `MaxUsed < Word`), and for the arrays `SizesOK` (from 16 bytes
on, serial_arena.h:158) and `BoundsOK` (a pointer is no larger than that).

The counters are words that wrap, and a correct sum of them may consist of terms that each
wrapped, since `space_used_` is first given too much and then corrected (arena.cc:286).  So
`IInv` says of the three terms that SpaceUsed adds, at each place
between two stores of the owner, that they agree modulo `Word` with what was given out
(`Accounts`), but for a string block that is in a block and is counted twice until it is
corrected.  `PlaceOK` and `StringsOK` say in which block and string block the owner is, and that
a string block holds a whole number of strings; `Totals` sums up sizes, for which it is
shown that a fold over a sequence does not depend on the order that it chooses (`SumGrows`);
`ReaderOK` bounds what a reader that met no exchange has added up, from both sides, after
each load.

What is destroyed, and when, follows from where things are.  `CleanupInv` says that each cleanup
list holds the objects of its SerialArena, in chunks of which none is empty, with numbers that
fall from the last node of the newest chunk on (`Holds`); that the places of the string blocks
that FreeStringBlocks visits are those of the strings alive (`TakenFrom`); and that the two
passes leave nothing behind (`Progress`).  The walk over the chunks of SerialArenas, each
backwards and then joined, is shown to count down to 1 (`WalkIsDown`): chunks grow at the
front of the first or before it, and what is put there comes first in the joined sequence
(`WalkOverMore`).  `FlattenSeq` of the community modules is a recursive function inside, for which
`FlattenJoins` proves that it satisfies its equation.

For the arrays, `OnePlace` says that a region is in one place of one list, or in use,
or holds the lists; `EverythingFits` that it is as large as the size of its list promises,
where the index is rounded up when a block is taken and down when it is returned.  Powers of
two are a recursive function; that it satisfies its equations is proved (`Powers`).

### RepeatedPtrField_proofs

| Theorem | Statement |
|---|---|
| `Invariant` | `Spec => []IInv` |
| `EveryObjectHasOneOwnerAlways` | every object is in one place, on the arena of its field; what is on the heap is never lost, and nothing is deleted that is not the field's |
| `ImplementsListsAlways` | repeated fields implement `RepeatedLists` |

They hold for any number of fields of any size, in any arrangement on the heap and on arenas,
and for any values, under `ConstantsOK`: there are finitely many fields, none of them is the
temporary of a swap, and each is somewhere.  It is a hypothesis of the theorems.

`IInv` adds to the property what makes it last: a field has no element twice and shares none
with another field or the user, elements that are left beyond the size are cleared, and
objects have names from a bounded set of numbers, so that a new one is new.  The memory has to
be in order between the calls of a method, too: a swap between arenas merges into a
temporary on the other field's arena, copies, exchanges and destroys.  So `Owned` has the
arenas of the fields as a parameter, and the swap uses it with the temporary where that is;
`IInv` is `Owned` between the actions, when the temporary is empty again.

Each method has a lemma (`Makes`): it keeps `Owned`, the list of its field becomes this, and no
other list changes.  Methods that only exchange the elements of a field, or take some out,
rest on `FieldTo` and `FieldBecomes`, which say what a field must satisfy for the rest of the memory to
stay in order; giving an object to a field with cleared elements rests on `Placed`, for which of
the two objects stays where.  Renaming at the end of an action changes names and nothing
else (`FoundIs`, `RenamedIs`).  Invariant and refinement then follow from the same lemmas,
one for each action.

### EpsCopyInputStream_proofs

| Theorem | Statement |
|---|---|
| `Invariant`, `TypeOKAlways` | `Spec => []IInv`, `Spec => []TypeOK` |
| `WindowIsStreamAlways` | what the parser sees in the window is the stream at the place where it is |
| `LimitsAreAbsoluteAlways` | limits stay at their places while buffers are exchanged |
| `AcceptedExactlyAlways` | an accepted parse consumed exactly its input |
| `StreamStandsAtParserAlways` | a cord is read from, and the stream is given back at, the parser's place |
| `BackUpsAreAllowedAlways` | BackUp follows a Next and returns no more than its buffer |

They hold for any slop, any length of the input in any chunks, any depth of nesting and any
threshold for cords, under `SlopOK`, `CordOK` (cords are not shorter than the patch buffer, as
parse_context.h has it), `KindsOK` and `IntMaxOK` (the input ends well before `INT_MAX`).

The code knows no positions: pointers are relative to a buffer, limits to its end.  `At` is the
position in the stream of the end of the current buffer, and each part of `IInv` is an
equation about it: `Places` for where the buffer and the one after it come from, `Patched`
for the bytes in the patch buffer, `LimitsMean` for `limit_` and the tokens that PushLimit
gave out, `Taken` for the overall limit and what the last `Next` returned, `ParserAt` and
`DoneAt` for what each place in the loop knows.

### DescriptorPool_proofs

| Theorem | Statement |
|---|---|
| `Invariant`, `TypesAlways` | `Spec => []IInv`, and the types of the variables |
| `NoDanglingPointersAlways` | nothing points to a file that was rolled back, not in a build either |
| `GivenIsCommittedAlways` | what callers have, or will be returned, is out of reach of every rollback |
| `CommittedStaysAlways` | no step takes out a file that was there when no checkpoint was left |
| `BuildsLeaveCompleteFilesAlways` | at rest the lists are clear, and every file is whole, has its imports and its names |
| `OffersAreFoundExactlyAlways` | a lookup finds only what the database lets it build and, where names are fully qualified, all of it |

They hold for any files, symbols, threads and databases, also those that find a file for a
symbol it does not define.  `DatabasesOK` asks for content of the right types, and that the package
of a file is none of its own types (the parser gives types longer names than their package).

A rollback restores tables that no variable holds any more.  So `IInv` says of every checkpoint
what the tables would be after a rollback to it (`Version`), and that each version is sound:
nothing in it points outside (`Points`), and a file in it that is not complete is being built
by a frame whose checkpoint is older, so that a rollback of that frame takes it away as well
(`SoundVersion`).  A build step changes only the last version; that is what most lemmas show.
That frames with a checkpoint and checkpoints correspond in order is an existential statement
(`Builds`), since frames that still load have none.

`OffersAreFoundExactlyAlways` has one more hypothesis, `IsFiniteSet(File)`, and speaks, as its
property does, of databases that are `Consistent` (one file for a type, nothing weak or
invalid, and what is found for a symbol is found by name).  Imports and names may lead in
circles and files may be broken.  `Buildable` is the last of the `Levels`: these grow and stop
after as many as there are files (`LevelsStop`), and a file imports from lower ones (`Below`).
`FoundInv` then has a half for each direction:

* only what is offered: the files that were added are ordered so that the imports of each come
  before it, except for those that an error will take out again (`OrderOK` in
  `FromDatabase`), so each committed file is buildable;
* all that is offered: no buildable file is among those known to fail (`KnownOK`), a frame of
  a buildable file has no error and waits for nothing but an import (`GoodFrames`), the
  pending files are those of the frames that load (`PendingAre`), so that no circle is seen
  where there is none, and each call still looks for what it was asked (`CallsGood`).

### LazyInit_proofs

| Theorem | Statement |
|---|---|
| `Invariant` | `Spec => []IInv` |
| `OneAnswerAlways` | equal questions get the same object, never a null pointer, complete when it is given |
| `FilesReadQuietlyAlways` | the factory's table of files, read without a lock, is not written meanwhile |
| `NeverDies` | no CHECK fails: nothing is registered twice, and what is looked for is found |

They hold for any threads, types and files, under `GraphOK` (the graph of files and fields has the
right types), `QuestionsOK`, `ValuesOK` (null, files, objects and states of a once flag are
different things) and `LazyOK`: the files that are registered late import only each other, as
descriptor.proto and cpp_features.proto do; the code would find a type unregistered otherwise.

A call takes for granted what its callers did, at other places of the stack, and what other
threads did under locks it does not hold.  `IInv` gives every place a meaning: what a call
was given (`CallOK`), what the one it waits for will return (`ResultOK`, `WaitsOK`), which lock it holds
or stands under (`LocksOK`), who is just adding a file, registering it or linking a type (`AddsOK`,
`RegistersOK`, `CreatesOK`, `LinksOK`).  Every step puts calls in front of the innermost one or ends
it, and all tables only grow (`Grows`); so one lemma moves the invariant for all other calls,
and each action has to show it for the calls that it starts or ends.

### Checked before they were proved

TLC found no violation of the invariants before they were proved: `IInv` of
`EpsCopyInputStream_proofs` on the instance of `EpsCopy.cfg` (2.9 million states), of
`DescriptorPool_proofs` on the databases of `MCDescriptorPool` (560,860 states), of `LazyInit_proofs`
on `LazyInit.cfg` (420,491), of `SerialArena_proofs` on the instance of `Memory.cfg` (`IInv`
210,161; `CleanupInv` 506,324, and 2,225,071 with chunks of other sizes), of
`RepeatedPtrField_proofs` on two fields of up to 2 elements (45,048).  `FoundInv` was checked
on the same states of `MCDescriptorPool` as `IInv`.

### Only model-checked

* Liveness, fairness and deadlock: out of the prover's reach.
* `CodedInputStream`, the streams and the wire output: their methods are recursive operators over
  streams inside of streams, about which the prover cannot reason.  This leaves the
  refinement of `ByteStream` and the five invariants of these modules to `wire_streams`.
* `DescriptorIndex`: what an index finds is a fold with an operator as its argument over names
  compared character by character, which would need induction over data.
* `ExtensionSet`: not yet proved.  `MCMemory` checks `EveryObjectHasOneOwner` of repeated fields
  and extension sets together; proved is the part of it that `RepeatedPtrField` states.

Elsewhere recursion is proved about where it appears as a recursive function (`TwoToThe`, `Levels`) or a fold
of the community modules (the sums of `SerialArenaSpace`, the joined chunks of `ArenaCleanup` and
`RepeatedPtrField`), by induction on sets of numbers (`SequenceFacts`): an induction theorem with an operator as its parameter cannot be used.

## 6. What is not modelled

* Map field: the hash table itself, entry messages, and arenas beyond "same or not".
* Thread-safe arena: allocation policies, sampling, the first block that the user
  gives; `Fuse` is not in this runtime.
* Serial arena: poisoning and prefetching, alignments over 8, sizes near 2^64.
* Repeated pointer fields: `UnsafeArena...` entry points, `Resize`, iterators and
  sorting, and allocators that give more than was asked.  Fields of scalars
  (`repeated_field.h`) have no module.
* Extension set: extensions that are strings, scalars or repeated, the registry, parsing
  and serialization, and lazily parsed extensions (which this build does not have).
* Wire input: aliasing of strings into the buffer, groups, growth of the sinks,
  the UTF-8 bytes that are carried over, and `AppendUntilEnd` in a stream without a
  limit.
* CodedInputStream: the values of varints and of fixed fields (only how many bytes
  they take, and that they may be cut off), the recursion budget, the extension
  registry.
* Zero-copy streams: buffers of size zero from a stream below, opening and closing of
  files, `zero_copy_sink.h`, gzip.
* Wire output: output to an array without a stream (`stream_ == nullptr`), strings of
  128 bytes and more with their own size arithmetic, deterministic maps, and what
  follows a first failure but for `had_error_`.
* Descriptor pool: extensions, options, public and option imports, underlays, lazy
  building of whole files, types nested in types, `AllowUnknownDependencies`,
  placeholders of types in weak fields, and what a builder checks inside one file
  (`broken` stands for all of it).  The database of the model does not have the option
  messages that deferred validation looks up.
* Descriptor databases: the lists of all packages and messages, all extension numbers,
  and `DescriptorPoolDatabase`, which holds no state.
* First use of generated code: oneofs and `SwapFields`, the layout of dynamic messages,
  implicit weak messages, the prototypes of map entries that the constructor of a dynamic
  message makes.  A build in `LazyInit` is one step that asks for no lazily linked type
  (descriptor.cc:6685 and 6711 skip what would): that a build never waits for the mutex
  it holds itself is read from the code, not checked.
* Generated code, code generators, text and JSON formats, the Unreal project and
  everything else that `PROJECT.json` lists as `not_modelled`, each with its reason: most
  of the lines of the repository are generated, are tests, or print text.

## 7. Plan

Modules, in this order:

1. The rest of the pool: extensions found by number and all at once, an underlay;
   an abstract `FilePool` (a set of committed files that only grows) that
   `DescriptorPool` implements; `DescriptorIndex` composed with the pool as its database.
2. The map hash table: growth, tables of one slot, the arena of moved nodes; growth of
   `RepeatedField` as operators on words of a few bits, against a reference.
3. Ownership: `ArenaStringPtr`, `MicroString`, the merge of unknown fields, strings in
   `ExtensionSet`.
4. Pure algorithms: varint and zigzag, time arithmetic, field masks, feature defaults.

Theorems: one owner for each object of `ExtensionSet`, and that it implements
`ExtensionValues`.
