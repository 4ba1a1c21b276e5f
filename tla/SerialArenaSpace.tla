--------------------------- MODULE SerialArenaSpace ---------------------------
(***************************************************************************)
(* The space accounting of a SerialArena: its owner allocates objects from *)
(* blocks and strings from string blocks, while another thread may call    *)
(* SpaceUsed, which reads the owner's atomics one after the other without  *)
(* a lock.  The owner is split at every store to an atomic that SpaceUsed  *)
(* loads, SpaceUsed at every load.  Counters are unsigned words and wrap.  *)
(***************************************************************************)
EXTENDS Naturals, Sequences, Functions

CONSTANTS
  ObjectSizes,       \* sizes of the objects the owner allocates
  kBlockHeaderSize, StartBlockSize, MaxBlockSize,
  StringHeaderSize, StringSize, MinStringBlock, MaxStringBlock,
  Word,              \* counters are kept modulo Word
  MaxUsed            \* bound on the bytes the owner is given

ASSUME SpaceSizesOK ==
  /\ ObjectSizes \subseteq Nat \ {0}
  /\ {kBlockHeaderSize, StringHeaderSize} \subseteq Nat
  /\ {StartBlockSize, MaxBlockSize, StringSize} \subseteq Nat \ {0}
  /\ MinStringBlock \in Nat /\ MinStringBlock >= StringHeaderSize + StringSize
  /\ MaxStringBlock \in Nat /\ MaxStringBlock >= MinStringBlock
  /\ Word \in Nat \ {0} /\ MaxUsed \in Nat
  /\ MaxUsed < Word     \* size_t counts the bytes of one address space

VARIABLES
  blocks,          \* sizes of the blocks, in the order of allocation
  head,            \* head_: the current block, 0 for the sentry
  at,              \* ptr_, as a block and an offset in it
  spaceUsed,       \* space_used_
  spaceAllocated,  \* space_allocated_
  strings,         \* the string blocks, in the order of allocation
  stringBlock,     \* string_block_, 0 when null
  unused,          \* string_block_unused_
  used,            \* history: the bytes the owner has been given
  opc, want,       \* where the owner is, and what it is allocating
  rpc, sb, h, sum, \* where the reader is, what it loaded and its sum
  usedBefore,      \* history: used when the reader began
  switched         \* history: the owner was exchanging a block since then

mem == <<blocks, head, at, spaceUsed, spaceAllocated, strings, stringBlock, unused>>
owner == <<opc, want>>
reader == <<rpc, sb, h, sum, usedBefore>>
spaceVars == <<blocks, head, at, spaceUsed, spaceAllocated, strings, stringBlock,
          unused, used, opc, want, rpc, sb, h, sum, usedBefore, switched>>

Plus(a, b) == (a + b) % Word
Minus(a, b) == (a + Word - (b % Word)) % Word
Larger(a, b) == IF a < b THEN b ELSE a
Smaller(a, b) == IF a < b THEN a ELSE b

\* AllocateBlock: twice the last size up to a limit, and enough for n bytes.
BlockSize(last, n) ==
  Larger(IF last = 0 THEN StartBlockSize ELSE Smaller(2 * last, MaxBlockSize),
         kBlockHeaderSize + n)

SizeOf(b) == IF b = 0 THEN 0 ELSE blocks[b]
Fits(n) == head # 0 /\ at.offset + n <= blocks[head]

\* StringBlock::NextSize, Emplace and New: the first two blocks are small.
NextSize(s) == IF s = 0 THEN MinStringBlock ELSE strings[s].next
RoundedSize(n) == n - ((n - StringHeaderSize) % StringSize)
effective_size(s) == strings[s].size - StringHeaderSize
NewString(heap) ==
  LET n == NextSize(stringBlock) IN
  [size |-> RoundedSize(n), heap |-> heap,
   next |-> IF stringBlock = 0 THEN MinStringBlock ELSE Smaller(2 * n, MaxStringBlock)]

TypeOK ==
  /\ blocks \in Seq(Nat) /\ head \in 0..Len(blocks)
  /\ at \in [block : 0..Len(blocks), offset : Nat]
  /\ spaceUsed \in 0..Word - 1 /\ spaceAllocated \in 0..Word - 1
  /\ strings \in Seq([size : Nat, heap : BOOLEAN, next : Nat])
  /\ stringBlock \in 0..Len(strings)
  /\ unused \in Nat /\ used \in Nat
  /\ opc \in {"idle", "allocated", "range", "head", "bump", "fallback",
              "correct", "string", "unused"}
  /\ want \in Nat
  /\ rpc \in {"idle", "block", "unused", "head", "ptr", "total", "done"}
  /\ sb \in 0..Len(strings) /\ h \in 0..Len(blocks) /\ sum \in 0..Word - 1
  /\ usedBefore \in Nat /\ switched \in BOOLEAN
  \* allocations never run past the end of the block or string block
  /\ head # 0 /\ at.block = head => at.offset \in kBlockHeaderSize..blocks[head]
  /\ stringBlock # 0 /\ opc # "unused" => unused <= effective_size(stringBlock)

SpaceInit ==
  /\ blocks = <<>> /\ head = 0 /\ at = [block |-> 0, offset |-> 0]
  /\ spaceUsed = 0 /\ spaceAllocated = 0
  /\ strings = <<>> /\ stringBlock = 0 /\ unused = 0
  /\ used = 0
  /\ opc = "idle" /\ want = 0
  /\ rpc = "idle" /\ sb = 0 /\ h = 0 /\ sum = 0
  /\ usedBefore = 0 /\ switched = FALSE

-------------------------------------------------------------------------------
(* The owner. *)

Bumped(n) == [at EXCEPT !.offset = @ + n]

\* MaybeAllocateAligned in the current block.
AllocateAligned(n) ==
  /\ opc = "idle" /\ used + n <= MaxUsed
  /\ Fits(n)
  /\ at' = Bumped(n) /\ used' = used + n
  /\ UNCHANGED <<blocks, head, spaceUsed, spaceAllocated, strings, stringBlock,
                 unused, owner, reader, switched>>

\* AllocateNewBlock retires the current block ...
RetireBlock(n) ==
  /\ opc = "idle" /\ used + n <= MaxUsed
  /\ ~Fits(n)
  /\ spaceUsed' = IF head = 0 THEN spaceUsed
                  ELSE Plus(spaceUsed, at.offset - kBlockHeaderSize)
  /\ want' = n /\ switched' = TRUE /\ opc' = "allocated"
  /\ UNCHANGED <<blocks, head, at, spaceAllocated, strings, stringBlock, unused,
                 used, reader>>

\* ... allocates the next one ...
AddSpaceAllocated ==
  LET n == BlockSize(SizeOf(head), want) IN
  /\ opc = "allocated"
  /\ blocks' = Append(blocks, n)
  /\ spaceAllocated' = Plus(spaceAllocated, n)
  /\ opc' = "range"
  /\ UNCHANGED <<head, at, spaceUsed, strings, stringBlock, unused, used, want,
                 reader, switched>>

\* ... and installs it, ptr_ first and head_ last.
SetRange ==
  /\ opc = "range"
  /\ at' = [block |-> Len(blocks), offset |-> kBlockHeaderSize]
  /\ opc' = "head"
  /\ UNCHANGED <<blocks, head, spaceUsed, spaceAllocated, strings, stringBlock,
                 unused, used, want, reader, switched>>

StoreHead ==
  /\ opc = "head"
  /\ head' = Len(blocks)
  /\ opc' = "bump"
  /\ UNCHANGED <<blocks, at, spaceUsed, spaceAllocated, strings, stringBlock,
                 unused, used, want, reader, switched>>

AllocateFromNewBlock ==
  /\ opc = "bump"
  /\ at' = Bumped(want) /\ used' = used + want
  /\ want' = 0 /\ opc' = "idle"
  /\ UNCHANGED <<blocks, head, spaceUsed, spaceAllocated, strings, stringBlock,
                 unused, reader, switched>>

\* MaybeAllocateString: from the end of the string block to its beginning.
MaybeAllocateString ==
  /\ opc = "idle" /\ used + StringSize <= MaxUsed
  /\ unused # 0
  /\ unused' = unused - StringSize /\ used' = used + StringSize
  /\ UNCHANGED <<blocks, head, at, spaceUsed, spaceAllocated, strings,
                 stringBlock, owner, reader, switched>>

\* AllocateFromStringBlockFallback: the exhausted string block is accounted
\* for ...
RetiredBytesOfPrevious == IF stringBlock = 0 THEN 0 ELSE strings[stringBlock].size
RetiredBytes == IF stringBlock = 0 THEN 0 ELSE effective_size(stringBlock)
RetireStringBlock ==
  /\ opc = "idle" /\ used + StringSize <= MaxUsed
  /\ unused = 0
  /\ spaceUsed' = Plus(spaceUsed, RetiredBytes)
  /\ switched' = TRUE /\ opc' = "fallback"
  /\ UNCHANGED <<blocks, head, at, spaceAllocated, strings, stringBlock, unused,
                 used, want, reader>>

\* ... and the next one is emplaced in the current block if it fits, or else
\* allocated on the heap.
HeapBytes(n) == RoundedSize(n)
PlaceStringBlock ==
  LET n == NextSize(stringBlock) IN
  /\ opc = "fallback"
  /\ strings' = Append(strings, NewString(~Fits(n)))
  /\ \/ /\ Fits(n)
        /\ at' = Bumped(n)
        /\ opc' = "correct"
        /\ UNCHANGED spaceAllocated
     \/ /\ ~Fits(n)
        /\ spaceAllocated' = Plus(spaceAllocated, HeapBytes(n))
        /\ opc' = "string"
        /\ UNCHANGED at
  /\ UNCHANGED <<blocks, head, spaceUsed, stringBlock, unused, used, want, reader,
                 switched>>

\* "Correct space_used_ to avoid double counting."
CorrectSpaceUsed ==
  /\ opc = "correct"
  /\ spaceUsed' = Minus(spaceUsed, NextSize(stringBlock))
  /\ opc' = "string"
  /\ UNCHANGED <<blocks, head, at, spaceAllocated, strings, stringBlock, unused,
                 used, want, reader, switched>>

StoreStringBlock ==
  /\ opc = "string"
  /\ stringBlock' = Len(strings)
  /\ opc' = "unused"
  /\ UNCHANGED <<blocks, head, at, spaceUsed, spaceAllocated, strings, unused,
                 used, want, reader, switched>>

UnusedOf(s) == effective_size(s) - StringSize
StoreUnused ==
  /\ opc = "unused"
  /\ unused' = UnusedOf(stringBlock)
  /\ used' = used + StringSize
  /\ opc' = "idle"
  /\ UNCHANGED <<blocks, head, at, spaceUsed, spaceAllocated, strings,
                 stringBlock, want, reader, switched>>

-------------------------------------------------------------------------------
(* The reader: SerialArena::SpaceUsed. *)

BeginSpaceUsed ==
  /\ rpc = "idle"
  /\ rpc' = "block" /\ usedBefore' = used /\ switched' = (opc # "idle")
  /\ sum' = 0
  /\ UNCHANGED <<mem, used, owner, sb, h>>

LoadStringBlock ==
  /\ rpc = "block"
  /\ sb' = stringBlock
  /\ rpc' = IF stringBlock = 0 THEN "head" ELSE "unused"
  /\ UNCHANGED <<mem, used, owner, h, sum, usedBefore, switched>>

LoadUnused ==
  /\ rpc = "unused"
  /\ sum' = Minus(effective_size(sb), unused)
  /\ rpc' = "head"
  /\ UNCHANGED <<mem, used, owner, sb, h, usedBefore, switched>>

\* Bytes from the start of block b to ptr_, but at most the size of b: a ptr_
\* in another block is farther away or, as an unsigned difference, wraps.
UsedWithHeader(b) ==
  IF at.block = b THEN Smaller(at.offset, blocks[b]) ELSE blocks[b]
UsedIn(b) ==
  IF at.block = b THEN Smaller(at.offset - kBlockHeaderSize, blocks[b]) ELSE blocks[b]

\* Without a block the total of the retired string blocks is not added.
LoadHead ==
  /\ rpc = "head"
  /\ h' = head
  /\ rpc' = IF head = 0 THEN "done" ELSE "ptr"
  /\ UNCHANGED <<mem, used, owner, sb, sum, usedBefore, switched>>

LoadPtr ==
  /\ rpc = "ptr"
  /\ sum' = Plus(sum, UsedIn(h))
  /\ rpc' = "total"
  /\ UNCHANGED <<mem, used, owner, sb, h, usedBefore, switched>>

LoadSpaceUsed ==
  /\ rpc = "total"
  /\ sum' = Plus(sum, spaceUsed)
  /\ rpc' = "done"
  /\ UNCHANGED <<mem, used, owner, sb, h, usedBefore, switched>>

Return ==
  /\ rpc = "done"
  /\ rpc' = "idle" /\ sb' = 0 /\ h' = 0 /\ sum' = 0
  /\ usedBefore' = 0 /\ switched' = FALSE
  /\ UNCHANGED <<mem, used, owner>>

Owner ==
  \/ \E n \in ObjectSizes : AllocateAligned(n) \/ RetireBlock(n)
  \/ AddSpaceAllocated \/ SetRange \/ StoreHead \/ AllocateFromNewBlock
  \/ MaybeAllocateString \/ RetireStringBlock \/ PlaceStringBlock
  \/ CorrectSpaceUsed \/ StoreStringBlock \/ StoreUnused

Reader ==
  \/ BeginSpaceUsed \/ LoadStringBlock \/ LoadUnused \/ LoadHead \/ LoadPtr
  \/ LoadSpaceUsed \/ Return

SpaceNext == Owner \/ Reader

SpaceSpec == SpaceInit /\ [][SpaceNext]_spaceVars

-------------------------------------------------------------------------------
(* Properties. *)

\* What SpaceUsed returns when the owner does nothing meanwhile.
Reported ==
  LET inStrings == IF stringBlock = 0 THEN 0
                   ELSE Minus(effective_size(stringBlock), unused)
  IN IF head = 0 THEN inStrings
     ELSE Plus(Plus(inStrings, UsedIn(head)), spaceUsed)

\* Between two allocations, an arena that has a block accounts for exactly the
\* bytes it gave out, over any sequence of retired blocks, retired string
\* blocks and string blocks placed in blocks: nothing is counted twice or
\* forgotten.  And blocks and string blocks on the heap add up to
\* space_allocated_.
CountersAreExact ==
  opc = "idle" =>
    LET onHeap == [i \in DOMAIN strings |->
                     IF strings[i].heap THEN strings[i].size ELSE 0]
    IN /\ head # 0 => Reported = used
       /\ spaceAllocated = Plus(FoldFunction(Plus, 0, blocks),
                                FoldFunction(Plus, 0, onHeap))

\* arena.h:456: SpaceUsed "returns the total space used by the arena".
SpaceUsedIsTotal == opc = "idle" => Reported = used

\* A SpaceUsed during which no block or string block was exchanged returns a
\* number between what was used when it began and what is used when it ends.
SteadyReadIsBracketed ==
  rpc = "done" /\ ~switched /\ h # 0 => usedBefore <= sum /\ sum <= used

\* arena.h:460: the inaccuracies of a concurrent SpaceUsed are overestimates
\* "up to the current block size".
OverestimateIsBounded ==
  LET sizes == {blocks[i] : i \in 1..Len(blocks)}
                 \cup {strings[i].size : i \in 1..Len(strings)}
  IN rpc = "done" /\ sum > used => \E n \in sizes : sum - used <= n
===============================================================================
