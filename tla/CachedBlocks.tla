----------------------------- MODULE CachedBlocks -----------------------------
(***************************************************************************)
(* The recycling of array memory in a SerialArena.  A repeated field, map  *)
(* or extension set that grows on an arena returns its previous array; the *)
(* arena keeps it in a free list chosen by its size, and the array of free *)
(* lists itself lives in returned memory.  Memory is a numbered region; a  *)
(* region's size never changes, what it is used for does.                  *)
(***************************************************************************)
EXTENDS Naturals, Sequences, SequencesExt, Functions

CONSTANTS
  Sizes,          \* array sizes asked for, in bytes, at least 16
  PointerSize,    \* sizeof(CachedBlock*), no more than the smallest array
  MaxRegions      \* bound on the regions the arena allocates

ASSUME SizesOK == Sizes \subseteq Nat /\ \A n \in Sizes : n >= 16
ASSUME BoundsOK == PointerSize \in 1..16 /\ MaxRegions \in Nat

VARIABLES
  size,           \* the bytes of each region, in order of allocation
  live,           \* the arrays in use: a region |-> the bytes asked for
  cached_blocks,  \* the free lists, each a sequence of regions
  list_memory     \* the region the free lists live in, 0 when null

vars == <<size, live, cached_blocks, list_memory>>

Region == DOMAIN size
InUse == DOMAIN live
MaxLength == 64

Init ==
  /\ size = <<>> /\ live = <<>>
  /\ cached_blocks = <<>> /\ list_memory = 0

TwoToThe[n \in Nat] == IF n = 0 THEN 1 ELSE 2 * TwoToThe[n - 1]
bit_width(n) ==
  IF n = 0 THEN 0
  ELSE CHOOSE w \in 1..n : TwoToThe[w - 1] <= n /\ n < TwoToThe[w]
AlignUp(n) == ((n + 7) \div 8) * 8

With(f, r, n) == [x \in DOMAIN f \cup {r} |-> IF x = r THEN n ELSE f[x]]

-------------------------------------------------------------------------------

\* TryAllocateFromCachedBlock rounds up, so that any region of the list fits;
\* lists are numbered from 1 here.
IndexRoundedDown(n) == bit_width(n) - 4
IndexToTake(n) == bit_width(n - 1) - 3
IsCached(n) ==
  /\ IndexToTake(n) <= Len(cached_blocks)
  /\ cached_blocks[IndexToTake(n)] # <<>>

WithoutHead(i) == [cached_blocks EXCEPT ![i] = Tail(@)]

TryAllocateFromCachedBlock(n) ==
  LET i == IndexToTake(AlignUp(n)) IN
  /\ IsCached(AlignUp(n))
  /\ live' = With(live, Head(cached_blocks[i]), n)
  /\ cached_blocks' = WithoutHead(i)
  /\ UNCHANGED <<size, list_memory>>

MaybeAllocateAligned(n) ==
  /\ ~IsCached(AlignUp(n))
  /\ Len(size) < MaxRegions
  /\ size' = Append(size, AlignUp(n))
  /\ live' = With(live, Len(size) + 1, n)
  /\ UNCHANGED <<cached_blocks, list_memory>>

\* ReturnArrayMemory rounds down ...
IndexToReturn(n) == bit_width(n) - 4

\* ... to the list the memory goes to, if there is one ...
ReturnToList(r) ==
  LET i == IndexToReturn(live[r]) IN
  /\ i <= Len(cached_blocks)
  /\ cached_blocks' = [cached_blocks EXCEPT ![i] = <<r>> \o @]
  /\ live' = Restrict(live, InUse \ {r})
  /\ UNCHANGED <<size, list_memory>>

\* ... and otherwise becomes the array of lists, longer than the one it
\* replaces.
Entries(n) == LET m == n \div PointerSize IN IF m < MaxLength THEN m ELSE MaxLength
ReplacesListsByEmptyOnes(r) == [i \in 1..Entries(live[r]) |-> <<>>]
ReplacesLists(r) ==
  [i \in 1..Entries(live[r]) |->
     IF i <= Len(cached_blocks) THEN cached_blocks[i] ELSE <<>>]
Relist(r) == ReplacesLists(r)
ReturnAsLists(r) ==
  /\ IndexToReturn(live[r]) > Len(cached_blocks)
  /\ cached_blocks' = Relist(r)
  /\ list_memory' = r
  /\ live' = Restrict(live, InUse \ {r})
  /\ UNCHANGED size

\* Reset frees every region; SerialArena::Init forgets the lists with them.
Reset ==
  /\ size # <<>>
  /\ size' = <<>> /\ live' = <<>>
  /\ cached_blocks' = <<>> /\ list_memory' = 0

Next ==
  \/ Reset
  \/ \E n \in Sizes : TryAllocateFromCachedBlock(n) \/ MaybeAllocateAligned(n)
  \/ \E r \in InUse : ReturnToList(r) \/ ReturnAsLists(r)

Spec == Init /\ [][Next]_vars

-------------------------------------------------------------------------------
(* Properties. *)

\* However arrays of other sizes were recycled before, an array fits into the
\* region it was given, and a cached region is no smaller than what
\* TryAllocateFromCachedBlock may serve from its list.  The lists fit into the
\* memory that holds them, and into the count of 64 they are capped at.
EverythingFits ==
  /\ \A r \in InUse : live[r] <= size[r]
  /\ \A i \in DOMAIN cached_blocks :
       \A r \in ToSet(cached_blocks[i]) : size[r] >= TwoToThe[i + 3]
  /\ Len(cached_blocks) <= MaxLength
  /\ list_memory # 0 => Len(cached_blocks) * PointerSize <= size[list_memory]

\* A region has one use: it is an array of the caller, or in one place of one
\* free list, or it holds the lists.
Places(r) ==
  {p \in (1..MaxLength) \X (1..MaxRegions) :
     p[1] \in DOMAIN cached_blocks /\ p[2] \in DOMAIN cached_blocks[p[1]]
     /\ cached_blocks[p[1]][p[2]] = r}
OneUse ==
  \A r \in Region :
    /\ \A p, q \in Places(r) : p = q
    /\ r \in InUse => Places(r) = {} /\ r # list_memory
    /\ r = list_memory => Places(r) = {}

\* Every array has memory of its own, and enough of it.
ArraysHaveTheirMemory == EverythingFits /\ OneUse

\* serial_arena.h:165: new memory for the lists "is larger than the one we
\* have", so replacing it cuts no list off: cached memory stays cached until it
\* is handed out again.
Cached == UNION {ToSet(cached_blocks[i]) : i \in DOMAIN cached_blocks}
CachedUntilReused == 
  [][size' # <<>> => \A r \in Cached : r \in Cached' \cup InUse']_vars
===============================================================================
