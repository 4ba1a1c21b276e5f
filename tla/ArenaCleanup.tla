----------------------------- MODULE ArenaCleanup -----------------------------
(***************************************************************************)
(* What an arena destroys.  Threads register objects with a destructor in  *)
(* the cleanup list of their SerialArena and take strings from its string  *)
(* blocks; Reset or the destructor of the arena then runs every destructor *)
(* before it frees any memory.  SerialArena 1 is the first arena, the      *)
(* others hang on the chunks that ThreadSafeArena walks from the newest to *)
(* the oldest.                                                             *)
(***************************************************************************)
EXTENDS Naturals, Sequences, SequencesExt, FiniteSets

CONSTANTS
  ChunkSerials,    \* SerialArenas a chunk of the arena holds
  FirstNodes,      \* cleanup nodes of the first chunk of a cleanup list
  MaxNodes,        \* and at most, as chunks double
  StringsPerBlock, \* strings a string block holds
  MaxSerials, MaxObjects, MaxStrings   \* bounds

ASSUME CleanupBoundsOK ==
  /\ {ChunkSerials, FirstNodes, MaxNodes, StringsPerBlock} \subseteq Nat \ {0}
  /\ {MaxSerials, MaxObjects, MaxStrings} \subseteq Nat

VARIABLES
  chunks,        \* the chunks of SerialArenas, newest first
  lists,         \* the cleanup list of each SerialArena: chunks, newest first
  sblocks,       \* its string blocks, newest first, as sequences of strings
  unusedStrings, \* its string_block_unused_, in strings
  constructed,   \* history: the objects and strings alive, numbered as created
  freed,         \* the SerialArenas whose blocks are freed
  phase,         \* "using", or "cleanup", then "free" while it is destroyed
  walk           \* the SerialArenas the current pass has yet to visit, in order

cleanupVars == <<chunks, lists, sblocks, unusedStrings, constructed, freed, phase, walk>>

Serials == DOMAIN lists

CleanupInit ==
  /\ chunks = <<>> /\ lists = <<<<>>>> /\ sblocks = <<<<>>>> /\ unusedStrings = <<0>>
  /\ constructed = {} /\ freed = {}
  /\ phase = "using" /\ walk = <<>>

Object(s, n) == [kind |-> "object", serial |-> s, n |-> n]
String(s, n) == [kind |-> "string", serial |-> s, n |-> n]
Objects == {x \in constructed : x.kind = "object"}
Strings == {x \in constructed : x.kind = "string"}

-------------------------------------------------------------------------------
(* Use of the arena, each thread on its own SerialArena. *)

\* A chunk of SerialArenas is replaced by a new one when it is full.
NewSerialArena ==
  LET s == Len(lists) + 1 IN
  /\ phase = "using" /\ s <= MaxSerials
  /\ chunks' = IF chunks # <<>> /\ Len(Head(chunks)) < ChunkSerials
               THEN [chunks EXCEPT ![1] = Append(@, s)]
               ELSE <<<<s>>>> \o chunks
  /\ lists' = Append(lists, <<>>) /\ sblocks' = Append(sblocks, <<>>)
  /\ unusedStrings' = Append(unusedStrings, 0)
  /\ UNCHANGED <<constructed, freed, phase, walk>>

\* ChunkList::Add and AddFallback: chunks double in size.
Doubled(n) == IF 2 * n < MaxNodes THEN 2 * n ELSE MaxNodes
Added(list, x) ==
  IF list # <<>> /\ Len(Head(list).nodes) < Head(list).size
  THEN [list EXCEPT ![1].nodes = Append(@, x)]
  ELSE <<[size |-> IF list = <<>> THEN FirstNodes ELSE Doubled(Head(list).size),
          nodes |-> <<x>>]>> \o list

AddCleanup(s) ==
  LET x == Object(s, Cardinality(constructed) + 1) IN
  /\ phase = "using" /\ Cardinality(Objects) < MaxObjects
  /\ lists' = [lists EXCEPT ![s] = Added(@, x)]
  /\ constructed' = constructed \cup {x}
  /\ UNCHANGED <<chunks, sblocks, unusedStrings, freed, phase, walk>>

\* AllocateFromStringBlock: strings are taken from the end of a block; places
\* not yet taken hold no string.
NoString == [kind |-> "none"]
NewBlock == [i \in 1..StringsPerBlock |-> NoString]
AllocateString(s) ==
  LET x == String(s, Cardinality(constructed) + 1)
      blocks == IF unusedStrings[s] = 0 THEN <<NewBlock>> \o sblocks[s] ELSE sblocks[s]
      place == IF unusedStrings[s] = 0 THEN StringsPerBlock ELSE unusedStrings[s]
  IN
  /\ phase = "using" /\ Cardinality(Strings) < MaxStrings
  /\ sblocks' = [sblocks EXCEPT ![s] = [blocks EXCEPT ![1][place] = x]]
  /\ unusedStrings' = [unusedStrings EXCEPT ![s] = place - 1]
  /\ constructed' = constructed \cup {x}
  /\ UNCHANGED <<chunks, lists, freed, phase, walk>>

-------------------------------------------------------------------------------
(* Reset and ~ThreadSafeArena. *)

\* Both passes walk the chunks from the newest, each from its end, and take
\* the first SerialArena last.
InOrderOfCreation == <<1>> \o FlattenSeq(Reverse(chunks))
NewestFirst == FlattenSeq([i \in DOMAIN chunks |-> Reverse(chunks[i])]) \o <<1>>
Walk == NewestFirst

StartDestruction ==
  /\ phase = "using"
  /\ phase' = "cleanup" /\ walk' = Walk
  /\ UNCHANGED <<chunks, lists, sblocks, unusedStrings, constructed, freed>>

\* ChunkList::Cleanup: the last node of the newest chunk; a chunk is freed
\* after its first node.
LastNode(c) == [node |-> Last(c.nodes), rest |-> [c EXCEPT !.nodes = Front(@)]]
CleanupNode ==
  /\ phase = "cleanup" /\ walk # <<>>
  /\ lists[Head(walk)] # <<>>
  /\ LET s == Head(walk)
         next == LastNode(Head(lists[s]))
     IN
     /\ lists' = [lists EXCEPT ![s] =
          IF next.rest.nodes = <<>> THEN Tail(@) ELSE <<next.rest>> \o Tail(@)]
     /\ constructed' = constructed \ {next.node}
  /\ UNCHANGED <<chunks, sblocks, unusedStrings, freed, phase, walk>>

CleanupListDone ==
  /\ phase = "cleanup" /\ walk # <<>>
  /\ lists[Head(walk)] = <<>>
  /\ walk' = Tail(walk)
  /\ UNCHANGED <<chunks, lists, sblocks, unusedStrings, constructed, freed, phase>>

\* "Have to do this in a first pass, because some of the destructors might
\* refer to memory in other blocks."
StartFree ==
  /\ phase = "cleanup" /\ walk = <<>>
  /\ phase' = "free" /\ walk' = Walk
  /\ UNCHANGED <<chunks, lists, sblocks, unusedStrings, constructed, freed>>

\* SerialArena::Free: the strings of the active block from the last one
\* allocated, all strings of the others, then the blocks.
HandedOut(s) ==
  UNION {{sblocks[s][i][j] : j \in (IF i = 1 THEN unusedStrings[s] + 1 ELSE 1)..StringsPerBlock} :
           i \in DOMAIN sblocks[s]}
HandedOutOfFullBlocks(s) ==
  UNION {ToSet(sblocks[s][i]) : i \in DOMAIN sblocks[s] \ {1}}
FreeStringBlocks(s) == HandedOut(s)
Free ==
  LET s == Head(walk) IN
  /\ phase = "free" /\ walk # <<>>
  /\ constructed' = constructed \ FreeStringBlocks(s)
  /\ sblocks' = [sblocks EXCEPT ![s] = <<>>] /\ unusedStrings' = [unusedStrings EXCEPT ![s] = 0]
  /\ freed' = freed \cup {s}
  /\ walk' = Tail(walk)
  /\ UNCHANGED <<chunks, lists, phase>>

\* Reset initialises the first SerialArena again; the others are gone.
ResetArena ==
  /\ phase = "free" /\ walk = <<>>
  /\ chunks' = <<>> /\ lists' = <<<<>>>> /\ sblocks' = <<<<>>>> /\ unusedStrings' = <<0>>
  /\ freed' = {} /\ phase' = "using"
  /\ UNCHANGED <<constructed, walk>>

CleanupNext ==
  \/ NewSerialArena
  \/ \E s \in Serials : AddCleanup(s) \/ AllocateString(s)
  \/ StartDestruction \/ CleanupNode \/ CleanupListDone
  \/ StartFree \/ Free \/ ResetArena

CleanupSpec == CleanupInit /\ [][CleanupNext]_cleanupVars

-------------------------------------------------------------------------------
(* Properties. *)

\* A destructor runs while the memory of every SerialArena is still there, and
\* the string it may refer to is still alive: no string is destroyed before
\* the last destructor has run.
DestructorsSeeLiveMemory ==
  [][Objects' # Objects /\ phase # "using" => freed' = {} /\ Strings' = Strings]_cleanupVars

\* Objects are destroyed in the reverse order of their registration in their
\* SerialArena, and the SerialArenas from the newest to the oldest, the first
\* one last.
DestroyedInReverse ==
  [][\A x \in Objects \ Objects' :
       \A y \in Objects' :
         \/ y.serial < x.serial
         \/ y.serial = x.serial /\ y.n < x.n]_cleanupVars

DestroyedInOrder == DestructorsSeeLiveMemory /\ DestroyedInReverse

\* What is destroyed is what was constructed: when memory is freed no object is
\* alive any more; then every string handed out is destroyed, a place of a
\* string block that was never handed out is not, and nothing is left at the end.
ConstructedIsDestroyed ==
  phase = "free" =>
    /\ Objects = {}
    /\ \A s \in Serials : FreeStringBlocks(s) = {x \in Strings : x.serial = s}
    /\ walk = <<>> => constructed = {}
===============================================================================
