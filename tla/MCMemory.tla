------------------------------- MODULE MCMemory -------------------------------
(* The parts of a SerialArena, and the containers that live on arenas, next to each
   other: none touches the state of another, so that only one of them moves.  *)
EXTENDS CachedBlocks, SerialArenaSpace, ArenaCleanup

VARIABLES
  part,   \* the one that moves
  arena, m, answer, few, fewAnswer, many, manyAnswer

(* Two fields: both on the heap, one there, on one arena, on two. *)
Field == {"left", "right"}
Together(left, right) == [left |-> left, right |-> right]
Where == {Together("heap", "heap"), Together("heap", "a"), Together("a", "heap"),
          Together("a", "a"), Together("a", "b")}
Lists == INSTANCE RepeatedPtrField WITH
  Value <- {"x"}, Empty <- "empty", MaxSize <- 2, MaxUser <- 2

(* Two sets of extensions: of two numbers, whose arrays grow; of three, of which no
   more than two stay in an array, whose messages have no fields and stay inside. *)
Few == INSTANCE ExtensionSet WITH
  Sets <- Field, Number <- {1, 2}, Value <- {"x"}, Empty <- "empty", None <- "none",
  kMaximumFlatCapacity <- 4, MaxUser <- 1, s <- few, answer <- fewAnswer
Many == INSTANCE ExtensionSet WITH
  Sets <- Field, Number <- {1, 2, 3}, Value <- {}, Empty <- "empty", None <- "none",
  kMaximumFlatCapacity <- 2, MaxUser <- 0, s <- many, answer <- manyAnswer

listVars == <<arena, m, answer>>
fewVars == <<few, fewAnswer>>
manyVars == <<many, manyAnswer>>
allVars == <<part, vars, spaceVars, cleanupVars, listVars, fewVars, manyVars>>

MCInit ==
  /\ part \in {"space", "cached", "cleanup", "lists", "few extensions", "many extensions"}
  /\ Init /\ SpaceInit /\ CleanupInit /\ Lists!Init /\ Few!Init /\ Many!Init
  /\ part = "few extensions" => arena \in {Together("heap", "a"), Together("a", "b")}
  /\ part = "many extensions" => arena \in {Together("heap", "heap"), Together("heap", "a")}
  /\ part \in {"space", "cached", "cleanup"} => arena = Together("heap", "heap")

Still == UNCHANGED <<part, fewVars, manyVars>>
SpaceStep == part = "space" /\ SpaceNext /\ Still /\ UNCHANGED <<vars, cleanupVars, listVars>>
CachedStep == part = "cached" /\ Next /\ Still /\ UNCHANGED <<spaceVars, cleanupVars, listVars>>
CleanupStep == part = "cleanup" /\ CleanupNext /\ Still /\ UNCHANGED <<vars, spaceVars, listVars>>
ListsStep == part = "lists" /\ Lists!Next /\ Still /\ UNCHANGED <<vars, spaceVars, cleanupVars>>
FewStep == part = "few extensions" /\ Few!Next /\ UNCHANGED <<part, vars, spaceVars, cleanupVars, m, answer, manyVars>>
ManyStep == part = "many extensions" /\ Many!Next /\ UNCHANGED <<part, vars, spaceVars, cleanupVars, m, answer, fewVars>>

MCSpec == MCInit /\ [][SpaceStep \/ CachedStep \/ CleanupStep \/ ListsStep \/ FewStep \/ ManyStep]_allVars

EveryObjectHasOneOwner ==
  Lists!EveryObjectHasOneOwner /\ Few!EveryMessageHasOneOwner /\ Many!EveryMessageHasOneOwner
ImplementsContainers ==
  Lists!ImplementsLists /\ Few!ImplementsExtensions /\ Many!ImplementsExtensions
===============================================================================
