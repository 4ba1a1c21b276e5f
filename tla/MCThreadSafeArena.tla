-------------------------- MODULE MCThreadSafeArena --------------------------
\* Constants for model checking ThreadSafeArena.
EXTENDS ThreadSafeArena, TLC

\* Heap addresses, arenas, and threads of the same role are interchangeable.
Roles == {Managers \cap Walkers, Managers \ Walkers, Walkers \ Managers,
          Thread \ (Managers \cup Walkers)}
Symmetric ==
  UNION {Permutations(S) : S \in Roles \cup {Serial, Arena}}

-------------------------------------------------------------------------------
(* A behaviour plays in one of several scenes, which have bounds of their own  *)
(* within those of the constants: the threads and arenas that take part, who   *)
(* gives out lifecycle ids and how many batches of them, and who walks.        *)
CONSTANTS t1, t2, t3, a, b, Scenes
VARIABLE scene

Everyone == [threads |-> Thread, arenas |-> Arena, managers |-> Managers,
             walkers |-> Walkers, batches |-> MaxBatches]
\* Two threads reuse two arenas.
Reuse == [Everyone EXCEPT !.threads = {t1, t2}, !.managers = {t1, t2}, !.walkers = {}]
\* While one thread has the mutex of an arena another waits for it, and the
\* arena's first owner walks the list meanwhile.
Contention == [Everyone EXCEPT !.arenas = {a}, !.managers = {t1}, !.walkers = {t1},
                               !.batches = 1]
WithEveryone == {Everyone}
ReuseOrContention == {Reuse, Contention}

InScene ==
  /\ \A t \in Thread \ scene.threads : UNCHANGED <<pc[t], nextId[t], seenId[t]>>
  /\ \A t \in Thread \ scene.managers : UNCHANGED nextId[t]
  /\ \A t \in Thread \ scene.walkers : pc'[t] # "walk"
  /\ \A c \in Arena \ scene.arenas : UNCHANGED tag[c]
  /\ lifecycleId' <= scene.batches

SceneInit == Init /\ scene \in Scenes
SceneNext == Next /\ InScene /\ UNCHANGED scene
SceneSpec == SceneInit /\ [][SceneNext]_<<vars, scene>>
FairSceneSpec == SceneSpec /\ Fairness
==============================================================================
