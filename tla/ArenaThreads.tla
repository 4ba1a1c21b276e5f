---------------------------- MODULE ArenaThreads ----------------------------
(***************************************************************************)
(* What an arena shared by threads promises: between its creation (or      *)
(* Reset) and its destruction (or Reset) a thread is always given the same *)
(* allocation region of the arena, and no other thread is given that one.  *)
(* Nothing here knows of lifecycle ids, thread caches or chunk lists.      *)
(***************************************************************************)
CONSTANTS Thread, Arena, Region, Nowhere

VARIABLES
  open,   \* the arenas that exist
  grant,  \* the region of each arena that belongs to each thread
  got     \* the region each thread is working in

vars == <<open, grant, got>>

Granted == {grant[b][u] : b \in Arena, u \in Thread}

Init ==
  /\ open = {}
  /\ grant = [a \in Arena |-> [t \in Thread |-> Nowhere]]
  /\ got = [t \in Thread |-> Nowhere]

\* A new or reset arena keeps nothing of its past; the region r inside it
\* goes to the thread that created or reset it.
Open(t, a, r) ==
  /\ \A u \in Thread : got[u] # Nowhere => got[u] # grant[a][u]
  /\ open' = open \cup {a}
  /\ grant' = [grant EXCEPT ![a] = [u \in Thread |-> IF u = t THEN r ELSE Nowhere]]
  /\ r \notin {grant[b][u] : b \in Arena \ {a}, u \in Thread}
  /\ UNCHANGED got

Close(a) ==
  /\ \A u \in Thread : got[u] # Nowhere => got[u] # grant[a][u]
  /\ open' = open \ {a}
  /\ grant' = [grant EXCEPT ![a] = [u \in Thread |-> Nowhere]]
  /\ UNCHANGED got

\* A thread that has no region of the arena yet gets one nobody has.
Allot(t, a, r) ==
  /\ a \in open
  /\ grant[a][t] = Nowhere /\ r \notin Granted
  /\ grant' = [grant EXCEPT ![a][t] = r]
  /\ UNCHANGED <<open, got>>

Enter(t, a) ==
  /\ a \in open
  /\ grant[a][t] # Nowhere /\ got[t] = Nowhere
  /\ got' = [got EXCEPT ![t] = grant[a][t]]
  /\ UNCHANGED <<open, grant>>

Leave(t) ==
  /\ got' = [got EXCEPT ![t] = Nowhere]
  /\ UNCHANGED <<open, grant>>

Next ==
  \/ \E t \in Thread, a \in Arena, r \in Region \ {Nowhere} :
       Open(t, a, r) \/ Allot(t, a, r)
  \/ \E t \in Thread, a \in Arena : Enter(t, a)
  \/ \E a \in Arena : Close(a)
  \/ \E t \in Thread : Leave(t)

Spec == Init /\ [][Next]_vars
==============================================================================
