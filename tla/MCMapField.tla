------------------------------ MODULE MCMapField ------------------------------
(* Instances of MapField for TLC. *)
EXTENDS MapField, TLC
CONSTANTS f1, f2, f3, t1, t2, k1, k2, v1, v2, p1, p2, p3, heap, arena

OnHeap == [f \in Field |-> heap]
\* f1 and f2 are swapped through their pointers, f3 with either through its data.
TwoTogether == [f \in Field |-> IF f = f3 THEN arena ELSE heap]

Symmetry == Permutations(Thread) \cup Permutations(PayloadId)
              \cup Permutations(Key) \cup Permutations(Value)
              \cup Permutations(Field \ {f3})
===============================================================================
