---------------------------- MODULE RepeatedLists ----------------------------
(***************************************************************************)
(* What RepeatedPtrField promises of its elements: each field is a list,    *)
(* whatever arenas the fields live on, and an element that is taken out is  *)
(* the one that was in.                                                     *)
(***************************************************************************)
EXTENDS Integers, Sequences

CONSTANTS Field, Value, Empty

VARIABLES
  lists,    \* what each field holds
  answer    \* what was taken out by the last call

vars == <<lists, answer>>

Init == lists = [f \in Field |-> <<>>] /\ answer = <<>>

Becomes(f, list) == lists' = [lists EXCEPT ![f] = list] /\ answer' = <<>>
Range(list, start, num) == SubSeq(list, start + 1, start + num)
Without(list, start, num) == SubSeq(list, 1, start) \o SubSeq(list, start + num + 1, Len(list))

Add(f) == \E v \in Value \cup {Empty} : Becomes(f, Append(lists[f], v))
Remove(f) == \E start \in 0..Len(lists[f]) : \E num \in 0..(Len(lists[f]) - start) :
               /\ lists' = [lists EXCEPT ![f] = Without(@, start, num)]
               /\ answer' \in {<<>>, Range(lists[f], start, num)}
Merge(f, g) == f # g /\ Becomes(f, lists[f] \o lists[g])
Copy(f, g) == Becomes(f, lists[g])
\* A field that was moved from holds what it likes: the other's elements or its own.
Swap(f, g) == lists' = [lists EXCEPT ![f] = lists[g], ![g] = lists[f]] /\ answer' = <<>>
SwapElements(f) == \E i, j \in DOMAIN lists[f] :
  Becomes(f, [lists[f] EXCEPT ![i] = lists[f][j], ![j] = lists[f][i]])

Forget == answer' = <<>> /\ UNCHANGED lists

Next == \/ \E f \in Field : Add(f) \/ Remove(f) \/ SwapElements(f)
        \/ \E f, g \in Field : Merge(f, g) \/ Copy(f, g) \/ Swap(f, g)
        \/ Forget

Spec == Init /\ [][Next]_vars
===============================================================================
