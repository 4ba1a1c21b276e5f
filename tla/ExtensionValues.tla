--------------------------- MODULE ExtensionValues ---------------------------
(***************************************************************************)
(* What an ExtensionSet promises: each set has at most one value of each   *)
(* number, whatever its memory looks like and wherever it is.              *)
(***************************************************************************)
EXTENDS Naturals

CONSTANTS Sets, Number, Value, Empty, None

VARIABLES
  values,   \* what each set has for each number
  answer    \* what the last call released

vars == <<values, answer>>

Init == values = [f \in Sets |-> [n \in Number |-> None]] /\ answer = None

\* What is unset changes nothing, and an empty message no field.
Merged(old, new) ==
  IF new = None \/ (new = Empty /\ old # None) THEN old ELSE new

Becomes(v) == values' = v /\ answer' = None
Has(f, n, v) == Becomes([values EXCEPT ![f][n] = v])

Set(f, n) == \E v \in Value \cup {Empty} : Has(f, n, v)
Unset(f, n) == Has(f, n, None)
UnsetAll(f) == Becomes([values EXCEPT ![f] = [n \in Number |-> None]])
\* What was unset may still be there to be released, empty.
Release(f, n) ==
  /\ values' = [values EXCEPT ![f][n] = None]
  /\ answer' \in IF values[f][n] = None THEN {None, Empty} ELSE {values[f][n]}
Merge(f, g) ==
  f # g /\ Becomes([values EXCEPT ![f] = [n \in Number |-> Merged(@[n], values[g][n])]])
Swap(f, g) == Becomes([values EXCEPT ![f] = values[g], ![g] = values[f]])
SwapOne(f, g, n) == Becomes([values EXCEPT ![f][n] = values[g][n], ![g][n] = values[f][n]])

Next ==
  \/ \E f \in Sets, n \in Number : Set(f, n) \/ Unset(f, n) \/ Release(f, n)
  \/ \E f \in Sets : UnsetAll(f)
  \/ \E f, g \in Sets : Merge(f, g) \/ Swap(f, g) \/ \E n \in Number : SwapOne(f, g, n)
  \/ answer' = None /\ UNCHANGED values

Spec == Init /\ [][Next]_vars
===============================================================================
