------------------------------ MODULE MCLazyInit ------------------------------
(* Generated code of four files for LazyInit: descriptor.proto (d) and
   cpp_features.proto (c), which are registered late, and two of the user's, of
   which `a` imports `b` and is assigned eagerly.  The linker dropped the default
   instances of the user's types; a message Ta holds a Tb, which may hold a Tb. *)
EXTENDS LazyInit, TLC
CONSTANTS a, b, c, d, Ta, Tb, Td, memoKey

MCLazyFiles == <<d, c>>
MCDeps == (a :> <<b>>) @@ (b :> <<>>) @@ (c :> <<d>>) @@ (d :> <<>>)
MCFileOf == (Ta :> a) @@ (Tb :> b) @@ (Td :> d)
MCFields == (Ta :> <<Tb>>) @@ (Tb :> <<Tb>>) @@ (Td :> <<>>)
Asking(op, ons) == {[op |-> op, on |-> x] : x \in ons}
MCQuestions ==
  Asking("assign", {a, d}) \cup Asking("lookup", {Ta, Tb}) \cup Asking("prototype", {Ta, Tb, Td})
    \cup Asking("type", {<<Ta, Tb>>}) \cup Asking("unknown", {1}) \cup Asking("memo", {memoKey})
Symmetry == Permutations(Thread)
===============================================================================
