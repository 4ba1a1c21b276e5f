--------------------------- MODULE MCDescriptorPool ---------------------------
(* Databases for model checking DescriptorPool. *)
EXTENDS DescriptorPool

CONSTANTS t1, A, B, C, D, sA, sB, sC, sD, pkg

Plainly(f, s, imports) ==
  [imports |-> imports, weak |-> {}, package |-> None, defines |-> {s}, refs |-> <<>>,
   broken |-> FALSE, features |-> "none"]

Own == (A :> sA) @@ (B :> sB) @@ (C :> sC) @@ (D :> sD)
InOrder(fs) == SelectSeq(<<A, B, C, D>>, LAMBDA f : f \in fs)
Finds == [s \in Symbol |-> IF \E f \in File : Own[f] = s
                           THEN CHOOSE f \in File : Own[f] = s ELSE None]

With(kind, has, proto_) == [kind |-> kind, has |-> has, finds |-> Finds, proto |-> proto_]
Importing(g) == [f \in File |-> Plainly(f, Own[f], InOrder(g[f]))]

\* Every graph in which no file imports itself, with one or two complications.
Acyclic == {g \in [File -> SUBSET File] : \A f \in File : f \notin g[f]}

Names == {<<>>, <<<<sB>>>>, <<<<sC, sB>>, <<sA>>>>}
Twist(d, twist) ==
  CASE twist = "none"     -> d
    [] twist = "broken"   -> [d EXCEPT !.proto[B].broken = TRUE]
    [] twist = "missing"  -> [d EXCEPT !.has = @ \ {B}, !.finds[sB] = None]
    [] twist = "weak"     -> [d EXCEPT !.proto[A].weak = ToSet(d.proto[A].imports)]
    [] twist = "package"  -> [d EXCEPT !.proto[A].package = pkg, !.proto[B].package = pkg]
    [] twist = "clash"    -> [d EXCEPT !.proto[A].package = pkg, !.proto[C].defines = @ \cup {pkg}]
    [] twist = "twice"    -> [d EXCEPT !.proto[C].defines = @ \cup {sB}]
    [] twist = "wrong"    -> [d EXCEPT !.finds[pkg] = C]
    [] twist = "features" -> [d EXCEPT !.proto[B].features = "invalid", !.proto[C].features = "valid"]
    [] twist = "filled"   -> [d EXCEPT !.kind = "none"]
Twists == {"none", "broken", "missing", "weak", "package", "clash", "twice", "wrong", "features", "filled"}
MCTwists ==
  {Twist(With("database", File, [Importing(g) EXCEPT ![A].refs = r]), twist) :
     g \in Acyclic, r \in Names, twist \in {"none", "broken", "missing", "features"}}
  \cup {Twist(With("database", File, Importing(g)), twist) : g \in Acyclic, twist \in Twists}

\* A few databases for several threads: B, which A and C import, names a type
\* of C; files with features; a type that two files define; a circle.
Diamond == [f \in File |-> IF f = B THEN {} ELSE {B}]
Circle == [f \in File |-> IF f = A THEN {B} ELSE {A}]
MCFew ==
  {Twist(With("database", File, Importing(Diamond)), twist) : twist \in {"features", "twice"}}
  \cup {With("database", File, [Importing(Diamond) EXCEPT ![B].refs = r]) :
          r \in {<<<<sC>>>>, <<<<sC, sB>>>>}}
  \cup {With("database", File, Importing(Circle)),
        Twist(With("none", File, Importing(Diamond)), "features")}

MCAll == MCTwists \cup MCFew

\* One thread calls twice, and where there are few databases two do.
MCMaxCalls(d, t) == IF t = t1 \/ d \in MCFew THEN 2 ELSE 0

\* B names a type in scopes of which the inner is in C; A imports B, C imports A,
\* and D imports A and C.
MCScopes ==
  {With("database", File,
        [Importing((A :> {B}) @@ (B :> {}) @@ (C :> {A}) @@ (D :> {A, C})) EXCEPT
           ![B].refs = <<<<sC, sB>>>>])}

MCInvalid == {With("none", File, [Importing([f \in File |-> {}]) EXCEPT ![A].features = "invalid"])}
===============================================================================
