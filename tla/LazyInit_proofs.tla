---------------------------- MODULE LazyInit_proofs ----------------------------
(****************************************************************************)
(* That what is made on first use is made once, for any threads, files,     *)
(* types and questions.  The invariant says of every call on every stack    *)
(* what the place where it stands takes for granted; a step of a thread     *)
(* puts calls in front of its innermost one or ends it, and what the other  *)
(* threads take for granted lasts because the tables only grow (Grows).     *)
(****************************************************************************)
EXTENDS LazyInit, SequenceTheorems, TLAPS

(* What stands on a stack. *)

On == File \cup Type \cup Pair \cup Number \cup Key
Places ==
  {"once", "cached", "lock", "build", "enter", "link", "add", "added", "assign", "start", "database",
   "files", "read", "unlock", "types", "tried", "set", "target", "type", "field", "create", "write",
   "find", "return"}
Ops ==
  {"find", "type", "assign", "assign eagerly", "add", "try", "register", "prototype", "dynamic",
   "unknown", "memo", "lookup"}
Record == [op : Ops, on : On, at : Places] \cup [op : {"make"}, on : On, at : Places, i : Nat \ {0}]
Assigns(f) == f.op \in {"assign", "assign eagerly"}

\* A file that the pool can build, and all that its fields may lead to.
Closed(S) == \A p \in Pair : FileOf[p[1]] \in S => FileOf[p[2]] \in S
Ready(F) == \E S \in SUBSET registered : F \in S /\ Closed(S)

\* What a call must have been given, or have found, to stand where it stands.
CallOK(f) ==
  /\ f \in Record
  /\ f.op \in {"find", "assign", "assign eagerly", "add", "register"} => f.on \in File
  /\ f.op \in {"try", "prototype", "dynamic", "make", "lookup"} => f.on \in Type
  /\ f.op = "type" => f.on \in Pair /\ FileOf[f.on[1]] \in built
  /\ f.op = "unknown" => f.on \in Number
  /\ f.op = "memo" => f.on \in Key
  /\ f.op = "find" => Ready(f.on)
  /\ f.op \in {"make", "dynamic", "prototype"} => FileOf[f.on] \in built
  /\ f.op = "make" /\ f.at # "target" => f.on \in DroppedTypes /\ prototypes[f.on] # None
  /\ f.op = "prototype" /\ f.at = "set" => f.on \in DroppedTypes /\ type_map[f.on] # None
  /\ Assigns(f) /\ f.at = "assign" => f.on \in registered

\* A right answer to a call.
Given(T, v) == IF T \in DroppedTypes THEN prototypes[T] # None /\ v = prototypes[T] ELSE v = Generated
ResultOK(op, on, v) ==
  /\ op \in {"try", "prototype", "dynamic", "make"} => on \in Type
  /\ op = "unknown" => on \in Number
  /\ op = "memo" => on \in Key
  /\ op = "find" => v = on /\ on \in built
  /\ op = "type" => v = on[2] /\ on \in link
  /\ op = "assign" => v = on /\ on \in assigned
  /\ op = "add" => on \in initialized
  /\ op = "try" => /\ type_map[on] # None
                   /\ \/ Given(on, v) /\ (on \in DroppedTypes => v \in linked)
                      \/ on \in DroppedTypes /\ v = None
  /\ op = "register" => \A T \in Type : FileOf[T] = on => type_map[T] # None
  /\ op \in {"prototype", "dynamic"} => Given(on, v) /\ (on \in DroppedTypes => v \in linked)
  /\ op = "make" => Given(on, v)
  /\ op = "unknown" => v = unknown[on] /\ v # None
  /\ op = "memo" => v = memo[on] /\ v # None
  /\ op = "lookup" => v = on

\* The call whose answer a call waits for.
Waits(f) ==
  \/ f.op = "type" /\ f.at = "link"
  \/ Assigns(f) /\ f.at \in {"added", "assign"}
  \/ f.op = "try" /\ f.at = "unlock"
  \/ f.op = "prototype" /\ f.at \in {"tried", "set"}
  \/ f.op = "dynamic" /\ f.at = "unlock"
  \/ f.op = "make" /\ f.at \in {"target", "field"}
  \/ f.op = "lookup" /\ f.at = "return"
AwaitedOp(f) ==
  CASE f.op = "type" -> "find"
    [] Assigns(f) -> IF f.at = "added" THEN "add" ELSE "find"
    [] f.op = "try" -> "register"
    [] f.op = "prototype" -> IF f.at = "tried" THEN "try" ELSE "dynamic"
    [] f.op = "dynamic" -> "make"
    [] f.op = "make" -> IF f.at = "target" THEN "try" ELSE "type"
    [] f.op = "lookup" -> "find"
AwaitedOn(f) ==
  CASE f.op = "type" -> FileOf[f.on[2]]
    [] f.op \in {"try", "lookup"} -> FileOf[f.on]
    [] f.op = "make" /\ f.at = "field" -> <<f.on, Fields[f.on][f.i]>>
    [] OTHER -> f.on

\* The locks that calls hold, and the calls that are made only under them.
HeldLock == {"add", "factory", "prototypes", "unknown"}
Holds(f, l) ==
  \/ l = "add" /\ Assigns(f) /\ f.at = "added"
  \/ l = "factory" /\ f.op = "try" /\ f.at = "unlock"
  \/ l = "prototypes" /\ f.op = "dynamic" /\ f.at = "unlock"
  \/ l = "unknown" /\ f.op = "unknown" /\ f.at = "create"
Within(f, l) == \/ l = "add" /\ f.op = "add"
                \/ l = "prototypes" /\ f.op = "make"

\* Calls that have had, or are about to have, the generated pool.
NeedsPool(f) ==
  \/ f.op = "try" /\ f.at \in {"files", "lock"}
  \/ f.op = "lookup" /\ f.at = "find"
  \/ f.op = "assign" /\ f.at # "once" /\ f.on \notin Lazy
  \/ f.op = "assign eagerly" /\ f.on \notin Lazy

Adds(f) == f.op = "add" /\ f.at \in {"database", "files"}
Makes(f) == f.op = "make" /\ f.at # "target"

-------------------------------------------------------------------------------
(* The inductive invariant. *)

TypesOK ==
  /\ stack \in [Thread -> Seq(Record)]
  /\ DOMAIN ret = Thread /\ DOMAIN asked = Thread
  /\ lock \in [Lock -> Thread \cup {None}]
  /\ once \in [File \cup Pair -> {"new", "none", "done"} \cup Thread]
  /\ registered \subseteq database /\ database \subseteq initialized /\ initialized \subseteq File
  /\ assigned \subseteq registered /\ File \ Lazy \subseteq registered
  /\ link \subseteq Pair
  /\ DOMAIN type_map = Type /\ DOMAIN prototypes = Type
  /\ DOMAIN unknown = Number /\ DOMAIN memo = Key
  /\ \A T \in Type : prototypes[T] \in Nat \cup {None}
  /\ \A n \in Number : unknown[n] \in Nat \cup {None}
  /\ \A k \in Key : memo[k] \in Nat \cup {None}
  /\ made \in Nat
  /\ ~dead

PoolOK ==
  /\ \A F \in built : Ready(F)
  /\ \A p \in link : FileOf[p[1]] \in built /\ FileOf[p[2]] \in built
  /\ \A p \in Pair : FileOf[p[1]] \in built /\ once[p] \in {"none", "done"} => p \in link
  /\ \A F \in File : once[F] = "done" => F \in assigned

FactoryOK ==
  /\ \A T \in Type :
       \/ type_map[T] = None
       \/ T \notin DroppedTypes /\ type_map[T] = Generated
       \/ T \in DroppedTypes /\ type_map[T] = Dropped
       \/ T \in DroppedTypes /\ type_map[T] = prototypes[T] /\ prototypes[T] \in linked
  /\ \A T, U \in Type : FileOf[T] = FileOf[U] /\ type_map[T] = None => type_map[U] = None

AnswersOK == \A x \in answers : x[1] \in Question /\ ResultOK(x[1].op, x[1].on, x[2])

CallsOK == \A t \in Thread : \A i \in DOMAIN stack[t] : CallOK(stack[t][i])

WaitsOK ==
  \A t \in Thread : \A i \in DOMAIN stack[t] :
    LET f == stack[t][i] IN
    Waits(f) => IF i = 1 THEN ResultOK(AwaitedOp(f), AwaitedOn(f), ret[t])
                ELSE stack[t][i - 1].op = AwaitedOp(f) /\ stack[t][i - 1].on = AwaitedOn(f)

NeedsOK ==
  \A t \in Thread : \A i \in DOMAIN stack[t] :
    NeedsPool(stack[t][i]) =>
      \A F \in Lazy : F \in assigned
                      \/ \E j \in 1..i - 1 : stack[t][j].op = "assign" /\ stack[t][j].on = F

OuterOK ==
  \A t \in Thread :
    /\ stack[t] # <<>> => /\ asked[t] \in Question
                          /\ stack[t][Len(stack[t])].op = asked[t].op
                          /\ stack[t][Len(stack[t])].on = asked[t].on
    /\ \A i \in DOMAIN stack[t] : stack[t][i].op = "unknown" => i = Len(stack[t])

LocksOK ==
  \A l \in HeldLock : \A t \in Thread : \A i \in DOMAIN stack[t] :
    /\ Holds(stack[t][i], l) => /\ lock[l] = t
                                /\ \A j \in DOMAIN stack[t] : Holds(stack[t][j], l) => j = i
    /\ Within(stack[t][i], l) => \E j \in DOMAIN stack[t] : j > i /\ Holds(stack[t][j], l)

AddsOK ==
  /\ \A F \in initialized : F \in registered \/ \E t \in Thread : \E i \in DOMAIN stack[t] :
       Adds(stack[t][i]) /\ stack[t][i].on = F
  /\ \A F \in initialized \cap Lazy : \A G \in ToSet(Deps[F]) :
       G \in initialized \/ \E t \in Thread : \E i \in DOMAIN stack[t] :
         stack[t][i].op = "add" /\ stack[t][i].on = G
  /\ \A t \in Thread : \A i \in DOMAIN stack[t] : Adds(stack[t][i]) =>
       LET F == stack[t][i].on IN
       /\ F \in initialized /\ F \notin registered
       /\ F \in database <=> stack[t][i].at = "files"
       /\ \A u \in Thread : \A j \in DOMAIN stack[u] :
            Adds(stack[u][j]) /\ stack[u][j].on = F => u = t /\ j = i

RegistersOK ==
  \A t \in Thread : \A i \in DOMAIN stack[t] : stack[t][i].op = "register" =>
    /\ i + 1 \in DOMAIN stack[t] /\ Holds(stack[t][i + 1], "factory")
    /\ \A T \in Type : FileOf[T] = stack[t][i].on => type_map[T] = None

CreatesOK ==
  \A t \in Thread : \A i \in DOMAIN stack[t] :
    Holds(stack[t][i], "unknown") => unknown[stack[t][i].on] = None

LinksOK ==
  \A T \in Type : prototypes[T] # None =>
    \/ prototypes[T] \in linked
    \/ \E t \in Thread : \E i \in DOMAIN stack[t] :
         Makes(stack[t][i]) /\ stack[t][i].on = T

IInv ==
  /\ TypesOK /\ PoolOK /\ FactoryOK /\ AnswersOK
  /\ CallsOK /\ WaitsOK /\ NeedsOK /\ OuterOK /\ LocksOK
  /\ AddsOK /\ RegistersOK /\ CreatesOK /\ LinksOK

-------------------------------------------------------------------------------
(* Steps: what the program knows only grows; a thread calls or returns. *)

Grows ==
  /\ initialized \subseteq initialized' /\ registered \subseteq registered'
  /\ built \subseteq built' /\ link \subseteq link' /\ assigned \subseteq assigned'
  /\ linked \subseteq linked'
  /\ \A T \in Type : /\ type_map[T] # None => type_map'[T] # None
                     /\ prototypes[T] # None => prototypes'[T] = prototypes[T]
  /\ \A n \in Number : unknown[n] # None => unknown'[n] = unknown[n]
  /\ \A k \in Key : memo[k] # None => memo'[k] = memo[k]

\* The innermost call f becomes g and n calls are made in front of it.
Pushes(t, f, g, n, fs) ==
  /\ stack[t] # <<>> /\ f = stack[t][1]
  /\ g \in Record /\ g.op = f.op /\ g.on = f.on
  /\ fs \in Seq(Record) /\ n = Len(fs)
  /\ stack' = [stack EXCEPT ![t] = fs \o <<g>> \o Tail(stack[t])]
  /\ ret' = ret /\ asked' = asked /\ answers' = answers

\* The innermost call f returns v.
Pops(t, f, v) ==
  /\ stack[t] # <<>> /\ f = stack[t][1]
  /\ stack' = [stack EXCEPT ![t] = Tail(stack[t])]
  /\ ret' = [ret EXCEPT ![t] = v] /\ asked' = asked
  /\ answers' = IF Len(stack[t]) = 1 THEN answers \cup {<<asked[t], v>>} ELSE answers

\* What a call and a return do to the stacks, place by place.
PushShape(t, g, n, fs) ==
  /\ stack' \in [Thread -> Seq(Record)]
  /\ \A u \in Thread : u # t => stack'[u] = stack[u]
  /\ n \in Nat /\ DOMAIN fs = 1..n /\ Len(stack[t]) \in Nat /\ Len(stack[t]) >= 1
  /\ DOMAIN stack[t] = 1..Len(stack[t]) /\ DOMAIN stack'[t] = 1..(n + Len(stack[t]))
  /\ Len(stack'[t]) = n + Len(stack[t])
  /\ \A k \in 1..n : stack'[t][k] = fs[k]
  /\ stack'[t][n + 1] = g
  /\ \A k \in 2..Len(stack[t]) : stack'[t][k + n] = stack[t][k]
  /\ \A k \in DOMAIN stack'[t] :
       k \in 1..n \/ k = n + 1 \/ \E j \in 2..Len(stack[t]) : k = j + n

PopShape(t, v) ==
  /\ stack' \in [Thread -> Seq(Record)]
  /\ \A u \in Thread : u # t => stack'[u] = stack[u] /\ ret'[u] = ret[u]
  /\ ret'[t] = v
  /\ Len(stack[t]) \in Nat /\ Len(stack[t]) >= 1
  /\ DOMAIN stack[t] = 1..Len(stack[t]) /\ DOMAIN stack'[t] = 1..(Len(stack[t]) - 1)
  /\ Len(stack'[t]) = Len(stack[t]) - 1
  /\ \A k \in 1..(Len(stack[t]) - 1) : stack'[t][k] = stack[t][k + 1]

\* A call leaves the stacks of other threads and moves what was behind f by n places.
LEMMA PushShapes ==
  ASSUME TypesOK, NEW t \in Thread, NEW f, NEW g, NEW n, NEW fs, Pushes(t, f, g, n, fs)
  PROVE  PushShape(t, g, n, fs)
<1> DEFINE s == stack[t]  h == fs \o <<g>>  r == h \o Tail(s)
<1>1. s \in Seq(Record) /\ s # <<>> /\ fs \in Seq(Record) /\ g \in Record /\ n = Len(fs)
  BY DEF TypesOK, Pushes
<1>2. Tail(s) \in Seq(Record) /\ Len(Tail(s)) = Len(s) - 1 /\ Len(s) \in Nat \ {0}
      /\ \A k \in 1..Len(s) - 1 : Tail(s)[k] = s[k + 1]
  BY <1>1, HeadTailProperties, EmptySeq, LenProperties
<1>3. h \in Seq(Record) /\ Len(h) = n + 1 /\ \A k \in 1..n + 1 : h[k] = IF k <= n THEN fs[k] ELSE g
  BY <1>1, SMT
<1>4. r \in Seq(Record) /\ Len(r) = n + Len(s)
      /\ \A k \in 1..n + Len(s) : r[k] = IF k <= n + 1 THEN h[k] ELSE Tail(s)[k - (n + 1)]
  <2>1. h \in Seq(Record) /\ Tail(s) \in Seq(Record) /\ Len(h) = n + 1 /\ Len(Tail(s)) = Len(s) - 1
      /\ n \in Nat /\ Len(s) \in Nat
    BY <1>1, <1>2, <1>3, LenProperties
  <2> DEFINE q == Tail(s)
  <2> HIDE DEF h, q
  <2>2. /\ h \o q \in Seq(Record) /\ Len(h \o q) = Len(h) + Len(q)
        /\ \A k \in 1..Len(h) + Len(q) : (h \o q)[k] = IF k <= Len(h) THEN h[k] ELSE q[k - Len(h)]
    <3> h \in Seq(Record) /\ q \in Seq(Record)
      BY <2>1 DEF q
    <3> QED
      BY ConcatProperties
  <2>3. Len(h) = n + 1 /\ Len(q) = Len(s) - 1
    BY <2>1 DEF q
  <2>4. (n + 1) + (Len(s) - 1) = n + Len(s)
    <3> HIDE DEF s
    <3> QED
      BY <2>1
  <2> QED
    BY <2>2, <2>3, <2>4 DEF q
<1>5. stack' = [stack EXCEPT ![t] = r]
  BY DEF Pushes
<1>6. stack'[t] = r /\ stack' \in [Thread -> Seq(Record)] /\ \A u \in Thread : u # t => stack'[u] = stack[u]
  BY <1>4, <1>5 DEF TypesOK
<1>7. n \in Nat /\ DOMAIN fs = 1..n /\ DOMAIN s = 1..Len(s) /\ DOMAIN r = 1..n + Len(s)
  BY <1>1, <1>4, LenProperties
<1> HIDE DEF s, h, r
<1>8. \A k \in 1..n : r[k] = fs[k]
  BY <1>3, <1>4, <1>7, <1>2
<1>9. r[n + 1] = g
  BY <1>3, <1>4, <1>7, <1>2
<1>10. \A k \in 2..Len(s) : r[k + n] = s[k]
  BY <1>4, <1>7, <1>2
<1>11. \A k \in DOMAIN r : k \in 1..n \/ k = n + 1 \/ \E j \in 2..Len(s) : k = j + n
  <2> TAKE k \in DOMAIN r
  <2> SUFFICES ASSUME k \notin 1..n, k # n + 1 PROVE \E j \in 2..Len(s) : k = j + n
    OBVIOUS
  <2> k - n \in 2..Len(s) /\ k = (k - n) + n
    BY <1>7, <1>2
  <2> QED
    OBVIOUS
<1> QED
  BY <1>2, <1>4, <1>6, <1>7, <1>8, <1>9, <1>10, <1>11 DEF s, PushShape

\* A return moves what was behind f one place to the front.
LEMMA PopShapes ==
  ASSUME TypesOK, NEW t \in Thread, NEW f, NEW v, Pops(t, f, v)
  PROVE  PopShape(t, v)
<1>1. stack[t] \in Seq(Record) /\ stack[t] # <<>>
  BY DEF TypesOK, Pops
<1>2. /\ Tail(stack[t]) \in Seq(Record) /\ Len(Tail(stack[t])) = Len(stack[t]) - 1
      /\ Len(stack[t]) \in Nat \ {0}
      /\ \A k \in 1..Len(stack[t]) - 1 : Tail(stack[t])[k] = stack[t][k + 1]
  BY <1>1, HeadTailProperties, EmptySeq, LenProperties
<1>3. stack'[t] = Tail(stack[t]) /\ stack' \in [Thread -> Seq(Record)]
      /\ \A u \in Thread : u # t => stack'[u] = stack[u]
  BY <1>2 DEF TypesOK, Pops
<1>4. ret'[t] = v /\ \A u \in Thread : u # t => ret'[u] = ret[u]
  BY DEF TypesOK, Pops
<1>5. DOMAIN stack[t] = 1..Len(stack[t]) /\ DOMAIN Tail(stack[t]) = 1..Len(stack[t]) - 1
  BY <1>1, <1>2, LenProperties
<1> QED
  BY <1>2, <1>3, <1>4, <1>5 DEF PopShape

\* A call stands rightly for as long as the program only learns.
LEMMA CallStays ==
  ASSUME Grows, NEW f, CallOK(f)
  PROVE  CallOK(f)'
<1>1. f.op = "find" => Ready(f.on)'
  <2> SUFFICES ASSUME f.op = "find" PROVE Ready(f.on)'
    OBVIOUS
  <2>1. PICK S \in SUBSET registered : f.on \in S /\ Closed(S)
    BY DEF CallOK, Ready
  <2>2. S \in SUBSET registered' /\ Closed(S)'
    BY <2>1 DEF Grows, Closed
  <2> QED
    BY <2>1, <2>2 DEF Ready
<1>2. f.op = "make" /\ f.at # "target" => prototypes'[f.on] # None
  BY DEF CallOK, Grows
<1>3. f.op = "prototype" /\ f.at = "set" => type_map'[f.on] # None
  BY DEF CallOK, Grows
<1> QED
  BY <1>1, <1>2, <1>3 DEF CallOK, Grows

\* A right answer stays right while the program only learns.
LEMMA ResultStays ==
  ASSUME Grows, NEW op, NEW on, NEW v, ResultOK(op, on, v)
  PROVE  ResultOK(op, on, v)'
<1>1. on \in Type /\ Given(on, v) => Given(on, v)'
  BY DEF Given, Grows
<1>2. on \in Type /\ type_map[on] # None => type_map'[on] # None
  BY DEF Grows
<1>3. op = "unknown" => v = unknown'[on]
  BY DEF ResultOK, Grows
<1>4. op = "memo" => v = memo'[on]
  BY DEF ResultOK, Grows
<1>5. op = "register" => \A T \in Type : FileOf[T] = on => type_map'[T] # None
  BY DEF ResultOK, Grows
<1>6. op = "try" => ResultOK(op, on, v)'
  BY <1>1, <1>2 DEF ResultOK, Grows
<1> QED
  BY <1>1, <1>3, <1>4, <1>5, <1>6 DEF ResultOK, Grows

(* The parts of the invariant about all stacks, over a call and a return. *)

\* Calls that stand rightly do so after new ones were made in front of them.
LEMMA PushCalls ==
  ASSUME TypesOK, CallsOK, Grows, NEW t \in Thread, NEW f, NEW g, NEW n, NEW fs, Pushes(t, f, g, n, fs),
         CallOK(g)', \A k \in 1..n : CallOK(fs[k])'
  PROVE  CallsOK'
<1>1. PushShape(t, g, n, fs)
  BY PushShapes
<1> SUFFICES ASSUME NEW u \in Thread, NEW i \in DOMAIN stack'[u] PROVE CallOK(stack[u][i])'
  BY DEF CallsOK
<1>2. CASE u # t
  BY <1>1, <1>2, CallStays DEF CallsOK, PushShape
<1>3. CASE u = t
  <2>1. CASE i \in 1..n
    BY <1>1, <1>3, <2>1 DEF PushShape
  <2>2. CASE i = n + 1
    BY <1>1, <1>3, <2>2 DEF PushShape
  <2>3. CASE \E j \in 2..Len(stack[t]) : i = j + n
    <3>1. PICK j \in 2..Len(stack[t]) : i = j + n
      BY <2>3
    <3>2. stack'[t][i] = stack[t][j] /\ j \in DOMAIN stack[t]
      BY <1>1, <3>1 DEF PushShape
    <3> QED
      BY <1>3, <3>2, CallStays DEF CallsOK
  <2> QED
    BY <1>1, <1>3, <2>1, <2>2, <2>3 DEF PushShape
<1> QED
  BY <1>2, <1>3

\* And after the innermost one has returned.
LEMMA PopCalls ==
  ASSUME TypesOK, CallsOK, Grows, NEW t \in Thread, NEW f, NEW v, Pops(t, f, v)
  PROVE  CallsOK'
<1>1. PopShape(t, v)
  BY PopShapes
<1> SUFFICES ASSUME NEW u \in Thread, NEW i \in DOMAIN stack'[u] PROVE CallOK(stack[u][i])'
  BY DEF CallsOK
<1>2. \E j \in DOMAIN stack[u] : stack'[u][i] = stack[u][j]
  <2>1. CASE u # t
    BY <1>1, <2>1 DEF PopShape
  <2>2. CASE u = t
    <3> i + 1 \in DOMAIN stack[t] /\ stack'[t][i] = stack[t][i + 1]
      BY <1>1, <2>2 DEF PopShape
    <3> QED
      BY <2>2
  <2> QED
    BY <2>1, <2>2
<1> QED
  BY <1>2, CallStays DEF CallsOK

\* The call that goes on waits for the last of the new ones, and each of these for the one before.
LEMMA PushWaits ==
  ASSUME TypesOK, WaitsOK, Grows, NEW t \in Thread, NEW f, NEW g, NEW n, NEW fs, Pushes(t, f, g, n, fs),
         \A k \in 1..n : Waits(fs[k]) =>
           k # 1 /\ fs[k - 1].op = AwaitedOp(fs[k]) /\ fs[k - 1].on = AwaitedOn(fs[k]),
         Waits(g) => IF n = 0 THEN ResultOK(AwaitedOp(g), AwaitedOn(g), ret[t])'
                     ELSE fs[n].op = AwaitedOp(g) /\ fs[n].on = AwaitedOn(g)
  PROVE  WaitsOK'
<1>1. PushShape(t, g, n, fs)
  BY PushShapes
<1> SUFFICES ASSUME NEW u \in Thread, NEW i \in DOMAIN stack'[u], NEW h, h = stack'[u][i], Waits(h)
             PROVE  IF i = 1 THEN ResultOK(AwaitedOp(h), AwaitedOn(h), ret[u])'
                    ELSE stack'[u][i - 1].op = AwaitedOp(h) /\ stack'[u][i - 1].on = AwaitedOn(h)
  BY DEF WaitsOK
<1>2. ret' = ret
  BY DEF Pushes
<1>3. CASE u # t
  <2>1. i \in DOMAIN stack[u] /\ h = stack[u][i] /\ stack'[u] = stack[u]
    BY <1>1, <1>3 DEF PushShape
  <2>2. i = 1 => ResultOK(AwaitedOp(h), AwaitedOn(h), ret[u])
    BY <2>1 DEF WaitsOK
  <2>3. PICK op, on, v : op = AwaitedOp(h) /\ on = AwaitedOn(h) /\ v = ret[u]
    OBVIOUS
  <2>4. i = 1 => ResultOK(op, on, v)'
    BY <2>2, <2>3, ResultStays
  <2> QED
    BY <2>1, <2>3, <2>4, <1>2 DEF WaitsOK
<1>4. CASE u = t
  <2>1. CASE i \in 1..n
    <3>1. h = fs[i] /\ i # 1 /\ i - 1 \in 1..n
      BY <1>1, <1>4, <2>1 DEF PushShape
    <3> QED
      BY <1>1, <1>4, <2>1, <3>1 DEF PushShape
  <2>2. CASE i = n + 1
    <3>1. h = g /\ (n # 0 => n \in 1..n /\ stack'[u][i - 1] = fs[n])
      BY <1>1, <1>4, <2>2 DEF PushShape
    <3>2. i = 1 <=> n = 0
      BY <1>1, <2>2 DEF PushShape
    <3> QED
      BY <1>4, <3>1, <3>2
  <2>3. CASE \E j \in 2..Len(stack[t]) : i = j + n
    <3>1. PICK j \in 2..Len(stack[t]) : i = j + n
      BY <2>3
    <3>2. h = stack[t][j] /\ j \in DOMAIN stack[t] /\ j # 1 /\ i # 1
      BY <1>1, <1>4, <3>1 DEF PushShape
    <3>3. stack[t][j - 1].op = AwaitedOp(h) /\ stack[t][j - 1].on = AwaitedOn(h)
      BY <3>2 DEF WaitsOK
    <3>4. CASE j = 2
      <4>1. stack'[t][i - 1] = g /\ stack[t][1] = f /\ j - 1 = 1
        BY <1>1, <3>1, <3>4 DEF PushShape, Pushes
      <4>2. g.op = f.op /\ g.on = f.on
        BY DEF Pushes
      <4>3. stack[t][j - 1] = f
        BY <3>4, <4>1
      <4> QED
        BY <1>4, <3>2, <3>3, <4>1, <4>2, <4>3
    <3>5. CASE j # 2
      <4>1. j - 1 \in 2..Len(stack[t]) /\ (j - 1) + n = i - 1
        BY <1>1, <3>1, <3>5 DEF PushShape
      <4>2. stack'[t][i - 1] = stack[t][j - 1]
        BY <1>1, <4>1 DEF PushShape
      <4> QED
        BY <1>4, <3>2, <3>3, <4>2
    <3> QED
      BY <3>4, <3>5
  <2> QED
    BY <1>1, <1>4, <2>1, <2>2, <2>3 DEF PushShape
<1> QED
  BY <1>3, <1>4

\* What returns to a call that waits is a right answer to what it waits for.
LEMMA PopWaits ==
  ASSUME TypesOK, WaitsOK, Grows, NEW t \in Thread, NEW f, NEW v, Pops(t, f, v), ResultOK(f.op, f.on, v)'
  PROVE  WaitsOK'
<1>1. PopShape(t, v)
  BY PopShapes
<1> SUFFICES ASSUME NEW u \in Thread, NEW i \in DOMAIN stack'[u], NEW h, h = stack'[u][i], Waits(h)
             PROVE  IF i = 1 THEN ResultOK(AwaitedOp(h), AwaitedOn(h), ret[u])'
                    ELSE stack'[u][i - 1].op = AwaitedOp(h) /\ stack'[u][i - 1].on = AwaitedOn(h)
  BY DEF WaitsOK
<1>2. CASE u # t
  <2>1. i \in DOMAIN stack[u] /\ h = stack[u][i] /\ stack'[u] = stack[u] /\ ret'[u] = ret[u]
    BY <1>1, <1>2 DEF PopShape
  <2>2. i = 1 => ResultOK(AwaitedOp(h), AwaitedOn(h), ret[u])
    BY <2>1 DEF WaitsOK
  <2>3. PICK op, on, w : op = AwaitedOp(h) /\ on = AwaitedOn(h) /\ w = ret[u]
    OBVIOUS
  <2>4. i = 1 => ResultOK(op, on, w)'
    BY <2>2, <2>3, ResultStays
  <2> QED
    BY <2>1, <2>3, <2>4 DEF WaitsOK
<1>3. CASE u = t
  <2>1. h = stack[t][i + 1] /\ i + 1 \in DOMAIN stack[t] /\ i + 1 # 1 /\ (i + 1) - 1 = i
    BY <1>1, <1>3 DEF PopShape
  <2>2. stack[t][i].op = AwaitedOp(h) /\ stack[t][i].on = AwaitedOn(h)
    BY <2>1 DEF WaitsOK
  <2>3. CASE i = 1
    <3> f.op = AwaitedOp(h) /\ f.on = AwaitedOn(h) /\ ret'[t] = v
      BY <1>1, <2>2, <2>3 DEF Pops, PopShape
    <3> QED
      BY <1>3, <2>3
  <2>4. CASE i # 1
    <3> stack'[t][i - 1] = stack[t][i]
      BY <1>1, <1>3, <2>4 DEF PopShape
    <3> QED
      BY <1>3, <2>2, <2>4
  <2> QED
    BY <2>3, <2>4
<1> QED
  BY <1>2, <1>3

\* What the innermost call waited for has come.
LEMMA FirstWaits ==
  ASSUME TypesOK, WaitsOK, NEW t \in Thread, stack[t] # <<>>, NEW f, f = stack[t][1], Waits(f)
  PROVE  ResultOK(AwaitedOp(f), AwaitedOn(f), ret[t])
<1> stack[t] \in Seq(Record) /\ 1 \in DOMAIN stack[t]
  BY EmptySeq, LenProperties DEF TypesOK
<1> QED
  BY DEF WaitsOK

\* A new call that needs the pool comes after those that assign the lazy files.
LEMMA PushNeeds ==
  ASSUME TypesOK, NeedsOK, Grows, NEW t \in Thread, NEW f, NEW g, NEW n, NEW fs, Pushes(t, f, g, n, fs),
         \A k \in 1..n : NeedsPool(fs[k]) =>
           \A F \in Lazy : F \in assigned' \/ \E j \in 1..k - 1 : fs[j].op = "assign" /\ fs[j].on = F,
         NeedsPool(g) =>
           \A F \in Lazy : F \in assigned' \/ \E j \in 1..n : fs[j].op = "assign" /\ fs[j].on = F
  PROVE  NeedsOK'
<1>1. PushShape(t, g, n, fs)
  BY PushShapes
<1>2. assigned \subseteq assigned'
  BY DEF Grows
<1> SUFFICES ASSUME NEW u \in Thread, NEW i \in DOMAIN stack'[u], NeedsPool(stack'[u][i]),
                    NEW F \in Lazy, F \notin assigned'
             PROVE  \E j \in 1..i - 1 : stack'[u][j].op = "assign" /\ stack'[u][j].on = F
  BY DEF NeedsOK
<1>3. CASE u # t
  <2>1. stack'[u] = stack[u] /\ i \in DOMAIN stack[u] /\ F \notin assigned
    BY <1>1, <1>2, <1>3 DEF PushShape
  <2> QED
    BY <2>1 DEF NeedsOK
<1>4. CASE u = t
  <2>1. CASE i \in 1..n
    <3>1. PICK j \in 1..i - 1 : fs[j].op = "assign" /\ fs[j].on = F
      BY <1>1, <1>4, <2>1 DEF PushShape
    <3>2. stack'[t][j] = fs[j]
      BY <1>1, <2>1, <3>1 DEF PushShape
    <3> QED
      BY <1>4, <3>1, <3>2
  <2>2. CASE i = n + 1
    <3>1. PICK j \in 1..n : fs[j].op = "assign" /\ fs[j].on = F
      BY <1>1, <1>4, <2>2 DEF PushShape
    <3>2. stack'[t][j] = fs[j] /\ j \in 1..i - 1
      BY <1>1, <2>2, <3>1 DEF PushShape
    <3> QED
      BY <1>4, <3>1, <3>2
  <2>3. CASE \E j \in 2..Len(stack[t]) : i = j + n
    <3>1. PICK k \in 2..Len(stack[t]) : i = k + n
      BY <2>3
    <3>2. stack'[t][i] = stack[t][k] /\ k \in DOMAIN stack[t]
      BY <1>1, <1>4, <3>1 DEF PushShape
    <3>3. PICK j \in 1..k - 1 : stack[t][j].op = "assign" /\ stack[t][j].on = F
      BY <1>4, <1>2, <3>2 DEF NeedsOK
    <3>4. j + n \in 1..i - 1
      BY <1>1, <3>1, <3>3 DEF PushShape
    <3>5. CASE j = 1
      <4> n + 1 \in 1..i - 1 /\ stack'[t][n + 1] = g /\ g.op = stack[t][1].op /\ g.on = stack[t][1].on
        BY <1>1, <3>4, <3>5 DEF PushShape, Pushes
      <4> QED
        BY <1>4, <3>3, <3>5
    <3>6. CASE j # 1
      <4>1. j \in 2..Len(stack[t])
        BY <1>1, <3>1, <3>3, <3>6 DEF PushShape
      <4>2. stack'[t][j + n] = stack[t][j]
        BY <1>1, <4>1 DEF PushShape
      <4> QED
        BY <1>4, <3>3, <3>4, <4>2
    <3> QED
      BY <3>5, <3>6
  <2> QED
    BY <1>1, <1>4, <2>1, <2>2, <2>3 DEF PushShape
<1> QED
  BY <1>3, <1>4

\* When one that assigns a lazy file has returned, the file is assigned.
LEMMA PopNeeds ==
  ASSUME TypesOK, NeedsOK, Grows, NEW t \in Thread, NEW f, NEW v, Pops(t, f, v), ResultOK(f.op, f.on, v)'
  PROVE  NeedsOK'
<1>1. PopShape(t, v)
  BY PopShapes
<1>2. assigned \subseteq assigned' /\ (f.op = "assign" => f.on \in assigned')
  BY DEF Grows, ResultOK
<1> SUFFICES ASSUME NEW u \in Thread, NEW i \in DOMAIN stack'[u], NeedsPool(stack'[u][i]),
                    NEW F \in Lazy, F \notin assigned'
             PROVE  \E j \in 1..i - 1 : stack'[u][j].op = "assign" /\ stack'[u][j].on = F
  BY DEF NeedsOK
<1>3. CASE u # t
  <2>1. stack'[u] = stack[u] /\ i \in DOMAIN stack[u] /\ F \notin assigned
    BY <1>1, <1>2, <1>3 DEF PopShape
  <2> QED
    BY <2>1 DEF NeedsOK
<1>4. CASE u = t
  <2>1. stack'[t][i] = stack[t][i + 1] /\ i + 1 \in DOMAIN stack[t] /\ (i + 1) - 1 = i
    BY <1>1, <1>4 DEF PopShape
  <2>2. PICK j \in 1..i : stack[t][j].op = "assign" /\ stack[t][j].on = F
    BY <1>4, <1>2, <2>1 DEF NeedsOK
  <2>3. j # 1
    BY <1>2, <2>2 DEF Pops
  <2>4. j - 1 \in 1..i - 1 /\ j - 1 \in 1..Len(stack[t]) - 1 /\ (j - 1) + 1 = j
    BY <1>1, <2>1, <2>2, <2>3 DEF PopShape
  <2>5. stack'[t][j - 1] = stack[t][j]
    BY <1>1, <2>4 DEF PopShape
  <2> QED
    BY <1>4, <2>2, <2>4, <2>5
<1> QED
  BY <1>3, <1>4

\* What the innermost call wanted from the pool is there.
LEMMA FirstNeeds ==
  ASSUME TypesOK, NeedsOK, NEW t \in Thread, stack[t] # <<>>, NEW f, f = stack[t][1], NeedsPool(f)
  PROVE  Lazy \subseteq assigned
<1> stack[t] \in Seq(Record) /\ 1 \in DOMAIN stack[t]
  BY EmptySeq, LenProperties DEF TypesOK
<1> QED
  BY DEF NeedsOK

\* The question a thread was asked stays at the bottom of its stack.
LEMMA PushOuter ==
  ASSUME TypesOK, OuterOK, NEW t \in Thread, NEW f, NEW g, NEW n, NEW fs, Pushes(t, f, g, n, fs),
         \A k \in 1..n : fs[k].op # "unknown"
  PROVE  OuterOK'
<1>1. PushShape(t, g, n, fs)
  BY PushShapes
<1>2. ASSUME NEW u \in Thread, u # t
      PROVE  /\ stack'[u] # <<>> => /\ asked'[u] \in Question
                                    /\ stack'[u][Len(stack'[u])].op = asked'[u].op
                                    /\ stack'[u][Len(stack'[u])].on = asked'[u].on
             /\ \A i \in DOMAIN stack'[u] : stack'[u][i].op = "unknown" => i = Len(stack'[u])
  BY <1>1, <1>2 DEF OuterOK, PushShape, Pushes
<1>3. /\ asked'[t] \in Question
      /\ stack'[t][Len(stack'[t])].op = asked'[t].op
      /\ stack'[t][Len(stack'[t])].on = asked'[t].on
  <2>1. CASE Len(stack[t]) = 1
    <3> stack'[t][Len(stack'[t])] = g /\ g.op = stack[t][1].op /\ g.on = stack[t][1].on
      BY <1>1, <2>1 DEF PushShape, Pushes
    <3> QED
      BY <2>1 DEF OuterOK, Pushes
  <2>2. CASE Len(stack[t]) # 1
    <3>1. PICK k : k = Len(stack[t])
      OBVIOUS
    <3>2. k \in Nat /\ k >= 1 /\ k # 1 /\ n \in Nat
      BY <1>1, <2>2, <3>1 DEF PushShape
    <3>3. k \in 2..k /\ k + n = n + k
      BY <3>2
    <3> stack'[t][Len(stack'[t])] = stack[t][Len(stack[t])]
      BY <1>1, <3>1, <3>3 DEF PushShape
    <3> QED
      BY DEF OuterOK, Pushes
  <2> QED
    BY <2>1, <2>2
<1>4. ASSUME NEW i \in DOMAIN stack'[t], stack'[t][i].op = "unknown" PROVE i = Len(stack'[t])
  <2>1. i \notin 1..n
    BY <1>1, <1>4 DEF PushShape
  <2>2. CASE i = n + 1
    <3> f = stack[t][1] /\ f.op = "unknown" /\ 1 \in DOMAIN stack[t]
      BY <1>1, <1>4, <2>2 DEF PushShape, Pushes
    <3>1. 1 = Len(stack[t])
      BY DEF OuterOK
    <3>2. Len(stack'[t]) = n + Len(stack[t])
      BY <1>1 DEF PushShape
    <3> QED
      BY <2>2, <3>1, <3>2
  <2>3. CASE \E j \in 2..Len(stack[t]) : i = j + n
    <3>1. PICK j \in 2..Len(stack[t]) : i = j + n
      BY <2>3
    <3>2. stack'[t][i] = stack[t][j] /\ j \in DOMAIN stack[t]
      BY <1>1, <3>1 DEF PushShape
    <3>3. j = Len(stack[t])
      BY <1>4, <3>2 DEF OuterOK
    <3> QED
      BY <1>1, <3>1, <3>3 DEF PushShape
  <2> QED
    BY <1>1, <2>1, <2>2, <2>3 DEF PushShape
<1> QED
  BY <1>2, <1>3, <1>4 DEF OuterOK

\* And after a return, unless the stack is empty then.
LEMMA PopOuter ==
  ASSUME TypesOK, OuterOK, NEW t \in Thread, NEW f, NEW v, Pops(t, f, v)
  PROVE  OuterOK'
<1>1. PopShape(t, v)
  BY PopShapes
<1>2. ASSUME NEW u \in Thread, u # t
      PROVE  /\ stack'[u] # <<>> => /\ asked'[u] \in Question
                                    /\ stack'[u][Len(stack'[u])].op = asked'[u].op
                                    /\ stack'[u][Len(stack'[u])].on = asked'[u].on
             /\ \A i \in DOMAIN stack'[u] : stack'[u][i].op = "unknown" => i = Len(stack'[u])
  BY <1>1, <1>2 DEF OuterOK, PopShape, Pops
<1>3. ASSUME stack'[t] # <<>>
      PROVE  /\ asked'[t] \in Question
             /\ stack'[t][Len(stack'[t])].op = asked'[t].op
             /\ stack'[t][Len(stack'[t])].on = asked'[t].on
  <2>1. Len(stack'[t]) \in Nat \ {0}
    BY <1>1, <1>3, EmptySeq DEF PopShape
  <2>2. Len(stack'[t]) \in 1..Len(stack[t]) - 1 /\ Len(stack'[t]) + 1 = Len(stack[t])
    <3>1. PICK m : m = Len(stack'[t])
      OBVIOUS
    <3>2. PICK k : k = Len(stack[t])
      OBVIOUS
    <3>3. m \in Nat \ {0} /\ k \in Nat /\ m = k - 1
      BY <1>1, <2>1, <3>1, <3>2 DEF PopShape
    <3>4. m \in 1..k - 1 /\ m + 1 = k
      BY <3>3
    <3> QED
      BY <3>1, <3>2, <3>4
  <2> stack'[t][Len(stack'[t])] = stack[t][Len(stack[t])]
    BY <1>1, <2>2 DEF PopShape
  <2> QED
    BY DEF OuterOK, Pops
<1>4. ASSUME NEW i \in DOMAIN stack'[t], stack'[t][i].op = "unknown" PROVE i = Len(stack'[t])
  <2>1. stack'[t][i] = stack[t][i + 1] /\ i + 1 \in DOMAIN stack[t]
    BY <1>1 DEF PopShape
  <2>2. i + 1 = Len(stack[t])
    BY <1>4, <2>1 DEF OuterOK
  <2> QED
    BY <1>1, <2>2 DEF PopShape
<1> QED
  BY <1>2, <1>3, <1>4 DEF OuterOK

\* What a call does with a lock: nothing, or take it when it is free, or release it.
LockStep(t, f, g, l) ==
  \/ lock'[l] = lock[l] /\ (Holds(g, l) <=> Holds(f, l))
  \/ lock[l] = None /\ lock'[l] = t /\ Holds(g, l)
  \/ Holds(f, l) /\ lock'[l] = None /\ ~Holds(g, l)

\* A lock is held by the call that took it, and what is called under it stays in front of it.
LEMMA PushLocks ==
  ASSUME TypesOK, LocksOK, NEW t \in Thread, NEW f, NEW g, NEW n, NEW fs, Pushes(t, f, g, n, fs),
         \A l \in HeldLock : LockStep(t, f, g, l),
         \A k \in 1..n, l \in HeldLock :
           ~Holds(fs[k], l) /\ (Within(fs[k], l) => Holds(g, l) \/ Within(f, l))
  PROVE  LocksOK'
<1>1. PushShape(t, g, n, fs)
  BY PushShapes
<1> SUFFICES ASSUME NEW l \in HeldLock
             PROVE  \A u \in Thread : \A i \in DOMAIN stack'[u] :
                      /\ Holds(stack'[u][i], l) =>
                           /\ lock'[l] = u
                           /\ \A j \in DOMAIN stack'[u] : Holds(stack'[u][j], l) => j = i
                      /\ Within(stack'[u][i], l) =>
                           \E j \in DOMAIN stack'[u] : j > i /\ Holds(stack'[u][j], l)
  BY DEF LocksOK
<1>2. None \notin Thread
  BY ValuesOK
<1>3. f = stack[t][1] /\ 1 \in DOMAIN stack[t]
  BY <1>1 DEF Pushes, PushShape
<1>4. LockStep(t, f, g, l)
  OBVIOUS
<1>5. \A k \in 1..n : ~Holds(fs[k], l) /\ (Within(fs[k], l) => Holds(g, l) \/ Within(f, l))
  OBVIOUS
<1>6. \A u \in Thread : \A i \in DOMAIN stack[u] :
        /\ Holds(stack[u][i], l) => lock[l] = u /\ \A j \in DOMAIN stack[u] : Holds(stack[u][j], l) => j = i
        /\ Within(stack[u][i], l) => \E j \in DOMAIN stack[u] : j > i /\ Holds(stack[u][j], l)
  BY DEF LocksOK
<1>7. Within(g, l) <=> Within(f, l)
  BY DEF Pushes, Within
<1>8. ASSUME NEW u \in Thread, u # t, NEW i \in DOMAIN stack'[u], Holds(stack'[u][i], l)
      PROVE  lock'[l] = u /\ \A j \in DOMAIN stack'[u] : Holds(stack'[u][j], l) => j = i
  <2>1. stack'[u] = stack[u] /\ i \in DOMAIN stack[u]
    BY <1>1, <1>8 DEF PushShape
  <2>2. lock[l] = u
    BY <1>8, <1>6, <2>1
  <2>3. ~Holds(f, l)
    BY <1>8, <1>3, <1>6, <2>2
  <2>4. lock'[l] = u
    BY <1>2, <1>4, <2>2, <2>3 DEF LockStep
  <2> QED
    BY <1>8, <1>6, <2>1, <2>4
<1>9. ASSUME NEW u \in Thread, u # t, NEW i \in DOMAIN stack'[u], Within(stack'[u][i], l)
      PROVE  \E j \in DOMAIN stack'[u] : j > i /\ Holds(stack'[u][j], l)
  BY <1>1, <1>9, <1>6 DEF PushShape
<1>10. ASSUME NEW i \in DOMAIN stack'[t], Holds(stack'[t][i], l)
       PROVE  \/ i = n + 1 /\ Holds(g, l)
              \/ \E j \in 2..Len(stack[t]) : i = j + n /\ Holds(stack[t][j], l) /\ j \in DOMAIN stack[t]
                                             /\ ~Holds(f, l) /\ ~Holds(g, l) /\ lock'[l] = t
  <2>1. i \notin 1..n
    BY <1>1, <1>10, <1>5 DEF PushShape
  <2>2. CASE i = n + 1
    BY <1>1, <1>10, <2>2 DEF PushShape
  <2>3. CASE \E j \in 2..Len(stack[t]) : i = j + n
    <3>1. PICK j \in 2..Len(stack[t]) : i = j + n
      BY <2>3
    <3>2. stack'[t][i] = stack[t][j] /\ j \in DOMAIN stack[t] /\ j # 1
      BY <1>1, <3>1 DEF PushShape
    <3>3. lock[l] = t /\ ~Holds(f, l)
      BY <1>10, <1>3, <1>6, <3>2
    <3>4. lock'[l] = t /\ ~Holds(g, l)
      BY <1>2, <1>4, <3>3 DEF LockStep
    <3> QED
      BY <1>10, <3>1, <3>2, <3>3, <3>4
  <2> QED
    BY <1>1, <2>1, <2>2, <2>3 DEF PushShape
<1>11. Holds(g, l) => lock'[l] = t
  BY <1>3, <1>6, <1>4 DEF LockStep
<1>12. ASSUME NEW i \in DOMAIN stack'[t], Holds(stack'[t][i], l)
       PROVE  lock'[l] = t /\ \A j \in DOMAIN stack'[t] : Holds(stack'[t][j], l) => j = i
  <2>1. lock'[l] = t
    BY <1>10, <1>11, <1>12
  <2>2. ASSUME NEW j \in DOMAIN stack'[t], Holds(stack'[t][j], l) PROVE j = i
    <3>1. CASE Holds(g, l)
      BY <1>10, <1>12, <2>2, <3>1
    <3>2. CASE ~Holds(g, l)
      <4>1. PICK a \in DOMAIN stack[t] : i = a + n /\ Holds(stack[t][a], l)
        BY <1>10, <1>12, <3>2
      <4>2. PICK b \in DOMAIN stack[t] : j = b + n /\ Holds(stack[t][b], l)
        BY <1>10, <2>2, <3>2
      <4>3. a = b
        BY <1>6, <4>1, <4>2
      <4> QED
        BY <4>1, <4>2, <4>3
    <3> QED
      BY <3>1, <3>2
  <2> QED
    BY <2>1, <2>2
<1>13. ASSUME NEW i \in DOMAIN stack[t], Within(stack[t][i], l)
       PROVE  \E j \in 2..Len(stack[t]) : j > i /\ Holds(stack[t][j], l) /\ j + n \in DOMAIN stack'[t]
                                          /\ stack'[t][j + n] = stack[t][j]
  <2>1. PICK j \in DOMAIN stack[t] : j > i /\ Holds(stack[t][j], l)
    BY <1>6, <1>13
  <2>2. j \in 2..Len(stack[t]) /\ j + n \in DOMAIN stack'[t]
    BY <1>1, <2>1 DEF PushShape
  <2> QED
    BY <1>1, <2>1, <2>2 DEF PushShape
<1>14. ASSUME NEW i \in DOMAIN stack'[t], Within(stack'[t][i], l)
       PROVE  \E j \in DOMAIN stack'[t] : j > i /\ Holds(stack'[t][j], l)
  <2>1. i \in Nat /\ n \in Nat
    BY <1>1 DEF PushShape
  <2>2. CASE i \in 1..n
    <3>1. CASE Holds(g, l)
      <4> n + 1 \in DOMAIN stack'[t] /\ n + 1 > i /\ stack'[t][n + 1] = g
        BY <1>1, <2>2 DEF PushShape
      <4> QED
        BY <3>1
    <3>2. CASE Within(f, l)
      <4>1. PICK j \in 2..Len(stack[t]) : /\ Holds(stack[t][j], l) /\ j + n \in DOMAIN stack'[t]
                                          /\ stack'[t][j + n] = stack[t][j]
        BY <1>13, <1>3, <3>2
      <4> j + n > i
        BY <2>1, <2>2
      <4> QED
        BY <4>1
    <3> QED
      BY <1>1, <1>14, <1>5, <2>2, <3>1, <3>2 DEF PushShape
  <2>3. CASE i = n + 1
    <3>1. Within(f, l)
      BY <1>1, <1>14, <1>7, <2>3 DEF PushShape
    <3>2. PICK j \in 2..Len(stack[t]) : /\ Holds(stack[t][j], l) /\ j + n \in DOMAIN stack'[t]
                                        /\ stack'[t][j + n] = stack[t][j]
      BY <1>13, <1>3, <3>1
    <3> j + n > i
      BY <2>1, <2>3
    <3> QED
      BY <3>2
  <2>4. CASE \E j \in 2..Len(stack[t]) : i = j + n
    <3>1. PICK k \in 2..Len(stack[t]) : i = k + n
      BY <2>4
    <3>2. stack'[t][i] = stack[t][k] /\ k \in DOMAIN stack[t]
      BY <1>1, <3>1 DEF PushShape
    <3>3. PICK j \in 2..Len(stack[t]) : /\ j > k /\ Holds(stack[t][j], l) /\ j + n \in DOMAIN stack'[t]
                                        /\ stack'[t][j + n] = stack[t][j]
      BY <1>13, <1>14, <3>2
    <3> j + n > i
      BY <2>1, <3>1, <3>3
    <3> QED
      BY <3>3
  <2> QED
    BY <1>1, <2>2, <2>3, <2>4 DEF PushShape
<1> QED
  BY <1>8, <1>9, <1>12, <1>14

\* What a return does with a lock.
LockLeft(f, l) ==
  \/ lock'[l] = lock[l] /\ ~Holds(f, l)
  \/ lock'[l] = None /\ Holds(f, l)

\* Who returns has released what it held.
LEMMA PopLocks ==
  ASSUME TypesOK, LocksOK, NEW t \in Thread, NEW f, NEW v, Pops(t, f, v),
         \A l \in HeldLock : LockLeft(f, l)
  PROVE  LocksOK'
<1>1. PopShape(t, v)
  BY PopShapes
<1> SUFFICES ASSUME NEW l \in HeldLock
             PROVE  \A u \in Thread : \A i \in DOMAIN stack'[u] :
                      /\ Holds(stack'[u][i], l) =>
                           /\ lock'[l] = u
                           /\ \A j \in DOMAIN stack'[u] : Holds(stack'[u][j], l) => j = i
                      /\ Within(stack'[u][i], l) =>
                           \E j \in DOMAIN stack'[u] : j > i /\ Holds(stack'[u][j], l)
  BY DEF LocksOK
<1>2. None \notin Thread
  BY ValuesOK
<1>3. f = stack[t][1] /\ 1 \in DOMAIN stack[t]
  BY <1>1 DEF Pops, PopShape
<1>4. \/ lock'[l] = lock[l] /\ ~Holds(f, l)
      \/ lock'[l] = None /\ Holds(f, l)
  BY DEF LockLeft
<1>5. \A u \in Thread : \A i \in DOMAIN stack[u] :
        /\ Holds(stack[u][i], l) => lock[l] = u /\ \A j \in DOMAIN stack[u] : Holds(stack[u][j], l) => j = i
        /\ Within(stack[u][i], l) => \E j \in DOMAIN stack[u] : j > i /\ Holds(stack[u][j], l)
  BY DEF LocksOK
<1>6. ASSUME NEW u \in Thread, u # t, NEW i \in DOMAIN stack'[u], Holds(stack'[u][i], l)
      PROVE  lock'[l] = u /\ \A j \in DOMAIN stack'[u] : Holds(stack'[u][j], l) => j = i
  <2>1. stack'[u] = stack[u] /\ i \in DOMAIN stack[u]
    BY <1>1, <1>6 DEF PopShape
  <2>2. lock[l] = u
    BY <1>6, <1>5, <2>1
  <2>3. ~Holds(f, l)
    BY <1>6, <1>3, <1>5, <2>2
  <2> QED
    BY <1>6, <1>5, <1>4, <2>1, <2>2, <2>3
<1>7. ASSUME NEW u \in Thread, u # t, NEW i \in DOMAIN stack'[u], Within(stack'[u][i], l)
      PROVE  \E j \in DOMAIN stack'[u] : j > i /\ Holds(stack'[u][j], l)
  BY <1>1, <1>7, <1>5 DEF PopShape
<1>8. ASSUME NEW i \in DOMAIN stack'[t]
      PROVE  i + 1 \in DOMAIN stack[t] /\ i + 1 # 1 /\ stack'[t][i] = stack[t][i + 1] /\ i \in Nat
  BY <1>1, <1>8 DEF PopShape
<1>9. ASSUME NEW i \in DOMAIN stack'[t], Holds(stack'[t][i], l)
      PROVE  lock'[l] = t /\ \A j \in DOMAIN stack'[t] : Holds(stack'[t][j], l) => j = i
  <2>1. Holds(stack[t][i + 1], l) /\ i + 1 \in DOMAIN stack[t] /\ i + 1 # 1
    BY <1>8, <1>9
  <2>2. lock[l] = t /\ ~Holds(f, l)
    BY <1>3, <1>5, <2>1
  <2>3. ASSUME NEW j \in DOMAIN stack'[t], Holds(stack'[t][j], l) PROVE j = i
    <3>1. Holds(stack[t][j + 1], l) /\ j + 1 \in DOMAIN stack[t]
      BY <1>8, <2>3
    <3>2. j + 1 = i + 1
      BY <1>5, <2>1, <3>1
    <3>3. i \in Nat /\ j \in Nat
      BY <1>8
    <3> QED
      BY <3>2, <3>3
  <2> QED
    BY <1>4, <2>2, <2>3
<1>10. ASSUME NEW i \in DOMAIN stack'[t], Within(stack'[t][i], l)
       PROVE  \E j \in DOMAIN stack'[t] : j > i /\ Holds(stack'[t][j], l)
  <2>1. Within(stack[t][i + 1], l) /\ i + 1 \in DOMAIN stack[t] /\ i \in Nat
    BY <1>8, <1>10
  <2>2. PICK j \in DOMAIN stack[t] : j > i + 1 /\ Holds(stack[t][j], l)
    BY <1>5, <2>1
  <2>3. j - 1 \in DOMAIN stack'[t] /\ j - 1 > i /\ (j - 1) + 1 = j
    BY <1>1, <2>1, <2>2 DEF PopShape
  <2>4. stack'[t][j - 1] = stack[t][j]
    BY <1>8, <2>3
  <2> QED
    BY <2>2, <2>3, <2>4
<1> QED
  BY <1>6, <1>7, <1>9, <1>10

\* Whoever releases a lock leaves no call behind that is made only under it.
LEMMA FirstHolds ==
  ASSUME TypesOK, LocksOK, NEW t \in Thread, stack[t] # <<>>, NEW f, f = stack[t][1],
         NEW l \in HeldLock, Holds(f, l)
  PROVE  \A u \in Thread : \A i \in DOMAIN stack[u] :
           ~Within(stack[u][i], l) /\ (Holds(stack[u][i], l) => u = t /\ i = 1)
<1>1. stack[t] \in Seq(Record) /\ 1 \in DOMAIN stack[t] /\ DOMAIN stack[t] = 1..Len(stack[t])
  BY EmptySeq, LenProperties DEF TypesOK
<1>2. ASSUME NEW u \in Thread, NEW i \in DOMAIN stack[u], Holds(stack[u][i], l) PROVE u = t /\ i = 1
  BY <1>1, <1>2 DEF LocksOK
<1>3. ASSUME NEW u \in Thread, NEW i \in DOMAIN stack[u], Within(stack[u][i], l) PROVE FALSE
  <2>1. PICK j \in DOMAIN stack[u] : j > i /\ Holds(stack[u][j], l)
    BY <1>3 DEF LocksOK
  <2>2. u = t /\ j = 1
    BY <1>2, <2>1
  <2>3. i \in 1..Len(stack[t])
    BY <1>1, <2>2
  <2> QED
    BY <2>1, <2>2, <2>3
<1> QED
  BY <1>2, <1>3

\* A prototype that is not cross-linked is being made.
LEMMA PushLinks ==
  ASSUME TypesOK, LinksOK, Grows, NEW t \in Thread, NEW f, NEW g, NEW n, NEW fs, Pushes(t, f, g, n, fs),
         Makes(f) => Makes(g),
         \A T \in Type : prototypes'[T] # None => prototypes[T] # None \/ (Makes(g) /\ g.on = T)
  PROVE  LinksOK'
<1>1. PushShape(t, g, n, fs)
  BY PushShapes
<1> SUFFICES ASSUME NEW T \in Type, prototypes'[T] # None, prototypes'[T] \notin linked'
             PROVE  \E u \in Thread : \E i \in DOMAIN stack'[u] :
                      Makes(stack'[u][i]) /\ stack'[u][i].on = T
  BY DEF LinksOK
<1>2. n + 1 \in DOMAIN stack'[t] /\ stack'[t][n + 1] = g
  BY <1>1 DEF PushShape
<1>3. CASE Makes(g) /\ g.on = T
  BY <1>2, <1>3
<1>4. CASE prototypes[T] # None /\ ~(Makes(g) /\ g.on = T)
  <2>1. prototypes[T] \notin linked
    BY <1>4 DEF Grows
  <2>2. PICK u \in Thread : \E i \in DOMAIN stack[u] : Makes(stack[u][i]) /\ stack[u][i].on = T
    BY <1>4, <2>1 DEF LinksOK
  <2>3. PICK i \in DOMAIN stack[u] : Makes(stack[u][i]) /\ stack[u][i].on = T
    BY <2>2
  <2>4. CASE u # t
    BY <1>1, <2>3, <2>4 DEF PushShape
  <2>5. CASE u = t
    <3>1. i # 1
      BY <1>4, <2>3, <2>5 DEF Pushes
    <3>2. i \in 2..Len(stack[t]) /\ i + n \in DOMAIN stack'[t]
      BY <1>1, <2>3, <2>5, <3>1 DEF PushShape
    <3>3. stack'[t][i + n] = stack[t][i]
      BY <1>1, <3>2 DEF PushShape
    <3> QED
      BY <2>3, <2>5, <3>2, <3>3
  <2> QED
    BY <2>4, <2>5
<1> QED
  BY <1>3, <1>4

\* Who returns from making one has cross-linked it.
LEMMA PopLinks ==
  ASSUME TypesOK, LinksOK, Grows, NEW t \in Thread, NEW f, NEW v, Pops(t, f, v),
         \A T \in Type : prototypes'[T] # None => prototypes[T] # None,
         Makes(f) => prototypes'[f.on] = None \/ prototypes'[f.on] \in linked'
  PROVE  LinksOK'
<1>1. PopShape(t, v)
  BY PopShapes
<1> SUFFICES ASSUME NEW T \in Type, prototypes'[T] # None, prototypes'[T] \notin linked'
             PROVE  \E u \in Thread : \E i \in DOMAIN stack'[u] :
                      Makes(stack'[u][i]) /\ stack'[u][i].on = T
  BY DEF LinksOK
<1>2. prototypes[T] # None /\ prototypes[T] \notin linked
  BY DEF Grows
<1>3. PICK u \in Thread : \E i \in DOMAIN stack[u] : Makes(stack[u][i]) /\ stack[u][i].on = T
  BY <1>2 DEF LinksOK
<1>4. PICK i \in DOMAIN stack[u] : Makes(stack[u][i]) /\ stack[u][i].on = T
  BY <1>3
<1>5. CASE u # t
  BY <1>1, <1>4, <1>5 DEF PopShape
<1>6. CASE u = t
  <2>1. i # 1
    BY <1>4, <1>6 DEF Pops
  <2>2. i - 1 \in 1..Len(stack[t]) - 1 /\ i - 1 \in DOMAIN stack'[t] /\ (i - 1) + 1 = i
    BY <1>1, <1>4, <1>6, <2>1 DEF PopShape
  <2>3. stack'[t][i - 1] = stack[t][i]
    BY <1>1, <2>2 DEF PopShape
  <2> QED
    BY <1>4, <1>6, <2>2, <2>3
<1> QED
  BY <1>5, <1>6

\* Answers that were given stay right.
LEMMA KeptAnswers ==
  ASSUME AnswersOK, Grows, answers' = answers
  PROVE  AnswersOK'
<1> SUFFICES ASSUME NEW x \in answers PROVE x[1] \in Question /\ ResultOK(x[1].op, x[1].on, x[2])'
  BY DEF AnswersOK
<1>1. ResultOK(x[1].op, x[1].on, x[2]) /\ x[1] \in Question
  BY DEF AnswersOK
<1> QED
  BY <1>1, ResultStays

\* And the one that is given to the outside when the last call returns is right.
LEMMA PopAnswers ==
  ASSUME TypesOK, OuterOK, AnswersOK, Grows, NEW t \in Thread, NEW f, NEW v, Pops(t, f, v),
         ResultOK(f.op, f.on, v)'
  PROVE  AnswersOK'
<1> SUFFICES ASSUME NEW x \in answers' PROVE x[1] \in Question /\ ResultOK(x[1].op, x[1].on, x[2])'
  BY DEF AnswersOK
<1>1. CASE x \in answers
  <2>1. ResultOK(x[1].op, x[1].on, x[2]) /\ x[1] \in Question
    BY <1>1 DEF AnswersOK
  <2> QED
    BY <2>1, ResultStays
<1>2. CASE x \notin answers
  <2>1. Len(stack[t]) = 1 /\ x = <<asked[t], v>>
    BY <1>2 DEF Pops
  <2>2. asked[t] \in Question /\ f.op = asked[t].op /\ f.on = asked[t].on
    BY <2>1 DEF OuterOK, Pops
  <2>3. x[1] = asked[t] /\ x[2] = v
    BY <2>1
  <2>4. PICK q : q = asked[t]
    OBVIOUS
  <2> QED
    BY <2>2, <2>3, <2>4
<1> QED
  BY <1>1, <1>2

\* Where the calls of the old stacks are now, and where those of the new ones were.
LEMMA PushKeeps ==
  ASSUME TypesOK, NEW t \in Thread, NEW f, NEW g, NEW n, NEW fs, Pushes(t, f, g, n, fs)
  PROVE  /\ n \in Nat /\ f = stack[t][1] /\ 1 \in DOMAIN stack[t]
         /\ n + 1 \in DOMAIN stack'[t] /\ stack'[t][n + 1] = g
         /\ \A k \in 1..n : k \in DOMAIN stack'[t] /\ stack'[t][k] = fs[k]
         /\ \A u \in Thread : \A j \in DOMAIN stack[u] :
              \/ u = t /\ j = 1
              \/ (IF u = t THEN j + n ELSE j) \in DOMAIN stack'[u]
                 /\ stack'[u][IF u = t THEN j + n ELSE j] = stack[u][j]
         /\ \A u \in Thread : \A i \in DOMAIN stack'[u] :
              \/ u = t /\ i \in 1..n /\ stack'[u][i] = fs[i]
              \/ u = t /\ i = n + 1 /\ stack'[u][i] = g
              \/ \E j \in DOMAIN stack[u] :
                   i = (IF u = t THEN j + n ELSE j) /\ (u = t => j # 1) /\ stack'[u][i] = stack[u][j]
<1>1. PushShape(t, g, n, fs)
  BY PushShapes
<1>2. ASSUME NEW u \in Thread, NEW j \in DOMAIN stack[u]
      PROVE  \/ u = t /\ j = 1
             \/ (IF u = t THEN j + n ELSE j) \in DOMAIN stack'[u]
                 /\ stack'[u][IF u = t THEN j + n ELSE j] = stack[u][j]
  <2>1. CASE u # t
    BY <1>1, <2>1 DEF PushShape
  <2>2. CASE u = t /\ j # 1
    <3>1. j \in 2..Len(stack[t]) /\ j + n \in DOMAIN stack'[t]
      BY <1>1, <2>2 DEF PushShape
    <3>2. stack'[t][j + n] = stack[t][j]
      BY <1>1, <3>1 DEF PushShape
    <3> QED
      BY <2>2, <3>1, <3>2
  <2> QED
    BY <2>1, <2>2
<1>3. ASSUME NEW u \in Thread, NEW i \in DOMAIN stack'[u]
      PROVE  \/ u = t /\ i \in 1..n /\ stack'[u][i] = fs[i]
             \/ u = t /\ i = n + 1 /\ stack'[u][i] = g
             \/ \E j \in DOMAIN stack[u] :
                  i = (IF u = t THEN j + n ELSE j) /\ (u = t => j # 1) /\ stack'[u][i] = stack[u][j]
  <2>1. CASE u # t
    BY <1>1, <2>1 DEF PushShape
  <2>2. CASE u = t /\ i \in 1..n
    BY <1>1, <2>2 DEF PushShape
  <2>3. CASE u = t /\ i = n + 1
    BY <1>1, <2>3 DEF PushShape
  <2>4. CASE u = t /\ \E j \in 2..Len(stack[t]) : i = j + n
    <3>1. PICK j \in 2..Len(stack[t]) : i = j + n
      BY <2>4
    <3>2. stack'[t][i] = stack[t][j] /\ j \in DOMAIN stack[t] /\ j # 1
      BY <1>1, <3>1 DEF PushShape
    <3> QED
      BY <2>4, <3>1, <3>2
  <2> QED
    BY <1>1, <2>1, <2>2, <2>3, <2>4 DEF PushShape
<1>4. /\ n \in Nat /\ f = stack[t][1] /\ 1 \in DOMAIN stack[t]
      /\ n + 1 \in DOMAIN stack'[t] /\ stack'[t][n + 1] = g
      /\ \A k \in 1..n : k \in DOMAIN stack'[t] /\ stack'[t][k] = fs[k]
  BY <1>1 DEF PushShape, Pushes
<1> QED
  BY <1>2, <1>3, <1>4

\* The calls after a return are the ones before it without the first.
LEMMA PopKeeps ==
  ASSUME TypesOK, NEW t \in Thread, NEW f, NEW v, Pops(t, f, v)
  PROVE  /\ f = stack[t][1] /\ 1 \in DOMAIN stack[t]
         /\ \A u \in Thread : \A j \in DOMAIN stack[u] :
              \/ u = t /\ j = 1
              \/ \E i \in DOMAIN stack'[u] :
                   j = (IF u = t THEN i + 1 ELSE i) /\ i \in Nat /\ stack'[u][i] = stack[u][j]
         /\ \A u \in Thread : \A i \in DOMAIN stack'[u] : \E j \in DOMAIN stack[u] :
              /\ j = (IF u = t THEN i + 1 ELSE i) /\ (u = t => j # 1) /\ stack'[u][i] = stack[u][j]
              /\ i \in Nat
<1>1. PopShape(t, v)
  BY PopShapes
<1>2. ASSUME NEW u \in Thread PROVE DOMAIN stack[u] \subseteq Nat
  <2> stack[u] \in Seq(Record)
    BY DEF TypesOK
  <2> QED
    BY LenProperties
<1>3. ASSUME NEW u \in Thread, NEW j \in DOMAIN stack[u]
      PROVE  \/ u = t /\ j = 1
             \/ \E i \in DOMAIN stack'[u] :
                  j = (IF u = t THEN i + 1 ELSE i) /\ i \in Nat /\ stack'[u][i] = stack[u][j]
  <2>1. CASE u # t
    BY <1>1, <1>2, <2>1 DEF PopShape
  <2>2. CASE u = t /\ j # 1
    <3>1. j - 1 \in 1..Len(stack[t]) - 1 /\ j - 1 \in DOMAIN stack'[t] /\ (j - 1) + 1 = j /\ j - 1 \in Nat
      BY <1>1, <2>2 DEF PopShape
    <3>2. stack'[t][j - 1] = stack[t][j]
      BY <1>1, <3>1 DEF PopShape
    <3> QED
      BY <2>2, <3>1, <3>2
  <2> QED
    BY <2>1, <2>2
<1>4. ASSUME NEW u \in Thread, NEW i \in DOMAIN stack'[u]
      PROVE  \E j \in DOMAIN stack[u] :
               /\ j = (IF u = t THEN i + 1 ELSE i) /\ (u = t => j # 1) /\ stack'[u][i] = stack[u][j]
               /\ i \in Nat
  <2>1. CASE u # t
    BY <1>1, <1>2, <2>1 DEF PopShape
  <2>2. CASE u = t
    <3> i + 1 \in DOMAIN stack[t] /\ i + 1 # 1 /\ stack'[t][i] = stack[t][i + 1] /\ i \in Nat
      BY <1>1, <2>2 DEF PopShape
    <3> QED
      BY <2>2
  <2> QED
    BY <2>1, <2>2
<1>5. f = stack[t][1] /\ 1 \in DOMAIN stack[t]
  BY <1>1 DEF PopShape, Pops
<1> QED
  BY <1>3, <1>4, <1>5

AddTables == <<initialized, database, registered>>

\* Who calls anything but AddDescriptors leaves what is said of files in the making.
LEMMA PushAdds ==
  ASSUME TypesOK, AddsOK, NEW t \in Thread, NEW f, NEW g, NEW n, NEW fs, Pushes(t, f, g, n, fs),
         UNCHANGED AddTables, g.op # "add", \A k \in 1..n : fs[k].op = "add" => fs[k].at = "start"
  PROVE  AddsOK'
<1>1. initialized' = initialized /\ database' = database /\ registered' = registered
  BY DEF AddTables
<1>2. f.op # "add" /\ ~Adds(g) /\ \A k \in 1..n : ~Adds(fs[k])
  BY DEF Adds, Pushes
<1>3. ASSUME NEW u \in Thread, NEW j \in DOMAIN stack[u], stack[u][j].op = "add"
      PROVE  \E i \in DOMAIN stack'[u] : stack'[u][i] = stack[u][j]
  BY <1>2, <1>3, PushKeeps
<1>4. ASSUME NEW u \in Thread, NEW i \in DOMAIN stack'[u], Adds(stack'[u][i])
      PROVE  \E j \in DOMAIN stack[u] : i = (IF u = t THEN j + n ELSE j) /\ stack'[u][i] = stack[u][j]
  BY <1>2, <1>4, PushKeeps
<1>5. \A F \in initialized : F \in registered \/ \E u \in Thread : \E i \in DOMAIN stack'[u] :
        Adds(stack'[u][i]) /\ stack'[u][i].on = F
  <2> TAKE F \in initialized
  <2> SUFFICES ASSUME F \notin registered
               PROVE  \E u \in Thread : \E i \in DOMAIN stack'[u] : Adds(stack'[u][i]) /\ stack'[u][i].on = F
    OBVIOUS
  <2>1. PICK u \in Thread : \E j \in DOMAIN stack[u] : Adds(stack[u][j]) /\ stack[u][j].on = F
    BY DEF AddsOK
  <2>2. PICK j \in DOMAIN stack[u] : Adds(stack[u][j]) /\ stack[u][j].on = F
    BY <2>1
  <2> QED
    BY <1>3, <2>2 DEF Adds
<1>6. \A F \in initialized \cap Lazy : \A G \in ToSet(Deps[F]) :
        G \in initialized \/ \E u \in Thread : \E i \in DOMAIN stack'[u] :
          stack'[u][i].op = "add" /\ stack'[u][i].on = G
  <2> TAKE F \in initialized \cap Lazy
  <2> TAKE G \in ToSet(Deps[F])
  <2> SUFFICES ASSUME G \notin initialized
               PROVE  \E u \in Thread : \E i \in DOMAIN stack'[u] :
                        stack'[u][i].op = "add" /\ stack'[u][i].on = G
    OBVIOUS
  <2>1. PICK u \in Thread : \E j \in DOMAIN stack[u] : stack[u][j].op = "add" /\ stack[u][j].on = G
    BY DEF AddsOK
  <2>2. PICK j \in DOMAIN stack[u] : stack[u][j].op = "add" /\ stack[u][j].on = G
    BY <2>1
  <2> QED
    BY <1>3, <2>2
<1>7. ASSUME NEW u \in Thread, NEW i \in DOMAIN stack'[u], Adds(stack'[u][i]), NEW F, F = stack'[u][i].on
      PROVE  /\ F \in initialized /\ F \notin registered
             /\ F \in database <=> stack'[u][i].at = "files"
             /\ \A w \in Thread : \A k \in DOMAIN stack'[w] :
                  Adds(stack'[w][k]) /\ stack'[w][k].on = F => w = u /\ k = i
  <2>1. PICK j \in DOMAIN stack[u] : i = (IF u = t THEN j + n ELSE j) /\ stack'[u][i] = stack[u][j]
    BY <1>4, <1>7
  <2>2. ASSUME NEW w \in Thread, NEW k \in DOMAIN stack'[w], Adds(stack'[w][k]), stack'[w][k].on = F
        PROVE  w = u /\ k = i
    <3>1. PICK m \in DOMAIN stack[w] : k = (IF w = t THEN m + n ELSE m) /\ stack'[w][k] = stack[w][m]
      BY <1>4, <2>2
    <3>2. w = u /\ m = j
      BY <1>7, <2>1, <2>2, <3>1 DEF AddsOK
    <3> QED
      BY <2>1, <3>1, <3>2
  <2> QED
    BY <1>7, <2>1, <2>2 DEF AddsOK
<1> QED
  BY <1>1, <1>5, <1>6, <1>7 DEF AddsOK

\* The same of a return.
LEMMA PopAdds ==
  ASSUME TypesOK, AddsOK, NEW t \in Thread, NEW f, NEW v, Pops(t, f, v),
         UNCHANGED AddTables, ~Adds(f), f.op = "add" => f.on \in initialized
  PROVE  AddsOK'
<1>1. initialized' = initialized /\ database' = database /\ registered' = registered
  BY DEF AddTables
<1>2. ASSUME NEW u \in Thread, NEW j \in DOMAIN stack[u]
      PROVE  (u = t /\ stack[u][j] = f) \/ \E i \in DOMAIN stack'[u] : stack'[u][i] = stack[u][j]
  BY <1>2, PopKeeps
<1>3. ASSUME NEW u \in Thread, NEW i \in DOMAIN stack'[u]
      PROVE  \E j \in DOMAIN stack[u] :
               j = (IF u = t THEN i + 1 ELSE i) /\ stack'[u][i] = stack[u][j] /\ i \in Nat
  BY <1>3, PopKeeps
<1>4. \A F \in initialized : F \in registered \/ \E u \in Thread : \E i \in DOMAIN stack'[u] :
        Adds(stack'[u][i]) /\ stack'[u][i].on = F
  <2> TAKE F \in initialized
  <2> SUFFICES ASSUME F \notin registered
               PROVE  \E u \in Thread : \E i \in DOMAIN stack'[u] : Adds(stack'[u][i]) /\ stack'[u][i].on = F
    OBVIOUS
  <2>1. PICK u \in Thread : \E j \in DOMAIN stack[u] : Adds(stack[u][j]) /\ stack[u][j].on = F
    BY DEF AddsOK
  <2>2. PICK j \in DOMAIN stack[u] : Adds(stack[u][j]) /\ stack[u][j].on = F
    BY <2>1
  <2> QED
    BY <1>2, <2>2
<1>5. \A F \in initialized \cap Lazy : \A G \in ToSet(Deps[F]) :
        G \in initialized \/ \E u \in Thread : \E i \in DOMAIN stack'[u] :
          stack'[u][i].op = "add" /\ stack'[u][i].on = G
  <2> TAKE F \in initialized \cap Lazy
  <2> TAKE G \in ToSet(Deps[F])
  <2> SUFFICES ASSUME G \notin initialized
               PROVE  \E u \in Thread : \E i \in DOMAIN stack'[u] :
                        stack'[u][i].op = "add" /\ stack'[u][i].on = G
    OBVIOUS
  <2>1. PICK u \in Thread : \E j \in DOMAIN stack[u] : stack[u][j].op = "add" /\ stack[u][j].on = G
    BY DEF AddsOK
  <2>2. PICK j \in DOMAIN stack[u] : stack[u][j].op = "add" /\ stack[u][j].on = G
    BY <2>1
  <2> QED
    BY <1>2, <2>2
<1>6. ASSUME NEW u \in Thread, NEW i \in DOMAIN stack'[u], Adds(stack'[u][i]), NEW F, F = stack'[u][i].on
      PROVE  /\ F \in initialized /\ F \notin registered
             /\ F \in database <=> stack'[u][i].at = "files"
             /\ \A w \in Thread : \A k \in DOMAIN stack'[w] :
                  Adds(stack'[w][k]) /\ stack'[w][k].on = F => w = u /\ k = i
  <2>1. PICK j \in DOMAIN stack[u] :
          j = (IF u = t THEN i + 1 ELSE i) /\ stack'[u][i] = stack[u][j] /\ i \in Nat
    BY <1>3
  <2>2. ASSUME NEW w \in Thread, NEW k \in DOMAIN stack'[w], Adds(stack'[w][k]), stack'[w][k].on = F
        PROVE  w = u /\ k = i
    <3>1. PICK m \in DOMAIN stack[w] :
            m = (IF w = t THEN k + 1 ELSE k) /\ stack'[w][k] = stack[w][m] /\ k \in Nat
      BY <1>3
    <3>2. w = u /\ m = j
      BY <1>6, <2>1, <2>2, <3>1 DEF AddsOK
    <3> QED
      BY <2>1, <3>1, <3>2
  <2> QED
    BY <1>6, <2>1, <2>2 DEF AddsOK
<1> QED
  BY <1>1, <1>4, <1>5, <1>6 DEF AddsOK

\* RegisterFileLevelMetadata is called right under the call that holds the factory's mutex.
LEMMA PushRegisters ==
  ASSUME TypesOK, RegistersOK, NEW t \in Thread, NEW f, NEW g, NEW n, NEW fs, Pushes(t, f, g, n, fs),
         f.op # "register",
         \A T \in Type : type_map[T] = None => type_map'[T] = None,
         \A k \in 1..n : fs[k].op = "register" =>
           /\ k = n /\ Holds(g, "factory")
           /\ \A T \in Type : FileOf[T] = fs[k].on => type_map'[T] = None
  PROVE  RegistersOK'
<1> SUFFICES ASSUME NEW u \in Thread, NEW i \in DOMAIN stack'[u], stack'[u][i].op = "register"
             PROVE  /\ i + 1 \in DOMAIN stack'[u] /\ Holds(stack'[u][i + 1], "factory")
                    /\ \A T \in Type : FileOf[T] = stack'[u][i].on => type_map'[T] = None
  BY DEF RegistersOK
<1>1. n \in Nat /\ n + 1 \in DOMAIN stack'[t] /\ stack'[t][n + 1] = g
  BY PushKeeps
<1>2. g.op = f.op
  BY DEF Pushes
<1>3. CASE u = t /\ i \in 1..n /\ stack'[u][i] = fs[i]
  BY <1>1, <1>3
<1>4. CASE \E j \in DOMAIN stack[u] :
             i = (IF u = t THEN j + n ELSE j) /\ (u = t => j # 1) /\ stack'[u][i] = stack[u][j]
  <2>1. PICK j \in DOMAIN stack[u] :
          i = (IF u = t THEN j + n ELSE j) /\ (u = t => j # 1) /\ stack'[u][i] = stack[u][j]
    BY <1>4
  <2>2. /\ j + 1 \in DOMAIN stack[u] /\ Holds(stack[u][j + 1], "factory")
        /\ \A T \in Type : FileOf[T] = stack[u][j].on => type_map[T] = None
    BY <2>1 DEF RegistersOK
  <2>3. PICK m : m = j + 1
    OBVIOUS
  <2>4. j \in Nat /\ j # 0
    <3> stack[u] \in Seq(Record)
      BY DEF TypesOK
    <3> QED
      BY LenProperties
  <2>5. m # 1 /\ (IF u = t THEN m + n ELSE m) = i + 1
    BY <1>1, <2>1, <2>3, <2>4
  <2>6. i + 1 \in DOMAIN stack'[u] /\ stack'[u][i + 1] = stack[u][m]
    BY <2>2, <2>3, <2>5, PushKeeps
  <2> QED
    BY <2>1, <2>2, <2>3, <2>6
<1>5. CASE u = t /\ i = n + 1 /\ stack'[u][i] = g
  BY <1>2, <1>5
<1> QED
  BY <1>3, <1>4, <1>5, PushKeeps

\* The types of a file that is being registered stay unregistered until that call returns.
LEMMA PopRegisters ==
  ASSUME TypesOK, RegistersOK, NEW t \in Thread, NEW f, NEW v, Pops(t, f, v),
         \A T \in Type : type_map[T] = None => type_map'[T] = None
  PROVE  RegistersOK'
<1> SUFFICES ASSUME NEW u \in Thread, NEW i \in DOMAIN stack'[u], stack'[u][i].op = "register"
             PROVE  /\ i + 1 \in DOMAIN stack'[u] /\ Holds(stack'[u][i + 1], "factory")
                    /\ \A T \in Type : FileOf[T] = stack'[u][i].on => type_map'[T] = None
  BY DEF RegistersOK
<1>1. PICK j \in DOMAIN stack[u] :
        /\ j = (IF u = t THEN i + 1 ELSE i) /\ (u = t => j # 1) /\ stack'[u][i] = stack[u][j]
        /\ i \in Nat
  BY PopKeeps
<1>2. /\ j + 1 \in DOMAIN stack[u] /\ Holds(stack[u][j + 1], "factory")
      /\ \A T \in Type : FileOf[T] = stack[u][j].on => type_map[T] = None
  BY <1>1 DEF RegistersOK
<1>3. PICK m : m = j + 1
  OBVIOUS
<1>4. j \in Nat /\ j # 0
  <2> stack[u] \in Seq(Record)
    BY DEF TypesOK
  <2> QED
    BY LenProperties
<1>5. m # 1 /\ m \in DOMAIN stack[u]
  BY <1>2, <1>3, <1>4
<1>6. PICK k \in DOMAIN stack'[u] :
        m = (IF u = t THEN k + 1 ELSE k) /\ k \in Nat /\ stack'[u][k] = stack[u][m]
  BY <1>5, PopKeeps
<1>7. k = i + 1
  BY <1>1, <1>3, <1>4, <1>6
<1> QED
  BY <1>1, <1>2, <1>3, <1>6, <1>7

\* Nobody enters a number while another creates the value for it.
LEMMA PushCreates ==
  ASSUME TypesOK, CreatesOK, NEW t \in Thread, NEW f, NEW g, NEW n, NEW fs, Pushes(t, f, g, n, fs),
         UNCHANGED unknown, Holds(g, "unknown") => unknown[g.on] = None,
         \A k \in 1..n : ~Holds(fs[k], "unknown")
  PROVE  CreatesOK'
<1> SUFFICES ASSUME NEW u \in Thread, NEW i \in DOMAIN stack'[u], Holds(stack'[u][i], "unknown")
             PROVE  unknown'[stack'[u][i].on] = None
  BY DEF CreatesOK
<1> QED
  BY PushKeeps DEF CreatesOK

\* The same of a return.
LEMMA PopCreates ==
  ASSUME TypesOK, CreatesOK, NEW t \in Thread, NEW f, NEW v, Pops(t, f, v), UNCHANGED unknown
  PROVE  CreatesOK'
<1> SUFFICES ASSUME NEW u \in Thread, NEW i \in DOMAIN stack'[u], Holds(stack'[u][i], "unknown")
             PROVE  unknown'[stack'[u][i].on] = None
  BY DEF CreatesOK
<1> QED
  BY PopKeeps DEF CreatesOK

(* All parts at once, for a step that touches neither the tables of files, nor   *)
(* the prototypes that were entered, nor the unknown values.                     *)

\* The k-th of the new calls fs may stand where it stands.
NewCall(f, g, n, fs, k) ==
  /\ Waits(fs[k]) => k # 1 /\ fs[k - 1].op = AwaitedOp(fs[k]) /\ fs[k - 1].on = AwaitedOn(fs[k])
  /\ NeedsPool(fs[k]) =>
       \A F \in Lazy : F \in assigned \/ \E j \in 1..k - 1 : fs[j].op = "assign" /\ fs[j].on = F
  /\ fs[k].op # "unknown"
  /\ \A l \in HeldLock : ~Holds(fs[k], l) /\ (Within(fs[k], l) => Holds(g, l) \/ Within(f, l))
  /\ fs[k].op = "register" =>
       k = n /\ Holds(g, "factory") /\ \A T \in Type : FileOf[T] = fs[k].on => type_map[T] = None

\* The call g may go on after them.
GoesOn(t, f, g, n, fs) ==
  /\ Waits(g) => IF n = 0 THEN ResultOK(AwaitedOp(g), AwaitedOn(g), ret[t])
                 ELSE fs[n].op = AwaitedOp(g) /\ fs[n].on = AwaitedOn(g)
  /\ NeedsPool(g) =>
       \A F \in Lazy : F \in assigned \/ \E j \in 1..n : fs[j].op = "assign" /\ fs[j].on = F
  /\ \A l \in HeldLock : LockStep(t, f, g, l)
  /\ Holds(g, "unknown") => unknown[g.on] = None
  /\ g.op # "register"
  /\ Makes(f) => Makes(g)

Calling == CallsOK /\ WaitsOK /\ NeedsOK /\ OuterOK /\ LocksOK /\ LinksOK /\ AnswersOK

\* What is said of calls holds after a step that makes some.
LEMMA PushStep ==
  ASSUME TypesOK, Calling, RegistersOK, CreatesOK, Grows,
         NEW t \in Thread, NEW f, NEW g, NEW n, NEW fs, Pushes(t, f, g, n, fs),
         CallOK(g)', \A k \in 1..n : CallOK(fs[k])',
         GoesOn(t, f, g, n, fs), \A k \in 1..n : NewCall(f, g, n, fs, k),
         UNCHANGED <<type_map, unknown>>,
         \A T \in Type : prototypes'[T] # None => prototypes[T] # None \/ (Makes(g) /\ g.on = T)
  PROVE  Calling' /\ RegistersOK' /\ CreatesOK'
<1>1. CallsOK'
  BY PushCalls DEF Calling
<1>2. WaitsOK'
  <2>1. \A k \in 1..n : Waits(fs[k]) =>
          k # 1 /\ fs[k - 1].op = AwaitedOp(fs[k]) /\ fs[k - 1].on = AwaitedOn(fs[k])
    BY DEF NewCall
  <2>2. Waits(g) => IF n = 0 THEN ResultOK(AwaitedOp(g), AwaitedOn(g), ret[t])'
                    ELSE fs[n].op = AwaitedOp(g) /\ fs[n].on = AwaitedOn(g)
    <3>1. PICK op, on, v : op = AwaitedOp(g) /\ on = AwaitedOn(g) /\ v = ret[t]
      OBVIOUS
    <3>2. ResultOK(op, on, v) => ResultOK(op, on, v)'
      BY ResultStays
    <3>3. ret' = ret
      BY DEF Pushes
    <3> QED
      BY <3>1, <3>2, <3>3 DEF GoesOn
  <2> QED
    BY <2>1, <2>2, PushWaits DEF Calling
<1>3. NeedsOK'
  <2>1. \A k \in 1..n : NeedsPool(fs[k]) =>
          \A F \in Lazy : F \in assigned' \/ \E j \in 1..k - 1 : fs[j].op = "assign" /\ fs[j].on = F
    BY DEF NewCall, Grows
  <2>2. NeedsPool(g) =>
          \A F \in Lazy : F \in assigned' \/ \E j \in 1..n : fs[j].op = "assign" /\ fs[j].on = F
    BY DEF GoesOn, Grows
  <2> QED
    BY <2>1, <2>2, PushNeeds DEF Calling
<1>4. OuterOK'
  BY PushOuter DEF Calling, NewCall
<1>5. LocksOK'
  <2>1. \A k \in 1..n, l \in HeldLock :
          ~Holds(fs[k], l) /\ (Within(fs[k], l) => Holds(g, l) \/ Within(f, l))
    BY DEF NewCall
  <2>2. \A l \in HeldLock : LockStep(t, f, g, l)
    BY DEF GoesOn
  <2> QED
    BY <2>1, <2>2, PushLocks DEF Calling
<1>6. LinksOK'
  BY PushLinks DEF Calling, GoesOn
<1>7. AnswersOK'
  BY KeptAnswers DEF Calling, Pushes
<1>8. RegistersOK'
  <2>1. f.op # "register"
    BY DEF GoesOn, Pushes
  <2>2. \A k \in 1..n : fs[k].op = "register" =>
           /\ k = n /\ Holds(g, "factory")
           /\ \A T \in Type : FileOf[T] = fs[k].on => type_map'[T] = None
    BY DEF NewCall
  <2> QED
    BY <2>1, <2>2, PushRegisters
<1>9. CreatesOK'
  <2>1. \A k \in 1..n : ~Holds(fs[k], "unknown")
    BY DEF NewCall, HeldLock
  <2> QED
    BY <2>1, PushCreates DEF GoesOn
<1> QED
  BY <1>1, <1>2, <1>3, <1>4, <1>5, <1>6, <1>7, <1>8, <1>9 DEF Calling

\* And after one that returns.
LEMMA PopStep ==
  ASSUME TypesOK, Calling, Grows, NEW t \in Thread, NEW f, NEW v, Pops(t, f, v),
         ResultOK(f.op, f.on, v)', \A l \in HeldLock : LockLeft(f, l),
         UNCHANGED prototypes, Makes(f) => prototypes[f.on] \in linked'
  PROVE  Calling'
<1>1. CallsOK'
  BY PopCalls DEF Calling
<1>2. WaitsOK'
  BY PopWaits DEF Calling
<1>3. NeedsOK'
  BY PopNeeds DEF Calling
<1>4. OuterOK'
  BY PopOuter DEF Calling
<1>5. LocksOK'
  BY PopLocks DEF Calling
<1>6. LinksOK'
  BY PopLinks DEF Calling
<1>7. AnswersOK'
  BY PopAnswers DEF Calling
<1> QED
  BY <1>1, <1>2, <1>3, <1>4, <1>5, <1>6, <1>7 DEF Calling

(* The calls and returns of the model are these steps. *)

\* Enter of the model is such a call.
LEMMA EnterPushes ==
  ASSUME TypesOK, CallsOK, NEW t \in Thread, NEW frames, NEW at, at \in Places, stack[t] # <<>>,
         Enter(t, frames, at), frames \in Seq(Record),
         NEW f, f = Top(t), NEW g, g = [f EXCEPT !.at = at], NEW n, n = Len(frames)
  PROVE  /\ Pushes(t, f, g, n, frames) /\ CallOK(f) /\ f \in Record
         /\ g.op = f.op /\ g.on = f.on /\ g.at = at /\ (f.op = "make" => g.i = f.i /\ f.i \in Nat \ {0})
<1>1. stack[t] \in Seq(Record) /\ 1 \in DOMAIN stack[t] /\ Head(stack[t]) = stack[t][1]
  BY EmptySeq, LenProperties DEF TypesOK
<1>2. f = stack[t][1] /\ CallOK(f) /\ f \in Record
  BY <1>1 DEF CallsOK, CallOK, Top
<1>3. g \in Record /\ g.op = f.op /\ g.on = f.on /\ g.at = at /\ (f.op = "make" => g.i = f.i /\ f.i \in Nat \ {0})
  BY <1>2 DEF Record, Ops
<1>4. stack' = [stack EXCEPT ![t] = frames \o <<g>> \o Tail(stack[t])]
  BY <1>1, <1>2 DEF Enter
<1> QED
  BY <1>2, <1>3, <1>4 DEF Pushes, Enter

\* Return of the model is such a return.
LEMMA ReturnPops ==
  ASSUME TypesOK, CallsOK, NEW t \in Thread, NEW v, stack[t] # <<>>, Return(t, v), NEW f, f = Top(t)
  PROVE  Pops(t, f, v) /\ CallOK(f) /\ f \in Record
<1>1. stack[t] \in Seq(Record) /\ 1 \in DOMAIN stack[t] /\ Head(stack[t]) = stack[t][1]
  BY EmptySeq, LenProperties DEF TypesOK
<1>2. f = stack[t][1] /\ CallOK(f) /\ f \in Record
  BY <1>1 DEF CallsOK, CallOK, Top
<1> QED
  BY <1>2 DEF Pops, Return

(* A step that changes no more than stacks, locks and once flags. *)

OnceKept ==
  /\ once' \in [File \cup Pair -> {"new", "none", "done"} \cup Thread]
  /\ \A p \in Pair : once'[p] \in {"none", "done"} => once[p] \in {"none", "done"}
  /\ \A F \in File : once'[F] = "done" => once[F] = "done"

\* A step that leaves the tables teaches the program nothing, and takes nothing from it.
LEMMA QuietGrows ==
  ASSUME UNCHANGED <<tables, pool, caches>>
  PROVE  Grows
BY DEF Grows, tables, pool, caches

\* And keeps what is said of the tables alone.
LEMMA QuietData ==
  ASSUME TypesOK, PoolOK, FactoryOK, UNCHANGED <<tables, pool, caches>>, OnceKept, ~dead',
         stack' \in [Thread -> Seq(Record)], DOMAIN ret' = Thread, asked' = asked,
         lock' \in [Lock -> Thread \cup {None}]
  PROVE  TypesOK' /\ PoolOK' /\ FactoryOK'
<1>1. TypesOK'
  BY DEF TypesOK, OnceKept, tables, pool, caches
<1>2. PoolOK'
  <2>1. \A F \in built' : Ready(F)'
    BY DEF PoolOK, Ready, tables, pool
  <2> QED
    BY <2>1 DEF PoolOK, OnceKept, pool
<1>3. FactoryOK'
  BY DEF FactoryOK, caches
<1> QED
  BY <1>1, <1>2, <1>3

\* What a call must show to be made, and to go on, in such a step.
Joins(t, f, g, n, fs) ==
  /\ CallOK(g) /\ GoesOn(t, f, g, n, fs) /\ g.op # "add"
  /\ \A k \in 1..n : CallOK(fs[k]) /\ NewCall(f, g, n, fs, k) /\ (fs[k].op = "add" => fs[k].at = "start")

\* The invariant, over a call that touches no table.
LEMMA QuietPush ==
  ASSUME IInv, UNCHANGED <<tables, pool, caches>>, OnceKept, ~dead', lock' \in [Lock -> Thread \cup {None}],
         NEW t \in Thread, NEW f, NEW g, NEW n, NEW fs, Pushes(t, f, g, n, fs), Joins(t, f, g, n, fs)
  PROVE  IInv'
<1>1. /\ CallOK(g) /\ GoesOn(t, f, g, n, fs) /\ g.op # "add"
      /\ \A k \in 1..n : CallOK(fs[k]) /\ NewCall(f, g, n, fs, k) /\ (fs[k].op = "add" => fs[k].at = "start")
  BY DEF Joins
<1>2. Grows
  BY QuietGrows
<1>3. TypesOK' /\ PoolOK' /\ FactoryOK'
  <2>1. stack' \in [Thread -> Seq(Record)]
    BY PushShapes DEF PushShape, IInv
  <2>2. DOMAIN ret' = Thread /\ asked' = asked
    BY DEF Pushes, IInv, TypesOK
  <2> QED
    BY <2>1, <2>2, QuietData DEF IInv
<1>4. Calling' /\ RegistersOK' /\ CreatesOK'
  <2>1. UNCHANGED <<type_map, unknown>> /\ prototypes' = prototypes
    BY DEF caches
  <2>2. CallOK(g)' /\ \A k \in 1..n : CallOK(fs[k])'
    BY <1>2, <1>1, CallStays
  <2>3. \A k \in 1..n : NewCall(f, g, n, fs, k)
    BY <1>1
  <2> QED
    BY <1>2, <1>1, <2>1, <2>2, <2>3, PushStep DEF IInv, Calling
<1>5. AddsOK'
  <2>1. UNCHANGED AddTables
    BY DEF tables, AddTables
  <2> QED
    BY <1>1, <2>1, PushAdds DEF IInv
<1> QED
  BY <1>3, <1>4, <1>5 DEF IInv, Calling

\* The invariant, over a return that touches no table.
LEMMA QuietPop ==
  ASSUME IInv, UNCHANGED <<tables, pool, caches>>, OnceKept, ~dead', lock' \in [Lock -> Thread \cup {None}],
         NEW t \in Thread, NEW f, NEW v, Pops(t, f, v), ResultOK(f.op, f.on, v),
         \A l \in HeldLock : LockLeft(f, l), ~Adds(f), ~Makes(f)
  PROVE  IInv'
<1>1. Grows
  BY QuietGrows
<1>2. ResultOK(f.op, f.on, v)'
  BY <1>1, ResultStays
<1>3. TypesOK' /\ PoolOK' /\ FactoryOK'
  <2>1. stack' \in [Thread -> Seq(Record)]
    BY PopShapes DEF PopShape, IInv
  <2>2. DOMAIN ret' = Thread /\ asked' = asked
    BY DEF Pops, IInv, TypesOK
  <2> QED
    BY <2>1, <2>2, QuietData DEF IInv
<1>4. Calling'
  <2>1. prototypes' = prototypes
    BY DEF caches
  <2> QED
    BY <1>1, <1>2, <2>1, PopStep DEF IInv, Calling
<1>5. AddsOK'
  <2>1. UNCHANGED AddTables
    BY DEF tables, AddTables
  <2>2. f.op = "add" => f.on \in initialized
    BY DEF ResultOK
  <2> QED
    BY <2>1, <2>2, PopAdds DEF IInv
<1>6. RegistersOK'
  BY PopRegisters DEF IInv, caches
<1>7. CreatesOK'
  BY PopCreates DEF IInv, caches
<1> QED
  BY <1>3, <1>4, <1>5, <1>6, <1>7 DEF IInv, Calling

-------------------------------------------------------------------------------
(* The steps, one after the other. *)

\* The places, one by one.
LEMMA PlaceNames ==
  /\ "once" \in Places /\ "cached" \in Places /\ "lock" \in Places /\ "build" \in Places /\ "enter" \in Places /\ "link" \in Places
  /\ "add" \in Places /\ "added" \in Places /\ "assign" \in Places /\ "start" \in Places /\ "database" \in Places /\ "files" \in Places
  /\ "read" \in Places /\ "unlock" \in Places /\ "types" \in Places /\ "tried" \in Places /\ "set" \in Places /\ "target" \in Places
  /\ "type" \in Places /\ "field" \in Places /\ "create" \in Places /\ "write" \in Places /\ "find" \in Places /\ "return" \in Places
BY DEF Places

\* The operations, one by one.
LEMMA OpNames ==
  /\ "find" \in Ops /\ "type" \in Ops /\ "assign" \in Ops
  /\ "assign eagerly" \in Ops /\ "add" \in Ops /\ "try" \in Ops
  /\ "register" \in Ops /\ "prototype" \in Ops /\ "dynamic" \in Ops
  /\ "unknown" \in Ops /\ "memo" \in Ops /\ "lookup" \in Ops
BY DEF Ops

\* What a new call consists of.
LEMMA FrameFields ==
  ASSUME NEW op \in Ops, NEW on \in On, NEW at \in Places, NEW f, f = Frame(op, on, at)
  PROVE  f \in Record /\ f.op = op /\ f.on = on /\ f.at = at
BY DEF Frame, Record

\* What a row of new calls consists of.
LEMMA CallsFields ==
  ASSUME NEW op \in Ops, NEW ons \in Seq(File), NEW at \in Places,
         NEW fs, fs = Calls(op, ons, at)
  PROVE  /\ fs \in Seq(Record) /\ Len(fs) = Len(ons)
         /\ \A k \in 1..Len(ons) : /\ fs[k] = Frame(op, ons[k], at) /\ ons[k] \in ToSet(ons)
                                   /\ fs[k].op = op /\ fs[k].on = ons[k] /\ fs[k].at = at
         /\ \A F \in ToSet(ons) : \E k \in 1..Len(ons) : fs[k].on = F
<1>1. ons \in [1..Len(ons) -> File] /\ Len(ons) \in Nat /\ DOMAIN ons = 1..Len(ons)
  BY LenProperties
<1>2. \A k \in 1..Len(ons) :
        /\ ons[k] \in File /\ fs[k] = Frame(op, ons[k], at)
        /\ fs[k] \in Record /\ fs[k].op = op /\ fs[k].on = ons[k] /\ fs[k].at = at
  <2> TAKE k \in 1..Len(ons)
  <2>1. ons[k] \in File /\ ons[k] \in On /\ fs[k] = Frame(op, ons[k], at)
    BY <1>1 DEF Calls, On
  <2> QED
    BY <2>1, FrameFields
<1>3. fs \in [1..Len(ons) -> Record]
  BY <1>1, <1>2 DEF Calls
<1>4. fs \in Seq(Record) /\ Len(fs) = Len(ons)
  BY <1>1, <1>3
<1> QED
  BY <1>1, <1>2, <1>4 DEF ToSet

\* generated_pool(): all files that it assigns are assigned or asked for.
LEMMA PoolCalls ==
  ASSUME NEW fs, fs = GeneratedPool
  PROVE  /\ fs \in Seq(Record) /\ Len(fs) \in Nat
         /\ \A k \in 1..Len(fs) : fs[k] \in Record /\ fs[k].op = "assign" /\ fs[k].at = "once" /\ fs[k].on \in Lazy
         /\ \A F \in Lazy : F \in assigned \/ \E k \in 1..Len(fs) : fs[k].op = "assign" /\ fs[k].on = F
<1>1. CASE Lazy \subseteq assigned
  <2> fs = <<>>
    BY <1>1 DEF GeneratedPool
  <2> QED
    BY <1>1
<1>2. CASE ~(Lazy \subseteq assigned)
  <2>1. fs = Calls("assign", LazyFiles, "once") /\ LazyFiles \in Seq(File)
    BY <1>2, GraphOK DEF GeneratedPool
  <2>2. /\ fs \in Seq(Record) /\ Len(fs) = Len(LazyFiles)
        /\ \A k \in 1..Len(LazyFiles) : /\ fs[k].op = "assign" /\ fs[k].at = "once"
                                        /\ fs[k].on \in ToSet(LazyFiles)
        /\ \A F \in ToSet(LazyFiles) : \E k \in 1..Len(LazyFiles) : fs[k].on = F
    <3>1. "assign" \in Ops /\ "once" \in Places
      BY PlaceNames, OpNames
    <3> QED
      BY <2>1, <3>1, CallsFields
  <2> QED
    BY <2>2, LenProperties, ElementOfSeq DEF Lazy
<1> QED
  BY <1>1, <1>2

\* A step that leaves the locks and the once flags alone.
LEMMA SameFlags ==
  ASSUME TypesOK
  PROVE  /\ lock' = lock => lock' \in [Lock -> Thread \cup {None}]
         /\ once' = once => OnceKept
BY DEF TypesOK, OnceKept

\* A step that changes no more than stacks, locks and once flags.
Quiet ==
  /\ UNCHANGED <<tables, pool, caches>>
  /\ OnceKept /\ ~dead' /\ lock' \in [Lock -> Thread \cup {None}]

\* The innermost call, whose step it is, stands rightly.
LEMMA TopCall ==
  ASSUME IInv, NEW t \in Thread, NEW op, NEW at, At(t, op, at), NEW f, f = Top(t)
  PROVE  stack[t] # <<>> /\ f = stack[t][1] /\ CallOK(f) /\ f \in Record /\ f.op = op /\ f.at = at /\ ~dead
<1>1. stack[t] # <<>> /\ Top(t).op = op /\ Top(t).at = at /\ ~dead
  BY DEF At
<1>2. stack[t] \in Seq(Record) /\ 1 \in DOMAIN stack[t] /\ Head(stack[t]) = stack[t][1]
  BY <1>1, EmptySeq, LenProperties DEF TypesOK, IInv
<1>3. f = stack[t][1] /\ CallOK(f) /\ f \in Record
  BY <1>2 DEF CallsOK, CallOK, Top, IInv
<1> QED
  BY <1>1, <1>3

\* A call that goes on at another place is the same call.
LEMMA NewPlace ==
  ASSUME NEW f \in Record, NEW at \in Places, NEW g, g = [f EXCEPT !.at = at]
  PROVE  /\ g \in Record /\ g.op = f.op /\ g.on = f.on /\ g.at = at
         /\ f.op = "make" => g.i = f.i /\ f.i \in Nat \ {0}
BY DEF Record, Ops

\* The invariant, over Enter by a step that touches no table.
LEMMA QuietEnter ==
  ASSUME IInv, Quiet, NEW t \in Thread, stack[t] # <<>>, NEW f, f = Top(t),
         NEW at \in Places, NEW g, g = [f EXCEPT !.at = at], NEW fs \in Seq(Record), NEW n, n = Len(fs),
         Enter(t, fs, at), Joins(t, f, g, n, fs)
  PROVE  IInv'
<1>1. Pushes(t, f, g, n, fs)
  BY EnterPushes DEF IInv
<1>2. UNCHANGED <<tables, pool, caches>> /\ OnceKept /\ ~dead' /\ lock' \in [Lock -> Thread \cup {None}]
  BY DEF Quiet
<1> QED
  BY <1>1, <1>2, QuietPush

\* The invariant, over a step to the next place of a call.
LEMMA QuietGo ==
  ASSUME IInv, Quiet, NEW t \in Thread, stack[t] # <<>>, NEW f, f = Top(t),
         NEW at \in Places, NEW g, g = [f EXCEPT !.at = at], Go(t, at), CallOK(g),
         GoesOn(t, f, g, 0, <<>>), g.op # "add"
  PROVE  IInv'
<1>1. PICK fs : fs = <<>>
  OBVIOUS
<1>2. PICK n : n = 0
  OBVIOUS
<1>3. fs \in Seq(Record) /\ n = Len(fs) /\ 1..n = {}
  BY <1>1, <1>2, EmptySeq
<1>4. Enter(t, fs, at)
  BY <1>1 DEF Go
<1>5. Joins(t, f, g, n, fs)
  BY <1>1, <1>2, <1>3 DEF Joins
<1> QED
  BY <1>3, <1>4, <1>5, QuietEnter

\* The invariant, over Return by a step that touches no table.
LEMMA QuietReturn ==
  ASSUME IInv, Quiet, NEW t \in Thread, stack[t] # <<>>, NEW f, f = Top(t), NEW v, Return(t, v),
         ResultOK(f.op, f.on, v), \A l \in HeldLock : LockLeft(f, l), ~Adds(f), ~Makes(f)
  PROVE  IInv'
<1>1. Pops(t, f, v)
  BY ReturnPops DEF IInv
<1> QED
  BY <1>1, QuietPop DEF Quiet

\* A call that waits for nothing, needs nothing and holds nothing goes on.
LEMMA PlainGoesOn ==
  ASSUME \A l \in HeldLock : lock'[l] = lock[l], NEW t, NEW f, NEW g, NEW n, NEW fs, g.op = f.op,
         ~Waits(g), ~NeedsPool(g), ~Assigns(f) \/ f.at # "added", ~Assigns(g) \/ g.at # "added",
         f.at \notin {"unlock", "create"}, g.at \notin {"unlock", "create"}, g.op # "register", Makes(f) => Makes(g)
  PROVE  GoesOn(t, f, g, n, fs)
BY DEF GoesOn, LockStep, Holds

\* So may a call that has just begun, and is made under no lock.
LEMMA PlainCall ==
  ASSUME NEW f, NEW g, NEW n, NEW fs, NEW k,
         ~Waits(fs[k]), ~NeedsPool(fs[k]), fs[k].op \notin {"unknown", "add", "make", "register"},
         ~Assigns(fs[k]) \/ fs[k].at # "added", fs[k].at # "unlock"
  PROVE  NewCall(f, g, n, fs, k)
BY DEF NewCall, Holds, Within

\* A file in the tables is built; one that is not is looked for under the mutex.
LEMMA FindCachedKeeps == ASSUME IInv, NEW t \in Thread, FindCached(t) PROVE IInv'
<1>1. PICK f : f = Top(t)
  OBVIOUS
<1>2. stack[t] # <<>> /\ CallOK(f) /\ f \in Record /\ f.op = "find" /\ f.at = "cached" /\ ~dead
  BY <1>1, TopCall DEF FindCached
<1>3. Quiet /\ lock' = lock
  BY <1>2, SameFlags DEF FindCached, Quiet, IInv
<1>4. CASE f.on \in built
  <2>1. Return(t, f.on)
    BY <1>1, <1>4 DEF FindCached
  <2>2. ResultOK(f.op, f.on, f.on) /\ ~Adds(f) /\ ~Makes(f) /\ \A l \in HeldLock : LockLeft(f, l)
    BY <1>2, <1>3, <1>4 DEF ResultOK, Adds, Makes, LockLeft, Holds, Assigns
  <2> QED
    BY <1>1, <1>2, <1>3, <2>1, <2>2, QuietReturn
<1>5. CASE f.on \notin built
  <2>1. PICK g : g = [f EXCEPT !.at = "lock"]
    OBVIOUS
  <2>2. "lock" \in Places /\ Go(t, "lock")
    BY <1>1, <1>5, PlaceNames DEF FindCached
  <2>3. g \in Record /\ g.op = "find" /\ g.on = f.on /\ g.at = "lock"
    BY <1>2, <2>1, <2>2, NewPlace
  <2>4. CallOK(g)
    BY <1>2, <2>3 DEF CallOK, Assigns
  <2>5. GoesOn(t, f, g, 0, <<>>)
    BY <1>2, <1>3, <2>3, PlainGoesOn DEF Waits, NeedsPool, Assigns, Makes
  <2> QED
    BY <1>1, <1>2, <1>3, <2>1, <2>2, <2>3, <2>4, <2>5, QuietGo
<1> QED
  BY <1>4, <1>5

\* The invariant, over Enter with one new call.
LEMMA QuietCall ==
  ASSUME IInv, Quiet, NEW t \in Thread, stack[t] # <<>>, NEW f, f = Top(t),
         NEW at \in Places, NEW g, g = [f EXCEPT !.at = at], NEW h \in Record, NEW fs, fs = <<h>>,
         Enter(t, fs, at), CallOK(g), CallOK(h), h.op # "add" \/ h.at = "start", g.op # "add",
         GoesOn(t, f, g, 1, fs), NewCall(f, g, 1, fs, 1)
  PROVE  IInv'
<1>1. PICK n : n = 1
  OBVIOUS
<1>2. fs \in Seq(Record) /\ n = Len(fs) /\ 1..n = {1} /\ fs[1] = h
  BY <1>1
<1>3. Joins(t, f, g, n, fs)
  BY <1>1, <1>2 DEF Joins
<1> QED
  BY <1>2, <1>3, QuietEnter

\* Locks that are taken and released.
LEMMA Taken ==
  ASSUME TypesOK, NEW t \in Thread, NEW l \in Lock, Take(t, l)
  PROVE  /\ lock' \in [Lock -> Thread \cup {None}] /\ lock[l] = None /\ lock'[l] = t
         /\ \A m \in HeldLock : m # l => lock'[m] = lock[m]
BY DEF TypesOK, Take, Idle, HeldLock, Lock

\* A release gives up one lock.
LEMMA Released ==
  ASSUME TypesOK, NEW l \in Lock, Release(l)
  PROVE  /\ lock' \in [Lock -> Thread \cup {None}] /\ lock'[l] = None
         /\ \A m \in HeldLock : m # l => lock'[m] = lock[m]
BY DEF TypesOK, Release, HeldLock, Lock

\* When all lazily registered files are assigned the pool can build any file.
LEMMA AllReady ==
  ASSUME TypesOK, Lazy \subseteq assigned
  PROVE  registered = File /\ \A F \in File : Ready(F)
<1>1. registered = File
  BY DEF TypesOK
<1>2. Closed(File)
  BY GraphOK DEF Closed, Pair
<1> QED
  BY <1>1, <1>2 DEF Ready

\* A call for a file that is ready may be made by anybody.
LEMMA FindCall ==
  ASSUME NEW F \in File, Ready(F), NEW at \in {"cached", "lock"}, NEW h, h = Frame("find", F, at)
  PROVE  /\ h \in Record /\ CallOK(h) /\ h.op = "find" /\ h.on = F /\ h.at = at
         /\ \A f, g, n, fs, k : fs[k] = h => NewCall(f, g, n, fs, k)
<1>1. h \in Record /\ h.op = "find" /\ h.on = F /\ h.at = at
  <2> "find" \in Ops /\ at \in Places /\ F \in On
    BY PlaceNames, OpNames DEF On
  <2> QED
    BY FrameFields
<1>2. CallOK(h)
  BY <1>1 DEF CallOK, Assigns
<1> QED
  BY <1>1, <1>2, PlainCall DEF Waits, NeedsPool, Assigns

\* The calls of generated_pool() can be made anywhere.
LEMMA PoolJoins ==
  ASSUME NEW fs, fs = GeneratedPool, NEW f, NEW g
  PROVE  \A k \in 1..Len(fs) : CallOK(fs[k]) /\ NewCall(f, g, Len(fs), fs, k) /\ fs[k].op # "add"
<1> TAKE k \in 1..Len(fs)
<1>1. fs[k] \in Record /\ fs[k].op = "assign" /\ fs[k].at = "once" /\ fs[k].on \in Lazy
  BY PoolCalls
<1>2. fs[k].on \in File
  <2> LazyFiles \in Seq(File)
    BY GraphOK
  <2> QED
    BY <1>1, ElementOfSeq, LenProperties DEF Lazy, ToSet
<1>3. CallOK(fs[k])
  BY <1>1, <1>2 DEF CallOK, Assigns
<1> QED
  BY <1>1, <1>3, PlainCall DEF Waits, NeedsPool, Assigns

\* The file stays ready while the mutex is waited for.
LEMMA FindLockKeeps == ASSUME IInv, NEW t \in Thread, FindLock(t) PROVE IInv'
<1>1. PICK f : f = Top(t)
  OBVIOUS
<1>2. PICK g : g = [f EXCEPT !.at = "build"]
  OBVIOUS
<1>3. stack[t] # <<>> /\ CallOK(f) /\ f \in Record /\ f.op = "find" /\ f.at = "lock" /\ ~dead
  BY <1>1, TopCall DEF FindLock
<1>4. lock' \in [Lock -> Thread \cup {None}] /\ \A l \in HeldLock : lock'[l] = lock[l]
  BY Taken DEF FindLock, Lock, HeldLock, IInv
<1>5. Quiet
  BY <1>3, <1>4, SameFlags DEF FindLock, Quiet, IInv
<1>6. "build" \in Places /\ Go(t, "build")
  BY PlaceNames DEF FindLock
<1>7. g \in Record /\ g.op = "find" /\ g.on = f.on /\ g.at = "build"
  BY <1>3, <1>2, <1>6, NewPlace
<1>8. CallOK(g)
  BY <1>3, <1>7 DEF CallOK, Assigns
<1>9. GoesOn(t, f, g, 0, <<>>)
  BY <1>3, <1>4, <1>7, PlainGoesOn DEF Waits, NeedsPool, Assigns, Makes
<1> QED
  BY <1>1, <1>2, <1>3, <1>5, <1>6, <1>7, <1>8, <1>9, QuietGo

\* With the pool had, the file of the type is ready.
LEMMA LookupFindKeeps == ASSUME IInv, NEW t \in Thread, LookupFind(t) PROVE IInv'
<1>1. PICK f : f = Top(t)
  OBVIOUS
<1>2. PICK g : g = [f EXCEPT !.at = "return"]
  OBVIOUS
<1>3. PICK h : h = Frame("find", FileOf[f.on], "cached")
  OBVIOUS
<1>4. stack[t] # <<>> /\ CallOK(f) /\ f \in Record /\ f.op = "lookup" /\ f.at = "find" /\ ~dead
      /\ f = stack[t][1]
  BY <1>1, TopCall DEF LookupFind
<1>5. Quiet /\ lock' = lock
  BY <1>4, SameFlags DEF LookupFind, Quiet, IInv
<1>6. "return" \in Places /\ Enter(t, <<h>>, "return")
  BY <1>1, <1>3, PlaceNames DEF LookupFind
<1>7. g \in Record /\ g.op = "lookup" /\ g.on = f.on /\ g.at = "return"
  BY <1>4, <1>2, <1>6, NewPlace
<1>8. Lazy \subseteq assigned
  BY <1>4, FirstNeeds DEF NeedsPool, IInv
<1>9. f.on \in Type /\ FileOf[f.on] \in File /\ Ready(FileOf[f.on])
  BY <1>4, <1>8, AllReady, GraphOK DEF CallOK, IInv
<1>10. h \in Record /\ CallOK(h) /\ h.op = "find" /\ h.on = FileOf[f.on] /\ NewCall(f, g, 1, <<h>>, 1)
  BY <1>9, <1>3, FindCall
<1>11. CallOK(g)
  BY <1>4, <1>7 DEF CallOK, Assigns
<1>12. GoesOn(t, f, g, 1, <<h>>)
  BY <1>4, <1>5, <1>7, <1>10 DEF GoesOn, LockStep, Holds, Waits, NeedsPool, Assigns, AwaitedOp, AwaitedOn, Makes
<1> QED
  BY <1>1, <1>2, <1>4, <1>5, <1>6, <1>7, <1>10, <1>11, <1>12, QuietCall

\* The file was found, so the type is.
LEMMA LookupReturnKeeps == ASSUME IInv, NEW t \in Thread, LookupReturn(t) PROVE IInv'
<1>1. PICK f : f = Top(t)
  OBVIOUS
<1>2. stack[t] # <<>> /\ CallOK(f) /\ f \in Record /\ f.op = "lookup" /\ f.at = "return" /\ ~dead
      /\ f = stack[t][1]
  BY <1>1, TopCall DEF LookupReturn
<1>3. Quiet /\ lock' = lock
  BY <1>2, SameFlags DEF LookupReturn, Quiet, IInv
<1>4. ResultOK("find", FileOf[f.on], ret[t])
  BY <1>2, FirstWaits DEF Waits, AwaitedOp, AwaitedOn, Assigns, IInv
<1>5. ret[t] # None
  BY <1>2, <1>4, GraphOK, ValuesOK DEF ResultOK, CallOK
<1>6. Return(t, f.on)
  BY <1>1, <1>5 DEF LookupReturn
<1>7. ResultOK(f.op, f.on, f.on) /\ ~Adds(f) /\ ~Makes(f) /\ \A l \in HeldLock : LockLeft(f, l)
  BY <1>2, <1>3 DEF ResultOK, Adds, Makes, LockLeft, Holds, Assigns
<1> QED
  BY <1>1, <1>2, <1>3, <1>6, <1>7, QuietReturn

\* A value that is in the table is the answer.
LEMMA MemoReadKeeps == ASSUME IInv, NEW t \in Thread, MemoRead(t) PROVE IInv'
<1>1. PICK f : f = Top(t)
  OBVIOUS
<1>2. stack[t] # <<>> /\ CallOK(f) /\ f \in Record /\ f.op = "memo" /\ f.at = "read" /\ ~dead
  BY <1>1, TopCall DEF MemoRead
<1>3. Quiet /\ lock' = lock
  BY <1>2, SameFlags DEF MemoRead, Quiet, IInv
<1>4. CASE memo[f.on] # None
  <2>1. Return(t, memo[f.on])
    BY <1>1, <1>4 DEF MemoRead
  <2>2. ResultOK(f.op, f.on, memo[f.on]) /\ ~Adds(f) /\ ~Makes(f) /\ \A l \in HeldLock : LockLeft(f, l)
    BY <1>2, <1>3, <1>4 DEF ResultOK, CallOK, Adds, Makes, LockLeft, Holds, Assigns
  <2> QED
    BY <1>1, <1>2, <1>3, <2>1, <2>2, QuietReturn
<1>5. CASE memo[f.on] = None
  <2>1. PICK g : g = [f EXCEPT !.at = "write"]
    OBVIOUS
  <2>2. "write" \in Places /\ Go(t, "write")
    BY <1>1, <1>5, PlaceNames DEF MemoRead
  <2>3. g \in Record /\ g.op = "memo" /\ g.on = f.on /\ g.at = "write"
    BY <1>2, <2>1, <2>2, NewPlace
  <2>4. CallOK(g)
    BY <1>2, <2>3 DEF CallOK, Assigns
  <2>5. GoesOn(t, f, g, 0, <<>>)
    BY <1>2, <1>3, <2>3, PlainGoesOn DEF Waits, NeedsPool, Assigns, Makes
  <2> QED
    BY <1>1, <1>2, <1>3, <2>1, <2>2, <2>3, <2>4, <2>5, QuietGo
<1> QED
  BY <1>4, <1>5

\* A value that is in the table is the answer.
LEMMA UnknownReadKeeps == ASSUME IInv, NEW t \in Thread, UnknownRead(t) PROVE IInv'
<1>1. PICK f : f = Top(t)
  OBVIOUS
<1>2. stack[t] # <<>> /\ CallOK(f) /\ f \in Record /\ f.op = "unknown" /\ f.at = "read" /\ ~dead
  BY <1>1, TopCall DEF UnknownRead
<1>3. Quiet /\ lock' = lock
  BY <1>2, SameFlags DEF UnknownRead, Quiet, IInv
<1>4. CASE unknown[f.on] # None
  <2>1. Return(t, unknown[f.on])
    BY <1>1, <1>4 DEF UnknownRead
  <2>2. ResultOK(f.op, f.on, unknown[f.on]) /\ ~Adds(f) /\ ~Makes(f) /\ \A l \in HeldLock : LockLeft(f, l)
    BY <1>2, <1>3, <1>4 DEF ResultOK, CallOK, Adds, Makes, LockLeft, Holds, Assigns
  <2> QED
    BY <1>1, <1>2, <1>3, <2>1, <2>2, QuietReturn
<1>5. CASE unknown[f.on] = None
  <2>1. PICK g : g = [f EXCEPT !.at = "write"]
    OBVIOUS
  <2>2. "write" \in Places /\ Go(t, "write")
    BY <1>1, <1>5, PlaceNames DEF UnknownRead
  <2>3. g \in Record /\ g.op = "unknown" /\ g.on = f.on /\ g.at = "write"
    BY <1>2, <2>1, <2>2, NewPlace
  <2>4. CallOK(g)
    BY <1>2, <2>3 DEF CallOK, Assigns
  <2>5. GoesOn(t, f, g, 0, <<>>)
    BY <1>2, <1>3, <2>3, PlainGoesOn DEF Waits, NeedsPool, Assigns, Makes
  <2> QED
    BY <1>1, <1>2, <1>3, <2>1, <2>2, <2>3, <2>4, <2>5, QuietGo
<1> QED
  BY <1>4, <1>5

\* A prototype that is in the map is right; who finds none gets the pool first.
LEMMA TryReadKeeps == ASSUME IInv, NEW t \in Thread, TryRead(t) PROVE IInv'
<1>1. PICK f : f = Top(t)
  OBVIOUS
<1>2. stack[t] # <<>> /\ CallOK(f) /\ f \in Record /\ f.op = "try" /\ f.at = "read" /\ ~dead
  BY <1>1, TopCall DEF TryRead
<1>3. Quiet /\ lock' = lock
  BY <1>2, SameFlags DEF TryRead, Quiet, IInv
<1>4. CASE type_map[f.on] \notin {None, Dropped}
  <2>1. Return(t, type_map[f.on])
    BY <1>1, <1>4 DEF TryRead
  <2>2. f.on \in Type
    BY <1>2 DEF CallOK
  <2>3. Given(f.on, type_map[f.on]) /\ (f.on \in DroppedTypes => type_map[f.on] \in linked)
    BY <1>4, <2>2 DEF IInv, FactoryOK, Given
  <2>4. ResultOK(f.op, f.on, type_map[f.on])
    BY <1>2, <1>4, <2>2, <2>3 DEF ResultOK
  <2>5. ~Adds(f) /\ ~Makes(f) /\ \A l \in HeldLock : LockLeft(f, l)
    BY <1>2, <1>3 DEF Adds, Makes, LockLeft, Holds, Assigns
  <2> QED
    BY <1>1, <1>2, <1>3, <2>1, <2>4, <2>5, QuietReturn
<1>5. CASE type_map[f.on] \in {None, Dropped}
  <2>1. PICK g : g = [f EXCEPT !.at = "files"]
    OBVIOUS
  <2>2. PICK fs : fs = GeneratedPool
    OBVIOUS
  <2>3. "files" \in Places /\ Enter(t, fs, "files") /\ fs \in Seq(Record)
    BY <1>1, <1>5, <2>2, PlaceNames, PoolCalls DEF TryRead
  <2>4. g \in Record /\ g.op = "try" /\ g.on = f.on /\ g.at = "files"
    BY <1>2, <2>1, <2>3, NewPlace
  <2>5. CallOK(g) /\ g.op # "add"
    BY <1>2, <2>4 DEF CallOK, Assigns
  <2>6. PICK n : n = Len(fs)
    OBVIOUS
  <2>7. \A F \in Lazy : F \in assigned \/ \E k \in 1..n : fs[k].op = "assign" /\ fs[k].on = F
    BY <2>2, <2>6, PoolCalls
  <2>8. GoesOn(t, f, g, n, fs)
    BY <1>2, <1>3, <2>4, <2>7 DEF GoesOn, LockStep, Holds, Waits, NeedsPool, Assigns, Makes
  <2>9. Joins(t, f, g, n, fs)
    BY <2>2, <2>6, <2>5, <2>8, PoolJoins DEF Joins
  <2> QED
    BY <1>1, <1>2, <1>3, <2>1, <2>6, <2>3, <2>9, QuietEnter
<1> QED
  BY <1>4, <1>5

\* With the pool had, every file is in the table of files.
LEMMA TryFilesKeeps == ASSUME IInv, NEW t \in Thread, TryFiles(t) PROVE IInv'
<1>1. PICK f : f = Top(t)
  OBVIOUS
<1>2. PICK g : g = [f EXCEPT !.at = "lock"]
  OBVIOUS
<1>3. stack[t] # <<>> /\ CallOK(f) /\ f \in Record /\ f.op = "try" /\ f.at = "files" /\ ~dead
      /\ f = stack[t][1]
  BY <1>1, TopCall DEF TryFiles
<1>4. Lazy \subseteq assigned
  BY <1>3, FirstNeeds DEF NeedsPool, IInv
<1>5. FileOf[f.on] \in registered
  BY <1>3, <1>4, AllReady, GraphOK DEF CallOK, IInv
<1>6. Quiet /\ lock' = lock
  BY <1>1, <1>5, SameFlags DEF TryFiles, Quiet, IInv
<1>7. "lock" \in Places /\ Go(t, "lock")
  BY PlaceNames DEF TryFiles
<1>8. g \in Record /\ g.op = "try" /\ g.on = f.on /\ g.at = "lock"
  BY <1>3, <1>2, <1>7, NewPlace
<1>9. CallOK(g)
  BY <1>3, <1>8 DEF CallOK, Assigns
<1>10. GoesOn(t, f, g, 0, <<>>)
  BY <1>3, <1>4, <1>6, <1>8 DEF GoesOn, LockStep, Holds, Waits, NeedsPool, Assigns, Makes
<1> QED
  BY <1>1, <1>2, <1>3, <1>6, <1>7, <1>8, <1>9, <1>10, QuietGo

\* The file's types were registered, by this thread or by one before it.
LEMMA TryUnlockKeeps == ASSUME IInv, NEW t \in Thread, TryUnlock(t) PROVE IInv'
<1>1. PICK f : f = Top(t)
  OBVIOUS
<1>2. PICK v : v = IF type_map[f.on] = Dropped THEN None ELSE type_map[f.on]
  OBVIOUS
<1>3. stack[t] # <<>> /\ CallOK(f) /\ f \in Record /\ f.op = "try" /\ f.at = "unlock" /\ ~dead
      /\ f = stack[t][1]
  BY <1>1, TopCall DEF TryUnlock
<1>4. /\ lock' \in [Lock -> Thread \cup {None}] /\ lock'["factory"] = None
      /\ \A l \in HeldLock : l # "factory" => lock'[l] = lock[l]
  BY Released DEF TryUnlock, Lock, IInv
<1>5. Quiet
  BY <1>3, <1>4, SameFlags DEF TryUnlock, Quiet, IInv
<1>6. f.on \in Type /\ ResultOK("register", FileOf[f.on], ret[t])
  BY <1>3, FirstWaits DEF Waits, AwaitedOp, AwaitedOn, Assigns, IInv, CallOK
<1>7. type_map[f.on] # None
  BY <1>6 DEF ResultOK
<1>8. \/ Given(f.on, v) /\ (f.on \in DroppedTypes => v \in linked)
      \/ f.on \in DroppedTypes /\ v = None
  BY <1>2, <1>6, <1>7, ValuesOK DEF IInv, FactoryOK, Given
<1>9. ResultOK(f.op, f.on, v)
  BY <1>3, <1>6, <1>7, <1>8 DEF ResultOK
<1>10. ~Adds(f) /\ ~Makes(f) /\ \A l \in HeldLock : LockLeft(f, l)
  BY <1>3, <1>4 DEF Adds, Makes, LockLeft, Holds, Assigns
<1>11. Return(t, v)
  BY <1>1, <1>2 DEF TryUnlock
<1> QED
  BY <1>1, <1>3, <1>5, <1>9, <1>10, <1>11, QuietReturn

\* What a call waits for, operation by operation.
LEMMA Awaits ==
  ASSUME NEW f
  PROVE  /\ f.op = "type" => AwaitedOp(f) = "find" /\ AwaitedOn(f) = FileOf[f.on[2]]
         /\ Assigns(f) => AwaitedOp(f) = (IF f.at = "added" THEN "add" ELSE "find") /\ AwaitedOn(f) = f.on
         /\ f.op = "try" => AwaitedOp(f) = "register" /\ AwaitedOn(f) = FileOf[f.on]
         /\ f.op = "prototype" => /\ AwaitedOp(f) = (IF f.at = "tried" THEN "try" ELSE "dynamic")
                                  /\ AwaitedOn(f) = f.on
         /\ f.op = "dynamic" => AwaitedOp(f) = "make" /\ AwaitedOn(f) = f.on
         /\ f.op = "make" /\ f.at # "field" =>
              AwaitedOp(f) = (IF f.at = "target" THEN "try" ELSE "type") /\ AwaitedOn(f) = f.on
         /\ f.op = "make" /\ f.at = "field" =>
              AwaitedOp(f) = "type" /\ AwaitedOn(f) = <<f.on, Fields[f.on][f.i]>>
         /\ f.op = "lookup" => AwaitedOp(f) = "find" /\ AwaitedOn(f) = FileOf[f.on]
BY DEF AwaitedOp, AwaitedOn, Assigns

\* No type of the file is registered when one is not, and none will be under the mutex.
LEMMA TryLockKeeps == ASSUME IInv, NEW t \in Thread, TryLock(t) PROVE IInv'
<1>1. PICK f : f = Top(t)
  OBVIOUS
<1>2. PICK g : g = [f EXCEPT !.at = "unlock"]
  OBVIOUS
<1>3. stack[t] # <<>> /\ CallOK(f) /\ f \in Record /\ f.op = "try" /\ f.at = "lock" /\ ~dead
      /\ f = stack[t][1]
  BY <1>1, TopCall DEF TryLock
<1>4. /\ lock' \in [Lock -> Thread \cup {None}] /\ lock["factory"] = None /\ lock'["factory"] = t
      /\ \A l \in HeldLock : l # "factory" => lock'[l] = lock[l]
  BY Taken DEF TryLock, Lock, IInv
<1>5. Quiet
  BY <1>3, <1>4, SameFlags DEF TryLock, Quiet, IInv
<1>6. Lazy \subseteq assigned /\ f.on \in Type
  BY <1>3, FirstNeeds DEF NeedsPool, IInv, CallOK
<1>7. "unlock" \in Places /\ g \in Record /\ g.op = "try" /\ g.on = f.on /\ g.at = "unlock"
  BY <1>3, <1>2, NewPlace, PlaceNames
<1>8. CallOK(g) /\ Holds(g, "factory") /\ \A l \in HeldLock : LockStep(t, f, g, l)
  BY <1>3, <1>4, <1>7 DEF CallOK, Assigns, LockStep, Holds
<1>9. CASE type_map[f.on] = None
  <2>1. PICK F : F = FileOf[f.on]
    OBVIOUS
  <2>2. F \in File /\ F \in On /\ Ready(F)
    BY <1>6, <2>1, AllReady, GraphOK DEF IInv, On
  <2>3. PICK fs : fs = <<Frame("assign", F, "once"), Frame("find", F, "lock"), Frame("register", F, "types")>>
    OBVIOUS
  <2>4. Enter(t, fs, "unlock")
    BY <1>1, <1>9, <2>1, <2>3 DEF TryLock
  <2>5. fs[1] \in Record /\ fs[1].op = "assign" /\ fs[1].on = F /\ fs[1].at = "once"
    <3>1. "assign" \in Ops /\ "once" \in Places
      BY PlaceNames, OpNames
    <3> QED
      BY <2>2, <2>3, <3>1, FrameFields
  <2>6. fs[2] \in Record /\ fs[2].op = "find" /\ fs[2].on = F /\ fs[2].at = "lock"
        /\ fs[2] = Frame("find", F, "lock")
    <3>1. "find" \in Ops /\ "lock" \in Places
      BY PlaceNames, OpNames
    <3> QED
      BY <2>2, <2>3, <3>1, FrameFields
  <2>7. fs[3] \in Record /\ fs[3].op = "register" /\ fs[3].on = F /\ fs[3].at = "types"
    <3>1. "register" \in Ops /\ "types" \in Places
      BY PlaceNames, OpNames
    <3> QED
      BY <2>2, <2>3, <3>1, FrameFields
  <2>8. PICK n : n = 3
    OBVIOUS
  <2>9. fs \in Seq(Record) /\ n = Len(fs) /\ \A k \in 1..n : k = 1 \/ k = 2 \/ k = 3
    BY <2>3, <2>8, <2>5, <2>6, <2>7
  <2>10. CallOK(fs[1]) /\ NewCall(f, g, n, fs, 1)
    BY <2>2, <2>5, PlainCall DEF CallOK, Assigns, Waits, NeedsPool
  <2>11. CallOK(fs[2]) /\ NewCall(f, g, n, fs, 2)
    BY <2>2, <2>6, FindCall
  <2>12. CallOK(fs[3]) /\ NewCall(f, g, n, fs, 3)
    <3>1. \A T \in Type : FileOf[T] = F => type_map[T] = None
      BY <1>6, <1>9, <2>1 DEF IInv, FactoryOK
    <3> QED
      BY <1>8, <2>2, <2>7, <2>8, <3>1 DEF CallOK, NewCall, Assigns, Waits, NeedsPool, Holds, Within
  <2>13. GoesOn(t, f, g, n, fs)
    <3>1. n # 0 /\ fs[n].op = "register" /\ fs[n].on = F
      BY <2>7, <2>8
    <3> QED
      BY <1>3, <1>7, <1>8, <2>1, <3>1, Awaits DEF GoesOn, Holds, NeedsPool, Assigns, Makes
  <2>14. Joins(t, f, g, n, fs)
    BY <1>7, <1>8, <2>5, <2>6, <2>7, <2>9, <2>10, <2>11, <2>12, <2>13 DEF Joins
  <2> QED
    BY <1>1, <1>2, <1>3, <1>5, <1>7, <2>4, <2>9, <2>14, QuietEnter
<1>10. CASE type_map[f.on] # None
  <2>1. \A U \in Type : FileOf[U] = FileOf[f.on] => type_map[U] # None
    BY <1>6, <1>10 DEF IInv, FactoryOK
  <2>2. ResultOK("register", FileOf[f.on], ret[t])
    BY <2>1 DEF ResultOK
  <2>3. GoesOn(t, f, g, 0, <<>>)
    BY <1>3, <1>7, <1>8, <2>2, Awaits DEF GoesOn, Holds, NeedsPool, Assigns, Makes
  <2>4. Go(t, "unlock")
    BY <1>1, <1>10 DEF TryLock
  <2> QED
    BY <1>1, <1>2, <1>3, <1>5, <1>7, <1>8, <2>3, <2>4, QuietGo
<1> QED
  BY <1>9, <1>10

\* An answer of TryGetPrototype.
LEMMA Tried ==
  ASSUME IInv, NEW T \in Type, NEW v, ResultOK("try", T, v)
  PROVE  /\ v # None => Given(T, v) /\ (T \in DroppedTypes => v \in linked)
         /\ v = None => T \in DroppedTypes /\ type_map[T] # None
BY ValuesOK DEF ResultOK, Given

\* There is no prototype only if the linker dropped it.
LEMMA GetTriedKeeps == ASSUME IInv, NEW t \in Thread, GetTried(t) PROVE IInv'
<1>1. PICK f : f = Top(t)
  OBVIOUS
<1>2. stack[t] # <<>> /\ CallOK(f) /\ f \in Record /\ f.op = "prototype" /\ f.at = "tried" /\ ~dead
      /\ f = stack[t][1]
  BY <1>1, TopCall DEF GetTried
<1>3. Quiet /\ lock' = lock
  BY <1>2, SameFlags DEF GetTried, Quiet, IInv
<1>4. f.on \in Type /\ f.on \in On /\ ResultOK("try", f.on, ret[t]) /\ FileOf[f.on] \in built
  BY <1>2, FirstWaits DEF Waits, AwaitedOp, AwaitedOn, Assigns, IInv, CallOK, On
<1>5. CASE ret[t] # None
  <2>1. Return(t, ret[t])
    BY <1>1, <1>5 DEF GetTried
  <2>2. ResultOK(f.op, f.on, ret[t])
    BY <1>2, <1>4, <1>5, Tried DEF ResultOK
  <2>3. ~Adds(f) /\ ~Makes(f) /\ \A l \in HeldLock : LockLeft(f, l)
    BY <1>2, <1>3 DEF Adds, Makes, LockLeft, Holds, Assigns
  <2> QED
    BY <1>1, <1>2, <1>3, <2>1, <2>2, <2>3, QuietReturn
<1>6. CASE ret[t] = None
  <2>1. PICK g : g = [f EXCEPT !.at = "set"]
    OBVIOUS
  <2>2. PICK h : h = Frame("dynamic", f.on, "lock")
    OBVIOUS
  <2>3. "set" \in Places /\ Enter(t, <<h>>, "set")
    BY <1>1, <1>6, <2>2, PlaceNames DEF GetTried
  <2>4. g \in Record /\ g.op = "prototype" /\ g.on = f.on /\ g.at = "set"
    BY <1>2, <2>1, <2>3, NewPlace
  <2>5. h \in Record /\ h.op = "dynamic" /\ h.on = f.on /\ h.at = "lock"
    <3>1. "dynamic" \in Ops /\ "lock" \in Places
      BY PlaceNames, OpNames
    <3> QED
      BY <1>4, <2>2, <3>1, FrameFields
  <2>6. f.on \in DroppedTypes /\ type_map[f.on] # None
    BY <1>4, <1>6, Tried
  <2>7. CallOK(g)
    BY <1>2, <2>4, <2>6 DEF CallOK, Assigns
  <2>8. CallOK(h) /\ NewCall(f, g, 1, <<h>>, 1)
    BY <1>4, <2>5, PlainCall DEF CallOK, Assigns, Waits, NeedsPool
  <2>9. GoesOn(t, f, g, 1, <<h>>)
    BY <1>2, <1>3, <2>4, <2>5 DEF GoesOn, LockStep, Holds, Waits, NeedsPool, Assigns, AwaitedOp, AwaitedOn, Makes
  <2> QED
    BY <1>1, <1>2, <1>3, <2>1, <2>3, <2>4, <2>5, <2>7, <2>8, <2>9, QuietCall
<1> QED
  BY <1>5, <1>6

\* The two calls of GetPrototypeNoLock for a type whose file is built.
LEMMA MakeCalls ==
  ASSUME NEW T \in Type, FileOf[T] \in built, NEW fs, fs = Make(T), NEW f, NEW g,
         Holds(g, "prototypes") \/ Within(f, "prototypes")
  PROVE  /\ fs \in Seq(Record) /\ Len(fs) = 2 /\ fs[2].op = "make" /\ fs[2].on = T
         /\ \A k \in 1..2 : CallOK(fs[k]) /\ NewCall(f, g, 2, fs, k) /\ fs[k].op # "add"
<1>1. T \in On
  BY DEF On
<1>2. fs[1] \in Record /\ fs[1].op = "try" /\ fs[1].on = T /\ fs[1].at = "read"
  <2>1. "try" \in Ops /\ "read" \in Places
    BY PlaceNames, OpNames
  <2> QED
    BY <1>1, <2>1, FrameFields DEF Make
<1>3. fs[2] = [op |-> "make", on |-> T, at |-> "target", i |-> 1]
  BY DEF Make
<1>4. fs[2] \in Record /\ fs[2].op = "make" /\ fs[2].on = T /\ fs[2].at = "target" /\ fs[2].i = 1
  BY <1>1, <1>3, PlaceNames DEF Record
<1>5. fs \in Seq(Record) /\ Len(fs) = 2
  BY <1>2, <1>4 DEF Make
<1>6. CallOK(fs[1]) /\ NewCall(f, g, 2, fs, 1)
  BY <1>2, PlainCall DEF CallOK, Assigns, Waits, NeedsPool
<1>7. CallOK(fs[2])
  BY <1>4 DEF CallOK, Assigns
<1>8. NewCall(f, g, 2, fs, 2)
  <2>1. fs[2 - 1].op = AwaitedOp(fs[2]) /\ fs[2 - 1].on = AwaitedOn(fs[2])
    BY <1>2, <1>4, Awaits
  <2>2. \A l \in HeldLock : ~Holds(fs[2], l) /\ (Within(fs[2], l) => l = "prototypes")
    BY <1>4 DEF Holds, Within, Assigns
  <2> QED
    BY <1>4, <2>1, <2>2 DEF NewCall, Assigns, NeedsPool
<1>9. \A k \in 1..2 : k = 1 \/ k = 2
  OBVIOUS
<1> QED
  BY <1>2, <1>4, <1>5, <1>6, <1>7, <1>8, <1>9

\* Prototypes are made under the dynamic factory's mutex.
LEMMA DynamicLockKeeps == ASSUME IInv, NEW t \in Thread, DynamicLock(t) PROVE IInv'
<1>1. PICK f : f = Top(t)
  OBVIOUS
<1>2. PICK g : g = [f EXCEPT !.at = "unlock"]
  OBVIOUS
<1>3. PICK fs : fs = Make(f.on)
  OBVIOUS
<1>4. PICK n : n = 2
  OBVIOUS
<1>5. stack[t] # <<>> /\ CallOK(f) /\ f \in Record /\ f.op = "dynamic" /\ f.at = "lock" /\ ~dead
  BY <1>1, TopCall DEF DynamicLock
<1>6. /\ lock' \in [Lock -> Thread \cup {None}] /\ lock["prototypes"] = None /\ lock'["prototypes"] = t
      /\ \A l \in HeldLock : l # "prototypes" => lock'[l] = lock[l]
  BY Taken DEF DynamicLock, Lock, IInv
<1>7. Quiet
  BY <1>5, <1>6, SameFlags DEF DynamicLock, Quiet, IInv
<1>8. f.on \in Type /\ FileOf[f.on] \in built
  BY <1>5 DEF CallOK
<1>9. "unlock" \in Places /\ g \in Record /\ g.op = "dynamic" /\ g.on = f.on /\ g.at = "unlock"
  BY <1>5, <1>2, NewPlace, PlaceNames
<1>10. CallOK(g) /\ Holds(g, "prototypes") /\ \A l \in HeldLock : LockStep(t, f, g, l)
  BY <1>5, <1>6, <1>9 DEF CallOK, Assigns, LockStep, Holds
<1>11. /\ fs \in Seq(Record) /\ Len(fs) = n /\ fs[n].op = "make" /\ fs[n].on = f.on
       /\ \A k \in 1..n : CallOK(fs[k]) /\ NewCall(f, g, n, fs, k) /\ fs[k].op # "add"
  BY <1>3, <1>4, <1>8, <1>10, MakeCalls
<1>12. GoesOn(t, f, g, n, fs)
  <2>1. n # 0 /\ fs[n].op = "make" /\ fs[n].on = f.on
    BY <1>4, <1>11
  <2> QED
    BY <1>5, <1>9, <1>10, <2>1, Awaits DEF GoesOn, Holds, NeedsPool, Assigns, Makes
<1>13. Joins(t, f, g, n, fs)
  BY <1>9, <1>10, <1>11, <1>12 DEF Joins
<1>14. Enter(t, fs, "unlock")
  BY <1>1, <1>3 DEF DynamicLock
<1> QED
  BY <1>1, <1>2, <1>5, <1>7, <1>9, <1>11, <1>13, <1>14, QuietEnter

\* With nobody making prototypes, those that exist are cross-linked.
LEMMA DynamicUnlockKeeps == ASSUME IInv, NEW t \in Thread, DynamicUnlock(t) PROVE IInv'
<1>1. PICK f : f = Top(t)
  OBVIOUS
<1>2. stack[t] # <<>> /\ CallOK(f) /\ f \in Record /\ f.op = "dynamic" /\ f.at = "unlock" /\ ~dead
      /\ f = stack[t][1]
  BY <1>1, TopCall DEF DynamicUnlock
<1>3. /\ lock' \in [Lock -> Thread \cup {None}] /\ lock'["prototypes"] = None
      /\ \A l \in HeldLock : l # "prototypes" => lock'[l] = lock[l]
  BY Released DEF DynamicUnlock, Lock, IInv
<1>4. Quiet
  BY <1>2, <1>3, SameFlags DEF DynamicUnlock, Quiet, IInv
<1>5. f.on \in Type /\ ResultOK("make", f.on, ret[t])
  BY <1>2, FirstWaits DEF Waits, AwaitedOp, AwaitedOn, Assigns, IInv, CallOK
<1>6. \A u \in Thread : \A i \in DOMAIN stack[u] : ~Within(stack[u][i], "prototypes")
  BY <1>2, FirstHolds DEF IInv, HeldLock, Holds
<1>7. Given(f.on, ret[t]) /\ (f.on \in DroppedTypes => ret[t] \in linked)
  BY <1>5, <1>6 DEF ResultOK, Given, IInv, LinksOK, Makes, Within
<1>8. ResultOK(f.op, f.on, ret[t])
  BY <1>2, <1>5, <1>7 DEF ResultOK
<1>9. ~Adds(f) /\ ~Makes(f) /\ \A l \in HeldLock : LockLeft(f, l)
  BY <1>2, <1>3 DEF Adds, Makes, LockLeft, Holds, Assigns
<1>10. Return(t, ret[t])
  BY DEF DynamicUnlock
<1> QED
  BY <1>1, <1>2, <1>4, <1>8, <1>9, <1>10, QuietReturn

\* The type of a field is in a file that is built.
LEMMA MakeFieldKeeps == ASSUME IInv, NEW t \in Thread, MakeField(t) PROVE IInv'
<1>1. PICK f : f = Top(t)
  OBVIOUS
<1>2. stack[t] # <<>> /\ CallOK(f) /\ f \in Record /\ f.op = "make" /\ f.at = "field" /\ ~dead
      /\ f = stack[t][1]
  BY <1>1, TopCall DEF MakeField
<1>3. PICK g : g = [op |-> "make", on |-> f.on, at |-> "type", i |-> f.i + 1]
  OBVIOUS
<1>4. PICK p : p = <<f.on, Fields[f.on][f.i]>>
  OBVIOUS
<1>5. PICK T : T = ret[t]
  OBVIOUS
<1>6. PICK fs : fs = Make(T)
  OBVIOUS
<1>7. PICK n : n = 2
  OBVIOUS
<1>8. Quiet /\ lock' = lock
  BY <1>2, SameFlags DEF MakeField, Quiet, IInv
<1>9. ResultOK("type", p, ret[t])
  BY <1>2, <1>4, FirstWaits, Awaits DEF Waits, IInv
<1>10. T = p[2] /\ p \in link
  BY <1>9, <1>5 DEF ResultOK
<1>11. T \in Type /\ FileOf[T] \in built
  BY <1>10 DEF IInv, TypesOK, PoolOK, Pair
<1>12. g \in Record /\ g.op = "make" /\ g.on = f.on /\ g.at = "type"
  <2>1. "type" \in Places /\ f \in [op : {"make"}, on : On, at : Places, i : Nat \ {0}]
    BY <1>2, PlaceNames DEF Record, Ops
  <2>2. g \in [op : {"make"}, on : On, at : Places, i : Nat \ {0}] /\ g.on = f.on /\ g.at = "type"
    BY <1>3, <2>1
  <2> QED
    BY <2>2 DEF Record
<1>13. CallOK(g)
  BY <1>2, <1>12 DEF CallOK, Assigns
<1>14. Within(f, "prototypes") /\ \A l \in HeldLock : LockStep(t, f, g, l)
  BY <1>2, <1>8, <1>12 DEF Assigns, LockStep, Holds, Within
<1>15. /\ fs \in Seq(Record) /\ Len(fs) = n
       /\ \A k \in 1..n : CallOK(fs[k]) /\ NewCall(f, g, n, fs, k) /\ fs[k].op # "add"
  BY <1>6, <1>7, <1>11, <1>14, MakeCalls
<1>16. GoesOn(t, f, g, n, fs)
  BY <1>2, <1>12, <1>14 DEF GoesOn, Waits, Holds, NeedsPool, Assigns, Makes
<1>17. Joins(t, f, g, n, fs)
  BY <1>12, <1>13, <1>15, <1>16 DEF Joins
<1>18. Pushes(t, f, g, n, fs)
  <2>1. stack' = [stack EXCEPT ![t] = fs \o <<g>> \o Tail(stack[t])]
    BY <1>1, <1>3, <1>5, <1>6 DEF MakeField
  <2> QED
    BY <1>2, <1>12, <1>15, <2>1 DEF Pushes, MakeField
<1> QED
  BY <1>8, <1>17, <1>18, QuietPush DEF Quiet

\* The table is looked at again under the lock.
LEMMA UnknownWriteKeeps == ASSUME IInv, NEW t \in Thread, UnknownWrite(t) PROVE IInv'
<1>1. PICK f : f = Top(t)
  OBVIOUS
<1>2. stack[t] # <<>> /\ CallOK(f) /\ f \in Record /\ f.op = "unknown" /\ f.at = "write" /\ ~dead
  BY <1>1, TopCall DEF UnknownWrite
<1>3. CASE unknown[f.on] # None
  <2>1. Return(t, unknown[f.on]) /\ lock' = lock
    BY <1>1, <1>3 DEF UnknownWrite
  <2>2. Quiet
    BY <1>2, <2>1, SameFlags DEF UnknownWrite, Quiet, IInv
  <2>3. ResultOK(f.op, f.on, unknown[f.on]) /\ ~Adds(f) /\ ~Makes(f) /\ \A l \in HeldLock : LockLeft(f, l)
    BY <1>2, <1>3, <2>1 DEF ResultOK, CallOK, Adds, Makes, LockLeft, Holds, Assigns
  <2> QED
    BY <1>1, <1>2, <2>1, <2>2, <2>3, QuietReturn
<1>4. CASE unknown[f.on] = None
  <2>1. PICK g : g = [f EXCEPT !.at = "create"]
    OBVIOUS
  <2>2. PICK fs : fs = GeneratedPool
    OBVIOUS
  <2>3. PICK n : n = Len(fs)
    OBVIOUS
  <2>4. "create" \in Places /\ Enter(t, fs, "create") /\ Take(t, "unknown") /\ fs \in Seq(Record)
    BY <1>1, <1>4, <2>2, PlaceNames, PoolCalls DEF UnknownWrite
  <2>5. /\ lock' \in [Lock -> Thread \cup {None}] /\ lock["unknown"] = None /\ lock'["unknown"] = t
        /\ \A l \in HeldLock : l # "unknown" => lock'[l] = lock[l]
    BY <2>4, Taken DEF Lock, IInv
  <2>6. Quiet
    BY <1>2, <2>5, SameFlags DEF UnknownWrite, Quiet, IInv
  <2>7. g \in Record /\ g.op = "unknown" /\ g.on = f.on /\ g.at = "create"
    BY <1>2, <2>1, <2>4, NewPlace
  <2>8. CallOK(g) /\ g.op # "add" /\ \A l \in HeldLock : LockStep(t, f, g, l)
    BY <1>2, <2>5, <2>7 DEF CallOK, Assigns, LockStep, Holds
  <2>9. GoesOn(t, f, g, n, fs)
    BY <1>2, <1>4, <2>7, <2>8 DEF GoesOn, Waits, NeedsPool, Assigns, Makes
  <2>10. Joins(t, f, g, n, fs)
    BY <2>2, <2>3, <2>8, <2>9, PoolJoins DEF Joins
  <2> QED
    BY <1>1, <1>2, <2>1, <2>3, <2>4, <2>6, <2>10, QuietEnter
<1> QED
  BY <1>3, <1>4

\* The innermost call is the first.
LEMMA FirstIsHead ==
  ASSUME NEW s \in Seq(Record), s # <<>>
  PROVE  1 \in DOMAIN s /\ Head(s) = s[1]
BY EmptySeq, LenProperties

\* The innermost call of AssignDescriptors, eager or not.
LEMMA AssignTop ==
  ASSUME IInv, NEW t \in Thread, NEW at, At(t, "assign", at) \/ At(t, "assign eagerly", at), NEW f, f = Top(t)
  PROVE  stack[t] # <<>> /\ f = stack[t][1] /\ CallOK(f) /\ f \in Record /\ Assigns(f) /\ f.at = at /\ ~dead
<1>1. stack[t] # <<>> /\ Top(t).op \in {"assign", "assign eagerly"} /\ Top(t).at = at /\ ~dead
  BY DEF At
<1>2. stack[t] \in Seq(Record) /\ 1 \in DOMAIN stack[t] /\ Head(stack[t]) = stack[t][1]
  <2>1. stack[t] \in Seq(Record)
    BY DEF TypesOK, IInv
  <2>2. stack[t] # <<>>
    BY <1>1
  <2> QED
    BY <2>1, <2>2, FirstIsHead
<1>3. f = stack[t][1] /\ CallOK(f) /\ f \in Record
  BY <1>2 DEF CallsOK, CallOK, Top, IInv
<1> QED
  BY <1>1, <1>3 DEF Assigns

\* AddDescriptors is called under its mutex.
LEMMA AssignAddKeeps == ASSUME IInv, NEW t \in Thread, AssignAdd(t) PROVE IInv'
<1>1. PICK f : f = Top(t)
  OBVIOUS
<1>2. PICK g : g = [f EXCEPT !.at = "added"]
  OBVIOUS
<1>3. PICK h : h = Frame("add", f.on, "start")
  OBVIOUS
<1>4. stack[t] # <<>> /\ CallOK(f) /\ f \in Record /\ Assigns(f) /\ f.at = "add" /\ ~dead
      /\ f = stack[t][1]
  BY <1>1, AssignTop DEF AssignAdd
<1>5. /\ lock' \in [Lock -> Thread \cup {None}] /\ lock["add"] = None /\ lock'["add"] = t
      /\ \A l \in HeldLock : l # "add" => lock'[l] = lock[l]
  BY Taken DEF AssignAdd, Lock, IInv
<1>6. Quiet
  BY <1>4, <1>5, SameFlags DEF AssignAdd, Quiet, IInv
<1>7. "added" \in Places /\ Enter(t, <<h>>, "added")
  BY <1>1, <1>3, PlaceNames DEF AssignAdd
<1>8. g \in Record /\ g.op = f.op /\ g.on = f.on /\ g.at = "added" /\ Assigns(g)
  <2> g \in Record /\ g.op = f.op /\ g.on = f.on /\ g.at = "added"
    BY <1>4, <1>2, <1>7, NewPlace
  <2> QED
    BY <1>4 DEF Assigns
<1>9. f.on \in File /\ f.on \in On
  BY <1>4 DEF CallOK, Assigns, On
<1>10. h \in Record /\ h.op = "add" /\ h.on = f.on /\ h.at = "start"
  <2>1. "add" \in Ops /\ "start" \in Places
    BY PlaceNames, OpNames
  <2> QED
    BY <1>9, <1>3, <2>1, FrameFields
<1>11. CallOK(h)
  BY <1>9, <1>10 DEF CallOK, Assigns
<1>12. CallOK(g) /\ g.op # "add" /\ Holds(g, "add") /\ \A l \in HeldLock : LockStep(t, f, g, l)
  BY <1>4, <1>5, <1>8, <1>9 DEF CallOK, Assigns, LockStep, Holds
<1>13. NewCall(f, g, 1, <<h>>, 1)
  <2>1. \A l \in HeldLock : ~Holds(h, l) /\ (Within(h, l) => l = "add")
    BY <1>10 DEF Holds, Within, Assigns
  <2> QED
    BY <1>10, <1>12, <2>1 DEF NewCall, Assigns, Waits, NeedsPool
<1>14. GoesOn(t, f, g, 1, <<h>>)
  <2>1. NeedsPool(g) => Lazy \subseteq assigned
    BY <1>4, <1>8, FirstNeeds DEF NeedsPool, Assigns, IInv
  <2>2. PICK fs, n : fs = <<h>> /\ n = 1
    OBVIOUS
  <2>3. n # 0 /\ fs[n].op = AwaitedOp(g) /\ fs[n].on = AwaitedOn(g)
    BY <1>8, <1>10, <2>2, Awaits
  <2>4. ~Holds(g, "unknown") /\ g.op # "register" /\ ~Makes(f)
    BY <1>4, <1>8 DEF Assigns, Makes, Holds
  <2>5. GoesOn(t, f, g, n, fs)
    BY <1>12, <2>1, <2>3, <2>4 DEF GoesOn
  <2> QED
    BY <2>2, <2>5
<1> QED
  BY <1>1, <1>2, <1>4, <1>6, <1>7, <1>10, <1>11, <1>12, <1>13, <1>14, QuietCall

\* Taking a once flag finishes none.
LEMMA OnceTaken ==
  ASSUME TypesOK, NEW t \in Thread, NEW x \in File \cup Pair, once' = [once EXCEPT ![x] = t]
  PROVE  OnceKept
<1>1. once' \in [File \cup Pair -> {"new", "none", "done"} \cup Thread]
  BY DEF TypesOK
<1>2. t \notin {"none", "done"}
  BY ValuesOK
<1>3. \A y \in File \cup Pair : y # x => once'[y] = once[y]
  BY DEF TypesOK
<1>4. once'[x] = t
  BY DEF TypesOK
<1> QED
  BY <1>1, <1>2, <1>3, <1>4 DEF OnceKept

\* A once flag that is done says the file is assigned.
LEMMA AssignOnceKeeps == ASSUME IInv, NEW t \in Thread, AssignOnce(t) PROVE IInv'
<1>1. PICK f : f = Top(t)
  OBVIOUS
<1>2. stack[t] # <<>> /\ f = stack[t][1] /\ CallOK(f) /\ f \in Record /\ Assigns(f) /\ f.at = "once" /\ ~dead
  BY <1>1, AssignTop DEF AssignOnce
<1>3. f.on \in File /\ lock' = lock /\ UNCHANGED <<tables, pool, caches, dead>>
  BY <1>2 DEF CallOK, Assigns, AssignOnce
<1>4. CASE once[f.on] = "done" /\ Return(t, IF f.on \in assigned THEN f.on ELSE None) /\ UNCHANGED once
  <2>1. f.on \in assigned
    BY <1>3, <1>4 DEF IInv, PoolOK
  <2>2. Return(t, f.on)
    BY <1>4, <2>1
  <2>3. Quiet
    BY <1>2, <1>3, <1>4, SameFlags DEF Quiet, IInv
  <2>4. ResultOK(f.op, f.on, f.on)
    BY <1>2, <2>1 DEF ResultOK, Assigns
  <2>5. ~Adds(f) /\ ~Makes(f) /\ \A l \in HeldLock : LockLeft(f, l)
    BY <1>2, <1>3 DEF Adds, Makes, LockLeft, Holds, Assigns
  <2> QED
    BY <1>1, <1>2, <2>2, <2>3, <2>4, <2>5, QuietReturn
<1>5. CASE /\ once' = [once EXCEPT ![f.on] = t]
           /\ Enter(t, IF f.on \in Lazy \/ f.op = "assign eagerly" THEN <<>> ELSE GeneratedPool, "add")
  <2>1. PICK g : g = [f EXCEPT !.at = "add"]
    OBVIOUS
  <2>2. OnceKept
    BY <1>3, <1>5, OnceTaken DEF IInv
  <2>3. Quiet
    BY <1>2, <1>3, <2>2, SameFlags DEF Quiet, IInv
  <2>4. "add" \in Places /\ g \in Record /\ g.op = f.op /\ g.on = f.on /\ g.at = "add"
    BY <1>2, <2>1, NewPlace, PlaceNames
  <2>5. CallOK(g) /\ g.op # "add" /\ \A l \in HeldLock : LockStep(t, f, g, l)
    BY <1>2, <1>3, <2>4 DEF CallOK, Assigns, LockStep, Holds
  <2>6. ~Waits(g) /\ ~Holds(g, "unknown") /\ g.op # "register" /\ ~Makes(f)
    BY <1>2, <2>4 DEF Waits, Holds, Assigns, Makes
  <2>7. CASE f.on \in Lazy \/ f.op = "assign eagerly"
    <3>1. NeedsPool(g) => Lazy \subseteq assigned
      BY <1>2, <2>4, <2>7, FirstNeeds DEF NeedsPool, Assigns, IInv
    <3>2. GoesOn(t, f, g, 0, <<>>)
      BY <2>5, <2>6, <3>1 DEF GoesOn
    <3>3. Go(t, "add")
      BY <1>5, <2>7 DEF Go
    <3> QED
      BY <1>1, <1>2, <2>1, <2>3, <2>4, <2>5, <3>2, <3>3, QuietGo
  <2>8. CASE ~(f.on \in Lazy \/ f.op = "assign eagerly")
    <3>1. PICK fs : fs = GeneratedPool
      OBVIOUS
    <3>2. PICK n : n = Len(fs)
      OBVIOUS
    <3>3. Enter(t, fs, "add") /\ fs \in Seq(Record)
      BY <1>5, <2>8, <3>1, PoolCalls
    <3>4. \A F \in Lazy : F \in assigned \/ \E k \in 1..n : fs[k].op = "assign" /\ fs[k].on = F
      BY <3>1, <3>2, PoolCalls
    <3>5. GoesOn(t, f, g, n, fs)
      BY <2>5, <2>6, <3>4 DEF GoesOn
    <3>6. Joins(t, f, g, n, fs)
      BY <2>5, <3>1, <3>2, <3>5, PoolJoins DEF Joins
    <3> QED
      BY <1>1, <1>2, <2>1, <2>3, <2>4, <3>2, <3>3, <3>6, QuietEnter
  <2> QED
    BY <2>7, <2>8
<1> QED
  BY <1>1, <1>4, <1>5 DEF AssignOnce

\* A field without a once flag, or with one that is done, is linked.
LEMMA TypeEnterKeeps == ASSUME IInv, NEW t \in Thread, TypeEnter(t) PROVE IInv'
<1>1. PICK f : f = Top(t)
  OBVIOUS
<1>2. PICK p : p = f.on
  OBVIOUS
<1>3. stack[t] # <<>> /\ CallOK(f) /\ f \in Record /\ f.op = "type" /\ f.at = "enter" /\ ~dead
  BY <1>1, TopCall DEF TypeEnter
<1>4. p \in Pair /\ FileOf[p[1]] \in built /\ lock' = lock /\ UNCHANGED <<tables, pool, caches, dead>>
  BY <1>3, <1>2 DEF CallOK, TypeEnter
<1>5. CASE once[p] \in {"none", "done"} /\ UNCHANGED once /\ Return(t, IF p \in link THEN p[2] ELSE None)
  <2>1. p \in link
    BY <1>4, <1>5 DEF IInv, PoolOK
  <2>2. Return(t, p[2])
    BY <1>5, <2>1
  <2>3. Quiet
    BY <1>3, <1>4, <1>5, SameFlags DEF Quiet, IInv
  <2>4. ResultOK(f.op, f.on, p[2])
    BY <1>3, <1>2, <2>1 DEF ResultOK
  <2>5. ~Adds(f) /\ ~Makes(f) /\ \A l \in HeldLock : LockLeft(f, l)
    BY <1>3, <1>4 DEF Adds, Makes, LockLeft, Holds, Assigns
  <2> QED
    BY <1>1, <1>3, <2>2, <2>3, <2>4, <2>5, QuietReturn
<1>6. CASE /\ once' = [once EXCEPT ![p] = t]
           /\ Enter(t, <<Frame("find", FileOf[p[2]], "cached")>>, "link")
  <2>1. PICK g : g = [f EXCEPT !.at = "link"]
    OBVIOUS
  <2>2. PICK h : h = Frame("find", FileOf[p[2]], "cached")
    OBVIOUS
  <2>3. OnceKept
    BY <1>4, <1>6, OnceTaken DEF IInv
  <2>4. Quiet
    BY <1>3, <1>4, <2>3, SameFlags DEF Quiet, IInv
  <2>5. "link" \in Places /\ g \in Record /\ g.op = f.op /\ g.on = f.on /\ g.at = "link"
    BY <1>3, <2>1, NewPlace, PlaceNames
  <2>6. FileOf[p[2]] \in File /\ Ready(FileOf[p[2]])
    <3>1. p[2] \in Type /\ FileOf[p[2]] \in File
      BY <1>4, GraphOK DEF Pair
    <3>2. PICK S \in SUBSET registered : FileOf[p[1]] \in S /\ Closed(S)
      BY <1>4 DEF IInv, PoolOK, Ready
    <3> QED
      BY <1>4, <3>1, <3>2 DEF Ready, Closed
  <2>7. h \in Record /\ CallOK(h) /\ h.op = "find" /\ h.on = FileOf[p[2]] /\ NewCall(f, g, 1, <<h>>, 1)
    BY <2>6, <2>2, FindCall
  <2>8. CallOK(g) /\ g.op # "add" /\ \A l \in HeldLock : LockStep(t, f, g, l)
    BY <1>3, <1>4, <2>5 DEF CallOK, Assigns, LockStep, Holds
  <2>9. GoesOn(t, f, g, 1, <<h>>)
    <3>1. PICK fs, n : fs = <<h>> /\ n = 1
      OBVIOUS
    <3>2. n # 0 /\ fs[n].op = AwaitedOp(g) /\ fs[n].on = AwaitedOn(g)
      BY <1>3, <1>2, <2>5, <2>7, <3>1, Awaits
    <3>3. ~NeedsPool(g) /\ ~Holds(g, "unknown") /\ g.op # "register" /\ ~Makes(f)
      BY <1>3, <2>5 DEF Assigns, Makes, Holds, NeedsPool
    <3>4. GoesOn(t, f, g, n, fs)
      BY <2>8, <3>2, <3>3 DEF GoesOn
    <3> QED
      BY <3>1, <3>4
  <2>10. Enter(t, <<h>>, "link")
    BY <1>6, <2>2
  <2> QED
    BY <1>1, <1>3, <2>1, <2>4, <2>5, <2>7, <2>8, <2>9, <2>10, QuietCall
<1> QED
  BY <1>1, <1>2, <1>5, <1>6 DEF TypeEnter

\* The file that AddDescriptors was called for, and all it may lead to, is registered.
LEMMA AddedReady ==
  ASSUME IInv, NEW t \in Thread, stack[t] # <<>>, NEW f, f = stack[t][1], CallOK(f), Assigns(f), f.at = "added"
  PROVE  f.on \in registered /\ Ready(f.on)
<1>1. f.on \in File
  BY DEF CallOK, Assigns
<1>2. Waits(f) /\ AwaitedOp(f) = "add" /\ AwaitedOn(f) = f.on
  BY Awaits DEF Waits
<1>3. ResultOK("add", f.on, ret[t])
  BY <1>2, FirstWaits DEF IInv
<1>4. f.on \in initialized
  BY <1>3 DEF ResultOK
<1>5. \A u \in Thread : \A i \in DOMAIN stack[u] : stack[u][i].op # "add"
  <2>1. "add" \in HeldLock /\ Holds(f, "add")
    BY DEF HeldLock, Holds
  <2> QED
    BY <2>1, FirstHolds DEF IInv, Within
<1>6. initialized \subseteq registered
  BY <1>5 DEF IInv, AddsOK, Adds
<1>7. CASE f.on \in Lazy
  <2>1. \A F \in registered \cap Lazy : ToSet(Deps[F]) \subseteq registered \cap Lazy
    <3> TAKE F \in registered \cap Lazy
    <3>1. F \in initialized \cap Lazy
      BY DEF IInv, TypesOK
    <3>2. ToSet(Deps[F]) \subseteq Lazy
      BY LazyOK
    <3>3. \A G \in ToSet(Deps[F]) : G \in initialized
      BY <1>5, <3>1 DEF IInv, AddsOK
    <3> QED
      BY <1>6, <3>2, <3>3
  <2>2. PICK S : S = registered \cap Lazy
    OBVIOUS
  <2>3. Closed(S)
    BY <2>1, <2>2, LazyOK DEF Closed
  <2>4. S \in SUBSET registered /\ f.on \in S
    BY <1>4, <1>6, <1>7, <2>2
  <2> QED
    BY <2>3, <2>4 DEF Ready
<1>8. CASE f.on \notin Lazy
  <2>1. NeedsPool(f)
    BY <1>8 DEF NeedsPool, Assigns
  <2>2. Lazy \subseteq assigned
    BY <2>1, FirstNeeds DEF IInv
  <2> QED
    BY <1>1, <2>2, AllReady DEF IInv
<1> QED
  BY <1>7, <1>8

\* The file is registered and all that it needs is, so the pool can build it.
LEMMA AssignAddedKeeps == ASSUME IInv, NEW t \in Thread, AssignAdded(t) PROVE IInv'
<1>1. PICK f : f = Top(t)
  OBVIOUS
<1>2. PICK F : F = f.on
  OBVIOUS
<1>3. PICK g : g = [f EXCEPT !.at = "assign"]
  OBVIOUS
<1>4. PICK c : c = IF f.op = "assign eagerly" \/ F \in Eager THEN Calls("assign eagerly", Deps[F], "once") ELSE <<>>
  OBVIOUS
<1>5. PICK h : h = Frame("find", F, "lock")
  OBVIOUS
<1>6. PICK fs : fs = c \o <<h>>
  OBVIOUS
<1>7. PICK m : m = Len(c)
  OBVIOUS
<1>8. PICK n : n = m + 1
  OBVIOUS
<1>9. stack[t] # <<>> /\ f = stack[t][1] /\ CallOK(f) /\ f \in Record /\ Assigns(f) /\ f.at = "added" /\ ~dead
  BY <1>1, AssignTop DEF AssignAdded
<1>10. /\ lock' \in [Lock -> Thread \cup {None}] /\ lock'["add"] = None
       /\ \A l \in HeldLock : l # "add" => lock'[l] = lock[l]
  BY Released DEF AssignAdded, Lock, IInv
<1>11. Quiet
  BY <1>9, <1>10, SameFlags DEF AssignAdded, Quiet, IInv
<1>12. Enter(t, fs, "assign")
  BY <1>1, <1>2, <1>4, <1>5, <1>6 DEF AssignAdded
<1>13. "assign" \in Places /\ g \in Record /\ g.op = f.op /\ g.on = F /\ g.at = "assign"
  BY <1>9, <1>3, <1>2, NewPlace, PlaceNames
<1>14. F \in File /\ F \in registered /\ Ready(F)
  BY <1>9, <1>2, AddedReady DEF CallOK, Assigns
<1>15. CallOK(g) /\ g.op # "add" /\ Assigns(g) /\ \A l \in HeldLock : LockStep(t, f, g, l)
  BY <1>9, <1>10, <1>13, <1>14 DEF CallOK, Assigns, LockStep, Holds
<1>16. F \in Lazy \/ Lazy \subseteq assigned
  BY <1>9, <1>2, FirstNeeds DEF IInv, NeedsPool, Assigns
<1>17. /\ c \in Seq(Record) /\ m \in Nat
       /\ \A k \in 1..m : c[k].op = "assign eagerly" /\ c[k].on \in ToSet(Deps[F]) /\ c[k].at = "once"
  <2>1. CASE f.op = "assign eagerly" \/ F \in Eager
    <3>1. PICK op, at : op = "assign eagerly" /\ at = "once"
      OBVIOUS
    <3>2. op \in Ops /\ at \in Places
      BY <3>1, PlaceNames, OpNames
    <3>3. PICK ds : ds = Deps[F]
      OBVIOUS
    <3>4. ds \in Seq(File) /\ c = Calls(op, ds, at)
      BY <1>4, <1>14, <2>1, <3>1, <3>3, GraphOK
    <3>5. /\ c \in Seq(Record) /\ Len(c) = Len(ds)
          /\ \A k \in 1..Len(ds) : /\ c[k] = Frame(op, ds[k], at) /\ ds[k] \in ToSet(ds)
                                   /\ c[k].op = op /\ c[k].on = ds[k] /\ c[k].at = at
      BY <3>2, <3>4, CallsFields
    <3> QED
      BY <1>7, <3>1, <3>3, <3>5, LenProperties
  <2>2. CASE ~(f.op = "assign eagerly" \/ F \in Eager)
    <3> c = <<>>
      BY <1>4, <2>2
    <3> QED
      BY <1>7
  <2> QED
    BY <2>1, <2>2
<1>18. h \in Record /\ CallOK(h) /\ h.op = "find" /\ h.on = F
       /\ \A r, k : r[k] = h => NewCall(f, g, n, r, k)
  BY <1>14, <1>5, FindCall
<1>19. /\ fs \in Seq(Record) /\ Len(fs) = n /\ fs[n] = h
       /\ \A k \in 1..n : k = n \/ (k \in 1..m /\ fs[k] = c[k])
  <2>1. <<h>> \in Seq(Record) /\ Len(<<h>>) = 1 /\ <<h>>[1] = h
    BY <1>18
  <2>2. PICK q : q = <<h>>
    OBVIOUS
  <2>3. q \in Seq(Record) /\ Len(q) = 1 /\ q[1] = h
    BY <2>1, <2>2
  <2>4. /\ c \o q \in Seq(Record) /\ Len(c \o q) = Len(c) + Len(q)
        /\ \A k \in 1..Len(c) + Len(q) : (c \o q)[k] = IF k <= Len(c) THEN c[k] ELSE q[k - Len(c)]
    BY <1>17, <2>3, ConcatProperties
  <2>5. fs = c \o q
    BY <1>6, <2>2
  <2>6. m \in Nat /\ Len(c) = m /\ Len(q) = 1
    BY <1>7, <1>17, <2>3
  <2>7. fs \in Seq(Record) /\ Len(fs) = n /\ \A k \in 1..n : fs[k] = IF k <= m THEN c[k] ELSE q[k - m]
    BY <1>8, <2>4, <2>5, <2>6
  <2>8. n \in 1..n /\ ~(n <= m) /\ n - m = 1
    BY <1>8, <2>6
  <2>9. \A k \in 1..n : k = n \/ k \in 1..m
    BY <1>8, <2>6
  <2>10. fs[n] = h
    BY <2>3, <2>7, <2>8
  <2>11. \A k \in 1..m : k \in 1..n /\ k <= m
    BY <1>8, <2>6
  <2>12. \A k \in 1..m : fs[k] = c[k]
    BY <2>7, <2>11
  <2>13. \A k \in 1..n : k = n \/ (k \in 1..m /\ fs[k] = c[k])
    BY <2>9, <2>12
  <2> QED
    BY <2>7, <2>10, <2>13
<1>20. \A k \in 1..m : CallOK(fs[k]) /\ NewCall(f, g, n, fs, k) /\ fs[k].op # "add"
  <2> TAKE k \in 1..m
  <2>1. fs[k] \in Record /\ fs[k].op = "assign eagerly" /\ fs[k].on \in ToSet(Deps[F]) /\ fs[k].at = "once"
    <3>1. m \in Nat
      BY <1>17
    <3>2. k \in 1..n /\ k # n
      BY <1>8, <3>1
    <3>3. fs[k] = c[k]
      BY <1>19, <3>2
    <3>4. c[k] \in Record
      BY <1>17, <1>7, ElementOfSeq
    <3> QED
      BY <1>17, <3>3, <3>4
  <2>2. fs[k].on \in File
    <3>1. Deps[F] \in Seq(File)
      BY <1>14, GraphOK
    <3>2. \A i \in DOMAIN Deps[F] : Deps[F][i] \in File
      BY <3>1, LenProperties, ElementOfSeq
    <3> QED
      BY <2>1, <3>2 DEF ToSet
  <2>3. CallOK(fs[k])
    BY <2>1, <2>2 DEF CallOK, Assigns
  <2>4. fs[k].on \in Lazy \/ Lazy \subseteq assigned
    BY <1>16, <2>1, LazyOK
  <2>5. NeedsPool(fs[k]) => Lazy \subseteq assigned
    BY <2>1, <2>4 DEF NeedsPool, Assigns
  <2>6. ~Waits(fs[k]) /\ \A l \in HeldLock : ~Holds(fs[k], l) /\ ~Within(fs[k], l)
    BY <2>1 DEF Waits, Holds, Within, Assigns
  <2>7. NewCall(f, g, n, fs, k)
    BY <2>1, <2>5, <2>6 DEF NewCall
  <2> QED
    BY <2>1, <2>3, <2>7
<1>21. GoesOn(t, f, g, n, fs)
  <2>1. n # 0 /\ fs[n].op = AwaitedOp(g) /\ fs[n].on = AwaitedOn(g)
    <3>1. m \in Nat
      BY <1>17
    <3>2. n # 0
      BY <1>8, <3>1
    <3>3. fs[n].op = "find" /\ fs[n].on = F
      BY <1>18, <1>19
    <3> QED
      BY <1>13, <1>15, <3>2, <3>3, Awaits
  <2>2. NeedsPool(g) => Lazy \subseteq assigned
    BY <1>13, <1>15, <1>16 DEF NeedsPool, Assigns
  <2>3. ~Holds(g, "unknown") /\ g.op # "register" /\ ~Makes(f)
    BY <1>9, <1>15 DEF Holds, Assigns, Makes
  <2> QED
    BY <1>15, <2>1, <2>2, <2>3 DEF GoesOn
<1>22. Joins(t, f, g, n, fs)
  <2>1. \A k \in 1..n : CallOK(fs[k]) /\ NewCall(f, g, n, fs, k) /\ (fs[k].op = "add" => fs[k].at = "start")
    BY <1>18, <1>19, <1>20
  <2> QED
    BY <1>15, <1>21, <2>1 DEF Joins
<1> QED
  BY <1>1, <1>3, <1>9, <1>11, <1>12, <1>13, <1>19, <1>22, QuietEnter

(* Steps that change more. *)

\* The file of the field's type was found, so the field is linked.
LEMMA TypeLinkKeeps == ASSUME IInv, NEW t \in Thread, TypeLink(t) PROVE IInv'
<1>1. PICK f : f = Top(t)
  OBVIOUS
<1>2. PICK p : p = f.on
  OBVIOUS
<1>3. stack[t] # <<>> /\ f = stack[t][1] /\ CallOK(f) /\ f \in Record /\ f.op = "type" /\ f.at = "link" /\ ~dead
  BY <1>1, TopCall DEF TypeLink
<1>4. p \in Pair /\ FileOf[p[1]] \in built /\ ResultOK("find", FileOf[p[2]], ret[t])
  <2>1. CallOK(f) /\ Waits(f) /\ AwaitedOp(f) = "find" /\ AwaitedOn(f) = FileOf[p[2]]
    BY <1>3, <1>2, Awaits DEF Waits
  <2>2. ResultOK("find", FileOf[p[2]], ret[t])
    BY <1>3, <2>1, FirstWaits DEF IInv
  <2> QED
    BY <1>3, <1>2, <2>2 DEF CallOK
<1>5. FileOf[p[2]] \in built /\ ret[t] # None
  <2> FileOf[p[2]] \in File
    BY <1>4, GraphOK DEF Pair
  <2> QED
    BY <1>4, ValuesOK DEF ResultOK
<1>6. /\ link' = link \cup {p} /\ once' = [once EXCEPT ![p] = "done"] /\ Return(t, p[2])
      /\ UNCHANGED <<lock, tables, built, assigned, caches, dead>>
  BY <1>1, <1>2, <1>5 DEF TypeLink
<1>7. Grows
  BY <1>6 DEF Grows, tables, caches
<1>8. Pops(t, f, p[2])
  BY <1>1, <1>3, <1>6, ReturnPops DEF IInv
<1>9. ResultOK(f.op, f.on, p[2])'
  BY <1>3, <1>2, <1>6 DEF ResultOK
<1>10. TypesOK'
  <2>1. stack' \in [Thread -> Seq(Record)] /\ DOMAIN ret' = Thread /\ asked' = asked
    BY <1>8, PopShapes DEF PopShape, IInv, TypesOK, Pops
  <2>2. once' \in [File \cup Pair -> {"new", "none", "done"} \cup Thread]
    BY <1>4, <1>6 DEF IInv, TypesOK
  <2> QED
    BY <1>3, <1>4, <1>6, <2>1, <2>2 DEF IInv, TypesOK, tables, caches
<1>11. PoolOK'
  <2>1. \A F \in built' : Ready(F)'
    BY <1>6 DEF IInv, PoolOK, Ready, tables
  <2>2. \A q \in link' : FileOf[q[1]] \in built' /\ FileOf[q[2]] \in built'
    BY <1>4, <1>5, <1>6 DEF IInv, PoolOK
  <2>3. \A x \in File \cup Pair : x # p => once'[x] = once[x]
    BY <1>6 DEF IInv, TypesOK
  <2>4. \A q \in Pair : FileOf[q[1]] \in built' /\ once'[q] \in {"none", "done"} => q \in link'
    BY <1>6, <2>3 DEF IInv, PoolOK
  <2>5. \A F \in File : once'[F] = "done" => F \in assigned'
    BY <1>4, <1>6, <2>3, ValuesOK DEF IInv, PoolOK
  <2> QED
    BY <2>1, <2>2, <2>4, <2>5 DEF PoolOK
<1>12. FactoryOK'
  BY <1>6 DEF IInv, FactoryOK, caches
<1>13. ~Adds(f) /\ ~Makes(f) /\ \A l \in HeldLock : LockLeft(f, l)
  BY <1>3, <1>6 DEF Adds, Makes, LockLeft, Holds, Assigns
<1>14. Calling'
  <2>1. prototypes' = prototypes
    BY <1>6 DEF caches
  <2> QED
    BY <1>7, <1>8, <1>9, <1>13, <2>1, PopStep DEF IInv, Calling
<1>15. AddsOK' /\ RegistersOK' /\ CreatesOK'
  <2>1. UNCHANGED AddTables /\ type_map' = type_map /\ unknown' = unknown /\ (f.op = "add" => f.on \in initialized)
    BY <1>3, <1>6 DEF tables, caches, AddTables
  <2> QED
    BY <1>8, <1>13, <2>1, PopAdds, PopRegisters, PopCreates DEF IInv
<1> QED
  BY <1>10, <1>11, <1>12, <1>14, <1>15 DEF IInv, Calling

\* The file was found.
LEMMA AssignMessagesKeeps == ASSUME IInv, NEW t \in Thread, AssignMessages(t) PROVE IInv'
<1>1. PICK f : f = Top(t)
  OBVIOUS
<1>2. PICK F : F = f.on
  OBVIOUS
<1>3. stack[t] # <<>> /\ f = stack[t][1] /\ CallOK(f) /\ f \in Record /\ Assigns(f) /\ f.at = "assign" /\ ~dead
  BY <1>1, AssignTop DEF AssignMessages
<1>4. F \in File /\ F \in registered
  BY <1>3, <1>2 DEF CallOK, Assigns
<1>5. ret[t] = F /\ ret[t] # None
  <2>1. Waits(f) /\ AwaitedOp(f) = "find" /\ AwaitedOn(f) = F
    BY <1>3, <1>2, Awaits DEF Waits
  <2>2. ResultOK("find", F, ret[t])
    BY <1>3, <2>1, FirstWaits DEF IInv
  <2> QED
    BY <1>4, <2>2, ValuesOK DEF ResultOK
<1>6. /\ assigned' = assigned \cup {F} /\ once' = [once EXCEPT ![F] = "done"] /\ Return(t, F) /\ dead' = FALSE
      /\ UNCHANGED <<lock, tables, built, link, caches>>
  BY <1>1, <1>2, <1>5 DEF AssignMessages
<1>7. Grows
  BY <1>6 DEF Grows, tables, caches
<1>8. Pops(t, f, F)
  BY <1>1, <1>3, <1>6, ReturnPops DEF IInv
<1>9. ResultOK(f.op, f.on, F)'
  BY <1>3, <1>2, <1>6 DEF ResultOK, Assigns
<1>10. TypesOK'
  <2>1. stack' \in [Thread -> Seq(Record)] /\ DOMAIN ret' = Thread /\ asked' = asked
    BY <1>8, PopShapes DEF PopShape, IInv, TypesOK, Pops
  <2>2. once' \in [File \cup Pair -> {"new", "none", "done"} \cup Thread]
    BY <1>4, <1>6 DEF IInv, TypesOK
  <2> QED
    BY <1>4, <1>6, <2>1, <2>2 DEF IInv, TypesOK, tables, caches
<1>11. PoolOK'
  <2>1. \A G \in built' : Ready(G)'
    BY <1>6 DEF IInv, PoolOK, Ready, tables
  <2>2. \A x \in File \cup Pair : x # F => once'[x] = once[x]
    BY <1>6 DEF IInv, TypesOK
  <2>3. \A q \in Pair : FileOf[q[1]] \in built' /\ once'[q] \in {"none", "done"} => q \in link'
    BY <1>4, <1>6, <2>2, ValuesOK DEF IInv, PoolOK
  <2>4. \A G \in File : once'[G] = "done" => G \in assigned'
    BY <1>6, <2>2 DEF IInv, PoolOK
  <2> QED
    BY <1>6, <2>1, <2>3, <2>4 DEF PoolOK, IInv
<1>12. FactoryOK'
  BY <1>6 DEF IInv, FactoryOK, caches
<1>13. ~Adds(f) /\ ~Makes(f) /\ f.op # "add" /\ \A l \in HeldLock : LockLeft(f, l)
  BY <1>3, <1>6 DEF Adds, Makes, LockLeft, Holds, Assigns
<1>14. Calling'
  <2>1. prototypes' = prototypes
    BY <1>6 DEF caches
  <2> QED
    BY <1>7, <1>8, <1>9, <1>13, <2>1, PopStep DEF IInv, Calling
<1>15. AddsOK' /\ RegistersOK' /\ CreatesOK'
  <2>1. UNCHANGED AddTables /\ type_map' = type_map /\ unknown' = unknown
    BY <1>6 DEF tables, caches, AddTables
  <2> QED
    BY <1>8, <1>13, <2>1, PopAdds, PopRegisters, PopCreates DEF IInv
<1> QED
  BY <1>10, <1>11, <1>12, <1>14, <1>15 DEF IInv, Calling

\* A file is built with the fields that need no other file, the others get a once flag.
LEMMA FindBuildKeeps == ASSUME IInv, NEW t \in Thread, FindBuild(t) PROVE IInv'
<1>1. PICK f : f = Top(t)
  OBVIOUS
<1>2. PICK F : F = f.on
  OBVIOUS
<1>3. stack[t] # <<>> /\ f = stack[t][1] /\ CallOK(f) /\ f \in Record /\ f.op = "find" /\ f.at = "build" /\ ~dead
  BY <1>1, TopCall DEF FindBuild
<1>4. F \in File /\ Ready(F) /\ F \in database
  BY <1>3, <1>2 DEF CallOK, Ready, IInv, TypesOK
<1>5. /\ lock' \in [Lock -> Thread \cup {None}] /\ \A l \in HeldLock : lock'[l] = lock[l]
  BY Released DEF FindBuild, Lock, HeldLock, IInv
<1>6. /\ built' = built \cup {F} /\ link \subseteq link' /\ link' \subseteq Pair
      /\ \A q \in link' : q \in link \/ (FileOf[q[1]] = F /\ FileOf[q[2]] \in built')
      /\ once' \in [File \cup Pair -> {"new", "none", "done"} \cup Thread]
      /\ \A G \in File : once'[G] = once[G]
      /\ \A q \in Pair : \/ once'[q] = once[q] /\ (FileOf[q[1]] # F \/ F \in built)
                         \/ q \in link' \/ once'[q] = "new"
  <2>1. CASE F \in built
    <3>1. UNCHANGED <<built, link, once>>
      BY <1>1, <1>2, <2>1 DEF FindBuild
    <3>2. once \in [File \cup Pair -> {"new", "none", "done"} \cup Thread] /\ link \subseteq Pair
      BY DEF IInv, TypesOK
    <3>3. built' = built \cup {F} /\ link' = link /\ once' = once
      BY <2>1, <3>1
    <3>4. built' = built \cup {F} /\ link \subseteq link' /\ link' \subseteq Pair /\ \A q \in link' : q \in link
      BY <3>2, <3>3
    <3>5. /\ once' \in [File \cup Pair -> {"new", "none", "done"} \cup Thread]
          /\ \A G \in File : once'[G] = once[G]
          /\ \A q \in Pair : once'[q] = once[q]
      BY <3>2, <3>3
    <3> QED
      BY <2>1, <3>4, <3>5, Zenon
  <2>2. CASE F \notin built
    <3> DEFINE fields == {p \in Pair : FileOf[p[1]] = F}
               direct == {p \in fields : FileOf[p[2]] \in built \cup {F}}
    <3>1. /\ built' = built \cup {F} /\ link' = link \cup direct
          /\ once' = [x \in DOMAIN once |-> IF x \in fields \ direct THEN "new" ELSE once[x]]
      BY <1>1, <1>2, <1>4, <2>2 DEF FindBuild
    <3>2. once \in [File \cup Pair -> {"new", "none", "done"} \cup Thread] /\ link \subseteq Pair
      BY DEF IInv, TypesOK
    <3>3. fields \cap File = {}
      BY ValuesOK
    <3>4. /\ once' \in [File \cup Pair -> {"new", "none", "done"} \cup Thread]
          /\ \A G \in File : once'[G] = once[G]
      BY <3>1, <3>2, <3>3
    <3>5. \A q \in Pair : \/ once'[q] = once[q] /\ FileOf[q[1]] # F
                          \/ q \in link' \/ once'[q] = "new"
      <4> TAKE q \in Pair
      <4>1. q \in DOMAIN once
        BY <3>2
      <4>2. PICK X : X = fields \ direct
        OBVIOUS
      <4>3. once' = [x \in DOMAIN once |-> IF x \in X THEN "new" ELSE once[x]]
        BY <3>1, <4>2
      <4>4. once'[q] = IF q \in X THEN "new" ELSE once[q]
        BY <4>1, <4>3
      <4> QED
        BY <3>1, <4>2, <4>4
    <3>6. link' \subseteq Pair /\ \A q \in link' : q \in link \/ (FileOf[q[1]] = F /\ FileOf[q[2]] \in built')
      BY <3>1, <3>2
    <3> HIDE DEF fields, direct
    <3> QED
      BY <3>1, <3>4, <3>5, <3>6
  <2> QED
    BY <2>1, <2>2
<1>7. /\ Return(t, F) /\ UNCHANGED <<tables, assigned, caches, dead>>
  BY <1>1, <1>2, <1>6 DEF FindBuild
<1>8. Grows
  BY <1>6, <1>7 DEF Grows, tables, caches
<1>9. Pops(t, f, F)
  BY <1>1, <1>3, <1>7, ReturnPops DEF IInv
<1>10. ResultOK(f.op, f.on, F)'
  BY <1>3, <1>2, <1>6 DEF ResultOK
<1>11. TypesOK'
  <2>1. stack' \in [Thread -> Seq(Record)] /\ DOMAIN ret' = Thread /\ asked' = asked
    BY <1>9, PopShapes DEF PopShape, IInv, TypesOK, Pops
  <2> QED
    BY <1>3, <1>5, <1>6, <1>7, <2>1 DEF IInv, TypesOK, tables, caches
<1>12. PoolOK'
  <2>1. \A G \in built' : Ready(G)'
    BY <1>4, <1>6, <1>7 DEF IInv, PoolOK, Ready, tables
  <2>2. \A q \in link' : FileOf[q[1]] \in built' /\ FileOf[q[2]] \in built'
    BY <1>6 DEF IInv, PoolOK
  <2>3. \A q \in Pair : FileOf[q[1]] \in built' /\ once'[q] \in {"none", "done"} => q \in link'
    <3> SUFFICES ASSUME NEW q \in Pair, FileOf[q[1]] \in built', once'[q] \in {"none", "done"}, q \notin link'
                 PROVE  FALSE
      OBVIOUS
    <3>1. once'[q] = once[q] /\ (FileOf[q[1]] # F \/ F \in built)
      BY <1>6
    <3>2. FileOf[q[1]] \in built
      BY <1>6, <3>1
    <3> QED
      BY <1>6, <3>1, <3>2 DEF IInv, PoolOK
  <2>4. \A G \in File : once'[G] = "done" => G \in assigned'
    BY <1>6, <1>7 DEF IInv, PoolOK
  <2> QED
    BY <2>1, <2>2, <2>3, <2>4 DEF PoolOK
<1>13. FactoryOK'
  BY <1>7 DEF IInv, FactoryOK, caches
<1>14. ~Adds(f) /\ ~Makes(f) /\ f.op # "add" /\ \A l \in HeldLock : LockLeft(f, l)
  BY <1>3, <1>5 DEF Adds, Makes, LockLeft, Holds, Assigns
<1>15. Calling'
  <2>1. prototypes' = prototypes
    BY <1>7 DEF caches
  <2> QED
    BY <1>8, <1>9, <1>10, <1>14, <2>1, PopStep DEF IInv, Calling
<1>16. AddsOK' /\ RegistersOK' /\ CreatesOK'
  <2>1. UNCHANGED AddTables /\ type_map' = type_map /\ unknown' = unknown
    BY <1>7 DEF tables, caches, AddTables
  <2> QED
    BY <1>9, <1>14, <2>1, PopAdds, PopRegisters, PopCreates DEF IInv
<1> QED
  BY <1>11, <1>12, <1>13, <1>15, <1>16 DEF IInv, Calling

\* A value that another thread has entered meanwhile is kept, and returned.
LEMMA MemoWriteKeeps == ASSUME IInv, NEW t \in Thread, MemoWrite(t) PROVE IInv'
<1>1. PICK f : f = Top(t)
  OBVIOUS
<1>2. PICK k : k = f.on
  OBVIOUS
<1>3. stack[t] # <<>> /\ f = stack[t][1] /\ CallOK(f) /\ f \in Record /\ f.op = "memo" /\ f.at = "write" /\ ~dead
  BY <1>1, TopCall DEF MemoWrite
<1>4. k \in Key /\ made \in Nat /\ made # None
  BY <1>3, <1>2, ValuesOK DEF CallOK, IInv, TypesOK
<1>5. /\ memo' = (IF memo[k] = None THEN [memo EXCEPT ![k] = made] ELSE memo)
      /\ made' = made + 1 /\ Return(t, memo'[k])
      /\ UNCHANGED <<lock, once, tables, pool, type_map, prototypes, linked, unknown, dead>>
  BY <1>1, <1>2 DEF MemoWrite
<1>6. /\ DOMAIN memo' = Key /\ memo'[k] # None
      /\ \A m \in Key : memo'[m] \in Nat \cup {None} /\ (memo[m] # None => memo'[m] = memo[m])
  BY <1>4, <1>5 DEF IInv, TypesOK
<1>7. Grows
  BY <1>5, <1>6 DEF Grows, tables, pool
<1>8. PICK v : v = memo'[k]
  OBVIOUS
<1>9. Pops(t, f, v)
  BY <1>1, <1>8, <1>3, <1>5, ReturnPops DEF IInv
<1>10. ResultOK(f.op, f.on, v)'
  BY <1>3, <1>2, <1>8, <1>4, <1>6 DEF ResultOK
<1>11. TypesOK'
  <2>1. stack' \in [Thread -> Seq(Record)] /\ DOMAIN ret' = Thread /\ asked' = asked
    BY <1>9, PopShapes DEF PopShape, IInv, TypesOK, Pops
  <2> QED
    BY <1>3, <1>4, <1>5, <1>6, <2>1 DEF IInv, TypesOK, tables, pool
<1>12. PoolOK'
  <2>1. \A G \in built' : Ready(G)'
    BY <1>5 DEF IInv, PoolOK, Ready, tables, pool
  <2> QED
    BY <1>5, <2>1 DEF IInv, PoolOK, pool
<1>13. FactoryOK'
  BY <1>5 DEF IInv, FactoryOK
<1>14. ~Adds(f) /\ ~Makes(f) /\ f.op # "add" /\ \A l \in HeldLock : LockLeft(f, l)
  BY <1>3, <1>5 DEF Adds, Makes, LockLeft, Holds, Assigns
<1>15. Calling'
  <2>1. prototypes' = prototypes
    BY <1>5
  <2> QED
    BY <1>7, <1>9, <1>10, <1>14, <2>1, PopStep DEF IInv, Calling
<1>16. AddsOK' /\ RegistersOK' /\ CreatesOK'
  <2>1. UNCHANGED AddTables /\ type_map' = type_map /\ unknown' = unknown
    BY <1>5 DEF tables, AddTables
  <2> QED
    BY <1>9, <1>14, <2>1, PopAdds, PopRegisters, PopCreates DEF IInv
<1> QED
  BY <1>11, <1>12, <1>13, <1>15, <1>16 DEF IInv, Calling

\* Nobody has entered the number meanwhile.
LEMMA UnknownCreateKeeps == ASSUME IInv, NEW t \in Thread, UnknownCreate(t) PROVE IInv'
<1>1. PICK f : f = Top(t)
  OBVIOUS
<1>2. PICK k : k = f.on
  OBVIOUS
<1>3. PICK v : v = made
  OBVIOUS
<1>4. stack[t] # <<>> /\ f = stack[t][1] /\ CallOK(f) /\ f \in Record /\ f.op = "unknown" /\ f.at = "create" /\ ~dead
  BY <1>1, TopCall DEF UnknownCreate
<1>5. k \in Number /\ v \in Nat /\ v # None
  BY <1>4, <1>2, <1>3, ValuesOK DEF CallOK, IInv, TypesOK
<1>6. /\ unknown' = [unknown EXCEPT ![k] = v] /\ made' = v + 1 /\ Return(t, v)
      /\ UNCHANGED <<once, tables, pool, type_map, prototypes, linked, memo, dead>>
  BY <1>1, <1>2, <1>3 DEF UnknownCreate
<1>7. /\ lock' \in [Lock -> Thread \cup {None}] /\ lock'["unknown"] = None
      /\ \A l \in HeldLock : l # "unknown" => lock'[l] = lock[l]
  BY Released DEF UnknownCreate, Lock, IInv
<1>8. "unknown" \in HeldLock /\ Holds(f, "unknown") /\ 1 \in DOMAIN stack[t]
  <2> stack[t] \in Seq(Record)
    BY DEF IInv, TypesOK
  <2> QED
    BY <1>4, FirstIsHead DEF HeldLock, Holds
<1>9. unknown[k] = None
  BY <1>4, <1>2, <1>8 DEF IInv, CreatesOK
<1>10. /\ DOMAIN unknown' = Number /\ unknown'[k] = v
       /\ \A m \in Number : unknown'[m] \in Nat \cup {None} /\ (unknown[m] # None => unknown'[m] = unknown[m])
  BY <1>5, <1>6, <1>9 DEF IInv, TypesOK
<1>11. Grows
  BY <1>6, <1>10 DEF Grows, tables, pool
<1>12. Pops(t, f, v)
  BY <1>1, <1>4, <1>6, ReturnPops DEF IInv
<1>13. ResultOK(f.op, f.on, v)'
  BY <1>4, <1>2, <1>5, <1>10 DEF ResultOK
<1>14. TypesOK'
  <2>1. stack' \in [Thread -> Seq(Record)] /\ DOMAIN ret' = Thread /\ asked' = asked
    BY <1>12, PopShapes DEF PopShape, IInv, TypesOK, Pops
  <2> QED
    BY <1>4, <1>5, <1>6, <1>7, <1>10, <2>1 DEF IInv, TypesOK, tables, pool
<1>15. PoolOK'
  <2>1. \A G \in built' : Ready(G)'
    BY <1>6 DEF IInv, PoolOK, Ready, tables, pool
  <2> QED
    BY <1>6, <2>1 DEF IInv, PoolOK, pool
<1>16. FactoryOK'
  BY <1>6 DEF IInv, FactoryOK
<1>17. ~Adds(f) /\ ~Makes(f) /\ f.op # "add" /\ \A l \in HeldLock : LockLeft(f, l)
  BY <1>4, <1>7 DEF Adds, Makes, LockLeft, Holds, Assigns
<1>18. Calling'
  <2>1. prototypes' = prototypes
    BY <1>6
  <2> QED
    BY <1>11, <1>12, <1>13, <1>17, <2>1, PopStep DEF IInv, Calling
<1>19. AddsOK' /\ RegistersOK'
  <2>1. UNCHANGED AddTables /\ type_map' = type_map
    BY <1>6 DEF tables, AddTables
  <2> QED
    BY <1>12, <1>17, <2>1, PopAdds, PopRegisters DEF IInv
<1>20. CreatesOK'
  <2> SUFFICES ASSUME NEW u \in Thread, NEW i \in DOMAIN stack'[u], Holds(stack'[u][i], "unknown")
               PROVE  FALSE
    BY DEF CreatesOK
  <2>1. \A w \in Thread : \A j \in DOMAIN stack[w] : Holds(stack[w][j], "unknown") => w = t /\ j = 1
    BY <1>4, <1>8, FirstHolds DEF IInv
  <2>2. PICK j \in DOMAIN stack[u] : (u = t => j # 1) /\ stack'[u][i] = stack[u][j]
    BY <1>12, PopKeeps DEF IInv
  <2> QED
    BY <2>1, <2>2
<1> QED
  BY <1>14, <1>15, <1>16, <1>18, <1>19, <1>20 DEF IInv, Calling

\* A prototype that another thread entered meanwhile is the same one.
LEMMA GetSetKeeps == ASSUME IInv, NEW t \in Thread, GetSet(t) PROVE IInv'
<1>1. PICK f : f = Top(t)
  OBVIOUS
<1>2. PICK T : T = f.on
  OBVIOUS
<1>3. PICK v : v = ret[t]
  OBVIOUS
<1>4. stack[t] # <<>> /\ f = stack[t][1] /\ CallOK(f) /\ f \in Record /\ f.op = "prototype" /\ f.at = "set" /\ ~dead
  BY <1>1, TopCall DEF GetSet
<1>5. T \in Type /\ T \in DroppedTypes /\ type_map[T] # None
  BY <1>4, <1>2 DEF CallOK
<1>6. Given(T, v) /\ v \in linked
  <2>1. Waits(f) /\ AwaitedOp(f) = "dynamic" /\ AwaitedOn(f) = T
    BY <1>4, <1>2, Awaits DEF Waits
  <2>2. ResultOK("dynamic", T, v)
    BY <1>4, <1>3, <2>1, FirstWaits DEF IInv
  <2> QED
    BY <1>5, <2>2 DEF ResultOK
<1>7. v = prototypes[T] /\ v # None
  BY <1>5, <1>6 DEF Given
<1>8. /\ type_map' = [type_map EXCEPT ![T] = v] /\ Return(t, v)
      /\ UNCHANGED <<lock, once, tables, pool, prototypes, linked, unknown, memo, made, dead>>
  BY <1>1, <1>2, <1>3 DEF GetSet
<1>9. DOMAIN type_map' = Type /\ type_map'[T] = v /\ \A U \in Type : U # T => type_map'[U] = type_map[U]
  BY <1>5, <1>8 DEF IInv, TypesOK
<1>10. Grows
  BY <1>7, <1>8, <1>9 DEF Grows, tables, pool
<1>11. Pops(t, f, v)
  BY <1>1, <1>4, <1>8, ReturnPops DEF IInv
<1>12. ResultOK(f.op, f.on, v)'
  BY <1>4, <1>2, <1>5, <1>6, <1>8 DEF ResultOK, Given
<1>13. TypesOK'
  <2>1. stack' \in [Thread -> Seq(Record)] /\ DOMAIN ret' = Thread /\ asked' = asked
    BY <1>11, PopShapes DEF PopShape, IInv, TypesOK, Pops
  <2> QED
    BY <1>4, <1>8, <1>9, <2>1 DEF IInv, TypesOK, tables, pool
<1>14. PoolOK'
  <2>1. \A G \in built' : Ready(G)'
    BY <1>8 DEF IInv, PoolOK, Ready, tables, pool
  <2> QED
    BY <1>8, <2>1 DEF IInv, PoolOK, pool
<1>15. FactoryOK'
  BY <1>5, <1>6, <1>7, <1>8, <1>9 DEF IInv, FactoryOK
<1>16. ~Adds(f) /\ ~Makes(f) /\ f.op # "add" /\ \A l \in HeldLock : LockLeft(f, l)
  BY <1>4, <1>8 DEF Adds, Makes, LockLeft, Holds, Assigns
<1>17. Calling'
  <2>1. prototypes' = prototypes
    BY <1>8
  <2> QED
    BY <1>10, <1>11, <1>12, <1>16, <2>1, PopStep DEF IInv, Calling
<1>18. AddsOK' /\ RegistersOK' /\ CreatesOK'
  <2>1. UNCHANGED AddTables /\ unknown' = unknown
    BY <1>8 DEF tables, AddTables
  <2>2. \A U \in Type : type_map[U] = None => type_map'[U] = None
    BY <1>5, <1>9
  <2> QED
    BY <1>11, <1>16, <2>1, <2>2, PopAdds, PopRegisters, PopCreates DEF IInv
<1> QED
  BY <1>13, <1>14, <1>15, <1>17, <1>18 DEF IInv, Calling

\* No type of the file was registered before.
LEMMA RegisterTypesKeeps == ASSUME IInv, NEW t \in Thread, RegisterTypes(t) PROVE IInv'
<1>1. PICK f : f = Top(t)
  OBVIOUS
<1>2. PICK F : F = f.on
  OBVIOUS
<1>3. stack[t] # <<>> /\ f = stack[t][1] /\ CallOK(f) /\ f \in Record /\ f.op = "register" /\ f.at = "types" /\ ~dead
  BY <1>1, TopCall DEF RegisterTypes
<1>4. 1 \in DOMAIN stack[t]
  <2> stack[t] \in Seq(Record)
    BY DEF IInv, TypesOK
  <2> QED
    BY <1>3, FirstIsHead
<1>5. /\ 2 \in DOMAIN stack[t] /\ Holds(stack[t][2], "factory")
      /\ \A T \in Type : FileOf[T] = F => type_map[T] = None
  BY <1>3, <1>2, <1>4 DEF IInv, RegistersOK
<1>6. /\ type_map' = [T \in Type |-> IF FileOf[T] # F THEN type_map[T]
                                     ELSE IF T \in DroppedTypes THEN Dropped ELSE Generated]
      /\ dead' = FALSE /\ Return(t, None)
      /\ UNCHANGED <<lock, once, tables, pool, prototypes, linked, unknown, memo, made>>
  BY <1>1, <1>2, <1>5 DEF RegisterTypes
<1>7. /\ DOMAIN type_map' = Type
      /\ \A T \in Type : FileOf[T] # F => type_map'[T] = type_map[T]
      /\ \A T \in Type : FileOf[T] = F =>
           /\ type_map'[T] # None
           /\ \/ T \notin DroppedTypes /\ type_map'[T] = Generated
              \/ T \in DroppedTypes /\ type_map'[T] = Dropped
  BY <1>6, ValuesOK
<1>8. Grows
  BY <1>5, <1>6, <1>7 DEF Grows, tables, pool
<1>9. Pops(t, f, None)
  BY <1>1, <1>3, <1>6, ReturnPops DEF IInv
<1>10. ResultOK(f.op, f.on, None)'
  BY <1>3, <1>2, <1>7 DEF ResultOK
<1>11. TypesOK'
  <2>1. stack' \in [Thread -> Seq(Record)] /\ DOMAIN ret' = Thread /\ asked' = asked
    BY <1>9, PopShapes DEF PopShape, IInv, TypesOK, Pops
  <2> QED
    BY <1>6, <1>7, <2>1 DEF IInv, TypesOK, tables, pool
<1>12. PoolOK'
  <2>1. \A G \in built' : Ready(G)'
    BY <1>6 DEF IInv, PoolOK, Ready, tables, pool
  <2> QED
    BY <1>6, <2>1 DEF IInv, PoolOK, pool
<1>13. FactoryOK'
  <2>1. ASSUME NEW T \in Type
        PROVE  \/ type_map'[T] = None
               \/ T \notin DroppedTypes /\ type_map'[T] = Generated
               \/ T \in DroppedTypes /\ type_map'[T] = Dropped
               \/ T \in DroppedTypes /\ type_map'[T] = prototypes'[T] /\ prototypes'[T] \in linked'
    BY <1>6, <1>7 DEF IInv, FactoryOK
  <2>2. ASSUME NEW T \in Type, NEW U \in Type, FileOf[T] = FileOf[U], type_map'[T] = None
        PROVE  type_map'[U] = None
    BY <1>7, <2>2 DEF IInv, FactoryOK
  <2> QED
    BY <2>1, <2>2 DEF FactoryOK
<1>14. ~Adds(f) /\ ~Makes(f) /\ f.op # "add" /\ \A l \in HeldLock : LockLeft(f, l)
  BY <1>3, <1>6 DEF Adds, Makes, LockLeft, Holds, Assigns
<1>15. Calling'
  <2>1. prototypes' = prototypes
    BY <1>6
  <2> QED
    BY <1>8, <1>9, <1>10, <1>14, <2>1, PopStep DEF IInv, Calling
<1>16. AddsOK' /\ CreatesOK'
  <2>1. UNCHANGED AddTables /\ unknown' = unknown
    BY <1>6 DEF tables, AddTables
  <2> QED
    BY <1>9, <1>14, <2>1, PopAdds, PopCreates DEF IInv
<1>17. RegistersOK'
  <2> SUFFICES ASSUME NEW u \in Thread, NEW i \in DOMAIN stack'[u], stack'[u][i].op = "register"
               PROVE  FALSE
    BY DEF RegistersOK
  <2>1. PICK j \in DOMAIN stack[u] : (u = t => j # 1) /\ stack'[u][i] = stack[u][j]
    BY <1>9, PopKeeps DEF IInv
  <2>2. PICK m : m = j + 1
    OBVIOUS
  <2>3. m \in DOMAIN stack[u] /\ Holds(stack[u][m], "factory")
    BY <2>1, <2>2 DEF IInv, RegistersOK
  <2>4. lock["factory"] = t /\ lock["factory"] = u
    BY <1>5, <2>3 DEF IInv, LocksOK, HeldLock
  <2>5. m = 2
    BY <1>5, <2>3, <2>4 DEF IInv, LocksOK, HeldLock
  <2>6. j \in Nat
    <3> stack[u] \in Seq(Record)
      BY DEF IInv, TypesOK
    <3> QED
      BY LenProperties
  <2>7. j = 1
    BY <2>2, <2>5, <2>6
  <2> QED
    BY <2>1, <2>4, <2>7
<1> QED
  BY <1>11, <1>12, <1>13, <1>15, <1>16, <1>17 DEF IInv, Calling

\* A new prototype gets a number that no other object has.
LEMMA MakeTargetKeeps == ASSUME IInv, NEW t \in Thread, MakeTarget(t) PROVE IInv'
<1>1. PICK f : f = Top(t)
  OBVIOUS
<1>2. PICK T : T = f.on
  OBVIOUS
<1>3. stack[t] # <<>> /\ f = stack[t][1] /\ CallOK(f) /\ f \in Record /\ f.op = "make" /\ f.at = "target" /\ ~dead
  BY <1>1, TopCall DEF MakeTarget
<1>4. T \in Type /\ FileOf[T] \in built
  BY <1>3, <1>2 DEF CallOK
<1>5. ResultOK("try", T, ret[t])
  <2>1. Waits(f) /\ AwaitedOp(f) = "try" /\ AwaitedOn(f) = T
    BY <1>3, <1>2, Awaits DEF Waits
  <2> QED
    BY <1>3, <2>1, FirstWaits DEF IInv
<1>6. CASE ret[t] # None \/ prototypes[T] # None
  <2>1. PICK v : v = IF ret[t] # None THEN ret[t] ELSE prototypes[T]
    OBVIOUS
  <2>2. CASE Return(t, v) /\ UNCHANGED <<prototypes, made>>
    <3>1. lock' = lock /\ UNCHANGED <<tables, pool, caches, once, dead>>
      BY <2>2 DEF MakeTarget, caches
    <3>2. Quiet
      BY <1>3, <3>1, SameFlags DEF Quiet, IInv
    <3>3. Given(T, v)
      BY <1>4, <1>5, <1>6, <2>1, Tried DEF Given
    <3>4. ResultOK(f.op, f.on, v)
      BY <1>3, <1>2, <1>4, <3>3 DEF ResultOK
    <3>5. ~Adds(f) /\ ~Makes(f) /\ \A l \in HeldLock : LockLeft(f, l)
      BY <1>3, <3>1 DEF Adds, Makes, LockLeft, Holds, Assigns
    <3> QED
      BY <1>1, <1>3, <2>2, <3>2, <3>4, <3>5, QuietReturn
  <2> QED
    BY <1>1, <1>2, <1>6, <2>1, <2>2 DEF MakeTarget
<1>7. CASE ret[t] = None /\ prototypes[T] = None
  <2>1. PICK g : g = [f EXCEPT !.at = "type"]
    OBVIOUS
  <2>2. PICK fs : fs = <<>>
    OBVIOUS
  <2>3. PICK n : n = 0
    OBVIOUS
  <2>4. /\ prototypes' = [prototypes EXCEPT ![T] = made] /\ made' = made + 1 /\ Enter(t, fs, "type")
        /\ UNCHANGED <<lock, once, tables, pool, type_map, linked, unknown, memo, dead>>
    BY <1>1, <1>2, <1>7, <2>2 DEF MakeTarget, Go
  <2>5. T \in DroppedTypes
    BY <1>4, <1>5, <1>7, Tried
  <2>6. "type" \in Places /\ fs \in Seq(Record) /\ n = Len(fs) /\ 1..n = {}
    BY <2>2, <2>3, EmptySeq, PlaceNames
  <2>7. g \in Record /\ g.op = "make" /\ g.on = T /\ g.at = "type"
    BY <1>3, <1>2, <2>1, <2>6, NewPlace
  <2>8. Pushes(t, f, g, n, fs)
    BY <1>1, <1>3, <2>1, <2>4, <2>6, EnterPushes DEF IInv
  <2>9. /\ DOMAIN prototypes' = Type /\ prototypes'[T] = made /\ made \in Nat /\ made # None
        /\ \A U \in Type : U # T => prototypes'[U] = prototypes[U]
    BY <1>4, <2>4, ValuesOK DEF IInv, TypesOK
  <2>10. Grows
    BY <1>7, <2>4, <2>9 DEF Grows, tables, pool
  <2>11. CallOK(g)'
    BY <1>4, <2>4, <2>5, <2>7, <2>9 DEF CallOK, Assigns, pool
  <2>12. GoesOn(t, f, g, n, fs)
    BY <1>3, <2>4, <2>7, PlainGoesOn DEF Waits, NeedsPool, Assigns, Makes
  <2>13. Calling' /\ RegistersOK' /\ CreatesOK'
    <3>1. UNCHANGED <<type_map, unknown>>
      BY <2>4
    <3>2. \A U \in Type : prototypes'[U] # None => prototypes[U] # None \/ (Makes(g) /\ g.on = U)
      BY <2>7, <2>9 DEF Makes
    <3> QED
      BY <2>6, <2>8, <2>10, <2>11, <2>12, <3>1, <3>2, PushStep DEF IInv, Calling
  <2>14. TypesOK'
    <3>1. stack' \in [Thread -> Seq(Record)] /\ DOMAIN ret' = Thread /\ asked' = asked
      BY <2>8, PushShapes DEF PushShape, IInv, TypesOK, Pushes
    <3> QED
      BY <1>3, <2>4, <2>9, <3>1 DEF IInv, TypesOK, tables, pool
  <2>15. PoolOK'
    <3>1. \A G \in built' : Ready(G)'
      BY <2>4 DEF IInv, PoolOK, Ready, tables, pool
    <3> QED
      BY <2>4, <3>1 DEF IInv, PoolOK, pool
  <2>16. FactoryOK'
    BY <1>7, <2>4, <2>9 DEF IInv, FactoryOK
  <2>17. AddsOK'
    <3>1. UNCHANGED AddTables /\ g.op # "add"
      BY <2>4, <2>7 DEF tables, AddTables
    <3> QED
      BY <2>6, <2>8, <3>1, PushAdds DEF IInv
  <2> QED
    BY <2>13, <2>14, <2>15, <2>16, <2>17 DEF IInv, Calling
<1> QED
  BY <1>6, <1>7

\* When the fields are through the prototype is cross-linked.
LEMMA MakeTypeKeeps == ASSUME IInv, NEW t \in Thread, MakeType(t) PROVE IInv'
<1>1. PICK f : f = Top(t)
  OBVIOUS
<1>2. PICK T : T = f.on
  OBVIOUS
<1>3. PICK i : i = f.i
  OBVIOUS
<1>4. stack[t] # <<>> /\ f = stack[t][1] /\ CallOK(f) /\ f \in Record /\ f.op = "make" /\ f.at = "type" /\ ~dead
  BY <1>1, TopCall DEF MakeType
<1>5. T \in Type /\ FileOf[T] \in built /\ T \in DroppedTypes /\ prototypes[T] # None /\ i \in Nat \ {0}
  BY <1>4, <1>2, <1>3 DEF CallOK, Record, Ops
<1>6. UNCHANGED <<lock, once, tables, pool, type_map, prototypes, unknown, memo, made, dead>>
  BY DEF MakeType
<1>7. CASE i > Len(Fields[T])
  <2>1. PICK v : v = prototypes[T]
    OBVIOUS
  <2>2. linked' = linked \cup {v} /\ Return(t, v)
    BY <1>1, <1>2, <1>3, <1>7, <2>1 DEF MakeType
  <2>3. Grows
    BY <1>6, <2>2 DEF Grows, tables, pool
  <2>4. Pops(t, f, v)
    BY <1>1, <1>4, <2>2, ReturnPops DEF IInv
  <2>5. ResultOK(f.op, f.on, v)'
    BY <1>4, <1>2, <1>5, <1>6, <2>1 DEF ResultOK, Given
  <2>6. TypesOK'
    <3>1. stack' \in [Thread -> Seq(Record)] /\ DOMAIN ret' = Thread /\ asked' = asked
      BY <2>4, PopShapes DEF PopShape, IInv, TypesOK, Pops
    <3> QED
      BY <1>4, <1>6, <3>1 DEF IInv, TypesOK, tables, pool
  <2>7. PoolOK'
    <3>1. \A G \in built' : Ready(G)'
      BY <1>6 DEF IInv, PoolOK, Ready, tables, pool
    <3> QED
      BY <1>6, <3>1 DEF IInv, PoolOK, pool
  <2>8. FactoryOK'
    BY <1>6, <2>2 DEF IInv, FactoryOK
  <2>9. ~Adds(f) /\ f.op # "add" /\ \A l \in HeldLock : LockLeft(f, l)
    BY <1>4, <1>6 DEF Adds, LockLeft, Holds, Assigns
  <2>10. Calling'
    <3>1. prototypes' = prototypes /\ (Makes(f) => prototypes[f.on] \in linked')
      BY <1>2, <1>6, <2>1, <2>2
    <3> QED
      BY <2>3, <2>4, <2>5, <2>9, <3>1, PopStep DEF IInv, Calling
  <2>11. AddsOK' /\ RegistersOK' /\ CreatesOK'
    <3>1. UNCHANGED AddTables /\ type_map' = type_map /\ unknown' = unknown
      BY <1>6 DEF tables, AddTables
    <3> QED
      BY <2>4, <2>9, <3>1, PopAdds, PopRegisters, PopCreates DEF IInv
  <2> QED
    BY <2>6, <2>7, <2>8, <2>10, <2>11 DEF IInv, Calling
<1>8. CASE ~(i > Len(Fields[T]))
  <2>1. PICK g : g = [f EXCEPT !.at = "field"]
    OBVIOUS
  <2>2. PICK p : p = <<T, Fields[T][i]>>
    OBVIOUS
  <2>3. PICK h : h = Frame("type", p, "enter")
    OBVIOUS
  <2>4. Enter(t, <<h>>, "field") /\ UNCHANGED linked
    BY <1>1, <1>2, <1>3, <1>8, <2>2, <2>3 DEF MakeType
  <2>5. Quiet /\ lock' = lock
    BY <1>4, <1>6, <2>4, SameFlags DEF Quiet, IInv, caches
  <2>6. p \in Pair /\ p[1] = T
    <3>1. PICK ts : ts = Fields[T]
      OBVIOUS
    <3>2. ts \in Seq(Type)
      BY <1>5, <3>1, GraphOK
    <3>3. i \in DOMAIN ts /\ ts[i] \in Type
      BY <1>5, <1>8, <3>1, <3>2, LenProperties, ElementOfSeq
    <3> QED
      BY <1>5, <2>2, <3>1, <3>3 DEF Pair, ToSet
  <2>7. "field" \in Places /\ g \in Record /\ g.op = "make" /\ g.on = T /\ g.at = "field" /\ g.i = i
    BY <1>4, <1>2, <1>3, <2>1, NewPlace, PlaceNames
  <2>8. h \in Record /\ h.op = "type" /\ h.on = p /\ h.at = "enter"
    <3>1. "type" \in Ops /\ "enter" \in Places /\ p \in On
      BY <2>6, PlaceNames, OpNames DEF On
    <3> QED
      BY <2>3, <3>1, FrameFields
  <2>9. CallOK(h) /\ NewCall(f, g, 1, <<h>>, 1)
    BY <1>5, <2>6, <2>8, PlainCall DEF CallOK, Assigns, Waits, NeedsPool
  <2>10. CallOK(g) /\ g.op # "add" /\ \A l \in HeldLock : LockStep(t, f, g, l)
    BY <1>4, <1>5, <2>5, <2>7 DEF CallOK, Assigns, LockStep, Holds
  <2>11. GoesOn(t, f, g, 1, <<h>>)
    <3>1. PICK fs, n : fs = <<h>> /\ n = 1
      OBVIOUS
    <3>2. n # 0 /\ fs[n].op = AwaitedOp(g) /\ fs[n].on = AwaitedOn(g)
      BY <2>2, <2>7, <2>8, <3>1, Awaits
    <3>3. ~NeedsPool(g) /\ ~Holds(g, "unknown") /\ g.op # "register" /\ Makes(g)
      BY <2>7 DEF Assigns, Makes, Holds, NeedsPool
    <3>4. GoesOn(t, f, g, n, fs)
      BY <2>10, <3>2, <3>3 DEF GoesOn
    <3> QED
      BY <3>1, <3>4
  <2> QED
    BY <1>1, <1>4, <2>1, <2>4, <2>5, <2>7, <2>8, <2>9, <2>10, <2>11, QuietCall
<1> QED
  BY <1>7, <1>8

\* What a step of AddDescriptors leaves alone.
LEMMA AddData ==
  ASSUME IInv, UNCHANGED <<once, pool, caches>>, registered \subseteq registered',
         registered' \subseteq database', database' \subseteq initialized', initialized' \subseteq File,
         lock' = lock, ~dead', asked' = asked, stack' \in [Thread -> Seq(Record)], DOMAIN ret' = Thread
  PROVE  TypesOK' /\ PoolOK' /\ FactoryOK'
<1>1. TypesOK'
  BY DEF IInv, TypesOK, pool, caches
<1>2. PoolOK'
  <2>1. \A G \in built' : Ready(G)'
    BY DEF IInv, PoolOK, Ready, Closed, pool
  <2> QED
    BY <2>1 DEF IInv, PoolOK, pool
<1>3. FactoryOK'
  BY DEF IInv, FactoryOK, caches
<1> QED
  BY <1>1, <1>2, <1>3

\* Whoever marks a file, under that mutex, is the only one to enter it, after its dependencies.
LEMMA AddStartKeeps == ASSUME IInv, NEW t \in Thread, AddStart(t) PROVE IInv'
<1>1. PICK f : f = Top(t)
  OBVIOUS
<1>2. PICK F : F = f.on
  OBVIOUS
<1>3. stack[t] # <<>> /\ f = stack[t][1] /\ CallOK(f) /\ f \in Record /\ f.op = "add" /\ f.at = "start" /\ ~dead
  BY <1>1, TopCall DEF AddStart
<1>4. F \in File /\ UNCHANGED <<lock, once, database, registered, pool, caches, dead>>
  BY <1>3, <1>2 DEF CallOK, AddStart
<1>5. CASE F \in initialized
  <2>1. Return(t, None) /\ UNCHANGED initialized
    BY <1>1, <1>2, <1>5 DEF AddStart
  <2>2. Quiet
    BY <1>3, <1>4, <2>1, SameFlags DEF Quiet, IInv, tables
  <2>3. ResultOK(f.op, f.on, None) /\ ~Adds(f) /\ ~Makes(f) /\ \A l \in HeldLock : LockLeft(f, l)
    BY <1>3, <1>2, <1>4, <1>5 DEF ResultOK, Adds, Makes, LockLeft, Holds, Assigns
  <2> QED
    BY <1>1, <1>3, <2>1, <2>2, <2>3, QuietReturn
<1>6. CASE F \notin initialized
  <2>1. PICK g : g = [f EXCEPT !.at = "database"]
    OBVIOUS
  <2>2. PICK ds : ds = Deps[F]
    OBVIOUS
  <2>3. PICK op, at : op = "add" /\ at = "start"
    OBVIOUS
  <2>4. PICK fs : fs = Calls(op, ds, at)
    OBVIOUS
  <2>5. PICK n : n = Len(fs)
    OBVIOUS
  <2>6. initialized' = initialized \cup {F} /\ Enter(t, fs, "database")
    BY <1>1, <1>2, <1>6, <2>2, <2>3, <2>4 DEF AddStart
  <2>7. ds \in Seq(File) /\ op \in Ops /\ at \in Places /\ "database" \in Places
    BY <1>4, <2>2, <2>3, GraphOK, PlaceNames, OpNames
  <2>8. /\ fs \in Seq(Record) /\ Len(fs) = Len(ds)
        /\ \A k \in 1..Len(ds) : /\ fs[k] = Frame(op, ds[k], at) /\ ds[k] \in ToSet(ds)
                                 /\ fs[k].op = op /\ fs[k].on = ds[k] /\ fs[k].at = at
        /\ \A G \in ToSet(ds) : \E k \in 1..Len(ds) : fs[k].on = G
    BY <2>7, <2>4, CallsFields
  <2>9. g \in Record /\ g.op = "add" /\ g.on = F /\ g.at = "database"
    BY <1>3, <1>2, <2>1, <2>7, NewPlace
  <2>10. Pushes(t, f, g, n, fs)
    BY <1>1, <1>3, <2>1, <2>5, <2>6, <2>7, <2>8, EnterPushes DEF IInv
  <2>11. Grows
    BY <1>4, <2>6 DEF Grows, pool, caches
  <2>12. \A k \in 1..n : fs[k] \in Record /\ fs[k].op = "add" /\ fs[k].at = "start" /\ fs[k].on \in File
    <3> TAKE k \in 1..n
    <3>1. k \in 1..Len(ds) /\ k \in 1..Len(fs)
      BY <2>5, <2>8
    <3>2. fs[k] \in Record /\ ds[k] \in File
      BY <2>7, <2>8, <3>1, ElementOfSeq
    <3> QED
      BY <2>3, <2>8, <3>1, <3>2
  <2>13. \A k \in 1..n : CallOK(fs[k]) /\ NewCall(f, g, n, fs, k)
    <3> TAKE k \in 1..n
    <3>1. fs[k] \in Record /\ fs[k].op = "add" /\ fs[k].at = "start" /\ fs[k].on \in File
      BY <2>12
    <3>2. CallOK(fs[k])
      BY <3>1 DEF CallOK, Assigns
    <3>3. ~Waits(fs[k]) /\ ~NeedsPool(fs[k]) /\ \A l \in HeldLock : ~Holds(fs[k], l)
      BY <3>1 DEF Waits, NeedsPool, Holds, Assigns
    <3>4. \A l \in HeldLock : Within(fs[k], l) => Within(f, l)
      BY <1>3, <3>1 DEF Within
    <3>5. NewCall(f, g, n, fs, k)
      BY <3>1, <3>3, <3>4 DEF NewCall
    <3> QED
      BY <3>2, <3>5
  <2>14. GoesOn(t, f, g, n, fs)
    BY <1>3, <1>4, <2>9, PlainGoesOn DEF Waits, NeedsPool, Assigns, Makes
  <2>15. Calling' /\ RegistersOK' /\ CreatesOK'
    <3>1. CallOK(g)' /\ \A k \in 1..n : CallOK(fs[k])'
      <4>1. CallOK(g)
        BY <1>4, <2>9 DEF CallOK, Assigns
      <4> QED
        BY <2>11, <2>13, <4>1, CallStays
    <3>2. UNCHANGED <<type_map, unknown>> /\ prototypes' = prototypes
      BY <1>4 DEF caches
    <3>3. \A k \in 1..n : NewCall(f, g, n, fs, k)
      BY <2>13
    <3> QED
      BY <2>10, <2>11, <2>14, <3>1, <3>2, <3>3, PushStep DEF IInv, Calling
  <2>16. TypesOK' /\ PoolOK' /\ FactoryOK'
    <3>1. stack' \in [Thread -> Seq(Record)] /\ DOMAIN ret' = Thread /\ asked' = asked
      BY <2>10, PushShapes DEF PushShape, IInv, TypesOK, Pushes
    <3>2. /\ registered \subseteq registered' /\ registered' \subseteq database'
          /\ database' \subseteq initialized' /\ initialized' \subseteq File
      BY <1>4, <2>6 DEF IInv, TypesOK
    <3>3. UNCHANGED <<once, pool, caches>> /\ lock' = lock /\ ~dead'
      BY <1>3, <1>4
    <3> QED
      BY <3>1, <3>2, <3>3, AddData
  <2>17. AddsOK'
    <3>1. \A u \in Thread : \A j \in DOMAIN stack[u] :
            \/ u = t /\ j = 1
            \/ \E i \in DOMAIN stack'[u] : stack'[u][i] = stack[u][j]
      BY <2>10, PushKeeps DEF IInv
    <3>2. /\ n \in Nat /\ n + 1 \in DOMAIN stack'[t] /\ stack'[t][n + 1] = g /\ 1 \in DOMAIN stack[t]
          /\ \A k \in 1..n : k \in DOMAIN stack'[t] /\ stack'[t][k] = fs[k]
      BY <2>10, PushKeeps DEF IInv
    <3>3. ~Adds(f) /\ Adds(g) /\ \A k \in 1..n : ~Adds(fs[k])
      BY <1>3, <2>9, <2>12 DEF Adds
    <3>4. ASSUME NEW G \in initialized'
          PROVE  G \in registered' \/ \E u \in Thread : \E i \in DOMAIN stack'[u] :
                   Adds(stack'[u][i]) /\ stack'[u][i].on = G
      <4>1. CASE G = F
        BY <2>9, <3>2, <3>3, <4>1
      <4>2. CASE G # F /\ G \notin registered
        <5>1. PICK u \in Thread : \E j \in DOMAIN stack[u] : Adds(stack[u][j]) /\ stack[u][j].on = G
          BY <2>6, <4>2 DEF IInv, AddsOK
        <5>2. PICK j \in DOMAIN stack[u] : Adds(stack[u][j]) /\ stack[u][j].on = G
          BY <5>1
        <5>3. ~(u = t /\ j = 1)
          BY <1>3, <3>3, <5>2
        <5> QED
          BY <3>1, <5>2, <5>3
      <4> QED
        BY <1>4, <4>1, <4>2
    <3>5. ASSUME NEW G \in initialized' \cap Lazy, NEW H \in ToSet(Deps[G])
          PROVE  H \in initialized' \/ \E u \in Thread : \E i \in DOMAIN stack'[u] :
                   stack'[u][i].op = "add" /\ stack'[u][i].on = H
      <4>1. CASE G = F
        <5>1. PICK k \in 1..Len(ds) : fs[k].on = H
          BY <2>8, <2>2, <4>1
        <5>2. k \in 1..n
          BY <2>5, <2>8
        <5> QED
          BY <2>12, <3>2, <5>1, <5>2
      <4>2. CASE G # F /\ H \notin initialized'
        <5>1. PICK u \in Thread : \E j \in DOMAIN stack[u] : stack[u][j].op = "add" /\ stack[u][j].on = H
          BY <2>6, <4>2 DEF IInv, AddsOK
        <5>2. PICK j \in DOMAIN stack[u] : stack[u][j].op = "add" /\ stack[u][j].on = H
          BY <5>1
        <5>3. ~(u = t /\ j = 1)
          BY <1>3, <1>2, <2>6, <4>2, <5>2
        <5> QED
          BY <3>1, <5>2, <5>3
      <4> QED
        BY <4>1, <4>2
    <3>6. \A u \in Thread : \A i \in DOMAIN stack'[u] : Adds(stack'[u][i]) =>
            \/ u = t /\ i = n + 1 /\ stack'[u][i] = g
            \/ \E j \in DOMAIN stack[u] :
                 i = (IF u = t THEN j + n ELSE j) /\ (u = t => j # 1) /\ stack'[u][i] = stack[u][j]
      BY <2>10, <3>3, PushKeeps DEF IInv
    <3>7. \A u \in Thread : \A j \in DOMAIN stack[u] : Adds(stack[u][j]) => stack[u][j].on # F
      BY <1>6 DEF IInv, AddsOK
    <3>8. ASSUME NEW u \in Thread, NEW i \in DOMAIN stack'[u], Adds(stack'[u][i]), NEW G, G = stack'[u][i].on
          PROVE  /\ G \in initialized' /\ G \notin registered'
                 /\ G \in database' <=> stack'[u][i].at = "files"
                 /\ \A w \in Thread : \A k \in DOMAIN stack'[w] :
                      Adds(stack'[w][k]) /\ stack'[w][k].on = G => w = u /\ k = i
      <4>1. CASE u = t /\ i = n + 1 /\ stack'[u][i] = g
        <5>1. G = F /\ F \notin registered /\ F \notin database
          BY <1>6, <2>9, <3>8, <4>1 DEF IInv, TypesOK
        <5>2. \A w \in Thread : \A k \in DOMAIN stack'[w] :
                Adds(stack'[w][k]) /\ stack'[w][k].on = G => w = u /\ k = i
          BY <3>6, <3>7, <4>1, <5>1
        <5> QED
          BY <1>4, <2>6, <2>9, <4>1, <5>1, <5>2
      <4>2. CASE \E j \in DOMAIN stack[u] :
                   i = (IF u = t THEN j + n ELSE j) /\ (u = t => j # 1) /\ stack'[u][i] = stack[u][j]
        <5>1. PICK j \in DOMAIN stack[u] :
                i = (IF u = t THEN j + n ELSE j) /\ (u = t => j # 1) /\ stack'[u][i] = stack[u][j]
          BY <4>2
        <5>2. Adds(stack[u][j]) /\ G = stack[u][j].on /\ G # F
          BY <3>7, <3>8, <5>1
        <5>3. /\ G \in initialized /\ G \notin registered
              /\ G \in database <=> stack[u][j].at = "files"
              /\ \A w \in Thread : \A k \in DOMAIN stack[w] :
                   Adds(stack[w][k]) /\ stack[w][k].on = G => w = u /\ k = j
          BY <5>2 DEF IInv, AddsOK
        <5>4. ASSUME NEW w \in Thread, NEW k \in DOMAIN stack'[w], Adds(stack'[w][k]), stack'[w][k].on = G
              PROVE  w = u /\ k = i
          <6>1. stack'[w][k] # g
            BY <2>9, <5>2, <5>4
          <6>2. PICK m \in DOMAIN stack[w] :
                  k = (IF w = t THEN m + n ELSE m) /\ (w = t => m # 1) /\ stack'[w][k] = stack[w][m]
            BY <3>6, <5>4, <6>1
          <6>3. w = u /\ m = j
            BY <5>3, <5>4, <6>2
          <6> QED
            BY <5>1, <6>2, <6>3
        <5> QED
          BY <1>4, <2>6, <5>1, <5>3, <5>4
      <4> QED
        BY <3>6, <3>8, <4>1, <4>2
    <3> QED
      BY <3>4, <3>5, <3>8 DEF AddsOK
  <2> QED
    BY <2>15, <2>16, <2>17 DEF IInv, Calling
<1> QED
  BY <1>5, <1>6

\* The file is not in the database yet.
LEMMA AddDatabaseKeeps == ASSUME IInv, NEW t \in Thread, AddDatabase(t) PROVE IInv'
<1>1. PICK f : f = Top(t)
  OBVIOUS
<1>2. PICK F : F = f.on
  OBVIOUS
<1>3. PICK g : g = [f EXCEPT !.at = "files"]
  OBVIOUS
<1>4. PICK fs : fs = <<>>
  OBVIOUS
<1>5. PICK n : n = 0
  OBVIOUS
<1>6. stack[t] # <<>> /\ f = stack[t][1] /\ CallOK(f) /\ f \in Record /\ f.op = "add" /\ f.at = "database" /\ ~dead
  BY <1>1, TopCall DEF AddDatabase
<1>7. 1 \in DOMAIN stack[t] /\ Adds(f)
  <2> stack[t] \in Seq(Record)
    BY DEF IInv, TypesOK
  <2> QED
    BY <1>6, FirstIsHead DEF Adds
<1>8. /\ F \in initialized /\ F \notin registered /\ F \notin database
      /\ \A u \in Thread : \A j \in DOMAIN stack[u] :
           Adds(stack[u][j]) /\ stack[u][j].on = F => u = t /\ j = 1
  BY <1>6, <1>7, <1>2 DEF IInv, AddsOK
<1>9. /\ database' = database \cup {F} /\ ~dead' /\ Enter(t, fs, "files")
      /\ UNCHANGED <<lock, once, initialized, registered, pool, caches>>
  BY <1>1, <1>2, <1>4, <1>8 DEF AddDatabase, Go
<1>10. "files" \in Places /\ fs \in Seq(Record) /\ n = Len(fs) /\ 1..n = {}
  BY <1>4, <1>5, EmptySeq, PlaceNames
<1>11. g \in Record /\ g.op = "add" /\ g.on = F /\ g.at = "files"
  BY <1>6, <1>2, <1>3, <1>10, NewPlace
<1>12. Pushes(t, f, g, n, fs)
  BY <1>1, <1>6, <1>3, <1>9, <1>10, EnterPushes DEF IInv
<1>13. Grows
  BY <1>9 DEF Grows, pool, caches
<1>14. CallOK(g)'
  <2>1. CallOK(g)
    BY <1>6, <1>2, <1>11 DEF CallOK, Assigns
  <2> QED
    BY <1>13, <2>1, CallStays
<1>15. GoesOn(t, f, g, n, fs)
  BY <1>6, <1>9, <1>11, PlainGoesOn DEF Waits, NeedsPool, Assigns, Makes
<1>16. Calling' /\ RegistersOK' /\ CreatesOK'
  <2>1. UNCHANGED <<type_map, unknown>> /\ prototypes' = prototypes
    BY <1>9 DEF caches
  <2> QED
    BY <1>10, <1>12, <1>13, <1>14, <1>15, <2>1, PushStep DEF IInv, Calling
<1>17. TypesOK' /\ PoolOK' /\ FactoryOK'
  <2>1. stack' \in [Thread -> Seq(Record)] /\ DOMAIN ret' = Thread /\ asked' = asked
    BY <1>12, PushShapes DEF PushShape, IInv, TypesOK, Pushes
  <2>2. /\ registered \subseteq registered' /\ registered' \subseteq database'
        /\ database' \subseteq initialized' /\ initialized' \subseteq File
    BY <1>8, <1>9 DEF IInv, TypesOK
  <2>3. UNCHANGED <<once, pool, caches>> /\ lock' = lock /\ ~dead'
    BY <1>9
  <2> QED
    BY <2>1, <2>2, <2>3, AddData
<1>18. AddsOK'
  <2>1. \A u \in Thread : \A j \in DOMAIN stack[u] : \E i \in DOMAIN stack'[u] :
          i = j /\ stack'[u][i] = IF u = t /\ j = 1 THEN g ELSE stack[u][j]
    <3> TAKE u \in Thread
    <3> TAKE j \in DOMAIN stack[u]
    <3>1. stack[u] \in Seq(Record)
      BY DEF IInv, TypesOK
    <3>2. j \in Nat
      BY <3>1, LenProperties
    <3>3. CASE u = t /\ j = 1
      <4>1. n + 1 \in DOMAIN stack'[t] /\ stack'[t][n + 1] = g
        BY <1>12, PushKeeps DEF IInv
      <4>2. n + 1 = 1
        BY <1>5
      <4> QED
        BY <3>3, <4>1, <4>2
    <3>4. CASE ~(u = t /\ j = 1)
      <4>1. (IF u = t THEN j + n ELSE j) \in DOMAIN stack'[u]
            /\ stack'[u][IF u = t THEN j + n ELSE j] = stack[u][j]
        BY <1>12, <3>4, PushKeeps DEF IInv
      <4>2. (IF u = t THEN j + n ELSE j) = j
        BY <1>5, <3>2
      <4> QED
        BY <3>4, <4>1, <4>2
    <3> QED
      BY <3>3, <3>4
  <2>2. \A u \in Thread : \A i \in DOMAIN stack'[u] : \E j \in DOMAIN stack[u] :
          i = j /\ stack'[u][i] = IF u = t /\ j = 1 THEN g ELSE stack[u][j]
    <3> TAKE u \in Thread
    <3> TAKE i \in DOMAIN stack'[u]
    <3>1. CASE u = t /\ i = n + 1 /\ stack'[u][i] = g
      <4>1. i = 1
        BY <1>5, <3>1
      <4> QED
        BY <1>7, <3>1, <4>1
    <3>2. CASE \E j \in DOMAIN stack[u] :
                 i = (IF u = t THEN j + n ELSE j) /\ (u = t => j # 1) /\ stack'[u][i] = stack[u][j]
      <4>1. PICK j \in DOMAIN stack[u] :
              i = (IF u = t THEN j + n ELSE j) /\ (u = t => j # 1) /\ stack'[u][i] = stack[u][j]
        BY <3>2
      <4>2. j \in Nat
        <5> stack[u] \in Seq(Record)
          BY DEF IInv, TypesOK
        <5> QED
          BY LenProperties
      <4>3. i = j
        BY <1>5, <4>1, <4>2
      <4> QED
        BY <4>1, <4>3
    <3>3. ~(u = t /\ i \in 1..n /\ stack'[u][i] = fs[i])
      BY <1>10
    <3> QED
      BY <1>12, <3>1, <3>2, <3>3, PushKeeps DEF IInv
  <2>3. Adds(g)
    BY <1>11 DEF Adds
  <2>4. ASSUME NEW G \in initialized'
        PROVE  G \in registered' \/ \E u \in Thread : \E i \in DOMAIN stack'[u] :
                 Adds(stack'[u][i]) /\ stack'[u][i].on = G
    <3> SUFFICES ASSUME G \notin registered
                 PROVE  \E u \in Thread : \E i \in DOMAIN stack'[u] : Adds(stack'[u][i]) /\ stack'[u][i].on = G
      BY <1>9
    <3>1. PICK u \in Thread : \E j \in DOMAIN stack[u] : Adds(stack[u][j]) /\ stack[u][j].on = G
      BY <1>9 DEF IInv, AddsOK
    <3>2. PICK j \in DOMAIN stack[u] : Adds(stack[u][j]) /\ stack[u][j].on = G
      BY <3>1
    <3> QED
      BY <1>6, <1>2, <1>11, <2>1, <2>3, <3>2
  <2>5. ASSUME NEW G \in initialized' \cap Lazy, NEW H \in ToSet(Deps[G])
        PROVE  H \in initialized' \/ \E u \in Thread : \E i \in DOMAIN stack'[u] :
                 stack'[u][i].op = "add" /\ stack'[u][i].on = H
    <3> SUFFICES ASSUME H \notin initialized
                 PROVE  \E u \in Thread : \E i \in DOMAIN stack'[u] :
                          stack'[u][i].op = "add" /\ stack'[u][i].on = H
      BY <1>9
    <3>1. PICK u \in Thread : \E j \in DOMAIN stack[u] : stack[u][j].op = "add" /\ stack[u][j].on = H
      BY <1>9 DEF IInv, AddsOK
    <3>2. PICK j \in DOMAIN stack[u] : stack[u][j].op = "add" /\ stack[u][j].on = H
      BY <3>1
    <3> QED
      BY <1>6, <1>2, <1>11, <2>1, <3>2
  <2>6. ASSUME NEW u \in Thread, NEW i \in DOMAIN stack'[u], Adds(stack'[u][i]), NEW G, G = stack'[u][i].on
        PROVE  /\ G \in initialized' /\ G \notin registered'
               /\ G \in database' <=> stack'[u][i].at = "files"
               /\ \A w \in Thread : \A k \in DOMAIN stack'[w] :
                    Adds(stack'[w][k]) /\ stack'[w][k].on = G => w = u /\ k = i
    <3>1. i \in DOMAIN stack[u] /\ stack'[u][i] = IF u = t /\ i = 1 THEN g ELSE stack[u][i]
      BY <2>2
    <3>2. Adds(stack[u][i]) /\ stack[u][i].on = G
      BY <1>6, <1>7, <1>2, <1>11, <2>6, <3>1
    <3>3. /\ G \in initialized /\ G \notin registered
          /\ G \in database <=> stack[u][i].at = "files"
          /\ \A w \in Thread : \A k \in DOMAIN stack[w] :
               Adds(stack[w][k]) /\ stack[w][k].on = G => w = u /\ k = i
      BY <3>1, <3>2 DEF IInv, AddsOK
    <3>4. ASSUME NEW w \in Thread, NEW k \in DOMAIN stack'[w], Adds(stack'[w][k]), stack'[w][k].on = G
          PROVE  w = u /\ k = i
      <4>1. k \in DOMAIN stack[w] /\ stack'[w][k] = IF w = t /\ k = 1 THEN g ELSE stack[w][k]
        BY <2>2
      <4>2. Adds(stack[w][k]) /\ stack[w][k].on = G
        BY <1>6, <1>7, <1>2, <1>11, <3>4, <4>1
      <4> QED
        BY <3>3, <4>1, <4>2
    <3>5. CASE u = t /\ i = 1
      <4>1. G = F /\ stack'[u][i].at = "files"
        BY <1>11, <2>6, <3>1, <3>5
      <4> QED
        BY <1>8, <1>9, <3>4, <4>1
    <3>6. CASE ~(u = t /\ i = 1)
      <4>1. G # F /\ stack'[u][i] = stack[u][i]
        BY <1>8, <3>1, <3>2, <3>6
      <4> QED
        BY <1>9, <3>3, <3>4, <4>1
    <3> QED
      BY <3>5, <3>6
  <2> QED
    BY <2>4, <2>5, <2>6 DEF AddsOK
<1> QED
  BY <1>16, <1>17, <1>18 DEF IInv, Calling

\* The file is not in the factory yet, and its dependencies are.
LEMMA AddFileKeeps == ASSUME IInv, NEW t \in Thread, AddFile(t) PROVE IInv'
<1>1. PICK f : f = Top(t)
  OBVIOUS
<1>2. PICK F : F = f.on
  OBVIOUS
<1>3. stack[t] # <<>> /\ f = stack[t][1] /\ CallOK(f) /\ f \in Record /\ f.op = "add" /\ f.at = "files" /\ ~dead
  BY <1>1, TopCall DEF AddFile
<1>4. 1 \in DOMAIN stack[t] /\ Adds(f)
  <2> stack[t] \in Seq(Record)
    BY DEF IInv, TypesOK
  <2> QED
    BY <1>3, FirstIsHead DEF Adds
<1>5. /\ F \in initialized /\ F \notin registered /\ F \in database
      /\ \A u \in Thread : \A j \in DOMAIN stack[u] :
           Adds(stack[u][j]) /\ stack[u][j].on = F => u = t /\ j = 1
  BY <1>3, <1>4, <1>2 DEF IInv, AddsOK
<1>6. /\ registered' = registered \cup {F} /\ ~dead' /\ Return(t, None)
      /\ UNCHANGED <<lock, once, initialized, database, pool, caches>>
  BY <1>1, <1>2, <1>5 DEF AddFile
<1>7. Grows
  BY <1>6 DEF Grows, pool, caches
<1>8. Pops(t, f, None)
  BY <1>1, <1>3, <1>6, ReturnPops DEF IInv
<1>9. ResultOK(f.op, f.on, None)'
  BY <1>3, <1>2, <1>5, <1>6 DEF ResultOK
<1>10. ~Makes(f) /\ f.op # "unknown" /\ \A l \in HeldLock : LockLeft(f, l)
  BY <1>3, <1>6 DEF Makes, LockLeft, Holds, Assigns
<1>11. Calling'
  <2>1. prototypes' = prototypes
    BY <1>6 DEF caches
  <2> QED
    BY <1>7, <1>8, <1>9, <1>10, <2>1, PopStep DEF IInv, Calling
<1>12. RegistersOK' /\ CreatesOK'
  <2>1. type_map' = type_map /\ unknown' = unknown
    BY <1>6 DEF caches
  <2> QED
    BY <1>8, <2>1, PopRegisters, PopCreates DEF IInv
<1>13. TypesOK' /\ PoolOK' /\ FactoryOK'
  <2>1. stack' \in [Thread -> Seq(Record)] /\ DOMAIN ret' = Thread /\ asked' = asked
    BY <1>8, PopShapes DEF PopShape, IInv, TypesOK, Pops
  <2>2. /\ registered \subseteq registered' /\ registered' \subseteq database'
        /\ database' \subseteq initialized' /\ initialized' \subseteq File
    BY <1>5, <1>6 DEF IInv, TypesOK
  <2>3. UNCHANGED <<once, pool, caches>> /\ lock' = lock /\ ~dead'
    BY <1>6
  <2> QED
    BY <2>1, <2>2, <2>3, AddData
<1>14. AddsOK'
  <2>1. \A u \in Thread : \A j \in DOMAIN stack[u] :
          \/ u = t /\ j = 1
          \/ \E i \in DOMAIN stack'[u] : stack'[u][i] = stack[u][j]
    BY <1>8, PopKeeps DEF IInv
  <2>2. \A u \in Thread : \A i \in DOMAIN stack'[u] : \E j \in DOMAIN stack[u] :
          /\ j = (IF u = t THEN i + 1 ELSE i) /\ (u = t => j # 1) /\ stack'[u][i] = stack[u][j]
          /\ i \in Nat
    BY <1>8, PopKeeps DEF IInv
  <2>3. ASSUME NEW G \in initialized'
        PROVE  G \in registered' \/ \E u \in Thread : \E i \in DOMAIN stack'[u] :
                 Adds(stack'[u][i]) /\ stack'[u][i].on = G
    <3> SUFFICES ASSUME G \notin registered, G # F
                 PROVE  \E u \in Thread : \E i \in DOMAIN stack'[u] : Adds(stack'[u][i]) /\ stack'[u][i].on = G
      BY <1>6
    <3>1. PICK u \in Thread : \E j \in DOMAIN stack[u] : Adds(stack[u][j]) /\ stack[u][j].on = G
      BY <1>6 DEF IInv, AddsOK
    <3>2. PICK j \in DOMAIN stack[u] : Adds(stack[u][j]) /\ stack[u][j].on = G
      BY <3>1
    <3>3. ~(u = t /\ j = 1)
      BY <1>3, <1>2, <3>2
    <3> QED
      BY <2>1, <3>2, <3>3
  <2>4. ASSUME NEW G \in initialized' \cap Lazy, NEW H \in ToSet(Deps[G])
        PROVE  H \in initialized' \/ \E u \in Thread : \E i \in DOMAIN stack'[u] :
                 stack'[u][i].op = "add" /\ stack'[u][i].on = H
    <3> SUFFICES ASSUME H \notin initialized
                 PROVE  \E u \in Thread : \E i \in DOMAIN stack'[u] :
                          stack'[u][i].op = "add" /\ stack'[u][i].on = H
      BY <1>6
    <3>1. PICK u \in Thread : \E j \in DOMAIN stack[u] : stack[u][j].op = "add" /\ stack[u][j].on = H
      BY <1>6 DEF IInv, AddsOK
    <3>2. PICK j \in DOMAIN stack[u] : stack[u][j].op = "add" /\ stack[u][j].on = H
      BY <3>1
    <3>3. ~(u = t /\ j = 1)
      BY <1>3, <1>2, <1>5, <3>2
    <3> QED
      BY <2>1, <3>2, <3>3
  <2>5. ASSUME NEW u \in Thread, NEW i \in DOMAIN stack'[u], Adds(stack'[u][i]), NEW G, G = stack'[u][i].on
        PROVE  /\ G \in initialized' /\ G \notin registered'
               /\ G \in database' <=> stack'[u][i].at = "files"
               /\ \A w \in Thread : \A k \in DOMAIN stack'[w] :
                    Adds(stack'[w][k]) /\ stack'[w][k].on = G => w = u /\ k = i
    <3>1. PICK j \in DOMAIN stack[u] :
            /\ j = (IF u = t THEN i + 1 ELSE i) /\ (u = t => j # 1) /\ stack'[u][i] = stack[u][j]
            /\ i \in Nat
      BY <2>2
    <3>2. Adds(stack[u][j]) /\ G = stack[u][j].on
      BY <2>5, <3>1
    <3>3. /\ G \in initialized /\ G \notin registered
          /\ G \in database <=> stack[u][j].at = "files"
          /\ \A w \in Thread : \A k \in DOMAIN stack[w] :
               Adds(stack[w][k]) /\ stack[w][k].on = G => w = u /\ k = j
      BY <3>2 DEF IInv, AddsOK
    <3>4. G # F
      BY <1>5, <3>1, <3>2
    <3>5. ASSUME NEW w \in Thread, NEW k \in DOMAIN stack'[w], Adds(stack'[w][k]), stack'[w][k].on = G
          PROVE  w = u /\ k = i
      <4>1. PICK m \in DOMAIN stack[w] :
              /\ m = (IF w = t THEN k + 1 ELSE k) /\ (w = t => m # 1) /\ stack'[w][k] = stack[w][m]
              /\ k \in Nat
        BY <2>2
      <4>2. w = u /\ m = j
        BY <3>3, <3>5, <4>1
      <4> QED
        BY <3>1, <4>1, <4>2
    <3> QED
      BY <1>6, <3>1, <3>3, <3>4, <3>5
  <2> QED
    BY <2>3, <2>4, <2>5 DEF AddsOK
<1> QED
  BY <1>11, <1>12, <1>13, <1>14 DEF IInv, Calling

(* Questions from outside. *)

\* A question is about what its operation is about.
LEMMA Asked ==
  ASSUME NEW q \in Question
  PROVE  /\ q.op \in {"assign", "lookup", "prototype", "type", "unknown", "memo"}
         /\ q.op = "assign" => q.on \in File
         /\ q.op \in {"lookup", "prototype"} => q.on \in Type
         /\ q.op = "type" => q.on \in Pair
         /\ q.op = "unknown" => q.on \in Number
         /\ q.op = "memo" => q.on \in Key
         /\ q.on \in On
<1>1. \/ q \in [op : {"assign"}, on : File]
      \/ q \in [op : {"lookup", "prototype"}, on : Type]
      \/ q \in [op : {"type"}, on : Pair]
      \/ q \in [op : {"unknown"}, on : Number]
      \/ q \in [op : {"memo"}, on : Key]
  BY QuestionsOK
<1> QED
  BY <1>1 DEF On

\* The calls with which a thread begins.
Begins(q, n, fs) ==
  /\ fs \in Seq(Record) /\ n = Len(fs) /\ n # 0 /\ fs[n].op = q.op /\ fs[n].on = q.on
  /\ \A k \in 1..n :
       /\ CallOK(fs[k])
       /\ Waits(fs[k]) => k # 1 /\ fs[k - 1].op = AwaitedOp(fs[k]) /\ fs[k - 1].on = AwaitedOn(fs[k])
       /\ NeedsPool(fs[k]) =>
            \A F \in Lazy : F \in assigned \/ \E j \in 1..k - 1 : fs[j].op = "assign" /\ fs[j].on = F
       /\ fs[k].op = "unknown" => k = n
       /\ \A l \in HeldLock : ~Holds(fs[k], l) /\ ~Within(fs[k], l)
       /\ fs[k].op \notin {"add", "make", "register"}

\* A stack of one call that holds and needs nothing.
LEMMA OneCall ==
  ASSUME NEW q, NEW h \in Record, h.op = q.op, h.on = q.on, CallOK(h), ~Waits(h), ~NeedsPool(h),
         \A l \in HeldLock : ~Holds(h, l) /\ ~Within(h, l), h.op \notin {"add", "make", "register"}
  PROVE  Begins(q, 1, <<h>>)
<1>1. PICK fs, n : fs = <<h>> /\ n = 1
  OBVIOUS
<1>2. fs \in Seq(Record) /\ n = Len(fs) /\ n # 0 /\ fs[n] = h /\ \A k \in 1..n : fs[k] = h /\ k = n
  BY <1>1
<1>3. Begins(q, n, fs)
  BY <1>2 DEF Begins
<1> QED
  BY <1>1, <1>3

\* Every question begins with calls that stand rightly.
LEMMA Openings ==
  ASSUME NEW q \in Question, CanAsk(q)
  PROVE  \E n : Begins(q, n, Opening(q))
<1>1. CASE q.op = "assign"
  <2>1. PICK h : h = Frame("assign", q.on, "once")
    OBVIOUS
  <2>2. h \in Record /\ h.op = "assign" /\ h.on = q.on /\ h.at = "once"
    <3>1. "assign" \in Ops /\ "once" \in Places /\ q.on \in On
      BY Asked, PlaceNames, OpNames
    <3> QED
      BY <2>1, <3>1, FrameFields
  <2>3. CallOK(h) /\ ~Waits(h) /\ ~NeedsPool(h) /\ \A l \in HeldLock : ~Holds(h, l) /\ ~Within(h, l)
    BY <1>1, <2>2, Asked DEF CallOK, Waits, NeedsPool, Holds, Within, Assigns
  <2>4. Begins(q, 1, <<h>>)
    BY <1>1, <2>2, <2>3, OneCall
  <2>5. Opening(q) = <<h>>
    BY <1>1, <2>1 DEF Opening
  <2> QED
    BY <2>4, <2>5
<1>2. CASE q.op = "type"
  <2>1. PICK h : h = Frame("type", q.on, "enter")
    OBVIOUS
  <2>2. h \in Record /\ h.op = "type" /\ h.on = q.on /\ h.at = "enter"
    <3>1. "type" \in Ops /\ "enter" \in Places /\ q.on \in On
      BY Asked, PlaceNames, OpNames
    <3> QED
      BY <2>1, <3>1, FrameFields
  <2>3. FileOf[q.on[1]] \in built
    BY <1>2 DEF CanAsk
  <2>4. CallOK(h) /\ ~Waits(h) /\ ~NeedsPool(h) /\ \A l \in HeldLock : ~Holds(h, l) /\ ~Within(h, l)
    BY <1>2, <2>2, <2>3, Asked DEF CallOK, Waits, NeedsPool, Holds, Within, Assigns
  <2>5. Begins(q, 1, <<h>>)
    BY <1>2, <2>2, <2>4, OneCall
  <2>6. Opening(q) = <<h>>
    BY <1>2, <2>1 DEF Opening
  <2> QED
    BY <2>5, <2>6
<1>3. CASE q.op = "unknown"
  <2>1. PICK h : h = Frame("unknown", q.on, "read")
    OBVIOUS
  <2>2. h \in Record /\ h.op = "unknown" /\ h.on = q.on /\ h.at = "read"
    <3>1. "unknown" \in Ops /\ "read" \in Places /\ q.on \in On
      BY Asked, PlaceNames, OpNames
    <3> QED
      BY <2>1, <3>1, FrameFields
  <2>3. CallOK(h) /\ ~Waits(h) /\ ~NeedsPool(h) /\ \A l \in HeldLock : ~Holds(h, l) /\ ~Within(h, l)
    BY <1>3, <2>2, Asked DEF CallOK, Waits, NeedsPool, Holds, Within, Assigns
  <2>4. Begins(q, 1, <<h>>)
    BY <1>3, <2>2, <2>3, OneCall
  <2>5. Opening(q) = <<h>>
    BY <1>3, <2>1 DEF Opening
  <2> QED
    BY <2>4, <2>5
<1>4. CASE q.op = "memo"
  <2>1. PICK h : h = Frame("memo", q.on, "read")
    OBVIOUS
  <2>2. h \in Record /\ h.op = "memo" /\ h.on = q.on /\ h.at = "read"
    <3>1. "memo" \in Ops /\ "read" \in Places /\ q.on \in On
      BY Asked, PlaceNames, OpNames
    <3> QED
      BY <2>1, <3>1, FrameFields
  <2>3. CallOK(h) /\ ~Waits(h) /\ ~NeedsPool(h) /\ \A l \in HeldLock : ~Holds(h, l) /\ ~Within(h, l)
    BY <1>4, <2>2, Asked DEF CallOK, Waits, NeedsPool, Holds, Within, Assigns
  <2>4. Begins(q, 1, <<h>>)
    BY <1>4, <2>2, <2>3, OneCall
  <2>5. Opening(q) = <<h>>
    BY <1>4, <2>1 DEF Opening
  <2> QED
    BY <2>4, <2>5
<1>5. CASE q.op = "prototype"
  <2>1. PICK fs : fs = Getting(q.on)
    OBVIOUS
  <2>2. PICK n : n = 2
    OBVIOUS
  <2>3. q.on \in On /\ q.on \in Type /\ FileOf[q.on] \in built
    BY <1>5, Asked DEF CanAsk
  <2>4. fs[1] \in Record /\ fs[1].op = "try" /\ fs[1].on = q.on /\ fs[1].at = "read"
    <3>1. "try" \in Ops /\ "read" \in Places
      BY PlaceNames, OpNames
    <3> QED
      BY <2>1, <2>3, <3>1, FrameFields DEF Getting
  <2>5. fs[2] \in Record /\ fs[2].op = "prototype" /\ fs[2].on = q.on /\ fs[2].at = "tried"
    <3>1. "prototype" \in Ops /\ "tried" \in Places
      BY PlaceNames, OpNames
    <3> QED
      BY <2>1, <2>3, <3>1, FrameFields DEF Getting
  <2>6. fs \in Seq(Record) /\ n = Len(fs) /\ n # 0 /\ \A k \in 1..n : k = 1 \/ k = 2
    BY <2>1, <2>2, <2>4, <2>5 DEF Getting
  <2>7. /\ CallOK(fs[1]) /\ ~Waits(fs[1]) /\ ~NeedsPool(fs[1])
        /\ \A l \in HeldLock : ~Holds(fs[1], l) /\ ~Within(fs[1], l)
    BY <2>3, <2>4 DEF CallOK, Waits, NeedsPool, Holds, Within, Assigns
  <2>8. /\ CallOK(fs[2]) /\ ~NeedsPool(fs[2])
        /\ \A l \in HeldLock : ~Holds(fs[2], l) /\ ~Within(fs[2], l)
    BY <2>3, <2>5 DEF CallOK, Waits, NeedsPool, Holds, Within, Assigns
  <2>9. fs[2 - 1].op = AwaitedOp(fs[2]) /\ fs[2 - 1].on = AwaitedOn(fs[2])
    BY <2>4, <2>5, Awaits
  <2>10. fs[n].op = q.op /\ fs[n].on = q.on
    BY <1>5, <2>2, <2>5
  <2>11. Begins(q, n, fs)
    BY <2>4, <2>5, <2>6, <2>7, <2>8, <2>9, <2>10 DEF Begins
  <2> QED
    BY <1>5, <2>1, <2>11 DEF Opening
<1>6. CASE q.op = "lookup"
  <2>1. PICK c : c = GeneratedPool
    OBVIOUS
  <2>2. PICK h : h = Frame("lookup", q.on, "find")
    OBVIOUS
  <2>3. PICK fs : fs = c \o <<h>>
    OBVIOUS
  <2>4. PICK m : m = Len(c)
    OBVIOUS
  <2>5. PICK n : n = m + 1
    OBVIOUS
  <2>6. h \in Record /\ h.op = "lookup" /\ h.on = q.on /\ h.at = "find"
    <3>1. "lookup" \in Ops /\ "find" \in Places /\ q.on \in On
      BY Asked, PlaceNames, OpNames
    <3> QED
      BY <2>2, <3>1, FrameFields
  <2>7. /\ c \in Seq(Record) /\ m \in Nat
        /\ \A k \in 1..m : c[k].op = "assign" /\ c[k].at = "once" /\ c[k].on \in Lazy
        /\ \A F \in Lazy : F \in assigned \/ \E k \in 1..m : c[k].op = "assign" /\ c[k].on = F
    BY <2>1, <2>4, PoolCalls
  <2>8. \A k \in 1..m : CallOK(c[k])
    BY <2>1, <2>4, PoolJoins
  <2>9. /\ fs \in Seq(Record) /\ n = Len(fs) /\ n # 0 /\ fs[n] = h
        /\ \A k \in 1..m : fs[k] = c[k]
        /\ \A k \in 1..n : k = n \/ k \in 1..m
    <3>1. PICK r : r = <<h>>
      OBVIOUS
    <3>2. r \in Seq(Record) /\ Len(r) = 1 /\ r[1] = h
      BY <2>6, <3>1
    <3>3. /\ c \o r \in Seq(Record) /\ Len(c \o r) = Len(c) + Len(r)
          /\ \A k \in 1..Len(c) + Len(r) : (c \o r)[k] = IF k <= Len(c) THEN c[k] ELSE r[k - Len(c)]
      <4>1. c \in Seq(Record) /\ r \in Seq(Record)
        BY <2>7, <3>2
      <4> QED
        BY <4>1, ConcatProperties
    <3>4. m \in Nat /\ Len(c) = m
      BY <2>7, <2>4
    <3>5. fs \in Seq(Record) /\ Len(fs) = n /\ \A k \in 1..n : fs[k] = IF k <= m THEN c[k] ELSE r[k - m]
      BY <2>5, <2>3, <3>1, <3>2, <3>3, <3>4
    <3>6. n \in 1..n /\ ~(n <= m) /\ n - m = 1 /\ n # 0
      BY <2>5, <3>4
    <3>7. \A k \in 1..n : k = n \/ k \in 1..m
      BY <2>5, <3>4
    <3>8. fs[n] = h
      BY <3>2, <3>5, <3>6
    <3>9. \A k \in 1..m : k \in 1..n /\ k <= m
      BY <2>5, <3>4
    <3>10. \A k \in 1..m : fs[k] = c[k]
      BY <3>5, <3>9
    <3> QED
      BY <3>5, <3>6, <3>7, <3>8, <3>10
  <2>10. CallOK(h) /\ ~Waits(h) /\ \A l \in HeldLock : ~Holds(h, l) /\ ~Within(h, l)
    BY <1>6, <2>6, Asked DEF CallOK, Waits, Holds, Within, Assigns
  <2>11. \A F \in Lazy : F \in assigned \/ \E j \in 1..n - 1 : fs[j].op = "assign" /\ fs[j].on = F
    <3>1. n - 1 = m
      BY <2>5, <2>7
    <3> QED
      BY <2>7, <2>9, <3>1
  <2>12. ASSUME NEW k \in 1..m
         PROVE  /\ fs[k] = c[k] /\ CallOK(c[k]) /\ ~Waits(c[k]) /\ ~NeedsPool(c[k]) /\ c[k].op = "assign"
                /\ \A l \in HeldLock : ~Holds(c[k], l) /\ ~Within(c[k], l)
    BY <2>7, <2>8, <2>9 DEF Waits, NeedsPool, Holds, Within, Assigns
  <2>13. Begins(q, n, fs)
    BY <1>6, <2>6, <2>9, <2>10, <2>11, <2>12 DEF Begins
  <2> QED
    BY <1>6, <2>1, <2>2, <2>3, <2>13 DEF Opening
<1> QED
  BY <1>1, <1>2, <1>3, <1>4, <1>5, <1>6, Asked

\* Who asks from outside has an empty stack, and begins rightly.
LEMMA AskKeeps == ASSUME IInv, NEW t \in Thread, Ask(t) PROVE IInv'
<1>1. PICK q \in Question :
        /\ stack[t] = <<>> /\ ~dead /\ CanAsk(q)
        /\ stack' = [stack EXCEPT ![t] = Opening(q)] /\ asked' = [asked EXCEPT ![t] = q]
        /\ UNCHANGED <<ret, lock, once, tables, pool, caches, answers, dead>>
  BY DEF Ask
<1>2. PICK fs : fs = Opening(q)
  OBVIOUS
<1>3. PICK n : Begins(q, n, fs)
  BY <1>1, <1>2, Openings
<1>4. fs \in Seq(Record) /\ n = Len(fs) /\ n \in Nat /\ DOMAIN fs = 1..n /\ n \in 1..n /\ fs # <<>>
  <2>1. fs \in Seq(Record) /\ n = Len(fs) /\ n # 0
    BY <1>3 DEF Begins
  <2> QED
    BY <2>1, LenProperties, EmptySeq
<1>5. /\ stack' \in [Thread -> Seq(Record)] /\ stack'[t] = fs
      /\ \A u \in Thread : u # t => stack'[u] = stack[u]
  BY <1>1, <1>2, <1>4 DEF IInv, TypesOK
<1>6. /\ DOMAIN asked' = Thread /\ asked'[t] = q
      /\ \A u \in Thread : u # t => asked'[u] = asked[u]
  BY <1>1 DEF IInv, TypesOK
<1>7. \A u \in Thread : \A j \in DOMAIN stack[u] : u # t
  BY <1>1
<1>8. \A k \in 1..n :
        /\ CallOK(fs[k])
        /\ Waits(fs[k]) => k # 1 /\ fs[k - 1].op = AwaitedOp(fs[k]) /\ fs[k - 1].on = AwaitedOn(fs[k])
        /\ NeedsPool(fs[k]) =>
             \A F \in Lazy : F \in assigned \/ \E j \in 1..k - 1 : fs[j].op = "assign" /\ fs[j].on = F
        /\ fs[k].op = "unknown" => k = n
        /\ \A l \in HeldLock : ~Holds(fs[k], l) /\ ~Within(fs[k], l)
        /\ fs[k].op \notin {"add", "make", "register"}
  BY <1>3 DEF Begins
<1>9. /\ UNCHANGED <<ret, lock, once, initialized, database, registered, built, link, assigned>>
      /\ UNCHANGED <<type_map, prototypes, linked, unknown, memo, made, answers, dead>>
  BY <1>1 DEF tables, pool, caches
<1>10. Grows
  BY <1>1, QuietGrows
<1>11. TypesOK'
  BY <1>5, <1>6, <1>9 DEF IInv, TypesOK
<1>12. PoolOK'
  <2>1. \A G \in built' : Ready(G)'
    BY <1>9 DEF IInv, PoolOK, Ready
  <2> QED
    BY <1>9, <2>1 DEF IInv, PoolOK
<1>13. FactoryOK'
  BY <1>9 DEF IInv, FactoryOK
<1>14. AnswersOK'
  BY <1>9, <1>10, KeptAnswers DEF IInv
<1>15. CallsOK'
  <2> SUFFICES ASSUME NEW u \in Thread, NEW i \in DOMAIN stack'[u] PROVE CallOK(stack[u][i])'
    BY DEF CallsOK
  <2>1. CASE u = t
    BY <1>4, <1>5, <1>8, <1>10, <2>1, CallStays
  <2>2. CASE u # t
    BY <1>5, <1>10, <2>2, CallStays DEF IInv, CallsOK
  <2> QED
    BY <2>1, <2>2
<1>16. WaitsOK'
  <2> SUFFICES ASSUME NEW u \in Thread, NEW i \in DOMAIN stack'[u], NEW h, h = stack'[u][i], Waits(h)
               PROVE  IF i = 1 THEN ResultOK(AwaitedOp(h), AwaitedOn(h), ret[u])'
                      ELSE stack'[u][i - 1].op = AwaitedOp(h) /\ stack'[u][i - 1].on = AwaitedOn(h)
    BY DEF WaitsOK
  <2>1. CASE u = t
    BY <1>4, <1>5, <1>8, <2>1
  <2>2. CASE u # t
    <3>1. i \in DOMAIN stack[u] /\ h = stack[u][i] /\ stack'[u] = stack[u] /\ ret'[u] = ret[u]
      BY <1>5, <1>9, <2>2
    <3>2. i = 1 => ResultOK(AwaitedOp(h), AwaitedOn(h), ret[u])
      BY <3>1 DEF IInv, WaitsOK
    <3>3. PICK op, on, w : op = AwaitedOp(h) /\ on = AwaitedOn(h) /\ w = ret[u]
      OBVIOUS
    <3>4. i = 1 => ResultOK(op, on, w)'
      BY <1>10, <3>2, <3>3, ResultStays
    <3> QED
      BY <3>1, <3>3, <3>4 DEF IInv, WaitsOK
  <2> QED
    BY <2>1, <2>2
<1>17. NeedsOK'
  <2> SUFFICES ASSUME NEW u \in Thread, NEW i \in DOMAIN stack'[u], NeedsPool(stack'[u][i]), NEW F \in Lazy
               PROVE  F \in assigned' \/ \E j \in 1..i - 1 : stack'[u][j].op = "assign" /\ stack'[u][j].on = F
    BY DEF NeedsOK
  <2>1. CASE u = t
    BY <1>4, <1>5, <1>8, <1>9, <2>1
  <2>2. CASE u # t
    BY <1>5, <1>9, <2>2 DEF IInv, NeedsOK
  <2> QED
    BY <2>1, <2>2
<1>18. OuterOK'
  <2> SUFFICES ASSUME NEW u \in Thread
               PROVE  /\ stack'[u] # <<>> => /\ asked'[u] \in Question
                                             /\ stack'[u][Len(stack'[u])].op = asked'[u].op
                                             /\ stack'[u][Len(stack'[u])].on = asked'[u].on
                      /\ \A i \in DOMAIN stack'[u] : stack'[u][i].op = "unknown" => i = Len(stack'[u])
    BY DEF OuterOK
  <2>1. CASE u = t
    <3>1. fs[n].op = q.op /\ fs[n].on = q.on
      BY <1>3 DEF Begins
    <3>2. \A k \in 1..n : fs[k].op = "unknown" => k = n
      BY <1>8
    <3> QED
      BY <1>4, <1>5, <1>6, <2>1, <3>1, <3>2
  <2>2. CASE u # t
    BY <1>5, <1>6, <2>2 DEF IInv, OuterOK
  <2> QED
    BY <2>1, <2>2
<1>19. LocksOK'
  <2> SUFFICES ASSUME NEW l \in HeldLock, NEW u \in Thread, NEW i \in DOMAIN stack'[u]
               PROVE  /\ Holds(stack'[u][i], l) =>
                           /\ lock'[l] = u
                           /\ \A j \in DOMAIN stack'[u] : Holds(stack'[u][j], l) => j = i
                      /\ Within(stack'[u][i], l) =>
                           \E j \in DOMAIN stack'[u] : j > i /\ Holds(stack'[u][j], l)
    BY DEF LocksOK
  <2>1. CASE u = t
    BY <1>4, <1>5, <1>8, <2>1
  <2>2. CASE u # t
    <3>1. stack'[u] = stack[u] /\ i \in DOMAIN stack[u] /\ lock'[l] = lock[l]
      BY <1>5, <1>9, <2>2
    <3>2. /\ Holds(stack[u][i], l) => /\ lock[l] = u
                                     /\ \A j \in DOMAIN stack[u] : Holds(stack[u][j], l) => j = i
          /\ Within(stack[u][i], l) => \E j \in DOMAIN stack[u] : j > i /\ Holds(stack[u][j], l)
      BY <3>1 DEF IInv, LocksOK
    <3> QED
      BY <3>1, <3>2
  <2> QED
    BY <2>1, <2>2
<1>20. \A u \in Thread : \A i \in DOMAIN stack'[u] :
         \/ u = t /\ stack'[u][i].op \notin {"add", "make", "register"} /\ ~Holds(stack'[u][i], "unknown")
         \/ u # t /\ stack'[u] = stack[u]
  <2>1. \A k \in 1..n : ~Holds(fs[k], "unknown") /\ fs[k].op \notin {"add", "make", "register"}
    BY <1>8 DEF HeldLock
  <2> QED
    BY <1>4, <1>5, <2>1
<1>21. \A u \in Thread : \A j \in DOMAIN stack[u] : stack'[u] = stack[u]
  BY <1>5, <1>7
<1>22. AddsOK'
  <2>1. ASSUME NEW G \in initialized'
        PROVE  G \in registered' \/ \E u \in Thread : \E i \in DOMAIN stack'[u] :
                 Adds(stack'[u][i]) /\ stack'[u][i].on = G
    BY <1>9, <1>21 DEF IInv, AddsOK
  <2>2. ASSUME NEW G \in initialized' \cap Lazy, NEW H \in ToSet(Deps[G])
        PROVE  H \in initialized' \/ \E u \in Thread : \E i \in DOMAIN stack'[u] :
                 stack'[u][i].op = "add" /\ stack'[u][i].on = H
    BY <1>9, <1>21 DEF IInv, AddsOK
  <2>3. \A u \in Thread : \A i \in DOMAIN stack'[u] : Adds(stack'[u][i]) => u # t /\ stack'[u] = stack[u]
    BY <1>20 DEF Adds
  <2>4. ASSUME NEW u \in Thread, NEW i \in DOMAIN stack'[u], Adds(stack'[u][i]), NEW G, G = stack'[u][i].on
        PROVE  /\ G \in initialized' /\ G \notin registered'
               /\ G \in database' <=> stack'[u][i].at = "files"
               /\ \A w \in Thread : \A k \in DOMAIN stack'[w] :
                    Adds(stack'[w][k]) /\ stack'[w][k].on = G => w = u /\ k = i
    <3>1. i \in DOMAIN stack[u] /\ Adds(stack[u][i]) /\ stack[u][i].on = G /\ stack'[u] = stack[u]
      BY <2>3, <2>4
    <3>2. /\ G \in initialized /\ G \notin registered
          /\ G \in database <=> stack[u][i].at = "files"
          /\ \A w \in Thread : \A k \in DOMAIN stack[w] :
               Adds(stack[w][k]) /\ stack[w][k].on = G => w = u /\ k = i
      BY <3>1 DEF IInv, AddsOK
    <3> QED
      BY <1>9, <2>3, <3>1, <3>2
  <2> QED
    BY <2>1, <2>2, <2>4 DEF AddsOK
<1>23. RegistersOK'
  BY <1>9, <1>20 DEF IInv, RegistersOK
<1>24. CreatesOK'
  BY <1>9, <1>20 DEF IInv, CreatesOK
<1>25. LinksOK'
  BY <1>9, <1>21 DEF IInv, LinksOK
<1> QED
  BY <1>11, <1>12, <1>13, <1>14, <1>15, <1>16, <1>17, <1>18, <1>19, <1>22, <1>23, <1>24, <1>25 DEF IInv

(* Nothing that the invariant speaks of changes while the program rests. *)
LEMMA RestKeeps == ASSUME IInv, UNCHANGED vars PROVE IInv'
<1>1. UNCHANGED <<stack, ret, asked, calls, lock, once, initialized, database, registered, built, link,
                  assigned, type_map, prototypes, linked, unknown, memo, made, answers, dead>>
  BY DEF vars, threads, tables, pool, caches
<1>2. TypesOK' /\ PoolOK' /\ FactoryOK'
  BY <1>1 DEF IInv, TypesOK, PoolOK, Ready, Closed, FactoryOK
<1>3. Grows
  BY <1>1 DEF Grows
<1>4. CallsOK'
  BY <1>1, <1>3, CallStays DEF IInv, CallsOK
<1>5. AnswersOK'
  BY <1>1, <1>3, ResultStays DEF IInv, AnswersOK
<1>6. WaitsOK'
  <2> SUFFICES ASSUME NEW u \in Thread, NEW i \in DOMAIN stack[u], NEW h, h = stack[u][i], Waits(h)
               PROVE  IF i = 1 THEN ResultOK(AwaitedOp(h), AwaitedOn(h), ret[u])'
                      ELSE stack[u][i - 1].op = AwaitedOp(h) /\ stack[u][i - 1].on = AwaitedOn(h)
    BY <1>1 DEF WaitsOK
  <2>1. PICK op, on, w : op = AwaitedOp(h) /\ on = AwaitedOn(h) /\ w = ret[u]
    OBVIOUS
  <2>2. i = 1 => ResultOK(op, on, w)
    BY <2>1 DEF IInv, WaitsOK
  <2>3. i = 1 => ResultOK(op, on, w)'
    BY <1>3, <2>2, ResultStays
  <2> QED
    BY <1>1, <2>1, <2>3 DEF IInv, WaitsOK
<1>7. NeedsOK' /\ OuterOK'
  BY <1>1 DEF IInv, NeedsOK, OuterOK
<1>8. LocksOK'
  BY <1>1 DEF IInv, LocksOK
<1>9. AddsOK'
  BY <1>1 DEF IInv, AddsOK
<1>10. RegistersOK' /\ CreatesOK'
  BY <1>1 DEF IInv, RegistersOK, CreatesOK
<1>11. LinksOK'
  BY <1>1 DEF IInv, LinksOK
<1> QED
  BY <1>2, <1>4, <1>5, <1>6, <1>7, <1>8, <1>9, <1>10, <1>11 DEF IInv

(* Nobody is in a call before main, and every file but the lazy ones is registered. *)
LEMMA InitOK == ASSUME Init PROVE IInv
<1>1. \A t \in Thread : stack[t] = <<>> /\ DOMAIN stack[t] = {}
  BY EmptySeq DEF Init
<1>2. TypesOK
  <2>1. stack \in [Thread -> Seq(Record)]
    BY DEF Init
  <2>2. once \in [File \cup Pair -> {"new", "none", "done"} \cup Thread]
    BY DEF Init
  <2> QED
    BY <2>1, <2>2 DEF Init, TypesOK, Lock
<1>3. PoolOK
  BY ValuesOK DEF Init, PoolOK
<1>4. FactoryOK /\ AnswersOK
  BY DEF Init, FactoryOK, AnswersOK
<1>5. CallsOK /\ WaitsOK /\ NeedsOK
  BY <1>1 DEF CallsOK, WaitsOK, NeedsOK
<1>6. OuterOK /\ LocksOK
  BY <1>1 DEF OuterOK, LocksOK
<1>7. AddsOK
  BY <1>1 DEF Init, AddsOK
<1>8. RegistersOK /\ CreatesOK
  BY <1>1 DEF RegistersOK, CreatesOK
<1>9. LinksOK
  BY DEF Init, LinksOK
<1> QED
  BY <1>2, <1>3, <1>4, <1>5, <1>6, <1>7, <1>8, <1>9 DEF IInv

\* Every step keeps the invariant.
LEMMA StepKeeps == ASSUME IInv, [Next]_vars PROVE IInv'
<1>1. CASE UNCHANGED vars
  BY <1>1, RestKeeps
<1>2. CASE Rest
  BY <1>2, RestKeeps DEF Rest
<1>3. ASSUME NEW t \in Thread, Ask(t) PROVE IInv'
  BY <1>3, AskKeeps
<1>4. ASSUME NEW t \in Thread, Finding(t) PROVE IInv'
  BY <1>4, FindCachedKeeps, FindLockKeeps, FindBuildKeeps, TypeEnterKeeps, TypeLinkKeeps DEF Finding
<1>5. ASSUME NEW t \in Thread, Assigning(t) PROVE IInv'
  BY <1>5, AssignOnceKeeps, AssignAddKeeps, AddStartKeeps, AddDatabaseKeeps, AddFileKeeps,
     AssignAddedKeeps, AssignMessagesKeeps DEF Assigning
<1>6. ASSUME NEW t \in Thread, Prototyping(t) PROVE IInv'
  BY <1>6, TryReadKeeps, TryFilesKeeps, TryLockKeeps, TryUnlockKeeps, RegisterTypesKeeps, GetTriedKeeps,
     GetSetKeeps, DynamicLockKeeps, DynamicUnlockKeeps, MakeTargetKeeps, MakeTypeKeeps, MakeFieldKeeps
     DEF Prototyping
<1>7. ASSUME NEW t \in Thread, Tabling(t) PROVE IInv'
  BY <1>7, UnknownReadKeeps, UnknownWriteKeeps, UnknownCreateKeeps, MemoReadKeeps, MemoWriteKeeps,
     LookupFindKeeps, LookupReturnKeeps DEF Tabling
<1> QED
  BY <1>1, <1>2, <1>3, <1>4, <1>5, <1>6, <1>7 DEF Next, Progress

-------------------------------------------------------------------------------
(* The theorems. *)

\* In every state every call on every stack has been given, or has found, what
\* the place where it stands takes for granted: a file that is registered with
\* all that it needs, a lock that its caller holds, an answer that is right.
THEOREM Invariant == Spec => []IInv
<1>1. Init => IInv
  BY InitOK
<1>2. IInv /\ [Next]_vars => IInv'
  BY StepKeeps
<1> QED
  BY <1>1, <1>2, PTL DEF Spec

\* No CHECK fails: no file is entered twice into the database or the factory,
\* no type is registered twice, every file that TryGetPrototype looks for is in
\* the table and every file that AssignDescriptorsImpl asks for is found.
THEOREM NeverDies == Spec => []~dead
<1>1. IInv => ~dead
  BY DEF IInv, TypesOK
<1> QED
  BY <1>1, Invariant, PTL

\* Nobody reads the files of the factory, which it does without a lock, while
\* another thread enters one: who reads them has had the generated pool, and by
\* then the files that are registered late are all there.
THEOREM FilesReadQuietlyAlways == Spec => []FilesReadQuietly
<1>1. IInv => FilesReadQuietly
  <2> SUFFICES ASSUME IInv, NEW t \in Thread, NEW u \in Thread,
                      At(t, "add", "files"), At(u, "try", "files")
               PROVE  FALSE
    BY DEF FilesReadQuietly
  <2>1. /\ 1 \in DOMAIN stack[t] /\ Top(t) = stack[t][1]
        /\ 1 \in DOMAIN stack[u] /\ Top(u) = stack[u][1]
    BY FirstIsHead DEF IInv, TypesOK, At, Top
  <2>2. NeedsPool(stack[u][1])
    BY <2>1 DEF At, NeedsPool
  <2>3. Lazy \subseteq assigned
    BY <2>1, <2>2 DEF IInv, NeedsOK
  <2>4. registered = File
    BY <2>3 DEF IInv, TypesOK
  <2>5. Adds(stack[t][1])
    BY <2>1 DEF At, Adds
  <2>6. stack[t][1].on \in initialized /\ stack[t][1].on \notin registered
    BY <2>1, <2>5 DEF IInv, AddsOK
  <2> QED
    BY <2>4, <2>6 DEF IInv, TypesOK
<1> QED
  BY <1>1, Invariant, PTL

\* Two answers that are right are the same.
LEMMA RightIsOne ==
  ASSUME IInv, NEW q \in Question, NEW v, NEW w, ResultOK(q.op, q.on, v), ResultOK(q.op, q.on, w)
  PROVE  v = w /\ v # None
<1>1. /\ q.op \in {"assign", "lookup", "prototype", "type", "unknown", "memo"}
      /\ (q.op = "assign" => q.on \in File)
      /\ q.op \in {"lookup", "prototype"} => q.on \in Type
      /\ q.op = "type" => q.on \in Pair
  BY QuestionsOK
<1>2. CASE q.op = "assign"
  BY <1>1, <1>2, ValuesOK DEF ResultOK
<1>3. CASE q.op = "lookup"
  BY <1>1, <1>3, ValuesOK DEF ResultOK
<1>4. CASE q.op = "type"
  <2>1. q.on[2] \in Type
    BY <1>1, <1>4 DEF Pair
  <2> QED
    BY <1>4, <2>1, ValuesOK DEF ResultOK
<1>5. CASE q.op = "prototype"
  BY <1>5, ValuesOK DEF ResultOK, Given
<1>6. CASE q.op \in {"unknown", "memo"}
  BY <1>6 DEF ResultOK
<1> QED
  BY <1>1, <1>2, <1>3, <1>4, <1>5, <1>6

\* Who asks the same question is given the same object, never a null pointer,
\* and a dynamic prototype that was given out is cross-linked: what an answer
\* was right about stays so, for nothing that the program knows is forgotten.
THEOREM OneAnswerAlways == Spec => []OneAnswer
<1>1. IInv => OneAnswer
  <2> SUFFICES ASSUME IInv PROVE OneAnswer
    OBVIOUS
  <2>1. \A x \in answers : x[1] \in Question /\ ResultOK(x[1].op, x[1].on, x[2])
    BY DEF IInv, AnswersOK
  <2>2. ASSUME NEW x \in answers, NEW y \in answers, x[1] = y[1]
        PROVE  x[2] = y[2] /\ x[2] # None
    <3> PICK q, v, w : q = x[1] /\ v = x[2] /\ w = y[2]
      OBVIOUS
    <3>1. q \in Question /\ ResultOK(q.op, q.on, v) /\ ResultOK(q.op, q.on, w)
      BY <2>1, <2>2
    <3> QED
      BY <3>1, RightIsOne
  <2>3. ASSUME NEW x \in answers, x[1].op = "prototype", x[2] \in 1..made
        PROVE  x[2] \in linked
    <3>1. x[2] # Generated
      BY <2>3, ValuesOK DEF IInv, TypesOK
    <3>2. ResultOK("prototype", x[1].on, x[2])
      BY <2>1, <2>3
    <3> QED
      BY <3>1, <3>2 DEF ResultOK, Given
  <2> QED
    BY <2>2, <2>3 DEF OneAnswer
<1> QED
  BY <1>1, Invariant, PTL

===============================================================================
