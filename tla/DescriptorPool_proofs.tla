------------------------- MODULE DescriptorPool_proofs -------------------------
(***************************************************************************)
(* TLAPS proofs about DescriptorPool, for any database, any number of      *)
(* files, symbols and threads: what a build that fails leaves behind, what *)
(* callers are given, and that lookups find what the database offers.      *)
(***************************************************************************)
EXTENDS DescriptorPool, SequenceFacts, SequenceTheorems, FiniteSetTheorems, TLAPS

-------------------------------------------------------------------------------
(* Versions of the tables.  Each checkpoint stands for the tables as they     *)
(* were when it was set, and a rollback goes back to them; the last version   *)
(* is the tables as they are.  No step changes a version but the last.        *)

Mark(j) == IF j <= Len(checkpoints) THEN checkpoints[j] ELSE CheckPoint
FilesSince(j) == Since(files_after_checkpoint, Mark(j).files)
SymbolsSince(j) == Since(symbols_after_checkpoint, Mark(j).symbols)
Version(j) ==
  [files   |-> files \ FilesSince(j),
   symbols |-> Without(SymbolsSince(j)),
   links   |-> [f \in File |-> IF f \in FilesSince(j) THEN {} ELSE links[f]]]
Current == Len(checkpoints) + 1

\* Nothing in a version points to a file that is not in it.
Points(v) ==
  /\ \A s \in Symbol : v.symbols[s] # Undefined =>
       /\ v.symbols[s].file \in v.files
       /\ s \in IF v.symbols[s].package THEN {proto(v.symbols[s].file).package}
                                        ELSE proto(v.symbols[s].file).defines
  /\ \A f \in File :
       /\ v.links[f] \subseteq (IF f \in v.files THEN v.files ELSE {})
       /\ v.links[f] \subseteq {f} \cup ToSet(proto(f).imports)

\* What a version has of a file without errors: its symbols, its imports and
\* what its first names mean.
Whole(v, f) ==
  /\ \A s \in proto(f).defines : v.symbols[s] = [file |-> f, package |-> FALSE]
  /\ proto(f).package # None => v.symbols[proto(f).package].package
Imported(v, f) ==
  ~proto(f).broken /\ ToSet(proto(f).imports) \ proto(f).weak \subseteq v.files
Resolved(v, f, k) ==
  \A i \in DOMAIN proto(f).refs : i < k =>
    \E s \in ToSet(proto(f).refs[i]) :
      /\ v.symbols[s].file \in {f} \cup (v.links[f] \cap ToSet(proto(f).imports))
      /\ ~v.symbols[s].package
Complete(v, f, k) == Whole(v, f) /\ Imported(v, f) /\ Resolved(v, f, k)
Finished(f) == Len(proto(f).refs) + 1

-------------------------------------------------------------------------------
(* The inductive invariant.                                                   *)

Frames ==
  [file : File, via : Symbol \cup {None}, at : {"load", "link", "finish"}, i : Nat, k : Nat,
   c : Nat, tried : {"no", "built", "failed"}, errors : BOOLEAN]
Calls ==
  [kind : {"FindFileByName", "BuildFile"}, name : File]
    \cup [kind : {"FindFileContainingSymbol", "FindByName"}, name : Symbol]

Types ==
  /\ db \in Databases /\ files \subseteq File
  /\ symbols \in [Symbol -> [file : File, package : BOOLEAN] \cup {Undefined}]
  /\ links \in [File -> SUBSET File]
  /\ checkpoints \in Seq([symbols : Nat, files : Nat])
  /\ symbols_after_checkpoint \in Seq(Symbol) /\ files_after_checkpoint \in Seq(File)
  /\ pending_files \in Seq(File)
  /\ known_bad_files \subseteq File /\ known_bad_symbols \subseteq Symbol \cup {OptionType}
  /\ holder \in Thread \cup {None} /\ (holder = None <=> stack = <<>>)
  /\ pc \in [Thread -> {"idle", "cached", "lock", "validate", "return"}]
  /\ want \in [Thread -> Calls \cup {None}] /\ result \in [Thread -> File \cup {None}]
  /\ deferred \in [Thread -> SUBSET File]
  /\ given \subseteq File

FrameOK(fr) ==
  LET p == proto(fr.file) IN
  /\ fr.i # 0 /\ fr.k \in 1..Len(p.refs) + 1
  /\ fr.k <= Len(p.refs) => fr.c \in 1..Len(p.refs[fr.k])
  /\ fr.at = "finish" => fr.errors
  /\ fr.at = "load" => fr.k = 1
FramesOK ==
  /\ stack \in Seq(Frames)
  /\ \A n \in DOMAIN stack : FrameOK(stack[n])
  /\ db.kind = "none" => Len(stack) <= 1

\* The call for which a build runs waits for it; a call has what it was made
\* with.
HolderOK ==
  /\ holder # None => pc[holder] = "lock"
  /\ \A t \in Thread : /\ pc[t] # "idle" => want[t] \in Calls
                       /\ pc[t] = "cached" => want[t].kind = "FindByName"

\* Of m marks each belongs to one of the places in S, in order.
Numbers(g, m, S) ==
  /\ g \in [1..m -> S]
  /\ \A a, b \in 1..m : a < b => g[a] < g[b]
  /\ \A x \in S : \E a \in 1..m : g[a] = x
BegunAt == {n \in DOMAIN stack : stack[n].at # "load"}
LoadingAt == {n \in DOMAIN stack : stack[n].at = "load"}

PendingOK ==
  IF db.kind = "none" THEN pending_files = <<>>
  ELSE \E g : Numbers(g, Len(pending_files), LoadingAt)

MarksOK ==
  /\ Mark(1) = [symbols |-> 0, files |-> 0]
  /\ \A i, j \in 1..Current : i <= j =>
       Mark(i).symbols <= Mark(j).symbols /\ Mark(i).files <= Mark(j).files

\* A file of version j that is not complete is being built since a checkpoint
\* before j; and those of them that have had no error yet are complete up to
\* the name that is being resolved.
SoundVersion(j, g) ==
  /\ Points(Version(j))
  /\ \A f \in Version(j).files :
       \/ Complete(Version(j), f, Finished(f))
       \/ \E k \in 1..j - 1 : f = stack[g[k]].file /\ f \notin Version(k).files
  /\ \A k \in 1..j - 1 :
       ~stack[g[k]].errors => Complete(Version(j), stack[g[k]].file, stack[g[k]].k)

\* The frame of checkpoint k, once it links, has added its file.
AddedAt(k, g) ==
  stack[g[k]].at = "link" =>
    stack[g[k]].file \notin Version(k).files /\ stack[g[k]].file \in Version(k + 1).files

Builds(g) ==
  /\ Numbers(g, Len(checkpoints), BegunAt)
  /\ \A j \in 1..Current : SoundVersion(j, g)
  /\ \A k \in 1..Len(checkpoints) : AddedAt(k, g)

CallersOK ==
  /\ given \subseteq Version(1).files
  /\ \A t \in Thread : /\ result[t] \in Version(1).files \cup {None}
                       /\ deferred[t] \subseteq files
                       /\ t # holder => deferred[t] \subseteq Version(1).files

BuildsOK == \E g : Builds(g)

IInv ==
  /\ Types /\ FramesOK /\ HolderOK /\ PendingOK /\ MarksOK /\ CallersOK
  /\ BuildsOK

-------------------------------------------------------------------------------
(* Sequences.                                                                 *)

LEMMA ToSetIs ==
  ASSUME NEW S, NEW q \in Seq(S)
  PROVE  ToSet(q) = {q[i] : i \in 1..Len(q)} /\ ToSet(q) \subseteq S
  BY DEF ToSet

LEMMA SinceIs ==
  ASSUME NEW S, NEW q \in Seq(S), NEW n \in 0..Len(q)
  PROVE  Since(q, n) = {q[i] : i \in n + 1..Len(q)}
  <1> DEFINE r == SubSeq(q, n + 1, Len(q))
  <1>1. /\ r \in Seq(S) /\ Len(r) = Len(q) - n
        /\ \A i \in 1..Len(q) - n : r[i] = q[n + i]
    <2>1. n + 1 \in Int /\ Len(q) \in Int /\ \A i \in n + 1..Len(q) : q[i] \in S
      OBVIOUS
    <2>2. /\ r \in Seq(S) /\ Len(r) = IF n + 1 <= Len(q) THEN Len(q) - (n + 1) + 1 ELSE 0
          /\ \A i \in 1..Len(q) - (n + 1) + 1 : r[i] = q[(n + 1) + i - 1]
      BY <2>1, SubSeqProperties
    <2>3. QED  BY <2>2
  <1> HIDE DEF r
  <1>2. ToSet(r) = {r[i] : i \in 1..Len(q) - n}
    BY <1>1, ToSetIs
  <1>3. ASSUME NEW i \in n + 1..Len(q)
        PROVE  i - n \in 1..Len(q) - n /\ n + (i - n) = i
    OBVIOUS
  <1>4. ASSUME NEW i \in 1..Len(q) - n
        PROVE  n + i \in n + 1..Len(q)
    OBVIOUS
  <1>5. ToSet(r) \subseteq {q[i] : i \in n + 1..Len(q)}
    BY <1>1, <1>2, <1>4
  <1>6. ASSUME NEW i \in n + 1..Len(q)
        PROVE  q[i] \in ToSet(r)
    <2>1. r[i - n] = q[i]
      BY <1>1, <1>3
    <2>2. QED  BY <1>2, <1>3, <2>1
  <1>7. QED  BY <1>5, <1>6 DEF Since, r

LEMMA SinceStart ==
  ASSUME NEW S, NEW q \in Seq(S)
  PROVE  Since(q, 0) = ToSet(q) /\ Since(q, Len(q)) = {}
  <1>1. 0 \in 0..Len(q) /\ Len(q) \in 0..Len(q) /\ Len(q) + 1..Len(q) = {}
    OBVIOUS
  <1>2. Since(q, 0) = {q[i] : i \in 0 + 1..Len(q)}
    BY <1>1, SinceIs
  <1>3. Since(q, Len(q)) = {q[i] : i \in Len(q) + 1..Len(q)}
    BY <1>1, SinceIs
  <1>4. Since(q, Len(q)) = {}
    BY <1>1, <1>3
  <1>5. Since(q, 0) = {q[i] : i \in 1..Len(q)}
    BY <1>2
  <1>6. ToSet(q) = {q[i] : i \in 1..Len(q)}
    BY ToSetIs
  <1>7. QED  BY <1>4, <1>5, <1>6, Zenon

LEMMA SinceShrinks ==
  ASSUME NEW S, NEW q \in Seq(S), NEW m \in 0..Len(q), NEW n \in 0..Len(q), m <= n
  PROVE  Since(q, n) \subseteq Since(q, m) /\ Since(q, m) \subseteq S
  BY SinceIs

LEMMA SinceConcat ==
  ASSUME NEW S, NEW q \in Seq(S), NEW r \in Seq(S), NEW n \in 0..Len(q)
  PROVE  Since(q \o r, n) = Since(q, n) \cup ToSet(r)
  <1>1. /\ q \o r \in Seq(S) /\ Len(q \o r) = Len(q) + Len(r)
        /\ \A i \in 1..Len(q) + Len(r) :
             (q \o r)[i] = IF i <= Len(q) THEN q[i] ELSE r[i - Len(q)]
    BY ConcatProperties
  <1>2. /\ Since(q \o r, n) = {(q \o r)[i] : i \in n + 1..Len(q) + Len(r)}
        /\ Since(q, n) = {q[i] : i \in n + 1..Len(q)}
        /\ ToSet(r) = {r[i] : i \in 1..Len(r)}
    <2>1. n \in 0..Len(q \o r)
      BY <1>1
    <2>2. Since(q \o r, n) = {(q \o r)[i] : i \in n + 1..Len(q \o r)}
      BY <1>1, <2>1, SinceIs
    <2>3. QED  BY <1>1, <2>2, SinceIs, ToSetIs
  <1>3. ASSUME NEW i \in 1..Len(r)
        PROVE  Len(q) + i \in n + 1..Len(q) + Len(r) /\ (q \o r)[Len(q) + i] = r[i]
    BY <1>1
  <1>4. ASSUME NEW i \in n + 1..Len(q)
        PROVE  i \in n + 1..Len(q) + Len(r) /\ (q \o r)[i] = q[i]
    BY <1>1
  <1>5. ASSUME NEW i \in n + 1..Len(q) + Len(r)
        PROVE  \/ i \in n + 1..Len(q) /\ (q \o r)[i] = q[i]
               \/ i - Len(q) \in 1..Len(r) /\ (q \o r)[i] = r[i - Len(q)]
    BY <1>1
  <1>6. QED  BY <1>2, <1>3, <1>4, <1>5

LEMMA SinceAppend ==
  ASSUME NEW S, NEW q \in Seq(S), NEW e \in S, NEW n \in 0..Len(q)
  PROVE  Since(Append(q, e), n) = Since(q, n) \cup {e}
  <1>1. <<e>> \in Seq(S) /\ ToSet(<<e>>) = {e}
    BY DEF ToSet
  <1>2. Append(q, e) = q \o <<e>>
    BY AppendIsConcat
  <1>3. QED  BY <1>1, <1>2, SinceConcat

LEMMA Prefix ==
  ASSUME NEW S, NEW q \in Seq(S), NEW n \in 0..Len(q)
  PROVE  /\ SubSeq(q, 1, n) \in Seq(S) /\ Len(SubSeq(q, 1, n)) = n
         /\ \A i \in 1..n : SubSeq(q, 1, n)[i] = q[i]
  <1>1. 1 \in Int /\ n \in Int /\ \A i \in 1..n : q[i] \in S
    OBVIOUS
  <1>2. /\ SubSeq(q, 1, n) \in Seq(S)
        /\ Len(SubSeq(q, 1, n)) = IF 1 <= n THEN n - 1 + 1 ELSE 0
        /\ \A i \in 1..n - 1 + 1 : SubSeq(q, 1, n)[i] = q[1 + i - 1]
    BY <1>1, SubSeqProperties
  <1>3. QED  BY <1>2

LEMMA SinceOfPrefix ==
  ASSUME NEW S, NEW q \in Seq(S), NEW m \in 0..Len(q), NEW n \in 0..Len(q), m <= n
  PROVE  Since(q, m) = Since(SubSeq(q, 1, n), m) \cup Since(q, n)
  <1> DEFINE r == SubSeq(q, 1, n)
  <1>1. r \in Seq(S) /\ Len(r) = n /\ \A i \in 1..n : r[i] = q[i]
    BY Prefix
  <1> HIDE DEF r
  <1>2. /\ Since(q, m) = {q[i] : i \in m + 1..Len(q)} /\ Since(q, n) = {q[i] : i \in n + 1..Len(q)}
        /\ Since(r, m) = {r[i] : i \in m + 1..n}
    BY <1>1, SinceIs
  <1>3. ASSUME NEW i \in m + 1..n
        PROVE  i \in m + 1..Len(q) /\ r[i] = q[i]
    BY <1>1
  <1>4. ASSUME NEW i \in m + 1..Len(q)
        PROVE  i \in n + 1..Len(q) \/ (i \in m + 1..n /\ r[i] = q[i])
    BY <1>1
  <1>5. n + 1..Len(q) \subseteq m + 1..Len(q)
    OBVIOUS
  <1>6. Since(q, m) = Since(r, m) \cup Since(q, n)
    BY <1>2, <1>3, <1>4, <1>5
  <1>7. QED  BY <1>6 DEF r

LEMMA FrontIs ==
  ASSUME NEW S, NEW q \in Seq(S), q # <<>>
  PROVE  /\ Front(q) \in Seq(S) /\ Len(Front(q)) = Len(q) - 1 /\ Len(q) - 1 \in Nat
         /\ \A i \in 1..Len(q) - 1 : Front(q)[i] = q[i]
  <1>1. Len(q) - 1 \in 0..Len(q)
    OBVIOUS
  <1>2. Len(q) - 1 \in Nat
    OBVIOUS
  <1>3. QED  BY <1>1, <1>2, Prefix DEF Front

-------------------------------------------------------------------------------
(* What a step of a build does to the versions.                               *)

MarksTyped == \A j \in 1..Current :
  /\ Mark(j).files \in 0..Len(files_after_checkpoint)
  /\ Mark(j).symbols \in 0..Len(symbols_after_checkpoint)
  /\ Mark(j) = [symbols |-> Mark(j).symbols, files |-> Mark(j).files]

LEMMA MarksAreTyped ==
  ASSUME Types, MarksOK
  PROVE  /\ Len(checkpoints) \in Nat /\ Current \in 1..Current /\ MarksTyped
         /\ Mark(Current) = CheckPoint
         /\ \A j \in 1..Len(checkpoints) : Mark(j) = checkpoints[j] /\ j \in 1..Current
  <1>1. Len(checkpoints) \in Nat
    BY DEF Types
  <1>2. /\ Len(files_after_checkpoint) \in Nat /\ Len(symbols_after_checkpoint) \in Nat
    BY DEF Types
  <1>3. Mark(Current) = CheckPoint /\ Current \in 1..Current
    BY <1>1 DEF Mark, Current
  <1>4. \A j \in 1..Len(checkpoints) : Mark(j) = checkpoints[j] /\ j \in 1..Current
    BY <1>1 DEF Mark, Current
  <1>5. ASSUME NEW j \in 1..Current
        PROVE  /\ Mark(j).files \in 0..Len(files_after_checkpoint)
               /\ Mark(j).symbols \in 0..Len(symbols_after_checkpoint)
               /\ Mark(j) = [symbols |-> Mark(j).symbols, files |-> Mark(j).files]
    <2>1. Mark(j) \in [symbols : Nat, files : Nat]
      <3>1. CASE j = Current
        BY <1>2, <1>3, <3>1 DEF CheckPoint
      <3>2. CASE j \in 1..Len(checkpoints)
        <4>1. checkpoints[j] \in [symbols : Nat, files : Nat]
          <5>1. checkpoints \in Seq([symbols : Nat, files : Nat])
            BY DEF Types
          <5>2. QED  BY <3>2, <5>1, ElementOfSeq
        <4>2. QED  BY <1>4, <3>2, <4>1
      <3>3. QED  BY <1>1, <3>1, <3>2 DEF Current
    <2>2. j <= Current /\ Current \in 1..Current
      BY <1>1, <1>3
    <2>3. /\ Mark(j).files <= Mark(Current).files
          /\ Mark(j).symbols <= Mark(Current).symbols
      BY <2>2 DEF MarksOK
    <2>4. QED  BY <1>2, <1>3, <2>1, <2>3 DEF CheckPoint
  <1>6. QED  BY <1>1, <1>3, <1>4, <1>5 DEF MarksTyped

\* The last version is the tables as they are.
LastIsCurrent ==
  /\ Version(Current).files = files /\ Version(Current).symbols = symbols
  /\ Version(Current).links = links
  /\ Version(Current) = [files |-> files, symbols |-> symbols, links |-> links]
  /\ FilesSince(Current) = {} /\ SymbolsSince(Current) = {}

LEMMA LastVersionAlways == Types /\ MarksOK => LastIsCurrent
  <1> SUFFICES ASSUME Types, MarksOK
               PROVE  LastIsCurrent
    OBVIOUS
  <1>1. Mark(Current) = CheckPoint
    BY MarksAreTyped
  <1>2. FilesSince(Current) = {} /\ SymbolsSince(Current) = {}
    BY <1>1, SinceStart DEF FilesSince, SymbolsSince, CheckPoint, Types
  <1>3. symbols = [s \in Symbol |-> symbols[s]] /\ links = [f \in File |-> links[f]]
    BY DEF Types
  <1>4. QED  BY <1>2, <1>3 DEF Version, Without, LastIsCurrent

LEMMA LastVersion ==
  ASSUME Types, MarksOK
  PROVE  /\ Version(Current).files = files /\ Version(Current).symbols = symbols
         /\ Version(Current).links = links
         /\ Version(Current) = [files |-> files, symbols |-> symbols, links |-> links]
         /\ FilesSince(Current) = {} /\ SymbolsSince(Current) = {}
  BY LastVersionAlways DEF LastIsCurrent

LEMMA NextLastVersion ==
  ASSUME Types', MarksOK'
  PROVE  /\ Version(Current)'.files = files' /\ Version(Current)'.symbols = symbols'
         /\ Version(Current)'.links = links'
         /\ Version(Current)' = [files |-> files', symbols |-> symbols', links |-> links']
         /\ FilesSince(Current)' = {} /\ SymbolsSince(Current)' = {}
  <1>1. Types' /\ MarksOK' => LastIsCurrent'
    BY LastVersionAlways, PTL
  <1>2. QED  BY <1>1 DEF LastIsCurrent

\* Earlier versions are parts of later ones.
LEMMA VersionsGrow ==
  ASSUME Types, MarksOK, NEW i \in 1..Current, NEW j \in 1..Current, i <= j
  PROVE  /\ FilesSince(j) \subseteq FilesSince(i) /\ Version(i).files \subseteq Version(j).files
         /\ \A s \in Symbol : Version(i).symbols[s] # Undefined =>
              Version(j).symbols[s] = Version(i).symbols[s]
         /\ \A f \in File : Version(i).links[f] \subseteq Version(j).links[f]
  <1>1. Mark(i).files <= Mark(j).files /\ Mark(i).symbols <= Mark(j).symbols
    BY DEF MarksOK
  <1>2. /\ Mark(i).files \in 0..Len(files_after_checkpoint)
        /\ Mark(j).files \in 0..Len(files_after_checkpoint)
        /\ Mark(i).symbols \in 0..Len(symbols_after_checkpoint)
        /\ Mark(j).symbols \in 0..Len(symbols_after_checkpoint)
    BY MarksAreTyped DEF MarksTyped
  <1>3. FilesSince(j) \subseteq FilesSince(i)
    BY <1>1, <1>2, SinceShrinks DEF FilesSince, Types
  <1>4. SymbolsSince(j) \subseteq SymbolsSince(i)
    BY <1>1, <1>2, SinceShrinks DEF SymbolsSince, Types
  <1>5. QED  BY <1>3, <1>4 DEF Version, Without

\* What no checkpoint can take back is the first version.
LEMMA FirstVersion ==
  ASSUME Types, MarksOK
  PROVE  Version(1).files = Committed
  BY SinceStart DEF Types, MarksOK, Version, FilesSince, Committed

FirstIsCommitted == Version(1).files = Committed

LEMMA FirstVersionAlways == Types /\ MarksOK => FirstIsCommitted
  BY FirstVersion DEF FirstIsCommitted

\* A step that leaves tables and checkpoints alone leaves the versions alone.
LEMMA SameVersions ==
  ASSUME UNCHANGED <<tables, marks>>
  PROVE  /\ Current' = Current /\ Committed' = Committed
         /\ \A j \in 1..Current : Version(j)' = Version(j) /\ Mark(j)' = Mark(j)
  BY DEF tables, marks, Current, Committed, Mark, Version, FilesSince, SymbolsSince, CheckPoint,
         Without, Undefined

LEMMA Protos ==
  ASSUME Types, NEW f \in File
  PROVE  /\ proto(f).imports \in Seq(File) /\ proto(f).broken \in BOOLEAN
         /\ proto(f).defines \subseteq Symbol /\ IsFiniteSet(proto(f).defines)
         /\ proto(f).package \in (Symbol \ proto(f).defines) \cup {None}
         /\ proto(f).refs \in Seq(Seq(Symbol) \ {<<>>})
  BY DatabasesOK DEF Types, DatabaseOK, proto

LEMMA TopFrame ==
  ASSUME FramesOK, stack # <<>>
  PROVE  /\ Len(stack) \in Nat \ {0} /\ Len(stack) \in DOMAIN stack
         /\ top \in Frames /\ top.file \in File
  <1>1. stack \in Seq(Frames)
    BY DEF FramesOK
  <1>2. Len(stack) \in 1..Len(stack) /\ Len(stack) \in Nat \ {0}
    BY <1>1
  <1>3. top \in Frames
    BY <1>1, <1>2, ElementOfSeq DEF top
  <1>4. QED  BY <1>1, <1>2, <1>3 DEF Frames

\* AddToTables, in terms of the symbols that are new.
LEMMA Adds ==
  ASSUME Types, FramesOK, AddToTables
  PROVE  /\ db' = db /\ checkpoints' = Append(checkpoints, CheckPoint)
         /\ \/ /\ top.file \in files /\ UNCHANGED <<tables, symbols_after_checkpoint,
                                                    files_after_checkpoint>>
               /\ stack' = Top([top EXCEPT !.at = "finish", !.errors = TRUE])
            \/ \E types \in SUBSET proto(top.file).defines,
                  package \in SUBSET ({proto(top.file).package} \ {None}) :
                 /\ top.file \notin files /\ files' = files \cup {top.file}
                 /\ files_after_checkpoint' = Append(files_after_checkpoint, top.file)
                 /\ symbols_after_checkpoint' =
                      symbols_after_checkpoint \o SetToSeq(package \cup types)
                 /\ symbols' = [s \in Symbol |->
                      IF s \in types THEN [file |-> top.file, package |-> FALSE]
                      ELSE IF s \in package THEN [file |-> top.file, package |-> TRUE]
                      ELSE symbols[s]]
                 /\ links' = [links EXCEPT ![top.file] = LoadedImports(top.file)]
                 /\ \A s \in package \cup types : s \in Symbol /\ symbols[s] = Undefined
                 /\ \/ stack' = Top([top EXCEPT !.at = "finish", !.errors = TRUE])
                    \/ stack' = Top([top EXCEPT !.at = "link", !.errors = TRUE])
                    \/ /\ stack' = Top([top EXCEPT !.at = "link", !.errors = FALSE])
                       /\ types = proto(top.file).defines
                       /\ LET p == proto(top.file).package IN
                          p # None => p \in package \/ (symbols[p] # Undefined /\ symbols[p].package)
                       /\ ~proto(top.file).broken /\ MissingImports(top.file) = {}
  <1> DEFINE f == top.file
             p == proto(f).package
             importsItself == f \in ToSet(proto(f).imports)
             newPackage == {p} \ ({None} \cup {s \in Symbol : Defined(s)})
             newTypes == IF importsItself THEN {} ELSE {s \in proto(f).defines : ~Defined(s)}
             clash == \/ (p # None /\ Defined(p) /\ ~symbols[p].package)
                      \/ \E s \in proto(f).defines : Defined(s)
             errors == importsItself \/ clash \/ proto(f).broken \/ MissingImports(f) # {}
  <1>1. db' = db /\ checkpoints' = Append(checkpoints, CheckPoint) /\ f \in File
    BY TopFrame DEF AddToTables, Loaded, Loading
  <1>2. CASE f \in files
    BY <1>1, <1>2 DEF AddToTables, IsNew
  <1>3. CASE f \notin files
    <2>1. /\ files' = files \cup {f} /\ files_after_checkpoint' = Append(files_after_checkpoint, f)
          /\ symbols_after_checkpoint' =
               symbols_after_checkpoint \o SetToSeq(newPackage \cup newTypes)
          /\ symbols' = [s \in Symbol |->
               IF s \in newTypes THEN [file |-> f, package |-> FALSE]
               ELSE IF s \in newPackage THEN [file |-> f, package |-> TRUE]
               ELSE symbols[s]]
          /\ links' = [links EXCEPT ![f] = LoadedImports(f)]
          /\ stack' = Top([top EXCEPT !.at = IF importsItself THEN "finish" ELSE "link",
                                      !.errors = errors])
      BY <1>3 DEF AddToTables, IsNew
    <2>2. newTypes \in SUBSET proto(f).defines /\ newPackage \in SUBSET ({p} \ {None})
      OBVIOUS
    <2>3. \A s \in newPackage \cup newTypes : s \in Symbol /\ symbols[s] = Undefined
      BY <1>1, Protos DEF Defined
    <2>4. CASE importsItself
      <3>1. stack' = Top([top EXCEPT !.at = "finish", !.errors = TRUE])
        BY <2>1, <2>4
      <3> HIDE DEF newTypes, newPackage, errors
      <3>2. QED  BY <1>1, <1>3, <2>1, <2>2, <2>3, <3>1
    <2>5. CASE ~importsItself /\ errors
      <3>1. stack' = Top([top EXCEPT !.at = "link", !.errors = TRUE])
        BY <2>1, <2>5
      <3> HIDE DEF newTypes, newPackage, errors
      <3>2. QED  BY <1>1, <1>3, <2>1, <2>2, <2>3, <3>1
    <2>6. CASE ~importsItself /\ ~errors
      <3>1. stack' = Top([top EXCEPT !.at = "link", !.errors = FALSE])
        BY <2>1, <2>6
      <3>2. newTypes = proto(f).defines
        BY <2>6
      <3>3. p # None => p \in newPackage \/ (symbols[p] # Undefined /\ symbols[p].package)
        BY <1>1, <2>6, Protos DEF Defined
      <3>4. ~proto(f).broken /\ MissingImports(f) = {}
        BY <2>6
      <3> HIDE DEF newTypes, newPackage, errors
      <3>5. QED  BY <1>1, <1>3, <2>1, <2>2, <2>3, <3>1, <3>2, <3>3, <3>4
    <2>7. QED  BY <2>4, <2>5, <2>6
  <1>4. QED  BY <1>2, <1>3

\* The marks after a checkpoint was added, if the lists have only grown.
LEMMA MarksGrow ==
  ASSUME Types, Types', MarksOK, checkpoints' = Append(checkpoints, CheckPoint),
         Len(files_after_checkpoint') >= Len(files_after_checkpoint),
         Len(symbols_after_checkpoint') >= Len(symbols_after_checkpoint)
  PROVE  /\ Current' = Current + 1 /\ MarksOK'
         /\ \A j \in 1..Current : Mark(j)' = Mark(j)
         /\ Mark(Current)' = CheckPoint'
  <1>1. PICK n \in Nat : n = Len(checkpoints)
    BY DEF Types
  <1>2. CheckPoint \in [symbols : Nat, files : Nat] /\ CheckPoint' \in [symbols : Nat, files : Nat]
    BY DEF Types, CheckPoint
  <1>3. checkpoints \in Seq([symbols : Nat, files : Nat])
    BY DEF Types
  <1>4. /\ Len(checkpoints') = n + 1 /\ checkpoints'[n + 1] = CheckPoint
        /\ \A j \in 1..n : checkpoints'[j] = checkpoints[j]
    BY <1>1, <1>2, <1>3, AppendProperties
  <1>5. Current = n + 1 /\ Current' = n + 2
    BY <1>1, <1>4 DEF Current
  <1>6. ASSUME NEW j \in 1..n + 1
        PROVE  Mark(j)' = Mark(j)
    <2>1. CASE j = n + 1
      BY <1>1, <1>4, <2>1 DEF Mark
    <2>2. CASE j \in 1..n
      BY <1>1, <1>4, <2>2 DEF Mark
    <2>3. QED  BY <2>1, <2>2
  <1>7. Mark(n + 2)' = CheckPoint'
    BY <1>4 DEF Mark
  <1>8. /\ CheckPoint.files <= CheckPoint'.files /\ CheckPoint.symbols <= CheckPoint'.symbols
    BY DEF CheckPoint
  <1>9. Mark(n + 1) = CheckPoint
    BY <1>1 DEF Mark
  <1>10. ASSUME NEW i \in 1..n + 2, NEW j \in 1..n + 2, i <= j
         PROVE  Mark(i)'.symbols <= Mark(j)'.symbols /\ Mark(i)'.files <= Mark(j)'.files
    <2>1. CASE j \in 1..n + 1
      <3>1. i \in 1..n + 1
        BY <1>10, <2>1
      <3>2. Mark(i).symbols <= Mark(j).symbols /\ Mark(i).files <= Mark(j).files
        BY <1>5, <1>10, <2>1, <3>1 DEF MarksOK
      <3>3. QED  BY <1>6, <2>1, <3>1, <3>2
    <2>2. CASE j = n + 2 /\ i \in 1..n + 1
      <3>1. /\ Mark(i).symbols <= Mark(n + 1).symbols /\ Mark(i).files <= Mark(n + 1).files
            /\ Mark(i).symbols \in Nat /\ Mark(i).files \in Nat
        <4>1. i <= n + 1 /\ n + 1 \in 1..n + 1
          BY <2>2
        <4>2. QED  BY <1>5, <2>2, <4>1, MarksAreTyped DEF MarksOK, MarksTyped
      <3>2. Mark(i)' = Mark(i) /\ Mark(j)' = CheckPoint'
        BY <1>6, <1>7, <2>2
      <3>3. QED  BY <1>2, <1>8, <1>9, <3>1, <3>2
    <2>3. CASE i = n + 2 /\ j = n + 2
      BY <1>2, <1>7, <2>3
    <2>4. QED  BY <1>10, <2>1, <2>2, <2>3
  <1>11. Mark(1)' = [symbols |-> 0, files |-> 0]
    BY <1>6 DEF MarksOK
  <1>12. MarksOK'
    BY <1>5, <1>10, <1>11 DEF MarksOK
  <1>13. Mark(Current)' = CheckPoint' /\ Current' = Current + 1
    BY <1>5, <1>7
  <1>14. QED  BY <1>5, <1>6, <1>12, <1>13

\* The checkpoint that AddToTables sets is the tables before it.
LEMMA AddVersions ==
  ASSUME Types, Types', FramesOK, MarksOK, Points(Version(Current)), AddToTables
  PROVE  /\ Current' = Current + 1 /\ MarksOK'
         /\ \A j \in 1..Current : Version(j)' = Version(j)
  <1> DEFINE f == top.file
  <1>1. checkpoints' = Append(checkpoints, CheckPoint)
    BY Adds
  <1>2. CASE f \in files /\ UNCHANGED <<tables, symbols_after_checkpoint, files_after_checkpoint>>
    <2>1. /\ Current' = Current + 1 /\ MarksOK'
          /\ \A j \in 1..Current : Mark(j)' = Mark(j)
      BY <1>1, <1>2, MarksGrow DEF Types
    <2>2. \A j \in 1..Current : Version(j)' = Version(j)
      BY <1>2, <2>1 DEF tables, Version, FilesSince, SymbolsSince, Without, Undefined
    <2>3. QED  BY <2>1, <2>2
  <1>3. ASSUME f \notin files, files' = files \cup {f}, NEW news \in SUBSET Symbol,
               IsFiniteSet(news), \A s \in news : symbols[s] = Undefined,
               files_after_checkpoint' = Append(files_after_checkpoint, f),
               symbols_after_checkpoint' = symbols_after_checkpoint \o SetToSeq(news),
               symbols' \in [Symbol -> [file : File, package : BOOLEAN] \cup {Undefined}],
               \A s \in Symbol \ news : symbols'[s] = symbols[s],
               links' = [links EXCEPT ![f] = LoadedImports(f)]
        PROVE  /\ Current' = Current + 1 /\ MarksOK'
               /\ \A j \in 1..Current : Version(j)' = Version(j)
    <2>1. /\ files_after_checkpoint \in Seq(File) /\ symbols_after_checkpoint \in Seq(Symbol)
          /\ SetToSeq(news) \in Seq(Symbol) /\ ToSet(SetToSeq(news)) = news
          /\ f \in File
      <3>1. stack # <<>>
        BY DEF AddToTables, Loaded, Loading
      <3>2. f \in File
        BY <3>1, TopFrame
      <3>3. SetToSeq(news) \in Seq(news) /\ ToSet(SetToSeq(news)) = news
        BY <1>3, SetToSeqIs
      <3>4. SetToSeq(news) \in Seq(Symbol)
        BY <3>3, SeqMonotonic
      <3>5. QED  BY <3>2, <3>3, <3>4 DEF Types
    <2>2. /\ Len(files_after_checkpoint') >= Len(files_after_checkpoint)
          /\ Len(symbols_after_checkpoint') >= Len(symbols_after_checkpoint)
      BY <1>3, <2>1, AppendProperties, ConcatProperties
    <2>3. /\ Current' = Current + 1 /\ MarksOK'
          /\ \A j \in 1..Current : Mark(j)' = Mark(j)
      BY <1>1, <2>2, MarksGrow
    <2>4. ASSUME NEW j \in 1..Current
          PROVE  Version(j)' = Version(j)
      <3>1. /\ Mark(j).files \in 0..Len(files_after_checkpoint)
            /\ Mark(j).symbols \in 0..Len(symbols_after_checkpoint)
        BY MarksAreTyped DEF MarksTyped
      <3>2. FilesSince(j)' = FilesSince(j) \cup {f}
        BY <1>3, <2>1, <2>3, <3>1, SinceAppend DEF FilesSince
      <3>3. SymbolsSince(j)' = SymbolsSince(j) \cup news
        BY <1>3, <2>1, <2>3, <3>1, SinceConcat DEF SymbolsSince
      <3>4. files' \ FilesSince(j)' = files \ FilesSince(j)
        BY <1>3, <3>2
      <3>5. Without(SymbolsSince(j))' = Without(SymbolsSince(j))
        BY <1>3, <3>3 DEF Without, Undefined
      <3>6. links[f] = {}
        BY <1>3, <2>1, LastVersion DEF Points
      <3>7. [g \in File |-> IF g \in FilesSince(j)' THEN {} ELSE links'[g]]
              = [g \in File |-> IF g \in FilesSince(j) THEN {} ELSE links[g]]
        BY <1>3, <2>1, <3>2, <3>6 DEF Types
      <3>8. QED  BY <3>4, <3>5, <3>7 DEF Version
    <2>5. QED  BY <2>3, <2>4
  <1>4. CASE \E types \in SUBSET proto(f).defines, package \in SUBSET ({proto(f).package} \ {None}) :
                 /\ f \notin files /\ files' = files \cup {f}
                 /\ files_after_checkpoint' = Append(files_after_checkpoint, f)
                 /\ symbols_after_checkpoint' =
                      symbols_after_checkpoint \o SetToSeq(package \cup types)
                 /\ symbols' = [s \in Symbol |->
                      IF s \in types THEN [file |-> f, package |-> FALSE]
                      ELSE IF s \in package THEN [file |-> f, package |-> TRUE]
                      ELSE symbols[s]]
                 /\ links' = [links EXCEPT ![f] = LoadedImports(f)]
                 /\ \A s \in package \cup types : s \in Symbol /\ symbols[s] = Undefined
    <2>1. PICK types \in SUBSET proto(f).defines, package \in SUBSET ({proto(f).package} \ {None}) :
                 /\ f \notin files /\ files' = files \cup {f}
                 /\ files_after_checkpoint' = Append(files_after_checkpoint, f)
                 /\ symbols_after_checkpoint' =
                      symbols_after_checkpoint \o SetToSeq(package \cup types)
                 /\ symbols' = [s \in Symbol |->
                      IF s \in types THEN [file |-> f, package |-> FALSE]
                      ELSE IF s \in package THEN [file |-> f, package |-> TRUE]
                      ELSE symbols[s]]
                 /\ links' = [links EXCEPT ![f] = LoadedImports(f)]
                 /\ \A s \in package \cup types : s \in Symbol /\ symbols[s] = Undefined
      BY <1>4
    <2>2. IsFiniteSet(package \cup types)
      <3>1. f \in File
        BY TopFrame DEF AddToTables, Loaded, Loading
      <3>2. IsFiniteSet(types)
        BY <3>1, Protos, FS_Subset
      <3>3. IsFiniteSet({proto(f).package}) /\ IsFiniteSet(package)
        <4>1. IsFiniteSet({proto(f).package})
          BY FS_Singleton
        <4>2. package \in SUBSET {proto(f).package}
          OBVIOUS
        <4>3. QED  BY <4>1, <4>2, FS_Subset
      <3>4. QED  BY <3>2, <3>3, FS_Union
    <2>3. package \cup types \in SUBSET Symbol
      BY <2>1
    <2>4. \A s \in Symbol \ (package \cup types) : symbols'[s] = symbols[s]
      BY <2>1
    <2>5. symbols' \in [Symbol -> [file : File, package : BOOLEAN] \cup {Undefined}]
      BY DEF Types, Undefined
    <2>6. QED  BY <1>3, <2>1, <2>2, <2>3, <2>4, <2>5
  <1>5. QED  BY <1>2, <1>4, Adds

\* A link of a file that version j does not have leaves version j alone.
LEMMA LinkVersions ==
  ASSUME Types, UNCHANGED <<files, symbols, marks>>, NEW f \in files,
         NEW new \in SUBSET File, links' = [links EXCEPT ![f] = new],
         NEW j \in 1..Current, f \notin Version(j).files
  PROVE  Version(j)' = Version(j)
  <1>1. /\ FilesSince(j)' = FilesSince(j) /\ SymbolsSince(j)' = SymbolsSince(j)
        /\ Without(SymbolsSince(j))' = Without(SymbolsSince(j))
    BY DEF marks, Mark, CheckPoint, FilesSince, SymbolsSince, Without, Undefined
  <1>2. f \in FilesSince(j)
    BY DEF Version
  <1>3. [g \in File |-> IF g \in FilesSince(j) THEN {} ELSE links'[g]]
          = [g \in File |-> IF g \in FilesSince(j) THEN {} ELSE links[g]]
    BY <1>2 DEF Types
  <1>4. QED  BY <1>1, <1>3 DEF Version

\* ClearLastCheckpoint takes the last checkpoint for the tables as they are.
LEMMA CommitVersions ==
  ASSUME Types, Types', MarksOK, checkpoints # <<>>, ClearLastCheckpoint, UNCHANGED tables
  PROVE  /\ Current = Current' + 1 /\ MarksOK' /\ Len(checkpoints) = Current'
         /\ \A j \in 1..Current' :
              Version(j)' = IF j = Current' THEN Version(j + 1) ELSE Version(j)
  <1>1. PICK n \in Nat \ {0} : n = Len(checkpoints)
    BY DEF Types
  <1>2. checkpoints \in Seq([symbols : Nat, files : Nat])
    BY DEF Types
  <1>3. checkpoints' = Front(checkpoints)
    BY DEF ClearLastCheckpoint
  <1>4. Len(checkpoints') = n - 1 /\ \A j \in 1..n - 1 : checkpoints'[j] = checkpoints[j]
    BY <1>1, <1>2, <1>3, FrontIs
  <1>5. Current = n + 1 /\ Current' = n
    BY <1>1, <1>4 DEF Current
  <1>6. CASE n = 1
    <2>1. symbols_after_checkpoint' = <<>> /\ files_after_checkpoint' = <<>>
      BY <1>1, <1>6 DEF ClearLastCheckpoint
    <2>2. Mark(1)' = [symbols |-> 0, files |-> 0]
      BY <1>4, <1>6, <2>1 DEF Mark, CheckPoint
    <2>3. MarksOK'
      BY <1>5, <1>6, <2>2 DEF MarksOK
    <2>4. FilesSince(1)' = {} /\ SymbolsSince(1)' = {}
      <3>1. <<>> \in Seq(File) /\ <<>> \in Seq(Symbol) /\ ToSet(<<>>) = {}
        BY DEF ToSet
      <3>2. Since(<<>>, 0) = {}
        BY <3>1, SinceStart
      <3>3. QED  BY <2>1, <2>2, <3>2 DEF FilesSince, SymbolsSince
    <2>5. FilesSince(2) = {} /\ SymbolsSince(2) = {}
      BY <1>5, <1>6, LastVersion
    <2>6. Version(1)' = Version(2)
      BY <2>4, <2>5 DEF Version, tables, Without, Undefined
    <2>7. QED  BY <1>1, <1>5, <1>6, <2>3, <2>6
  <1>7. CASE n # 1
    <2>1. UNCHANGED <<symbols_after_checkpoint, files_after_checkpoint>>
      BY <1>1, <1>7 DEF ClearLastCheckpoint
    <2>2. CheckPoint' = CheckPoint
      BY <2>1 DEF CheckPoint
    <2>3. \A j \in 1..n - 1 : Mark(j)' = Mark(j)
      BY <1>1, <1>4 DEF Mark
    <2>4. Mark(n)' = Mark(n + 1)
      BY <1>1, <1>4, <2>2 DEF Mark
    <2>5. MarksOK'
      <3>1. Mark(1)' = [symbols |-> 0, files |-> 0]
        BY <1>7, <2>3 DEF MarksOK
      <3>2. ASSUME NEW i \in 1..n, NEW j \in 1..n, i <= j
            PROVE  Mark(i)'.symbols <= Mark(j)'.symbols /\ Mark(i)'.files <= Mark(j)'.files
        <4>1. CASE j \in 1..n - 1
          BY <1>5, <2>3, <3>2, <4>1 DEF MarksOK
        <4>2. CASE j = n /\ i \in 1..n - 1
          BY <1>5, <2>3, <2>4, <4>2 DEF MarksOK
        <4>3. CASE j = n /\ i = n
          BY <1>5, <2>4, <4>3 DEF MarksOK
        <4>4. QED  BY <3>2, <4>1, <4>2, <4>3
      <3>3. QED  BY <1>5, <3>1, <3>2 DEF MarksOK
    <2>6. \A j \in 1..n - 1 : Version(j)' = Version(j)
      BY <2>1, <2>3 DEF tables, Version, FilesSince, SymbolsSince, Without, Undefined
    <2>7. Version(n)' = Version(n + 1)
      BY <2>1, <2>4 DEF tables, Version, FilesSince, SymbolsSince, Without, Undefined
    <2>8. QED  BY <1>1, <1>5, <2>5, <2>6, <2>7
  <1>8. QED  BY <1>6, <1>7

\* RollbackToLastCheckpoint goes back to the version of the last checkpoint.
LEMMA RollbackVersions ==
  ASSUME Types, Types', MarksOK, checkpoints # <<>>, RollbackToLastCheckpoint
  PROVE  /\ Current = Current' + 1 /\ MarksOK' /\ Len(checkpoints) = Current'
         /\ \A j \in 1..Current' : Version(j)' = Version(j)
         /\ files' = files \ FilesSince(Len(checkpoints))
  <1>1. PICK n \in Nat \ {0} : n = Len(checkpoints)
    BY DEF Types
  <1>2. checkpoints \in Seq([symbols : Nat, files : Nat])
    BY DEF Types
  <1>3. checkpoints' = Front(checkpoints)
    BY DEF RollbackToLastCheckpoint
  <1>4. Len(checkpoints') = n - 1 /\ \A j \in 1..n - 1 : checkpoints'[j] = checkpoints[j]
    BY <1>1, <1>2, <1>3, FrontIs
  <1>5. Current = n + 1 /\ Current' = n
    BY <1>1, <1>4 DEF Current
  <1>6. Mark(n) = checkpoints[n]
    BY <1>1 DEF Mark
  <1>7. /\ Mark(n).files \in 0..Len(files_after_checkpoint)
        /\ Mark(n).symbols \in 0..Len(symbols_after_checkpoint)
        /\ Mark(n) = [symbols |-> Mark(n).symbols, files |-> Mark(n).files]
    BY <1>5, MarksAreTyped DEF MarksTyped
  <1>8. /\ files' = files \ FilesSince(n) /\ symbols' = Without(SymbolsSince(n))
        /\ links' = [f \in File |-> IF f \in FilesSince(n) THEN {} ELSE links[f]]
        /\ symbols_after_checkpoint' = SubSeq(symbols_after_checkpoint, 1, Mark(n).symbols)
        /\ files_after_checkpoint' = SubSeq(files_after_checkpoint, 1, Mark(n).files)
    BY <1>1, <1>6 DEF RollbackToLastCheckpoint, FilesSince, SymbolsSince
  <1>9. /\ Len(files_after_checkpoint') = Mark(n).files
        /\ Len(symbols_after_checkpoint') = Mark(n).symbols
    <2>1. files_after_checkpoint \in Seq(File) /\ symbols_after_checkpoint \in Seq(Symbol)
      BY DEF Types
    <2>2. Len(files_after_checkpoint') = Mark(n).files
      BY <1>7, <1>8, <2>1, Prefix
    <2>3. Len(symbols_after_checkpoint') = Mark(n).symbols
      BY <1>7, <1>8, <2>1, Prefix
    <2>4. QED  BY <2>2, <2>3
  <1>10. ASSUME NEW j \in 1..n
         PROVE  Mark(j)' = Mark(j)
    <2>1. CASE j \in 1..n - 1
      BY <1>1, <1>4, <2>1 DEF Mark
    <2>2. CASE j = n
      BY <1>4, <1>7, <1>9, <2>2 DEF Mark, CheckPoint
    <2>3. QED  BY <2>1, <2>2
  <1>11. MarksOK'
    BY <1>5, <1>10 DEF MarksOK
  <1>12. ASSUME NEW j \in 1..n
         PROVE  Version(j)' = Version(j)
    <2>1. /\ Mark(j).files \in 0..Len(files_after_checkpoint) /\ Mark(j).files <= Mark(n).files
          /\ Mark(j).symbols \in 0..Len(symbols_after_checkpoint)
          /\ Mark(j).symbols <= Mark(n).symbols
      BY <1>5, MarksAreTyped DEF MarksTyped, MarksOK
    <2>2. FilesSince(j) = FilesSince(j)' \cup FilesSince(n)
      <3>1. files_after_checkpoint \in Seq(File)
        BY DEF Types
      <3>2. Since(files_after_checkpoint, Mark(j).files) =
              Since(SubSeq(files_after_checkpoint, 1, Mark(n).files), Mark(j).files)
                \cup Since(files_after_checkpoint, Mark(n).files)
        BY <1>7, <2>1, <3>1, SinceOfPrefix
      <3>3. FilesSince(j)' = Since(files_after_checkpoint', Mark(j).files)
        BY <1>10 DEF FilesSince
      <3>4. QED  BY <1>8, <3>2, <3>3 DEF FilesSince
    <2>3. SymbolsSince(j) = SymbolsSince(j)' \cup SymbolsSince(n)
      <3>1. symbols_after_checkpoint \in Seq(Symbol)
        BY DEF Types
      <3>2. Since(symbols_after_checkpoint, Mark(j).symbols) =
              Since(SubSeq(symbols_after_checkpoint, 1, Mark(n).symbols), Mark(j).symbols)
                \cup Since(symbols_after_checkpoint, Mark(n).symbols)
        BY <1>7, <2>1, <3>1, SinceOfPrefix
      <3>3. SymbolsSince(j)' = Since(symbols_after_checkpoint', Mark(j).symbols)
        BY <1>10 DEF SymbolsSince
      <3>4. QED  BY <1>8, <3>2, <3>3 DEF SymbolsSince
    <2>4. files' \ FilesSince(j)' = files \ FilesSince(j)
      BY <1>8, <2>2
    <2>5. Without(SymbolsSince(j))' = Without(SymbolsSince(j))
      BY <1>8, <2>3 DEF Without, Undefined
    <2>6. [f \in File |-> IF f \in FilesSince(j)' THEN {} ELSE links'[f]]
            = [f \in File |-> IF f \in FilesSince(j) THEN {} ELSE links[f]]
      BY <1>8, <2>2
    <2>7. QED  BY <2>4, <2>5, <2>6 DEF Version
  <1>13. QED  BY <1>1, <1>5, <1>8, <1>11, <1>12

-------------------------------------------------------------------------------
(* Marks and places in order.                                                 *)

LEMMA NumbersPush ==
  ASSUME NEW g, NEW m \in Nat, NEW N \in Nat, NEW S \in SUBSET (1..N), Numbers(g, m, S)
  PROVE  \E h : /\ Numbers(h, m + 1, S \cup {N + 1})
                /\ h[m + 1] = N + 1 /\ \A a \in 1..m : h[a] = g[a]
  <1> DEFINE h == [a \in 1..m + 1 |-> IF a = m + 1 THEN N + 1 ELSE g[a]]
  <1>1. ASSUME NEW a \in 1..m
        PROVE  g[a] \in S /\ g[a] < N + 1 /\ a \in 1..m + 1 /\ h[a] = g[a]
    <2>1. g[a] \in S
      BY DEF Numbers
    <2>2. g[a] \in 1..N
      BY <2>1
    <2>3. g[a] < N + 1
      BY <2>2
    <2>4. a \in 1..m + 1 /\ a # m + 1
      OBVIOUS
    <2>5. QED  BY <2>1, <2>3, <2>4
  <1>2. h[m + 1] = N + 1
    OBVIOUS
  <1>3. h \in [1..m + 1 -> S \cup {N + 1}]
    <2>1. ASSUME NEW a \in 1..m + 1
          PROVE  (IF a = m + 1 THEN N + 1 ELSE g[a]) \in S \cup {N + 1}
      <3>1. a = m + 1 \/ a \in 1..m
        OBVIOUS
      <3>2. QED  BY <1>1, <3>1
    <2>2. QED  BY <2>1
  <1>4. ASSUME NEW a \in 1..m + 1, NEW b \in 1..m + 1, a < b
        PROVE  h[a] < h[b]
    <2>1. a \in 1..m
      BY <1>4
    <2>2. CASE b = m + 1
      BY <1>1, <1>2, <2>1, <2>2
    <2>3. CASE b \in 1..m
      BY <1>1, <1>4, <2>1, <2>3 DEF Numbers
    <2>4. QED  BY <2>2, <2>3
  <1>5. ASSUME NEW x \in S \cup {N + 1}
        PROVE  \E a \in 1..m + 1 : h[a] = x
    <2>1. CASE x = N + 1
      BY <1>2, <2>1
    <2>2. CASE x \in S
      BY <1>1, <2>2 DEF Numbers
    <2>3. QED  BY <2>1, <2>2
  <1> HIDE DEF h
  <1>6. QED  BY <1>1, <1>2, <1>3, <1>4, <1>5 DEF Numbers

LEMMA NumbersPop ==
  ASSUME NEW g, NEW m \in Nat, NEW S \in SUBSET Nat, NEW N \in S, \A x \in S : x <= N,
         Numbers(g, m, S)
  PROVE  /\ m \in Nat \ {0} /\ g[m] = N
         /\ \A a \in 1..m - 1 : g[a] \in S \ {N}
         /\ Numbers([a \in 1..m - 1 |-> g[a]], m - 1, S \ {N})
  <1> DEFINE h == [a \in 1..m - 1 |-> g[a]]
  <1>1. PICK a \in 1..m : g[a] = N
    BY DEF Numbers
  <1>2. m \in Nat \ {0} /\ m \in 1..m
    BY <1>1
  <1>3. g[m] = N
    <2>1. g[m] \in Nat /\ g[m] <= N
      BY <1>2 DEF Numbers
    <2>2. ~ a < m
      <3>1. a < m => g[a] < g[m]
        BY <1>2 DEF Numbers
      <3>2. QED  BY <1>1, <2>1, <3>1
    <2>3. a = m
      BY <1>2, <2>2
    <2>4. QED  BY <1>1, <2>3
  <1>4. ASSUME NEW b \in 1..m - 1
        PROVE  g[b] \in S \ {N} /\ h[b] = g[b] /\ b \in 1..m
    <2>1. b \in 1..m /\ b < m
      BY <1>2
    <2>2. g[b] \in S /\ g[b] < g[m]
      BY <1>2, <2>1 DEF Numbers
    <2>3. g[b] # N
      BY <1>3, <2>2
    <2>4. QED  BY <2>1, <2>2, <2>3
  <1>5. h \in [1..m - 1 -> S \ {N}]
    BY <1>4
  <1>6. \A b, c \in 1..m - 1 : b < c => h[b] < h[c]
    BY <1>4 DEF Numbers
  <1>7. ASSUME NEW x \in S \ {N}
        PROVE  \E b \in 1..m - 1 : h[b] = x
    <2>1. PICK b \in 1..m : g[b] = x
      BY DEF Numbers
    <2>2. b # m
      BY <1>3, <2>1
    <2>3. b \in 1..m - 1
      BY <1>2, <2>2
    <2>4. QED  BY <1>4, <2>1, <2>3
  <1> HIDE DEF h
  <1>8. Numbers(h, m - 1, S \ {N})
    BY <1>5, <1>6, <1>7 DEF Numbers
  <1>9. QED  BY <1>2, <1>3, <1>4, <1>8 DEF h

LEMMA NumbersOne ==
  ASSUME NEW g, NEW m \in Nat, Numbers(g, m, {1})
  PROVE  m = 1
  <1>1. \A a \in 1..m : g[a] = 1
    BY DEF Numbers
  <1>2. m # 0
    BY DEF Numbers
  <1>3. ASSUME m > 1
        PROVE  FALSE
    <2>1. 1 \in 1..m /\ 2 \in 1..m /\ 1 < 2
      BY <1>3
    <2>2. g[1] < g[2]
      BY <2>1 DEF Numbers
    <2>3. QED  BY <1>1, <2>1, <2>2
  <1>4. QED  BY <1>2, <1>3

LEMMA NumbersNone ==
  ASSUME NEW g, NEW m \in Nat, Numbers(g, m, {})
  PROVE  m = 0
  <1>1. SUFFICES ASSUME m # 0
                 PROVE  FALSE
    OBVIOUS
  <1>2. m \in 1..m
    BY <1>1
  <1>3. g \in [1..m -> {}]
    BY DEF Numbers
  <1>4. g[m] \in {}
    BY <1>2, <1>3
  <1>5. QED  BY <1>4

-------------------------------------------------------------------------------
(* What keeps a version sound.                                                *)

\* Frame n is as far as before, or has an error now.
Waits(n) ==
  /\ stack'[n].file = stack[n].file /\ stack'[n].at = stack[n].at
  /\ ~stack'[n].errors => ~stack[n].errors /\ stack'[n].k = stack[n].k

\* Version j is version i of the state before.  The frames before both wait, and
\* the others are done or have an error.
LEMMA SoundStays ==
  ASSUME db' = db, NEW g, NEW h, NEW i \in Nat, NEW j \in Nat, Version(j)' = Version(i),
         SoundVersion(i, g),
         \A k \in 1..i - 1 :
           \/ /\ k <= j - 1 /\ h[k] = g[k] /\ Version(k)' = Version(k) /\ Waits(g[k])
           \/ Complete(Version(i), stack[g[k]].file, Finished(stack[g[k]].file)),
         \A k \in 1..j - 1 :
           \/ k <= i - 1 /\ h[k] = g[k] /\ Waits(g[k])
           \/ stack'[h[k]].errors
  PROVE  SoundVersion(j, h)'
  <1>1. PICK v : v = Version(i)
    OBVIOUS
  <1>2. Version(j)' = v
    BY <1>1
  <1>3. Points(Version(j))'
    BY <1>1, <1>2 DEF SoundVersion, Points, proto, Undefined
  <1>4. \A f, n : Complete(v, f, n) => Complete(Version(j), f, n)'
    BY <1>2 DEF Complete, Whole, Imported, Resolved, proto
  <1>5. \A f, n : Complete(v, f, Finished(f)) => Complete(Version(j), f, Finished(f))'
    BY <1>2 DEF Complete, Whole, Imported, Resolved, proto, Finished
  <1>6. ASSUME NEW f \in v.files
        PROVE  \/ Complete(Version(j), f, Finished(f))'
               \/ \E k \in 1..j - 1 : f = stack'[h[k]].file /\ f \notin Version(k)'.files
    <2>1. CASE Complete(v, f, Finished(f))
      BY <1>5, <2>1
    <2>2. CASE ~ Complete(v, f, Finished(f))
      <3>1. PICK k \in 1..i - 1 : f = stack[g[k]].file /\ f \notin Version(k).files
        BY <1>1, <2>2 DEF SoundVersion
      <3>2. /\ k <= j - 1 /\ h[k] = g[k] /\ Version(k)' = Version(k)
            /\ stack'[g[k]].file = stack[g[k]].file
        BY <1>1, <2>2, <3>1 DEF Waits
      <3>3. k \in 1..j - 1
        BY <3>2
      <3>4. QED  BY <3>1, <3>2, <3>3
    <2>3. QED  BY <2>1, <2>2
  <1>7. ASSUME NEW k \in 1..j - 1, ~stack'[h[k]].errors
        PROVE  Complete(Version(j), stack[h[k]].file, stack[h[k]].k)'
    <2>1. k <= i - 1 /\ h[k] = g[k] /\ Waits(g[k])
      BY <1>7
    <2>2. /\ ~stack[g[k]].errors /\ stack'[h[k]].k = stack[g[k]].k
          /\ stack'[h[k]].file = stack[g[k]].file
      BY <1>7, <2>1 DEF Waits
    <2>3. k \in 1..i - 1
      BY <2>1
    <2>4. Complete(v, stack[g[k]].file, stack[g[k]].k)
      BY <1>1, <2>2, <2>3 DEF SoundVersion
    <2>5. PICK f, n : f = stack[g[k]].file /\ n = stack[g[k]].k
      OBVIOUS
    <2>6. Complete(Version(j), f, n)'
      BY <1>4, <2>4, <2>5
    <2>7. QED  BY <2>2, <2>5, <2>6 DEF Complete, Whole, Imported, Resolved, proto
  <1>8. QED  BY <1>2, <1>3, <1>6, <1>7 DEF SoundVersion

\* A version with more files, symbols and links.
Extends(v, w) ==
  /\ v.files \subseteq w.files
  /\ \A s \in Symbol : v.symbols[s] # Undefined => w.symbols[s] = v.symbols[s]
  /\ \A f \in File : v.links[f] \subseteq w.links[f]

LEMMA CompleteExtends ==
  ASSUME Types, NEW v, NEW w, Extends(v, w), NEW f \in File, NEW k, Complete(v, f, k)
  PROVE  Complete(w, f, k)
  <1>1. None \notin File
    BY NoneOK
  <1>2. /\ proto(f).imports \in Seq(File) /\ proto(f).defines \subseteq Symbol
        /\ proto(f).package \in Symbol \cup {None} /\ proto(f).refs \in Seq(Seq(Symbol) \ {<<>>})
    BY Protos
  <1>3. \A s \in Symbol : v.symbols[s].file \in File => w.symbols[s] = v.symbols[s]
    BY <1>1 DEF Extends, Undefined
  <1>4. Whole(w, f)
    <2>1. \A s \in proto(f).defines : w.symbols[s] = [file |-> f, package |-> FALSE]
      <3>1. ASSUME NEW s \in proto(f).defines
            PROVE  w.symbols[s] = [file |-> f, package |-> FALSE]
        <4>1. v.symbols[s] = [file |-> f, package |-> FALSE] /\ s \in Symbol
          BY <1>2 DEF Complete, Whole
        <4>2. v.symbols[s].file = f
          BY <4>1
        <4>3. QED  BY <1>3, <4>1, <4>2
      <3>2. QED  BY <3>1
    <2>2. ASSUME proto(f).package # None
          PROVE  w.symbols[proto(f).package].package
      <3>1. proto(f).package \in Symbol /\ v.symbols[proto(f).package].package
        BY <1>2, <2>2 DEF Complete, Whole
      <3>2. v.symbols[proto(f).package] # Undefined
        BY <3>1 DEF Undefined
      <3>3. QED  BY <3>1, <3>2 DEF Extends
    <2>3. QED  BY <2>1, <2>2 DEF Whole
  <1>5. Imported(w, f)
    BY DEF Complete, Imported, Extends
  <1>6. Resolved(w, f, k)
    <2>1. ASSUME NEW i \in DOMAIN proto(f).refs, i < k
          PROVE  \E s \in ToSet(proto(f).refs[i]) :
                   /\ w.symbols[s].file \in {f} \cup (w.links[f] \cap ToSet(proto(f).imports))
                   /\ ~w.symbols[s].package
      <3>1. PICK s \in ToSet(proto(f).refs[i]) :
               /\ v.symbols[s].file \in {f} \cup (v.links[f] \cap ToSet(proto(f).imports))
               /\ ~v.symbols[s].package
        BY <2>1 DEF Complete, Resolved
      <3>2. proto(f).refs[i] \in Seq(Symbol)
        BY <1>2
      <3>3. s \in Symbol
        BY <3>1, <3>2, ToSetIs
      <3>4. ToSet(proto(f).imports) \subseteq File
        BY <1>2, ToSetIs
      <3>5. w.symbols[s] = v.symbols[s]
        BY <1>3, <3>1, <3>3, <3>4
      <3>6. QED  BY <3>1, <3>5 DEF Extends
    <2>2. QED  BY <2>1 DEF Resolved
  <1>7. QED  BY <1>4, <1>5, <1>6 DEF Complete

-------------------------------------------------------------------------------
(* What the steps do to the builds.                                           *)

LEMMA Begun ==
  ASSUME Types, NEW g, Builds(g)
  PROVE  /\ Len(checkpoints) \in Nat
         /\ \A k \in 1..Len(checkpoints) : g[k] \in BegunAt /\ g[k] \in DOMAIN stack
         /\ \A j \in 1..Current : \A k \in 1..j - 1 :
              k \in 1..Len(checkpoints) /\ k \in 1..Current
  <1>1. Len(checkpoints) \in Nat
    BY DEF Types
  <1>2. \A k \in 1..Len(checkpoints) : g[k] \in BegunAt
    BY DEF Builds, Numbers
  <1>3. QED  BY <1>1, <1>2 DEF BegunAt, Current

\* Steps that leave the tables alone.
LEMMA BuildsWait ==
  ASSUME Types, MarksOK, NEW g, Builds(g), db' = db, UNCHANGED <<tables, marks>>,
         BegunAt' = BegunAt, \A n \in BegunAt : Waits(n)
  PROVE  Builds(g)' /\ MarksOK' /\ Version(1)' = Version(1)
  <1>1. /\ Current' = Current /\ Len(checkpoints)' = Len(checkpoints)
        /\ \A j \in 1..Current : Version(j)' = Version(j) /\ Mark(j)' = Mark(j)
    BY SameVersions DEF marks
  <1>2. Len(checkpoints) \in Nat /\ \A k \in 1..Len(checkpoints) : g[k] \in BegunAt
    BY Begun
  <1>3. ASSUME NEW j \in 1..Current
        PROVE  SoundVersion(j, g)'
    <2>1. j \in Nat /\ SoundVersion(j, g)
      BY DEF Builds
    <2>2. ASSUME NEW k \in 1..j - 1
          PROVE  k <= j - 1 /\ Version(k)' = Version(k) /\ Waits(g[k])
      <3>1. k \in 1..Len(checkpoints) /\ k \in 1..Current
        BY Begun
      <3>2. QED  BY <1>1, <1>2, <3>1
    <2>3. QED  BY <1>1, <2>1, <2>2, SoundStays
  <1>4. ASSUME NEW k \in 1..Len(checkpoints)
        PROVE  AddedAt(k, g)'
    <2>1. k \in 1..Current /\ k + 1 \in 1..Current
      BY <1>2 DEF Current
    <2>2. QED  BY <1>1, <1>2, <2>1 DEF Builds, AddedAt, Waits
  <1>5. MarksOK'
    <2>1. 1 \in 1..Current
      BY <1>2 DEF Current
    <2>2. QED  BY <1>1, <2>1 DEF MarksOK
  <1>6. Version(1)' = Version(1)
    BY <1>1, <1>2 DEF Current
  <1>7. QED  BY <1>1, <1>3, <1>4, <1>5, <1>6 DEF Builds, Numbers

\* The frame on top of the stack has the last checkpoint, if it has begun.
LEMMA TopHasLast ==
  ASSUME Types, FramesOK, NEW g, Numbers(g, Len(checkpoints), BegunAt), stack # <<>>,
         top.at # "load"
  PROVE  /\ Len(checkpoints) \in Nat \ {0} /\ g[Len(checkpoints)] = Len(stack)
         /\ \A k \in 1..Len(checkpoints) - 1 : g[k] \in BegunAt \ {Len(stack)}
         /\ Numbers([a \in 1..Len(checkpoints) - 1 |-> g[a]], Len(checkpoints) - 1,
                    BegunAt \ {Len(stack)})
  <1>1. Len(stack) \in Nat \ {0} /\ Len(stack) \in BegunAt
    BY TopFrame DEF BegunAt, top
  <1>2. DOMAIN stack = 1..Len(stack)
    BY DEF FramesOK
  <1>3. BegunAt \in SUBSET Nat /\ \A x \in BegunAt : x <= Len(stack)
    BY <1>1, <1>2 DEF BegunAt
  <1>4. Len(checkpoints) \in Nat
    BY DEF Types
  <1>5. QED  BY <1>1, <1>3, <1>4, NumbersPop

\* A step of the frame on top.
LEMMA TopMoves ==
  ASSUME FramesOK, db' = db, stack # <<>>, NEW fr \in Frames, FrameOK(fr), stack' = Top(fr)
  PROVE  /\ FramesOK' /\ Len(stack') = Len(stack) /\ DOMAIN stack' = DOMAIN stack
         /\ stack' # <<>> /\ stack'[Len(stack)] = fr
         /\ \A n \in DOMAIN stack : n # Len(stack) => stack'[n] = stack[n]
  <1>1. stack \in Seq(Frames) /\ Len(stack) \in 1..Len(stack)
    BY TopFrame DEF FramesOK
  <1>2. /\ stack' \in Seq(Frames) /\ Len(stack') = Len(stack)
        /\ \A n \in 1..Len(stack) : stack'[n] = IF n = Len(stack) THEN fr ELSE stack[n]
    BY <1>1, ExceptSeq DEF Top
  <1>3. DOMAIN stack = 1..Len(stack) /\ DOMAIN stack' = 1..Len(stack)
    BY <1>1, <1>2
  <1>4. \A n \in DOMAIN stack : FrameOK(stack[n])
    BY DEF FramesOK
  <1>5. ASSUME NEW n \in DOMAIN stack'
        PROVE  FrameOK(stack[n])'
    <2>1. FrameOK(stack'[n])
      BY <1>2, <1>3, <1>4
    <2>2. QED  BY <2>1 DEF FrameOK, proto
  <1>6. db.kind = "none" => Len(stack') <= 1
    BY <1>2 DEF FramesOK
  <1>7. FramesOK'
    BY <1>2, <1>5, <1>6 DEF FramesOK
  <1>8. stack' # <<>>
    <2>1. Len(stack') # 0
      BY <1>1, <1>2
    <2>2. QED  BY <2>1
  <1>9. stack'[Len(stack)] = fr /\ \A n \in DOMAIN stack : n # Len(stack) => stack'[n] = stack[n]
    BY <1>1, <1>2, <1>3
  <1>10. QED  BY <1>2, <1>3, <1>7, <1>8, <1>9

LEMMA TopOK ==
  ASSUME FramesOK, stack # <<>>
  PROVE  /\ FrameOK(top) /\ top = stack[Len(stack)]
  BY TopFrame DEF FramesOK, top

\* The next scope, and after the last one an error.
LEMMA NextScopeMoves ==
  ASSUME Types, FramesOK, db' = db, Linking, stack' = NextScope
  PROVE  /\ FramesOK' /\ Len(stack') = Len(stack) /\ BegunAt' = BegunAt /\ LoadingAt' = LoadingAt
         /\ stack' # <<>> /\ \A n \in DOMAIN stack : Waits(n)
  <1> DEFINE refs == proto(top.file).refs
             last == top.c = Len(refs[top.k])
             fr == [top EXCEPT !.tried = "no", !.c = IF last THEN 1 ELSE @ + 1,
                               !.k = IF last THEN @ + 1 ELSE @, !.errors = @ \/ last]
  <1>1. /\ stack # <<>> /\ top \in Frames /\ top.file \in File /\ FrameOK(top)
        /\ top.at = "link" /\ top.k <= Len(refs) /\ top = stack[Len(stack)]
        /\ Len(stack) \in DOMAIN stack
    BY TopFrame, TopOK DEF Linking
  <1>2. refs \in Seq(Seq(Symbol) \ {<<>>})
    BY <1>1, Protos
  <1>3. top.k \in 1..Len(refs) /\ top.c \in 1..Len(refs[top.k]) /\ Len(refs) \in Nat
    BY <1>1, <1>2 DEF FrameOK
  <1>4. refs[top.k] \in Seq(Symbol) /\ Len(refs[top.k]) \in Nat
    BY <1>2, <1>3
  <1>5. /\ fr.file = top.file /\ fr.at = "link" /\ fr.i = top.i /\ fr.via = top.via
        /\ fr.tried = "no" /\ fr.errors = (top.errors \/ last)
        /\ fr.k = (IF last THEN top.k + 1 ELSE top.k)
        /\ fr.c = (IF last THEN 1 ELSE top.c + 1)
        /\ fr \in Frames
    <2>1. top \in [file : File, via : Symbol \cup {None}, at : {"load", "link", "finish"},
                   i : Nat, k : Nat, c : Nat, tried : {"no", "built", "failed"},
                   errors : BOOLEAN]
      BY <1>1 DEF Frames
    <2>2. top.k + 1 \in Nat /\ top.c + 1 \in Nat /\ 1 \in Nat
      BY <1>1, <1>3, <1>4
    <2>3. (IF last THEN top.k + 1 ELSE top.k) \in Nat /\ (IF last THEN 1 ELSE top.c + 1) \in Nat
      BY <2>1, <2>2
    <2>4. fr \in Frames
      BY <2>1, <2>3 DEF Frames
    <2>5. QED  BY <1>1, <2>1, <2>4
  <1>6. stack' = Top(fr)
    BY DEF NextScope
  <1> HIDE DEF fr
  <1>7. FrameOK(fr)
    <2>1. CASE ~last
      BY <1>1, <1>3, <1>4, <1>5, <2>1 DEF FrameOK
    <2>2. CASE last
      <3>1. fr.k = top.k + 1 /\ fr.c = 1 /\ fr.k \in 1..Len(refs) + 1
        BY <1>3, <1>5, <2>2
      <3>2. ASSUME fr.k <= Len(refs)
            PROVE  1 \in 1..Len(refs[fr.k])
        <4>1. fr.k \in 1..Len(refs)
          BY <1>3, <3>1, <3>2
        <4>2. refs[fr.k] \in Seq(Symbol) /\ refs[fr.k] # <<>>
          BY <1>2, <4>1
        <4>3. QED  BY <4>2
      <3>3. QED  BY <1>1, <1>5, <3>1, <3>2 DEF FrameOK
    <2>3. QED  BY <2>1, <2>2
  <1>8. /\ FramesOK' /\ Len(stack') = Len(stack) /\ DOMAIN stack' = DOMAIN stack
        /\ stack' # <<>> /\ stack'[Len(stack)] = fr
        /\ \A n \in DOMAIN stack : n # Len(stack) => stack'[n] = stack[n]
    BY <1>1, <1>5, <1>6, <1>7, TopMoves
  <1>9. \A n \in DOMAIN stack : Waits(n)
    BY <1>1, <1>5, <1>8 DEF Waits
  <1>10. QED  BY <1>8, <1>9 DEF BegunAt, LoadingAt, Waits

\* A name that resolves: the file that is built gets a link more.
LEMMA ResolveBuilds ==
  ASSUME Types, Types', FramesOK, MarksOK, NEW g, Builds(g), Resolve, Visible(name)
  PROVE  Builds(g)' /\ MarksOK' /\ Version(1)' = Version(1) /\ FramesOK' /\ stack' # <<>>
         /\ LoadingAt' = LoadingAt
  <1> DEFINE f == top.file
             refs == proto(f).refs
             target == symbols[name].file
             fr == [top EXCEPT !.k = @ + 1, !.c = 1, !.tried = "no"]
  <1>1. PICK n : n = Len(checkpoints) /\ n = Len(checkpoints')
    BY DEF Resolve, marks
  <1>2. /\ stack # <<>> /\ top \in Frames /\ f \in File /\ FrameOK(top) /\ db' = db
        /\ top.at = "link" /\ top.k <= Len(refs) /\ top = stack[Len(stack)]
        /\ Len(stack) \in DOMAIN stack
    BY TopFrame, TopOK DEF Linking, Resolve
  <1>3. /\ UNCHANGED <<files, symbols, marks>> /\ stack' = Top(fr)
        /\ links' = [links EXCEPT ![f] = @ \cup {target}] /\ target \in {f} \cup links[f]
    BY DEF Resolve, Visible
  <1>4. refs \in Seq(Seq(Symbol) \ {<<>>})
    BY <1>2, Protos
  <1>5. top.k \in 1..Len(refs) /\ top.c \in 1..Len(refs[top.k]) /\ Len(refs) \in Nat
    BY <1>2, <1>4 DEF FrameOK
  <1>6. name \in Symbol /\ name \in ToSet(refs[top.k])
    <2>1. refs[top.k] \in Seq(Symbol)
      BY <1>4, <1>5
    <2>2. QED  BY <1>5, <2>1, ToSetIs DEF name
  <1>7. /\ fr.file = f /\ fr.at = "link" /\ fr.i = top.i /\ fr.errors = top.errors
        /\ fr.k = top.k + 1 /\ fr.c = 1 /\ fr \in Frames
    <2>1. top \in [file : File, via : Symbol \cup {None}, at : {"load", "link", "finish"},
                   i : Nat, k : Nat, c : Nat, tried : {"no", "built", "failed"},
                   errors : BOOLEAN]
      BY <1>2 DEF Frames
    <2>2. top.k + 1 \in Nat /\ 1 \in Nat
      BY <2>1
    <2>3. fr \in Frames
      BY <2>1, <2>2 DEF Frames
    <2>4. QED  BY <1>2, <2>1, <2>3
  <1> HIDE DEF fr
  <1>8. FrameOK(fr)
    <2>1. fr.k \in 1..Len(refs) + 1
      BY <1>5, <1>7
    <2>2. ASSUME fr.k <= Len(refs)
          PROVE  1 \in 1..Len(refs[fr.k])
      <3>1. fr.k \in 1..Len(refs)
        BY <1>5, <2>1, <2>2
      <3>2. refs[fr.k] \in Seq(Symbol) /\ refs[fr.k] # <<>>
        BY <1>4, <3>1
      <3>3. QED  BY <3>2
    <2>3. QED  BY <1>2, <1>7, <2>1, <2>2 DEF FrameOK
  <1>9. /\ FramesOK' /\ Len(stack') = Len(stack) /\ DOMAIN stack' = DOMAIN stack
        /\ stack' # <<>> /\ stack'[Len(stack)] = fr
        /\ \A m \in DOMAIN stack : m # Len(stack) => stack'[m] = stack[m]
    BY <1>2, <1>3, <1>7, <1>8, TopMoves
  <1>10. BegunAt' = BegunAt /\ LoadingAt' = LoadingAt
    BY <1>2, <1>7, <1>9 DEF BegunAt, LoadingAt
  <1>11. /\ n \in Nat \ {0} /\ g[n] = Len(stack)
         /\ \A k \in 1..n - 1 : g[k] \in BegunAt \ {Len(stack)}
    BY <1>1, <1>2, TopHasLast DEF Builds
  <1>12. /\ Current = n + 1 /\ Current' = n + 1
         /\ \A j \in 1..n + 1 : Mark(j)' = Mark(j)
         /\ FilesSince(n + 1)' = FilesSince(n + 1) /\ SymbolsSince(n + 1)' = SymbolsSince(n + 1)
    BY <1>1, <1>3 DEF Current, marks, Mark, CheckPoint, FilesSince, SymbolsSince
  <1>13. f \notin Version(n).files /\ f \in Version(n + 1).files
    <2>1. n \in 1..n
      BY <1>11
    <2>2. QED  BY <1>1, <1>2, <1>11, <2>1 DEF Builds, AddedAt
  <1>14. f \in files /\ links[f] \subseteq File
    BY <1>2, <1>12, <1>13, LastVersion DEF Types
  <1>15. ASSUME NEW j \in 1..n
         PROVE  Version(j)' = Version(j)
    <2>1. Version(j).files \subseteq Version(n).files
      BY <1>11, <1>12, VersionsGrow
    <2>2. links[f] \cup {target} \in SUBSET File /\ j \in 1..Current
      BY <1>2, <1>3, <1>11, <1>12, <1>14
    <2>3. links' = [links EXCEPT ![f] = links[f] \cup {target}]
      BY <1>3
    <2>4. QED  BY <1>3, <1>13, <1>14, <2>1, <2>2, <2>3, LinkVersions
  <1>16. MarksOK'
    <2>1. 1 \in 1..n + 1
      BY <1>11
    <2>2. QED  BY <1>12, <2>1 DEF MarksOK
  <1>17. /\ Version(n + 1).files = files /\ Version(n + 1).symbols = symbols
         /\ Version(n + 1).links = links
    BY <1>12, LastVersion
  <1>18. /\ Version(n + 1)'.files = files /\ Version(n + 1)'.symbols = symbols
         /\ Version(n + 1)'.links = links'
    <2>1. /\ Version(Current)'.files = files' /\ Version(Current)'.symbols = symbols'
          /\ Version(Current)'.links = links'
      BY <1>16, NextLastVersion
    <2>2. Version(Current)' = Version(n + 1)'
      BY <1>1 DEF Current
    <2>3. QED  BY <1>3, <2>1, <2>2
  <1>19. ASSUME NEW k \in 1..n - 1
         PROVE  k \in 1..n /\ k + 1 \in 1..n /\ stack'[g[k]] = stack[g[k]]
    BY <1>9, <1>11 DEF BegunAt
  <1>20. \A k \in 1..n : stack'[g[k]].file = stack[g[k]].file /\ stack'[g[k]].at = stack[g[k]].at
    <2>1. stack'[g[n]].file = stack[g[n]].file /\ stack'[g[n]].at = stack[g[n]].at
      BY <1>2, <1>7, <1>9, <1>11
    <2>2. \A k \in 1..n : k = n \/ k \in 1..n - 1
      BY <1>11
    <2>3. QED  BY <1>19, <2>1, <2>2
  <1>21. ASSUME NEW j \in 1..n
         PROVE  SoundVersion(j, g)'
    <2>1. j \in Nat /\ SoundVersion(j, g)
      BY <1>11, <1>12 DEF Builds
    <2>2. ASSUME NEW k \in 1..j - 1
          PROVE  k <= j - 1 /\ Version(k)' = Version(k) /\ Waits(g[k])
      <3>1. k \in 1..n - 1
        BY <1>11, <2>1
      <3>2. QED  BY <1>15, <1>19, <3>1 DEF Waits
    <2>3. Version(j)' = Version(j)
      BY <1>15
    <2>4. QED  BY <1>2, <2>1, <2>2, <2>3, SoundStays
  <1>22. Extends(Version(n + 1), Version(n + 1)')
    <2>1. \A x \in File : links[x] \subseteq links'[x]
      BY <1>2, <1>3 DEF Types
    <2>2. QED  BY <1>17, <1>18, <2>1 DEF Extends
  <1>23. ASSUME NEW x \in File, NEW k, Complete(Version(n + 1), x, k)
         PROVE  Complete(Version(n + 1)', x, k)
    BY <1>22, <1>23, CompleteExtends
  <1>24. \A x \in File : \A k : Complete(Version(n + 1)', x, k) => Complete(Version(n + 1), x, k)'
    BY <1>2 DEF Complete, Whole, Imported, Resolved, proto
  <1>25. \A x \in File : Finished(x)' = Finished(x)
    BY <1>2 DEF Finished, proto
  <1>26. SoundVersion(n + 1, g)
    BY <1>11, <1>12 DEF Builds
  <1>27. \A k \in 1..n : ~stack[g[k]].errors =>
           Complete(Version(n + 1), stack[g[k]].file, stack[g[k]].k)
    <2>1. PICK j : j = n + 1
      OBVIOUS
    <2>2. 1..j - 1 = 1..n
      BY <1>11, <2>1
    <2>3. SoundVersion(j, g)
      BY <1>26, <2>1
    <2>4. \A k \in 1..j - 1 : ~stack[g[k]].errors =>
            Complete(Version(j), stack[g[k]].file, stack[g[k]].k)
      BY <2>3 DEF SoundVersion
    <2>5. QED  BY <2>2, <2>1, <2>4
  <1>28. Points(Version(n + 1)')
    <2>1. Points(Version(n + 1))
      BY <1>26 DEF SoundVersion
    <2>2. target \in files /\ target \in {f} \cup ToSet(proto(f).imports)
      BY <1>2, <1>3, <1>14, <1>17, <2>1 DEF Points
    <2>3. ASSUME NEW x \in File
          PROVE  /\ links'[x] \subseteq (IF x \in files THEN files ELSE {})
                 /\ links'[x] \subseteq {x} \cup ToSet(proto(x).imports)
      <3>1. /\ links[x] \subseteq (IF x \in files THEN files ELSE {})
            /\ links[x] \subseteq {x} \cup ToSet(proto(x).imports)
        BY <1>17, <2>1 DEF Points
      <3>2. links'[x] = IF x = f THEN links[x] \cup {target} ELSE links[x]
        BY <1>3 DEF Types
      <3>3. QED  BY <1>14, <2>2, <3>1, <3>2
    <2> HIDE DEF target
    <2>4. QED  BY <1>17, <1>18, <2>1, <2>3 DEF Points
  <1>29. Points(Version(n + 1))'
    BY <1>2, <1>28 DEF Points, proto, Undefined
  <1>30. ASSUME NEW x \in Version(n + 1)'.files
         PROVE  \/ Complete(Version(n + 1), x, Finished(x))'
                \/ \E k \in 1..n : x = stack'[g[k]].file /\ x \notin Version(k)'.files
    <2>1. x \in File /\ x \in Version(n + 1).files
      BY <1>17, <1>18, <1>30 DEF Types
    <2>2. CASE Complete(Version(n + 1), x, Finished(x))
      BY <1>23, <1>24, <1>25, <2>1, <2>2
    <2>3. CASE \E k \in 1..n : x = stack[g[k]].file /\ x \notin Version(k).files
      BY <1>15, <1>20, <2>3
    <2>4. QED  BY <1>11, <1>26, <2>1, <2>2, <2>3 DEF SoundVersion
  <1>31. ASSUME NEW k \in 1..n, ~stack'[g[k]].errors
         PROVE  Complete(Version(n + 1), stack[g[k]].file, stack[g[k]].k)'
    <2>1. CASE k \in 1..n - 1
      <3>1. stack'[g[k]] = stack[g[k]] /\ stack[g[k]].file \in File
        <4>1. g[k] \in DOMAIN stack
          BY <1>11, <2>1 DEF BegunAt
        <4>2. stack[g[k]] \in Frames
          BY <4>1, ElementOfSeq DEF FramesOK
        <4>3. QED  BY <1>19, <2>1, <4>2 DEF Frames
      <3>2. Complete(Version(n + 1), stack[g[k]].file, stack[g[k]].k)
        BY <1>31, <1>27, <3>1
      <3>3. PICK x, m : x \in File /\ x = stack[g[k]].file /\ m = stack[g[k]].k
        BY <3>1
      <3>4. Complete(Version(n + 1), x, m)'
        BY <1>23, <1>24, <3>2, <3>3
      <3>5. QED  BY <3>1, <3>3, <3>4
    <2>2. CASE k = n
      <3>1. stack[g[k]] = top /\ stack'[g[k]] = fr
        BY <1>2, <1>9, <1>11, <2>2
      <3>2. Complete(Version(n + 1), f, top.k)
        BY <1>7, <1>31, <1>27, <3>1
      <3>3. Complete(Version(n + 1)', f, top.k)
        BY <1>2, <1>23, <3>2
      <3>4. target \in {f} \cup (links'[f] \cap ToSet(proto(f).imports))
        <4>1. links'[f] = links[f] \cup {target}
          BY <1>2, <1>3 DEF Types
        <4>2. target \in {f} \cup ToSet(proto(f).imports)
          BY <1>2, <1>3, <1>17, <1>26 DEF SoundVersion, Points
        <4>3. QED  BY <4>1, <4>2
      <3>5. Resolved(Version(n + 1)', f, top.k + 1)
        <4>1. ASSUME NEW i \in DOMAIN refs, i < top.k + 1
              PROVE  \E s \in ToSet(refs[i]) :
                       /\ symbols[s].file \in {f} \cup (links'[f] \cap ToSet(proto(f).imports))
                       /\ ~symbols[s].package
          <5>1. i \in Nat
            BY <1>4
          <5>2. CASE i = top.k
            BY <1>6, <3>4, <5>2 DEF Visible
          <5>3. CASE i < top.k
            BY <1>18, <3>3, <5>3 DEF Complete, Resolved
          <5>4. QED  BY <1>5, <4>1, <5>1, <5>2, <5>3
        <4>2. QED  BY <1>18, <4>1 DEF Resolved
      <3>6. Complete(Version(n + 1)', f, top.k + 1)
        BY <3>3, <3>5 DEF Complete
      <3>7. PICK x, m : x \in File /\ x = f /\ m = top.k + 1
        BY <1>2
      <3>8. Complete(Version(n + 1), x, m)'
        BY <1>24, <3>6, <3>7
      <3>9. x = stack'[g[k]].file /\ m = stack'[g[k]].k
        BY <1>7, <3>1, <3>7
      <3>10. QED  BY <3>8, <3>9
    <2>3. QED  BY <1>11, <2>1, <2>2
  <1>32. PICK last : last = n + 1
    OBVIOUS
  <1>33. SoundVersion(last, g)'
    <2>1. 1..last - 1 = 1..n
      BY <1>11, <1>32
    <2>2. Points(Version(last))'
      BY <1>29, <1>32
    <2>3. \A x \in Version(last)'.files :
            \/ Complete(Version(last), x, Finished(x))'
            \/ \E k \in 1..last - 1 : x = stack'[g[k]].file /\ x \notin Version(k)'.files
      BY <1>30, <1>32, <2>1
    <2>4. \A k \in 1..last - 1 : ~stack'[g[k]].errors =>
            Complete(Version(last), stack[g[k]].file, stack[g[k]].k)'
      BY <1>31, <1>32, <2>1
    <2>5. QED  BY <2>2, <2>3, <2>4 DEF SoundVersion
  <1>34. \A j \in 1..Current' : SoundVersion(j, g)'
    <2>1. \A j \in 1..n + 1 : j \in 1..n \/ j = n + 1
      BY <1>11
    <2>2. QED  BY <1>12, <1>21, <1>32, <1>33, <2>1
  <1>35. ASSUME NEW k \in 1..n
         PROVE  AddedAt(k, g)'
    <2>1. Version(k)'.files = Version(k).files /\ Version(k + 1)'.files = Version(k + 1).files
      <3>1. k + 1 \in 1..n \/ k = n
        BY <1>11
      <3>2. CASE k + 1 \in 1..n
        BY <1>15, <3>2
      <3>3. CASE k = n
        <4>1. Version(n + 1)'.files = Version(n + 1).files
          BY <1>17, <1>18
        <4>2. QED  BY <1>15, <3>3, <4>1
      <3>4. QED  BY <3>1, <3>2, <3>3
    <2>2. AddedAt(k, g)
      BY <1>1 DEF Builds
    <2>3. QED  BY <1>20, <2>1, <2>2 DEF AddedAt
  <1>36. Builds(g)'
    <2>1. Numbers(g, n, BegunAt)
      BY <1>1 DEF Builds
    <2>2. Numbers(g, n, BegunAt)'
      BY <1>10, <2>1 DEF Numbers
    <2>3. QED  BY <1>1, <1>34, <1>35, <2>2 DEF Builds
  <1>37. Version(1)' = Version(1)
    <2>1. 1 \in 1..n
      BY <1>11
    <2>2. QED  BY <1>15, <2>1
  <1>38. QED  BY <1>9, <1>10, <1>16, <1>36, <1>37
\* AddToTables moves the frame on top.
LEMMA AddMoves ==
  ASSUME Types, FramesOK, AddToTables
  PROVE  /\ FramesOK' /\ Len(stack') = Len(stack) /\ DOMAIN stack' = DOMAIN stack
         /\ stack # <<>> /\ stack' # <<>> /\ Len(stack) \in LoadingAt /\ top.file \in File
         /\ stack'[Len(stack)].file = top.file /\ stack'[Len(stack)].k = 1
         /\ BegunAt' = BegunAt \cup {Len(stack)} /\ LoadingAt' = LoadingAt \ {Len(stack)}
         /\ \A n \in DOMAIN stack : n # Len(stack) => stack'[n] = stack[n]
         /\ top.file \in files => /\ stack'[Len(stack)].at = "finish"
                                  /\ stack'[Len(stack)].errors
  <1>1. /\ stack # <<>> /\ top \in Frames /\ top.file \in File /\ FrameOK(top) /\ db' = db
        /\ top.at = "load" /\ top = stack[Len(stack)] /\ Len(stack) \in DOMAIN stack
    BY TopFrame, TopOK DEF AddToTables, Loaded, Loading
  <1>2. top.k = 1
    BY <1>1 DEF FrameOK
  <1>3. PICK at \in {"link", "finish"}, e \in BOOLEAN :
          /\ stack' = Top([top EXCEPT !.at = at, !.errors = e])
          /\ at = "finish" => e
          /\ top.file \in files => at = "finish"
    BY Adds
  <1> DEFINE fr == [top EXCEPT !.at = at, !.errors = e]
  <1>4. /\ fr \in Frames /\ fr.file = top.file /\ fr.at = at /\ fr.errors = e /\ fr.k = 1
        /\ fr.i = top.i /\ fr.c = top.c
    BY <1>1, <1>2 DEF Frames
  <1>5. stack' = Top(fr)
    BY <1>3
  <1> HIDE DEF fr
  <1>6. FrameOK(fr)
    BY <1>1, <1>2, <1>3, <1>4 DEF FrameOK
  <1>7. /\ FramesOK' /\ Len(stack') = Len(stack) /\ DOMAIN stack' = DOMAIN stack
        /\ stack' # <<>> /\ stack'[Len(stack)] = fr
        /\ \A n \in DOMAIN stack : n # Len(stack) => stack'[n] = stack[n]
    BY <1>1, <1>4, <1>5, <1>6, TopMoves
  <1>8. BegunAt' = BegunAt \cup {Len(stack)} /\ LoadingAt' = LoadingAt \ {Len(stack)}
    BY <1>1, <1>3, <1>4, <1>7 DEF BegunAt, LoadingAt
  <1>9. Len(stack) \in LoadingAt
    BY <1>1 DEF LoadingAt
  <1>10. QED  BY <1>1, <1>3, <1>4, <1>7, <1>8, <1>9

\* The tables with a file that was new.
LEMMA AddedIsSound ==
  ASSUME Types, FramesOK, AddToTables, top.file \notin files, NEW v, NEW w, Points(v),
         v = [files |-> files, symbols |-> symbols, links |-> links],
         w = [files |-> files', symbols |-> symbols', links |-> links']
  PROVE  /\ Extends(v, w) /\ Points(w) /\ w.files = v.files \cup {top.file}
         /\ ~stack'[Len(stack)].errors => Complete(w, top.file, 1)
  <1> DEFINE f == top.file
             p == proto(f).package
  <1>1. f \in File /\ top = stack[Len(stack)] /\ stack # <<>>
    BY AddMoves, TopOK
  <1>2. /\ proto(f).imports \in Seq(File) /\ proto(f).defines \subseteq Symbol
        /\ p \in (Symbol \ proto(f).defines) \cup {None} /\ proto(f).refs \in Seq(Seq(Symbol) \ {<<>>})
        /\ None \notin Symbol
    BY <1>1, Protos, NoneOK
  <1>3. PICK types \in SUBSET proto(f).defines, package \in SUBSET ({p} \ {None}) :
          /\ files' = files \cup {f}
          /\ symbols' = [s \in Symbol |->
               IF s \in types THEN [file |-> f, package |-> FALSE]
               ELSE IF s \in package THEN [file |-> f, package |-> TRUE]
               ELSE symbols[s]]
          /\ links' = [links EXCEPT ![f] = LoadedImports(f)]
          /\ \A s \in package \cup types : s \in Symbol /\ symbols[s] = Undefined
          /\ \/ stack' = Top([top EXCEPT !.at = "finish", !.errors = TRUE])
             \/ stack' = Top([top EXCEPT !.at = "link", !.errors = TRUE])
             \/ /\ stack' = Top([top EXCEPT !.at = "link", !.errors = FALSE])
                /\ types = proto(f).defines
                /\ p # None => p \in package \/ (symbols[p] # Undefined /\ symbols[p].package)
                /\ ~proto(f).broken /\ MissingImports(f) = {}
    BY Adds
  <1>4. /\ v.files = files /\ v.symbols = symbols /\ v.links = links
        /\ w.files = files' /\ w.symbols = symbols' /\ w.links = links'
    OBVIOUS
  <1>5. \A s \in Symbol :
          \/ /\ w.symbols[s] = [file |-> f, package |-> FALSE] /\ s \in proto(f).defines
             /\ s \in types
          \/ /\ w.symbols[s] = [file |-> f, package |-> TRUE] /\ s = p
             /\ s \in package
          \/ w.symbols[s] = v.symbols[s] /\ s \notin types \cup package
    BY <1>3, <1>4
  <1>6. \A x \in File : w.links[x] = IF x = f THEN LoadedImports(f) ELSE v.links[x]
    BY <1>3, <1>4 DEF Types
  <1>7. v.links[f] = {}
    BY <1>1, <1>4 DEF Points
  <1>8. Extends(v, w)
    <2>1. \A s \in Symbol : v.symbols[s] # Undefined => w.symbols[s] = v.symbols[s]
      BY <1>3, <1>4
    <2>2. QED  BY <1>3, <1>4, <1>6, <1>7, <2>1 DEF Extends
  <1>9. Points(w)
    <2>1. ASSUME NEW s \in Symbol, w.symbols[s] # Undefined
          PROVE  /\ w.symbols[s].file \in w.files
                 /\ s \in IF w.symbols[s].package THEN {proto(w.symbols[s].file).package}
                                                  ELSE proto(w.symbols[s].file).defines
      <3>1. CASE w.symbols[s] = [file |-> f, package |-> FALSE] /\ s \in proto(f).defines
        BY <1>3, <1>4, <3>1
      <3>2. CASE w.symbols[s] = [file |-> f, package |-> TRUE] /\ s = p
        BY <1>3, <1>4, <3>2
      <3>3. CASE w.symbols[s] = v.symbols[s]
        BY <1>3, <1>4, <2>1, <3>3 DEF Points
      <3>4. QED  BY <1>5, <3>1, <3>2, <3>3
    <2>2. ASSUME NEW x \in File
          PROVE  /\ w.links[x] \subseteq (IF x \in w.files THEN w.files ELSE {})
                 /\ w.links[x] \subseteq {x} \cup ToSet(proto(x).imports)
      <3>1. CASE x = f
        BY <1>3, <1>4, <1>6, <3>1 DEF LoadedImports
      <3>2. CASE x # f
        BY <1>3, <1>4, <1>6, <3>2 DEF Points
      <3>3. QED  BY <3>1, <3>2
    <2>3. QED  BY <2>1, <2>2 DEF Points
  <1>10. ASSUME ~stack'[Len(stack)].errors
         PROVE  Complete(w, f, 1)
    <2>1. ASSUME NEW at, stack' = Top([top EXCEPT !.at = at, !.errors = TRUE])
          PROVE  FALSE
      <3>1. stack' = [stack EXCEPT ![Len(stack)] = [top EXCEPT !.at = at, !.errors = TRUE]]
        BY <2>1 DEF Top
      <3>2. Len(stack) \in DOMAIN stack /\ top \in Frames
        BY <1>1, TopFrame
      <3>3. stack'[Len(stack)] = [top EXCEPT !.at = at, !.errors = TRUE]
        BY <3>1, <3>2
      <3>4. stack'[Len(stack)].errors = TRUE
        BY <3>2, <3>3 DEF Frames
      <3>5. QED  BY <1>10, <3>4
    <2>2. /\ types = proto(f).defines
          /\ p # None => p \in package \/ (symbols[p] # Undefined /\ symbols[p].package)
          /\ ~proto(f).broken /\ MissingImports(f) = {}
      BY <1>3, <2>1
    <2>3. Whole(w, f)
      <3>1. \A s \in proto(f).defines : w.symbols[s] = [file |-> f, package |-> FALSE]
        BY <1>2, <1>3, <1>4, <2>2
      <3>2. ASSUME p # None
            PROVE  w.symbols[p].package
        <4>1. p \in Symbol /\ p \notin types
          BY <1>2, <2>2, <3>2
        <4>2. CASE p \in package
          BY <1>3, <1>4, <4>1, <4>2
        <4>3. CASE symbols[p] # Undefined /\ symbols[p].package
          BY <1>4, <1>8, <4>1, <4>3 DEF Extends
        <4>4. QED  BY <2>2, <3>2, <4>2, <4>3
      <3>3. QED  BY <3>1, <3>2 DEF Whole
    <2>4. Imported(w, f)
      BY <1>3, <1>4, <2>2 DEF Imported, MissingImports
    <2>5. Resolved(w, f, 1)
      BY <1>2 DEF Resolved
    <2>6. QED  BY <2>3, <2>4, <2>5 DEF Complete
  <1>11. QED  BY <1>3, <1>4, <1>8, <1>9, <1>10

\* The file that a frame adds is its own: what others have built is not touched.
LEMMA AddBuilds ==
  ASSUME Types, Types', FramesOK, MarksOK, NEW g, Builds(g), AddToTables
  PROVE  MarksOK' /\ Version(1)' = Version(1) /\ \E h : Builds(h)'
  <1> DEFINE f == top.file
  <1>1. PICK n : n = Len(checkpoints)
    OBVIOUS
  <1>2. /\ n \in Nat /\ Current = n + 1
        /\ \A k \in 1..n : g[k] \in BegunAt /\ g[k] \in DOMAIN stack
    BY <1>1, Begun DEF Current
  <1>3. db' = db /\ checkpoints' = Append(checkpoints, CheckPoint)
    BY Adds
  <1>4. /\ stack # <<>> /\ f \in File /\ Len(stack) \in LoadingAt
        /\ stack'[Len(stack)].file = f /\ stack'[Len(stack)].k = 1
        /\ BegunAt' = BegunAt \cup {Len(stack)}
        /\ \A m \in DOMAIN stack : m # Len(stack) => stack'[m] = stack[m]
        /\ f \in files => stack'[Len(stack)].at = "finish" /\ stack'[Len(stack)].errors
    BY AddMoves
  <1>5. SoundVersion(Current, g) /\ Points(Version(Current))
    <2>1. SoundVersion(Current, g)
      BY <1>2 DEF Builds
    <2>2. QED  BY <2>1 DEF SoundVersion
  <1>6. /\ Current' = n + 2 /\ MarksOK'
        /\ \A j \in 1..n + 1 : Version(j)' = Version(j)
    BY <1>2, <1>5, AddVersions
  <1>7. Len(checkpoints') = n + 1
    BY <1>2, <1>6 DEF Current
  <1>8. PICK h : /\ Numbers(h, n + 1, BegunAt') /\ h[n + 1] = Len(stack)
                 /\ \A k \in 1..n : h[k] = g[k]
    <2>1. Len(stack) \in Nat \ {0} /\ DOMAIN stack = 1..Len(stack)
      BY <1>4, TopFrame DEF FramesOK
    <2>2. BegunAt \in SUBSET (1..Len(stack) - 1)
      BY <1>4, <2>1 DEF BegunAt, LoadingAt
    <2>3. Numbers(g, n, BegunAt)
      BY <1>1 DEF Builds
    <2>4. \E h : /\ Numbers(h, n + 1, BegunAt \cup {Len(stack) - 1 + 1})
                 /\ h[n + 1] = Len(stack) - 1 + 1 /\ \A k \in 1..n : h[k] = g[k]
      <3>1. Len(stack) - 1 \in Nat
        BY <2>1
      <3>2. QED  BY <1>2, <2>2, <2>3, <3>1, NumbersPush
    <2>5. Len(stack) - 1 + 1 = Len(stack)
      BY <2>1
    <2>6. QED  BY <1>4, <2>4, <2>5
  <1>9. \A k \in 1..n : stack'[g[k]] = stack[g[k]] /\ Waits(g[k]) /\ h[k] = g[k]
    <2>1. \A k \in 1..n : g[k] # Len(stack)
      BY <1>2, <1>4 DEF BegunAt, LoadingAt
    <2>2. QED  BY <1>2, <1>4, <1>8, <2>1 DEF Waits
  <1>10. ASSUME NEW j \in 1..n + 1
         PROVE  SoundVersion(j, h)'
    <2>1. j \in Nat /\ SoundVersion(j, g)
      BY <1>2 DEF Builds
    <2>2. ASSUME NEW k \in 1..j - 1
          PROVE  k <= j - 1 /\ h[k] = g[k] /\ Version(k)' = Version(k) /\ Waits(g[k])
      <3>1. k \in 1..n /\ k \in 1..n + 1
        BY <1>2, <2>1
      <3>2. QED  BY <1>6, <1>9, <3>1
    <2>3. Version(j)' = Version(j)
      BY <1>6
    <2>4. QED  BY <1>3, <2>1, <2>2, <2>3, SoundStays
  <1>11. PICK v, w, last, next :
           /\ v = [files |-> files, symbols |-> symbols, links |-> links]
           /\ w = [files |-> files', symbols |-> symbols', links |-> links']
           /\ last = n + 1 /\ next = n + 2
    OBVIOUS
  <1>12. Version(last) = v /\ Version(next)' = w
    <2>1. Version(Current) = v
      BY <1>11, LastVersion
    <2>2. Version(Current)' = w
      BY <1>6, <1>11, NextLastVersion
    <2>3. QED  BY <1>2, <1>6, <1>11, <2>1, <2>2
  <1>13. SoundVersion(last, g) /\ last \in Nat /\ next \in Nat
    BY <1>2, <1>5, <1>11
  <1>14. 1..last - 1 = 1..n /\ 1..next - 1 = 1..n + 1
    BY <1>2, <1>11
  <1>15. ASSUME f \in files
         PROVE  SoundVersion(next, h)'
    <2>1. stack'[h[n + 1]].errors /\ stack'[h[n + 1]].at = "finish"
      BY <1>4, <1>8, <1>15
    <2>2. w = v
      BY <1>11, <1>15, Adds DEF tables
    <2>3. Version(next)' = Version(last)
      BY <1>12, <2>2
    <2>4. \A k \in 1..last - 1 :
            k <= next - 1 /\ h[k] = g[k] /\ Version(k)' = Version(k) /\ Waits(g[k])
      BY <1>2, <1>6, <1>9, <1>11, <1>14
    <2>5. \A k \in 1..next - 1 :
            \/ k <= last - 1 /\ h[k] = g[k] /\ Waits(g[k])
            \/ stack'[h[k]].errors
      BY <1>2, <1>9, <1>11, <1>14, <2>1
    <2>6. QED  BY <1>3, <1>13, <2>3, <2>4, <2>5, SoundStays
  <1>16. ASSUME f \notin files
         PROVE  SoundVersion(next, h)'
    <2>1. Points(v)
      BY <1>12, <1>13 DEF SoundVersion
    <2>2. /\ Extends(v, w) /\ Points(w) /\ w.files = v.files \cup {f}
          /\ ~stack'[Len(stack)].errors => Complete(w, f, 1)
      BY <1>11, <1>16, <2>1, AddedIsSound
    <2>3. \A x, k : Complete(w, x, k) => Complete(Version(next), x, k)'
      BY <1>3, <1>12 DEF Complete, Whole, Imported, Resolved, proto
    <2>4. \A x : Finished(x)' = Finished(x)
      BY <1>3 DEF Finished, proto
    <2>5. ASSUME NEW x \in File, NEW k, Complete(v, x, k)
          PROVE  Complete(Version(next), x, k)'
      BY <2>2, <2>3, <2>5, CompleteExtends
    <2>6. Points(Version(next))'
      BY <1>3, <1>12, <2>2 DEF Points, proto, Undefined
    <2>7. ASSUME NEW x \in Version(next)'.files
          PROVE  \/ Complete(Version(next), x, Finished(x))'
                 \/ \E k \in 1..next - 1 : x = stack'[h[k]].file /\ x \notin Version(k)'.files
      <3>1. n + 1 \in 1..n + 1 /\ Version(n + 1)' = v
        BY <1>2, <1>6, <1>11, <1>12
      <3>2. CASE x = f
        <4>1. x \notin v.files
          BY <1>11, <1>16, <3>2
        <4>2. x = stack'[h[n + 1]].file
          BY <1>4, <1>8, <3>2
        <4>3. QED  BY <1>14, <3>1, <4>1, <4>2
      <3>3. CASE x \in v.files /\ Complete(v, x, Finished(x))
        <4>1. x \in File
          BY <1>11, <3>3 DEF Types
        <4>2. QED  BY <2>4, <2>5, <3>3, <4>1
      <3>4. CASE \E k \in 1..n : x = stack[g[k]].file /\ x \notin Version(k).files
        <4>1. PICK k \in 1..n : x = stack[g[k]].file /\ x \notin Version(k).files
          BY <3>4
        <4>2. k \in 1..n + 1
          BY <1>2
        <4>3. x = stack'[h[k]].file /\ x \notin Version(k)'.files
          BY <1>6, <1>9, <4>1, <4>2
        <4>4. QED  BY <1>14, <4>2, <4>3
      <3>5. x = f \/ x \in v.files
        BY <1>12, <2>2
      <3>6. QED  BY <1>12, <1>13, <1>14, <3>2, <3>3, <3>4, <3>5 DEF SoundVersion
    <2>8. ASSUME NEW k \in 1..next - 1, ~stack'[h[k]].errors
          PROVE  Complete(Version(next), stack[h[k]].file, stack[h[k]].k)'
      <3>1. k \in 1..n \/ k = n + 1
        <4>1. k \in 1..n + 1
          BY <1>14
        <4>2. QED  BY <1>2, <4>1
      <3>2. CASE k = n + 1
        BY <1>4, <1>8, <2>2, <2>3, <2>8, <3>2
      <3>3. CASE k \in 1..n
        <4>1. stack'[h[k]] = stack[g[k]] /\ stack[g[k]] \in Frames
          BY <1>2, <1>9, <3>3, ElementOfSeq DEF FramesOK
        <4>2. Complete(v, stack[g[k]].file, stack[g[k]].k)
          BY <1>12, <1>13, <1>14, <2>8, <3>3, <4>1 DEF SoundVersion
        <4>3. stack[g[k]].file \in File
          BY <4>1 DEF Frames
        <4>4. PICK x, m : x \in File /\ x = stack[g[k]].file /\ m = stack[g[k]].k
          BY <4>3
        <4>5. Complete(Version(next), x, m)'
          BY <2>5, <4>2, <4>4
        <4>6. QED  BY <4>1, <4>4, <4>5
      <3>4. QED  BY <3>1, <3>2, <3>3
    <2>9. QED  BY <2>6, <2>7, <2>8 DEF SoundVersion
  <1>17. \A j \in 1..Current' : SoundVersion(j, h)'
    <2>1. \A j \in 1..n + 2 : j \in 1..n + 1 \/ j = next
      BY <1>2, <1>11
    <2>2. QED  BY <1>6, <1>10, <1>15, <1>16, <2>1
  <1>18. ASSUME NEW k \in 1..n + 1
         PROVE  AddedAt(k, h)'
    <2>1. CASE k \in 1..n
      <3>1. k \in 1..n + 1 /\ k + 1 \in 1..n + 1
        BY <1>2, <2>1
      <3>2. Version(k)' = Version(k) /\ Version(k + 1)' = Version(k + 1)
        BY <1>6, <3>1
      <3>3. AddedAt(k, g)
        BY <1>1, <2>1 DEF Builds
      <3>4. QED  BY <1>9, <2>1, <3>2, <3>3 DEF AddedAt
    <2>2. CASE k = n + 1
      <3>1. ASSUME f \notin files
            PROVE  f \notin Version(k)'.files /\ f \in Version(k + 1)'.files
        <4>1. Version(k)' = v /\ Version(k + 1)' = w
          BY <1>2, <1>6, <1>11, <1>12, <2>2
        <4>2. f \in files'
          BY <3>1, Adds
        <4>3. QED  BY <1>11, <3>1, <4>1, <4>2
      <3>2. QED  BY <1>4, <1>8, <2>2, <3>1 DEF AddedAt
    <2>3. QED  BY <1>2, <2>1, <2>2
  <1>19. Builds(h)'
    BY <1>7, <1>8, <1>17, <1>18 DEF Builds
  <1>20. Version(1)' = Version(1)
    <2>1. 1 \in 1..n + 1
      BY <1>2
    <2>2. QED  BY <1>6, <2>1
  <1>21. QED  BY <1>6, <1>19, <1>20
\* A build that is done goes back to its caller.
LEMMA CallerMoves ==
  ASSUME Types, FramesOK, stack # <<>>, top.at # "load", db' = db,
         NEW outcome \in {"built", "failed"}, stack' = Caller(outcome)
  PROVE  /\ FramesOK' /\ Len(stack') = Len(stack) - 1
         /\ BegunAt' = BegunAt \ {Len(stack)} /\ LoadingAt' = LoadingAt
         /\ \A m \in BegunAt \ {Len(stack)} : Waits(m)
  <1> DEFINE below == Front(stack)
  <1>1. PICK n : n = Len(below)
    OBVIOUS
  <1>2. /\ stack \in Seq(Frames) /\ Len(stack) = n + 1 /\ n \in Nat
        /\ below \in Seq(Frames) /\ DOMAIN stack = 1..n + 1 /\ DOMAIN below = 1..n
        /\ \A m \in 1..n : below[m] = stack[m]
    <2>1. stack \in Seq(Frames)
      BY DEF FramesOK
    <2>2. /\ below \in Seq(Frames) /\ Len(below) = Len(stack) - 1
          /\ \A m \in 1..Len(stack) - 1 : below[m] = stack[m]
      BY <2>1, FrontIs
    <2> HIDE DEF below
    <2>3. Len(stack) \in Nat /\ Len(below) \in Nat
      BY <2>1, <2>2
    <2>4. QED  BY <1>1, <2>1, <2>2, <2>3
  <1>3. top = stack[n + 1]
    BY <1>2 DEF top
  <1>4. CASE n = 0
    <2>1. stack' = <<>>
      BY <1>1, <1>4 DEF Caller
    <2>2. FramesOK'
      BY <2>1 DEF FramesOK
    <2>3. BegunAt' = {} /\ LoadingAt' = {}
      BY <2>1 DEF BegunAt, LoadingAt
    <2>4. BegunAt \ {Len(stack)} = {} /\ LoadingAt = {}
      BY <1>2, <1>3, <1>4 DEF BegunAt, LoadingAt
    <2>5. Len(stack') = Len(stack) - 1
      BY <1>2, <1>4, <2>1
    <2>6. QED  BY <2>2, <2>3, <2>4, <2>5
  <1>5. CASE n # 0
    <2>1. n \in 1..n /\ below[n] \in Frames /\ FrameOK(below[n]) /\ below[n] = stack[n]
      <3>1. n \in 1..n /\ n \in 1..n + 1
        BY <1>2, <1>5
      <3>2. below[n] = stack[n] /\ FrameOK(stack[n])
        BY <1>2, <3>1 DEF FramesOK
      <3>3. stack[n] \in Frames
        BY <1>2, <3>1, ElementOfSeq
      <3>4. QED  BY <3>1, <3>2, <3>3
    <2>2. PICK fr \in Frames :
            /\ stack' = [below EXCEPT ![n] = fr]
            /\ FrameOK(fr) /\ fr.file = below[n].file /\ fr.at = below[n].at /\ fr.k = below[n].k
            /\ fr.errors = below[n].errors
      <3>1. CASE below[n].at = "load"
        <4> DEFINE fr == [below[n] EXCEPT !.i = @ + 1]
        <4>1. stack' = [below EXCEPT ![n] = fr]
          BY <1>1, <1>5, <3>1 DEF Caller
        <4>2. below[n].i + 1 \in Nat \ {0}
          BY <2>1 DEF Frames
        <4>3. /\ fr \in Frames /\ fr.file = below[n].file /\ fr.at = below[n].at
              /\ fr.k = below[n].k /\ fr.errors = below[n].errors /\ fr.c = below[n].c
              /\ fr.i # 0
          BY <2>1, <4>2 DEF Frames
        <4> HIDE DEF fr, below
        <4>4. FrameOK(fr)
          BY <2>1, <4>3 DEF FrameOK
        <4>5. QED  BY <4>1, <4>3, <4>4
      <3>2. CASE below[n].at # "load"
        <4> DEFINE fr == [below[n] EXCEPT !.tried = outcome]
        <4>1. stack' = [below EXCEPT ![n] = fr]
          BY <1>1, <1>5, <3>2 DEF Caller
        <4>2. /\ fr \in Frames /\ fr.file = below[n].file /\ fr.at = below[n].at
              /\ fr.k = below[n].k /\ fr.errors = below[n].errors /\ fr.c = below[n].c
              /\ fr.i = below[n].i
          BY <2>1 DEF Frames
        <4> HIDE DEF fr, below
        <4>3. FrameOK(fr)
          BY <2>1, <4>2 DEF FrameOK
        <4>4. QED  BY <4>1, <4>2, <4>3
      <3>3. QED  BY <3>1, <3>2
    <2> HIDE DEF below
    <2>3. /\ stack' \in Seq(Frames) /\ Len(stack') = n /\ DOMAIN stack' = 1..n
          /\ \A m \in 1..n : stack'[m] = IF m = n THEN fr ELSE stack[m]
      <3>1. /\ stack' \in Seq(Frames) /\ Len(stack') = Len(below)
            /\ \A m \in 1..Len(below) : stack'[m] = IF m = n THEN fr ELSE below[m]
        BY <1>1, <1>2, <2>1, <2>2, ExceptSeq
      <3>2. QED  BY <1>1, <1>2, <3>1
    <2>4. FramesOK'
      <3>1. ASSUME NEW m \in DOMAIN stack'
            PROVE  FrameOK(stack[m])'
        <4>1. FrameOK(stack'[m])
          <5>1. m \in DOMAIN stack
            BY <1>2, <2>3
          <5>2. QED  BY <2>2, <2>3, <5>1 DEF FramesOK
        <4>2. QED  BY <4>1 DEF FrameOK, proto
      <3>2. db.kind = "none" => Len(stack') <= 1
        BY <1>2, <2>3 DEF FramesOK
      <3>3. QED  BY <2>3, <3>1, <3>2 DEF FramesOK
    <2>5. \A m \in 1..n : /\ Waits(m) /\ stack'[m].at = stack[m].at
      BY <2>1, <2>2, <2>3 DEF Waits
    <2>6. BegunAt' = BegunAt \ {Len(stack)} /\ LoadingAt' = LoadingAt
      <3>1. \A m : m \in 1..n + 1 <=> (m \in 1..n \/ m = n + 1)
        BY <1>2
      <3>2. n + 1 \notin 1..n
        BY <1>2
      <3>3. QED  BY <1>2, <1>3, <2>3, <2>5, <3>1, <3>2 DEF BegunAt, LoadingAt
    <2>7. \A m \in BegunAt \ {Len(stack)} : Waits(m)
      BY <1>2, <2>5 DEF BegunAt
    <2>8. Len(stack') = Len(stack) - 1
      BY <1>2, <2>3
    <2>9. QED  BY <2>4, <2>6, <2>7, <2>8
  <1>6. QED  BY <1>4, <1>5

\* The frame that is done has the last checkpoint, and takes it along.
LEMMA LastCheckpoint ==
  ASSUME Types, FramesOK, NEW g, Builds(g), Built, db' = db,
         NEW outcome \in {"built", "failed"}, stack' = Caller(outcome)
  PROVE  /\ stack # <<>> /\ top.at # "load" /\ top.file \in File
         /\ Len(checkpoints) \in Nat \ {0} /\ checkpoints # <<>>
         /\ Current = Len(checkpoints) + 1
         /\ g[Len(checkpoints)] = Len(stack) /\ top = stack[Len(stack)]
         /\ \A k \in 1..Len(checkpoints) - 1 : Waits(g[k])
         /\ Numbers([a \in 1..Len(checkpoints) - 1 |-> g[a]], Len(checkpoints) - 1, BegunAt')
  <1>1. stack # <<>> /\ top.at # "load"
    BY DEF Built
  <1>2. /\ Len(checkpoints) \in Nat \ {0} /\ g[Len(checkpoints)] = Len(stack)
        /\ \A k \in 1..Len(checkpoints) - 1 : g[k] \in BegunAt \ {Len(stack)}
        /\ Numbers([a \in 1..Len(checkpoints) - 1 |-> g[a]], Len(checkpoints) - 1,
                   BegunAt \ {Len(stack)})
    BY <1>1, TopHasLast DEF Builds
  <1>3. BegunAt' = BegunAt \ {Len(stack)} /\ \A m \in BegunAt \ {Len(stack)} : Waits(m)
    BY <1>1, CallerMoves
  <1>4. checkpoints # <<>>
    BY <1>2
  <1>5. QED  BY <1>1, <1>2, <1>3, <1>4, TopFrame, TopOK DEF Current

\* A file on top that has no errors is complete as far as its names were resolved.
LEMMA TopIsComplete ==
  ASSUME Types, FramesOK, NEW g, Builds(g), stack # <<>>, top.at # "load", ~top.errors
  PROVE  /\ Complete(Version(Current), top.file, top.k)
         /\ Built => Complete(Version(Current), top.file, Finished(top.file))
  <1>1. PICK n, last : n = Len(checkpoints) /\ last = Current
    OBVIOUS
  <1>2. /\ n \in Nat \ {0} /\ last = n + 1 /\ g[n] = Len(stack)
    BY <1>1, TopHasLast DEF Builds, Current
  <1>3. 1..last - 1 = 1..n /\ last \in 1..Current /\ n \in 1..last - 1
    BY <1>1, <1>2
  <1>4. stack[g[n]] = top
    BY <1>2 DEF top
  <1>5. SoundVersion(last, g)
    BY <1>3 DEF Builds
  <1>6. Complete(Version(last), top.file, top.k)
    BY <1>3, <1>4, <1>5 DEF SoundVersion
  <1>7. Built => top.k = Finished(top.file)
    <2>1. FrameOK(top) /\ top \in Frames /\ top.file \in File
      BY TopOK, TopFrame
    <2>2. proto(top.file).refs \in Seq(Seq(Symbol) \ {<<>>})
      BY <2>1, Protos
    <2>3. Len(proto(top.file).refs) \in Nat /\ top.k \in 1..Len(proto(top.file).refs) + 1
      BY <2>1, <2>2 DEF FrameOK
    <2>4. Built => ~ top.k <= Len(proto(top.file).refs)
      BY <2>1 DEF Built, Linking, FrameOK
    <2>5. QED  BY <2>3, <2>4 DEF Finished
  <1>8. QED  BY <1>1, <1>6, <1>7

LEMMA CommitBuilds ==
  ASSUME Types, Types', FramesOK, MarksOK, NEW g, Builds(g), Commit
  PROVE  /\ MarksOK' /\ \E h : Builds(h)'
         /\ Version(1).files \subseteq Version(1)'.files
  <1> DEFINE f == top.file
  <1>1. PICK n : n = Len(checkpoints)
    OBVIOUS
  <1> DEFINE h == [a \in 1..n - 1 |-> g[a]]
  <1>2. /\ db' = db /\ Built /\ ~top.errors /\ stack' = Caller("built")
        /\ ClearLastCheckpoint /\ UNCHANGED tables
    BY DEF Commit
  <1>3. /\ stack # <<>> /\ top.at # "load" /\ n \in Nat \ {0} /\ checkpoints # <<>>
        /\ Current = n + 1 /\ g[n] = Len(stack) /\ top = stack[Len(stack)] /\ f \in File
        /\ \A k \in 1..n - 1 : Waits(g[k])
        /\ Numbers(h, n - 1, BegunAt')
    BY <1>1, <1>2, LastCheckpoint
  <1>4. /\ Current' = n /\ MarksOK'
        /\ \A j \in 1..n : Version(j)' = IF j = n THEN Version(j + 1) ELSE Version(j)
    <2>1. /\ Current = Current' + 1 /\ MarksOK' /\ n = Current'
          /\ \A j \in 1..Current' :
               Version(j)' = IF j = Current' THEN Version(j + 1) ELSE Version(j)
      BY <1>1, <1>2, <1>3, CommitVersions
    <2>2. QED  BY <2>1
  <1>5. Len(checkpoints') = n - 1
    BY <1>3, <1>4 DEF Current, Types
  <1>6. Complete(Version(n + 1), f, Finished(f))
    BY <1>2, <1>3, TopIsComplete
  <1>7. ASSUME NEW j \in 1..n
        PROVE  SoundVersion(j, h)'
    <2>1. CASE j = n
      <3>1. PICK last : last = n + 1
        OBVIOUS
      <3>2. last \in 1..Current /\ last \in Nat /\ j \in Nat /\ 1..last - 1 = 1..n
        BY <1>3, <3>1
      <3>3. SoundVersion(last, g) /\ Version(j)' = Version(last)
        BY <1>4, <2>1, <3>1, <3>2 DEF Builds
      <3>4. ASSUME NEW k \in 1..last - 1
            PROVE  \/ k <= j - 1 /\ h[k] = g[k] /\ Version(k)' = Version(k) /\ Waits(g[k])
                   \/ Complete(Version(last), stack[g[k]].file, Finished(stack[g[k]].file))
        <4>1. CASE k = n
          BY <1>3, <1>6, <3>1, <4>1
        <4>2. CASE k \in 1..n - 1
          BY <1>3, <1>4, <2>1, <4>2
        <4>3. k \in 1..n
          BY <3>2
        <4>4. QED  BY <1>3, <4>1, <4>2, <4>3
      <3>5. \A k \in 1..j - 1 : k <= last - 1 /\ h[k] = g[k] /\ Waits(g[k])
        BY <1>3, <2>1, <3>1
      <3> HIDE DEF h
      <3>6. QED  BY <1>2, <3>2, <3>3, <3>4, <3>5, SoundStays
    <2>2. CASE j # n
      <3>1. j \in Nat /\ j \in 1..Current /\ j - 1 <= n - 1
        BY <1>3
      <3>2. SoundVersion(j, g) /\ Version(j)' = Version(j)
        BY <1>4, <2>2, <3>1 DEF Builds
      <3>3. \A k \in 1..j - 1 : k <= j - 1 /\ h[k] = g[k] /\ Version(k)' = Version(k) /\ Waits(g[k])
        <4>1. \A k \in 1..j - 1 : k \in 1..n - 1 /\ k \in 1..n /\ k # n /\ k <= j - 1
          BY <1>3
        <4>2. QED  BY <1>3, <1>4, <4>1
      <3> HIDE DEF h
      <3>4. QED  BY <1>2, <3>1, <3>2, <3>3, SoundStays
    <2>3. QED  BY <2>1, <2>2
  <1>8. ASSUME NEW j \in 1..n
        PROVE  Version(j).files \subseteq Version(j)'.files
    <2>1. CASE j = n
      <3>1. j \in 1..Current /\ j + 1 \in 1..Current /\ j <= j + 1
        BY <1>3
      <3>2. Version(j).files \subseteq Version(j + 1).files
        BY <3>1, VersionsGrow
      <3>3. QED  BY <1>4, <2>1, <3>2
    <2>2. QED  BY <1>4, <2>1
  <1>9. ASSUME NEW k \in 1..n - 1
        PROVE  AddedAt(k, h)'
    <2>1. k \in 1..n /\ k # n /\ k + 1 \in 1..n /\ h[k] = g[k] /\ k \in 1..Len(checkpoints)
      BY <1>1, <1>3
    <2>2. Version(k)' = Version(k) /\ Version(k + 1).files \subseteq Version(k + 1)'.files
      BY <1>4, <1>8, <2>1
    <2>3. AddedAt(k, g) /\ Waits(g[k])
      BY <1>3, <2>1 DEF Builds
    <2> HIDE DEF h
    <2>4. QED  BY <2>1, <2>2, <2>3 DEF AddedAt, Waits
  <1> HIDE DEF h
  <1>10. Builds(h)'
    BY <1>3, <1>4, <1>5, <1>7, <1>9 DEF Builds
  <1>11. QED  BY <1>3, <1>4, <1>8, <1>10

LEMMA RollbackBuilds ==
  ASSUME Types, Types', FramesOK, MarksOK, NEW g, Builds(g), Rollback
  PROVE  /\ MarksOK' /\ \E h : Builds(h)' /\ Version(1)' = Version(1)
         /\ files' = files \ FilesSince(Len(checkpoints))
  <1>1. PICK n : n = Len(checkpoints)
    OBVIOUS
  <1> DEFINE h == [a \in 1..n - 1 |-> g[a]]
  <1>2. /\ db' = db /\ Built /\ top.errors /\ stack' = Caller("failed")
        /\ RollbackToLastCheckpoint
    BY DEF Rollback
  <1>3. /\ n \in Nat \ {0} /\ checkpoints # <<>> /\ Current = n + 1
        /\ \A k \in 1..n - 1 : Waits(g[k])
        /\ Numbers(h, n - 1, BegunAt')
    BY <1>1, <1>2, LastCheckpoint
  <1>4. /\ Current' = n /\ MarksOK' /\ \A j \in 1..n : Version(j)' = Version(j)
        /\ files' = files \ FilesSince(Len(checkpoints))
    <2>1. /\ MarksOK' /\ n = Current' /\ \A j \in 1..Current' : Version(j)' = Version(j)
          /\ files' = files \ FilesSince(Len(checkpoints))
      BY <1>1, <1>2, <1>3, RollbackVersions
    <2>2. QED  BY <2>1
  <1>5. Len(checkpoints') = n - 1
    BY <1>3, <1>4 DEF Current, Types
  <1>6. ASSUME NEW j \in 1..n
        PROVE  SoundVersion(j, h)'
    <2>1. j \in Nat /\ j \in 1..Current /\ j - 1 <= n - 1
      BY <1>3
    <2>2. SoundVersion(j, g) /\ Version(j)' = Version(j)
      BY <1>4, <2>1 DEF Builds
    <2>3. \A k \in 1..j - 1 : k <= j - 1 /\ h[k] = g[k] /\ Version(k)' = Version(k) /\ Waits(g[k])
      <3>1. \A k \in 1..j - 1 : k \in 1..n - 1 /\ k \in 1..n /\ k <= j - 1
        BY <1>3
      <3>2. QED  BY <1>3, <1>4, <3>1
    <2> HIDE DEF h
    <2>4. QED  BY <1>2, <2>1, <2>2, <2>3, SoundStays
  <1>7. ASSUME NEW k \in 1..n - 1
        PROVE  AddedAt(k, h)'
    <2>1. k \in 1..n /\ k + 1 \in 1..n /\ h[k] = g[k] /\ k \in 1..Len(checkpoints)
      BY <1>1, <1>3
    <2>2. Version(k)' = Version(k) /\ Version(k + 1)' = Version(k + 1)
      BY <1>4, <2>1
    <2>3. AddedAt(k, g) /\ Waits(g[k])
      BY <1>3, <2>1 DEF Builds
    <2> HIDE DEF h
    <2>4. QED  BY <2>1, <2>2, <2>3 DEF AddedAt, Waits
  <1> HIDE DEF h
  <1>8. Builds(h)'
    BY <1>3, <1>4, <1>5, <1>6, <1>7 DEF Builds
  <1>9. QED  BY <1>3, <1>4, <1>8

\* A new frame: it has not begun, and its callers wait.
LEMMA PushMoves ==
  ASSUME Types, FramesOK, db' = db, NEW f \in File, NEW via \in Symbol \cup {None},
         stack' = Append(stack, Frame(f, via)), db.kind = "none" => stack = <<>>
  PROVE  /\ FramesOK' /\ Len(stack') = Len(stack) + 1 /\ stack' # <<>>
         /\ BegunAt' = BegunAt /\ LoadingAt' = LoadingAt \cup {Len(stack) + 1}
         /\ LoadingAt \in SUBSET (1..Len(stack))
         /\ \A m \in BegunAt : Waits(m)
  <1>1. PICK n \in Nat : n = Len(stack)
    BY DEF FramesOK
  <1>2. stack \in Seq(Frames) /\ DOMAIN stack = 1..n
    BY <1>1 DEF FramesOK
  <1>3. /\ Frame(f, via) \in Frames /\ Frame(f, via).at = "load" /\ Frame(f, via).file = f
        /\ Frame(f, via).i = 1 /\ Frame(f, via).k = 1 /\ Frame(f, via).c = 1
    BY DEF Frame, Frames
  <1>4. FrameOK(Frame(f, via))
    <2>1. proto(f).refs \in Seq(Seq(Symbol) \ {<<>>})
      BY Protos
    <2>2. 1 \in 1..Len(proto(f).refs) + 1
      BY <2>1
    <2>3. ASSUME 1 <= Len(proto(f).refs)
          PROVE  1 \in 1..Len(proto(f).refs[1])
      <3>1. proto(f).refs[1] \in Seq(Symbol) \ {<<>>}
        BY <2>1, <2>3
      <3>2. QED  BY <3>1
    <2>4. QED  BY <1>3, <2>2, <2>3 DEF FrameOK
  <1>5. /\ stack' \in Seq(Frames) /\ Len(stack') = n + 1 /\ DOMAIN stack' = 1..n + 1
        /\ stack'[n + 1] = Frame(f, via) /\ \A m \in 1..n : stack'[m] = stack[m]
    <2>1. /\ stack' \in Seq(Frames) /\ Len(stack') = n + 1
          /\ stack'[n + 1] = Frame(f, via) /\ \A m \in 1..n : stack'[m] = stack[m]
      BY <1>1, <1>2, <1>3, AppendProperties
    <2>2. QED  BY <2>1
  <1>6. \A m \in 1..n + 1 : m \in 1..n \/ m = n + 1
    BY <1>1
  <1>7. \A m \in 1..n : m \in 1..n + 1
    BY <1>1
  <1>8. n + 1 \notin 1..n /\ n + 1 \in 1..n + 1
    BY <1>1
  <1>9. FramesOK'
    <2>1. ASSUME NEW m \in DOMAIN stack'
          PROVE  FrameOK(stack[m])'
      <3>1. FrameOK(stack'[m])
        BY <1>2, <1>4, <1>5, <1>6 DEF FramesOK
      <3>2. QED  BY <3>1 DEF FrameOK, proto
    <2>2. db.kind = "none" => Len(stack') <= 1
      <3>1. stack = <<>> => n = 0
        BY <1>1
      <3>2. QED  BY <1>5, <3>1
    <2>3. QED  BY <1>5, <2>1, <2>2 DEF FramesOK
  <1>10. BegunAt' = BegunAt /\ LoadingAt' = LoadingAt \cup {n + 1}
    BY <1>2, <1>3, <1>5, <1>6, <1>7, <1>8 DEF BegunAt, LoadingAt
  <1>11. \A m \in BegunAt : Waits(m)
    BY <1>2, <1>5 DEF BegunAt, Waits
  <1>12. LoadingAt \in SUBSET (1..n) /\ stack' # <<>>
    <2>1. Len(stack') # 0
      BY <1>1, <1>5
    <2>2. QED  BY <1>2, <2>1 DEF LoadingAt
  <1>13. QED  BY <1>1, <1>5, <1>9, <1>10, <1>11, <1>12

LEMMA NextImportMoves ==
  ASSUME Types, FramesOK, db' = db, Loading, stack' = NextImport
  PROVE  /\ FramesOK' /\ Len(stack') = Len(stack) /\ stack' # <<>>
         /\ BegunAt' = BegunAt /\ LoadingAt' = LoadingAt /\ \A m \in BegunAt : Waits(m)
  <1>1. /\ stack # <<>> /\ top \in Frames /\ FrameOK(top) /\ top.at = "load"
        /\ top = stack[Len(stack)] /\ Len(stack) \in DOMAIN stack
    BY TopFrame, TopOK DEF Loading
  <1> DEFINE fr == [top EXCEPT !.i = @ + 1]
  <1>2. top.i + 1 \in Nat \ {0}
    BY <1>1 DEF Frames
  <1>3. /\ fr \in Frames /\ fr.file = top.file /\ fr.at = top.at /\ fr.k = top.k
        /\ fr.c = top.c /\ fr.errors = top.errors /\ fr.i # 0
    BY <1>1, <1>2 DEF Frames
  <1>4. stack' = Top(fr)
    BY DEF NextImport
  <1> HIDE DEF fr
  <1>5. FrameOK(fr)
    BY <1>1, <1>3 DEF FrameOK
  <1>6. /\ FramesOK' /\ Len(stack') = Len(stack) /\ DOMAIN stack' = DOMAIN stack
        /\ stack' # <<>> /\ stack'[Len(stack)] = fr
        /\ \A n \in DOMAIN stack : n # Len(stack) => stack'[n] = stack[n]
    BY <1>1, <1>3, <1>4, <1>5, TopMoves
  <1>7. BegunAt' = BegunAt /\ LoadingAt' = LoadingAt
    BY <1>1, <1>3, <1>6 DEF BegunAt, LoadingAt
  <1>8. \A m \in BegunAt : Waits(m)
    BY <1>1, <1>6 DEF BegunAt, Waits
  <1>9. QED  BY <1>6, <1>7, <1>8

-------------------------------------------------------------------------------
(* The files that are pending are those of the frames that load imports.      *)

LEMMA PendingStays ==
  ASSUME PendingOK, db' = db, pending_files' = pending_files, LoadingAt' = LoadingAt
  PROVE  PendingOK'
  BY DEF PendingOK, Numbers

LEMMA PendingGrows ==
  ASSUME Types, PendingOK, db' = db, db.kind # "none", NEW N \in Nat,
         LoadingAt \in SUBSET (1..N), LoadingAt' = LoadingAt \cup {N + 1}, NEW f \in File,
         pending_files' = Append(pending_files, f)
  PROVE  PendingOK'
  <1>1. PICK m \in Nat : m = Len(pending_files)
    BY DEF Types
  <1>2. Len(pending_files') = m + 1
    BY <1>1, AppendProperties DEF Types
  <1>3. PICK g : Numbers(g, m, LoadingAt)
    BY <1>1 DEF PendingOK
  <1>4. \E h : Numbers(h, m + 1, LoadingAt \cup {N + 1})
    BY <1>1, <1>3, NumbersPush
  <1>5. QED  BY <1>2, <1>4 DEF PendingOK, Numbers

LEMMA PendingShrinks ==
  ASSUME Types, FramesOK, PendingOK, db' = db, db.kind # "none", stack # <<>>,
         Len(stack) \in LoadingAt, LoadingAt' = LoadingAt \ {Len(stack)},
         pending_files' = Front(pending_files)
  PROVE  PendingOK' /\ pending_files # <<>>
  <1>1. PICK m \in Nat : m = Len(pending_files)
    BY DEF Types
  <1>2. PICK g : Numbers(g, m, LoadingAt)
    BY <1>1 DEF PendingOK
  <1>3. LoadingAt \in SUBSET Nat /\ \A x \in LoadingAt : x <= Len(stack)
    BY DEF FramesOK, LoadingAt
  <1>4. /\ m \in Nat \ {0}
        /\ Numbers([a \in 1..m - 1 |-> g[a]], m - 1, LoadingAt \ {Len(stack)})
    BY <1>2, <1>3, NumbersPop
  <1>5. Len(pending_files') = m - 1 /\ pending_files # <<>>
    <2>1. pending_files # <<>> /\ pending_files \in Seq(File)
      BY <1>1, <1>4 DEF Types
    <2>2. QED  BY <1>1, <2>1, FrontIs
  <1>6. \E h : Numbers(h, m - 1, LoadingAt \ {Len(stack)})
    BY <1>4
  <1>7. \E h : Numbers(h, Len(pending_files'), LoadingAt')
    BY <1>5, <1>6
  <1>8. QED  BY <1>5, <1>7 DEF PendingOK, Numbers

LEMMA NonePending ==
  ASSUME Types, PendingOK, stack = <<>>
  PROVE  pending_files = <<>>
  <1>1. LoadingAt = {}
    BY DEF LoadingAt
  <1>2. pending_files \in Seq(File) /\ Len(pending_files) \in Nat
    BY DEF Types
  <1>3. Len(pending_files) = 0 \/ pending_files = <<>>
    BY <1>1, <1>2, NumbersNone DEF PendingOK
  <1>4. QED  BY <1>2, <1>3

-------------------------------------------------------------------------------
(* Each step keeps the invariant.                                             *)

\* The variables of a build, and the pointers that callers have.
LEMMA CallersWait ==
  ASSUME CallersOK, UNCHANGED <<lookups, deferred, holder>>, files \subseteq files',
         Version(1).files \subseteq Version(1)'.files
  PROVE  CallersOK'
  BY DEF CallersOK, lookups

LEMMA HolderWaits ==
  ASSUME HolderOK, UNCHANGED <<lookups, holder>>
  PROVE  HolderOK'
  BY DEF HolderOK, lookups

\* What a step must show.
Kept == IInv' /\ Version(1).files \subseteq Version(1)'.files

LEMMA LoadImportStep ==
  ASSUME IInv, LoadImport
  PROVE  Kept
  <1>1. /\ Types /\ FramesOK /\ HolderOK /\ PendingOK /\ MarksOK /\ CallersOK
        /\ \E g : Builds(g)
    BY DEF IInv, BuildsOK
  <1>2. PICK g : Builds(g)
    BY <1>1
  <1> DEFINE f == proto(top.file).imports[top.i]
  <1>3. /\ UNCHANGED <<db, tables, marks, known_bad_symbols, holder, lookups, deferred>>
        /\ Loading /\ db.kind = "database" /\ top.i <= Len(proto(top.file).imports)
    BY DEF LoadImport
  <1>4. /\ stack # <<>> /\ top \in Frames /\ FrameOK(top) /\ top.file \in File
    BY <1>1, <1>3, TopFrame, TopOK DEF Loading
  <1>5. f \in File
    <2>1. proto(top.file).imports \in Seq(File)
      BY <1>1, <1>4, Protos
    <2>2. top.i \in 1..Len(proto(top.file).imports)
      BY <1>3, <1>4, <2>1 DEF Frames, FrameOK
    <2>3. QED  BY <2>1, <2>2, ElementOfSeq
  <1>6. /\ FramesOK' /\ stack' # <<>> /\ BegunAt' = BegunAt /\ \A m \in BegunAt : Waits(m)
        /\ PendingOK' /\ known_bad_files' \subseteq File /\ pending_files' \in Seq(File)
    <2>1. known_bad_files \subseteq File /\ pending_files \in Seq(File)
      BY <1>1 DEF Types
    <2>2. CASE /\ stack' = NextImport /\ pending_files' = pending_files
               /\ known_bad_files' \subseteq known_bad_files \cup {f}
      <3>1. /\ FramesOK' /\ stack' # <<>> /\ BegunAt' = BegunAt /\ LoadingAt' = LoadingAt
            /\ \A m \in BegunAt : Waits(m)
        BY <1>1, <1>3, <2>2, NextImportMoves
      <3>2. QED  BY <1>1, <1>3, <1>5, <2>1, <2>2, <3>1, PendingStays
    <2>3. CASE /\ stack' = Append(stack, Frame(f, None)) /\ known_bad_files' = known_bad_files
               /\ pending_files' = Append(pending_files, f)
      <3>1. /\ FramesOK' /\ stack' # <<>> /\ BegunAt' = BegunAt
            /\ LoadingAt' = LoadingAt \cup {Len(stack) + 1}
            /\ LoadingAt \in SUBSET (1..Len(stack))
            /\ \A m \in BegunAt : Waits(m)
        BY <1>1, <1>3, <1>5, <2>3, PushMoves
      <3>2. Len(stack) \in Nat
        BY <1>1 DEF FramesOK
      <3>3. PendingOK'
        BY <1>1, <1>3, <1>5, <2>3, <3>1, <3>2, PendingGrows
      <3>4. pending_files' \in Seq(File)
        BY <1>5, <2>1, <2>3, AppendProperties
      <3>5. QED  BY <2>1, <2>3, <3>1, <3>3, <3>4
    <2>4. QED  BY <2>2, <2>3 DEF LoadImport
  <1>7. Builds(g)' /\ MarksOK' /\ Version(1)' = Version(1)
    BY <1>1, <1>2, <1>3, <1>6, BuildsWait
  <1>8. Types'
    BY <1>1, <1>3, <1>4, <1>6 DEF Types, tables, marks, lookups, Undefined
  <1>9. HolderOK' /\ CallersOK'
    BY <1>1, <1>3, <1>7, HolderWaits, CallersWait DEF tables
  <1>10. QED  BY <1>6, <1>7, <1>8, <1>9 DEF Kept, IInv, BuildsOK

LEMMA AddToTablesTypes ==
  ASSUME Types, FramesOK, AddToTables, stack' # <<>>, pending_files' \in Seq(File)
  PROVE  Types'
  <1> DEFINE f == top.file
             p == proto(f).package
  <1>1. /\ db' = db /\ checkpoints' = Append(checkpoints, CheckPoint)
        /\ UNCHANGED <<known, holder, lookups, deferred>> /\ stack # <<>> /\ f \in File
    BY Adds, AddMoves DEF AddToTables
  <1>2. checkpoints' \in Seq([symbols : Nat, files : Nat])
    <2>1. checkpoints \in Seq([symbols : Nat, files : Nat])
      BY DEF Types
    <2>2. CheckPoint \in [symbols : Nat, files : Nat]
      BY DEF Types, CheckPoint
    <2>3. QED  BY <1>1, <2>1, <2>2, AppendProperties
  <1>3. /\ files \subseteq File /\ files_after_checkpoint \in Seq(File)
        /\ symbols_after_checkpoint \in Seq(Symbol)
        /\ symbols \in [Symbol -> [file : File, package : BOOLEAN] \cup {Undefined}]
        /\ links \in [File -> SUBSET File]
    BY DEF Types
  <1>4. /\ files' \subseteq File /\ files_after_checkpoint' \in Seq(File)
        /\ symbols_after_checkpoint' \in Seq(Symbol)
        /\ symbols' \in [Symbol -> [file : File, package : BOOLEAN] \cup {Undefined}]
        /\ links' \in [File -> SUBSET File]
    <2>1. CASE UNCHANGED <<tables, symbols_after_checkpoint, files_after_checkpoint>>
      BY <1>3, <2>1 DEF tables
    <2>2. CASE \E types \in SUBSET proto(f).defines, package \in SUBSET ({p} \ {None}) :
                 /\ files' = files \cup {f}
                 /\ files_after_checkpoint' = Append(files_after_checkpoint, f)
                 /\ symbols_after_checkpoint' =
                      symbols_after_checkpoint \o SetToSeq(package \cup types)
                 /\ symbols' = [s \in Symbol |->
                      IF s \in types THEN [file |-> f, package |-> FALSE]
                      ELSE IF s \in package THEN [file |-> f, package |-> TRUE]
                      ELSE symbols[s]]
                 /\ links' = [links EXCEPT ![f] = LoadedImports(f)]
                 /\ \A s \in package \cup types : s \in Symbol
      <3>1. PICK types \in SUBSET proto(f).defines, package \in SUBSET ({p} \ {None}) :
                 /\ files' = files \cup {f}
                 /\ files_after_checkpoint' = Append(files_after_checkpoint, f)
                 /\ symbols_after_checkpoint' =
                      symbols_after_checkpoint \o SetToSeq(package \cup types)
                 /\ symbols' = [s \in Symbol |->
                      IF s \in types THEN [file |-> f, package |-> FALSE]
                      ELSE IF s \in package THEN [file |-> f, package |-> TRUE]
                      ELSE symbols[s]]
                 /\ links' = [links EXCEPT ![f] = LoadedImports(f)]
                 /\ \A s \in package \cup types : s \in Symbol
        BY <2>2
      <3>2. IsFiniteSet(package \cup types)
        <4>1. IsFiniteSet(types)
          BY <1>1, Protos, FS_Subset
        <4>2. IsFiniteSet({p})
          BY FS_Singleton
        <4>3. package \in SUBSET {p}
          OBVIOUS
        <4>4. IsFiniteSet(package)
          BY <4>2, <4>3, FS_Subset
        <4>5. QED  BY <4>1, <4>4, FS_Union
      <3>3. SetToSeq(package \cup types) \in Seq(package \cup types)
        BY <3>2, SetToSeqIs
      <3>4. SetToSeq(package \cup types) \in Seq(Symbol)
        BY <3>1, <3>3, SeqMonotonic
      <3>5. symbols_after_checkpoint' \in Seq(Symbol) /\ files_after_checkpoint' \in Seq(File)
        BY <1>1, <1>3, <3>1, <3>4, ConcatProperties, AppendProperties
      <3>6. symbols' \in [Symbol -> [file : File, package : BOOLEAN] \cup {Undefined}]
        BY <1>1, <1>3, <3>1
      <3>7. LoadedImports(f) \subseteq File
        BY <1>3 DEF LoadedImports
      <3>8. links' \in [File -> SUBSET File] /\ files' \subseteq File
        BY <1>1, <1>3, <3>1, <3>7
      <3>9. QED  BY <3>5, <3>6, <3>8
    <2>3. QED  BY <2>1, <2>2, Adds
  <1>5. QED  BY <1>1, <1>2, <1>4 DEF Types, known, lookups, Undefined

LEMMA AddToTablesStep ==
  ASSUME IInv, AddToTables
  PROVE  Kept
  <1>1. /\ Types /\ FramesOK /\ HolderOK /\ PendingOK /\ MarksOK /\ CallersOK
        /\ \E g : Builds(g)
    BY DEF IInv, BuildsOK
  <1>2. PICK g : Builds(g)
    BY <1>1
  <1>3. /\ db' = db /\ UNCHANGED <<known, holder, lookups, deferred>>
        /\ pending_files' = IF db.kind = "none" THEN pending_files ELSE Front(pending_files)
    BY DEF AddToTables
  <1>4. /\ FramesOK' /\ stack # <<>> /\ stack' # <<>> /\ Len(stack) \in LoadingAt
        /\ LoadingAt' = LoadingAt \ {Len(stack)}
    BY <1>1, AddMoves
  <1>5. PendingOK' /\ pending_files' \in Seq(File)
    <2>1. pending_files \in Seq(File)
      BY <1>1 DEF Types
    <2>2. CASE db.kind = "none"
      BY <1>1, <1>3, <2>1, <2>2 DEF PendingOK
    <2>3. CASE db.kind # "none"
      <3>1. PendingOK' /\ pending_files # <<>>
        BY <1>1, <1>3, <1>4, <2>3, PendingShrinks
      <3>2. QED  BY <1>3, <2>1, <2>3, <3>1, FrontIs
    <2>4. QED  BY <2>2, <2>3
  <1>6. Types'
    BY <1>1, <1>4, <1>5, AddToTablesTypes
  <1>7. MarksOK' /\ Version(1)' = Version(1) /\ \E h : Builds(h)'
    BY <1>1, <1>2, <1>6, AddBuilds
  <1>8. files \subseteq files'
    BY <1>1, Adds DEF tables
  <1>9. HolderOK' /\ CallersOK'
    BY <1>1, <1>3, <1>7, <1>8, HolderWaits, CallersWait
  <1>10. QED  BY <1>4, <1>5, <1>6, <1>7, <1>9 DEF Kept, IInv, BuildsOK

\* Scopes that do not have the name.
LEMMA ScopeStep ==
  ASSUME IInv, Linking, stack' = NextScope, known_bad_files' \subseteq File,
         known_bad_symbols' \subseteq Symbol \cup {OptionType},
         UNCHANGED <<db, tables, marks, pending_files, holder, lookups, deferred>>
  PROVE  Kept
  <1>1. /\ Types /\ FramesOK /\ HolderOK /\ PendingOK /\ MarksOK /\ CallersOK
        /\ \E g : Builds(g)
    BY DEF IInv, BuildsOK
  <1>2. PICK g : Builds(g)
    BY <1>1
  <1>3. /\ FramesOK' /\ BegunAt' = BegunAt /\ LoadingAt' = LoadingAt
        /\ stack' # <<>> /\ stack # <<>> /\ \A m \in BegunAt : Waits(m)
    BY <1>1, NextScopeMoves DEF BegunAt, Linking
  <1>4. Builds(g)' /\ MarksOK' /\ Version(1)' = Version(1)
    BY <1>1, <1>2, <1>3, BuildsWait
  <1>5. Types'
    BY <1>1, <1>3 DEF Types, tables, marks, lookups, Undefined
  <1>6. PendingOK' /\ HolderOK' /\ CallersOK'
    BY <1>1, <1>3, <1>4, PendingStays, HolderWaits, CallersWait DEF tables
  <1>7. QED  BY <1>3, <1>4, <1>5, <1>6 DEF Kept, IInv, BuildsOK

LEMMA ResolveStep ==
  ASSUME IInv, Resolve
  PROVE  Kept
  <1>1. /\ Types /\ FramesOK /\ HolderOK /\ PendingOK /\ MarksOK /\ CallersOK
        /\ \E g : Builds(g)
    BY DEF IInv, BuildsOK
  <1>2. PICK g : Builds(g)
    BY <1>1
  <1>3. /\ UNCHANGED <<db, files, symbols, marks, pending_files, known, holder, lookups, deferred>>
        /\ Linking
    BY DEF Resolve
  <1>4. CASE ~Visible(name)
    <2>1. stack' = NextScope /\ UNCHANGED links
      BY <1>4 DEF Resolve
    <2>2. QED  BY <1>1, <1>3, <2>1, ScopeStep DEF tables, known, Types
  <1>5. CASE Visible(name)
    <2>1. /\ stack # <<>> /\ top.file \in File
      BY <1>1, <1>3, TopFrame DEF Linking
    <2>2. links' = [links EXCEPT ![top.file] = @ \cup {symbols[name].file}]
          /\ symbols[name].file \in {top.file} \cup links[top.file]
          /\ stack' = Top([top EXCEPT !.k = @ + 1, !.c = 1, !.tried = "no"])
      BY <1>5 DEF Resolve, Visible
    <2>3. links' \in [File -> SUBSET File]
      BY <1>1, <2>1, <2>2 DEF Types
    <2>4. stack' # <<>>
      <3>1. Len(stack) \in DOMAIN stack /\ DOMAIN stack' = DOMAIN stack
        BY <1>1, <2>1, <2>2, TopFrame DEF Top
      <3>2. QED  BY <3>1
    <2>5. Types'
      BY <1>1, <1>3, <2>1, <2>3, <2>4 DEF Types, marks, known, lookups, Undefined
    <2>6. /\ Builds(g)' /\ MarksOK' /\ Version(1)' = Version(1) /\ FramesOK'
          /\ LoadingAt' = LoadingAt
      BY <1>1, <1>2, <1>5, <2>5, ResolveBuilds
    <2>7. PendingOK' /\ HolderOK' /\ CallersOK'
      BY <1>1, <1>3, <2>6, PendingStays, HolderWaits, CallersWait
    <2>8. QED  BY <2>5, <2>6, <2>7 DEF Kept, IInv, BuildsOK
  <1>6. QED  BY <1>4, <1>5

LEMMA GiveUpScopeStep ==
  ASSUME IInv, GiveUpScope
  PROVE  Kept
  <1>1. /\ UNCHANGED <<db, tables, marks, pending_files, known, holder, lookups, deferred>>
        /\ Linking /\ stack' = NextScope
    BY DEF GiveUpScope
  <1>2. known_bad_files \subseteq File /\ known_bad_symbols \subseteq Symbol \cup {OptionType}
    BY DEF IInv, Types
  <1>3. QED  BY <1>1, <1>2, ScopeStep DEF known

LEMMA NameIs ==
  ASSUME Types, FramesOK, Linking
  PROVE  name \in Symbol /\ stack # <<>> /\ db.finds[name] \in File \cup {None}
  <1>1. /\ stack # <<>> /\ top \in Frames /\ top.file \in File /\ FrameOK(top)
        /\ top.k <= Len(proto(top.file).refs)
    BY TopFrame, TopOK DEF Linking
  <1>2. proto(top.file).refs \in Seq(Seq(Symbol) \ {<<>>})
    BY <1>1, Protos
  <1>3. top.k \in 1..Len(proto(top.file).refs) /\ top.c \in 1..Len(proto(top.file).refs[top.k])
    BY <1>1, <1>2 DEF FrameOK
  <1>4. proto(top.file).refs[top.k] \in Seq(Symbol)
    BY <1>2, <1>3
  <1>5. name \in Symbol
    BY <1>3, <1>4, ElementOfSeq DEF name
  <1>6. db.finds \in [Symbol -> File \cup {None}]
    BY DatabasesOK DEF Types, DatabaseOK
  <1>7. QED  BY <1>1, <1>5, <1>6

LEMMA BuildForSymbolStep ==
  ASSUME IInv, BuildForSymbol
  PROVE  Kept
  <1>1. /\ Types /\ FramesOK /\ HolderOK /\ PendingOK /\ MarksOK /\ CallersOK
        /\ \E g : Builds(g)
    BY DEF IInv, BuildsOK
  <1>2. PICK g : Builds(g)
    BY <1>1
  <1> DEFINE f == db.finds[name]
  <1>3. /\ UNCHANGED <<db, tables, marks, holder, lookups, deferred>>
        /\ Linking /\ db.kind = "database"
    BY DEF BuildForSymbol
  <1>4. name \in Symbol /\ stack # <<>> /\ f \in File \cup {None}
    BY <1>1, <1>3, NameIs
  <1>5. /\ known_bad_files \subseteq File /\ known_bad_symbols \subseteq Symbol \cup {OptionType}
        /\ pending_files \in Seq(File)
    BY <1>1 DEF Types
  <1>6. CASE /\ known_bad_symbols' = known_bad_symbols \cup {name}
             /\ known_bad_files' = known_bad_files \cup ({f} \cap ToSet(pending_files))
             /\ stack' = NextScope
             /\ UNCHANGED pending_files
    <2>1. ToSet(pending_files) \subseteq File
      BY <1>5, ToSetIs
    <2>2. /\ known_bad_files' \subseteq File /\ known_bad_symbols' \subseteq Symbol \cup {OptionType}
      BY <1>4, <1>5, <1>6, <2>1
    <2>3. QED  BY <1>3, <1>6, <2>2, ScopeStep
  <1>7. CASE /\ f \notin {None} \cup files \cup known_bad_files \cup ToSet(pending_files)
             /\ stack' = Append(stack, Frame(f, name))
             /\ pending_files' = Append(pending_files, f)
             /\ UNCHANGED known
    <2>1. f \in File
      BY <1>4, <1>7
    <2>2. /\ FramesOK' /\ stack' # <<>> /\ BegunAt' = BegunAt
          /\ LoadingAt' = LoadingAt \cup {Len(stack) + 1}
          /\ LoadingAt \in SUBSET (1..Len(stack))
          /\ \A m \in BegunAt : Waits(m)
      BY <1>1, <1>3, <1>4, <1>7, <2>1, PushMoves
    <2>3. Len(stack) \in Nat
      BY <1>1 DEF FramesOK
    <2>4. PendingOK'
      BY <1>1, <1>3, <1>7, <2>1, <2>2, <2>3, PendingGrows
    <2>5. Builds(g)' /\ MarksOK' /\ Version(1)' = Version(1)
      BY <1>1, <1>2, <1>3, <2>2, BuildsWait
    <2>6. pending_files' \in Seq(File)
      BY <1>5, <1>7, <2>1, AppendProperties
    <2>7. Types'
      BY <1>1, <1>3, <1>4, <1>7, <2>2, <2>6 DEF Types, tables, marks, known, lookups, Undefined
    <2>8. HolderOK' /\ CallersOK'
      BY <1>1, <1>3, <2>5, HolderWaits, CallersWait DEF tables
    <2>9. QED  BY <2>2, <2>4, <2>5, <2>7, <2>8 DEF Kept, IInv, BuildsOK
  <1>8. QED  BY <1>6, <1>7 DEF BuildForSymbol

\* While nobody builds there is one version: the tables.
OneVersion == stack = <<>> => Current = 1 /\ Version(1).files = files /\ checkpoints = <<>>

LEMMA OneVersionAlways == Types /\ MarksOK /\ BuildsOK => OneVersion
  <1> SUFFICES ASSUME Types, MarksOK, NEW g, Builds(g), stack = <<>>
               PROVE  Current = 1 /\ Version(1).files = files /\ checkpoints = <<>>
    BY DEF OneVersion, BuildsOK
  <1>1. BegunAt = {}
    BY DEF BegunAt
  <1>2. Len(checkpoints) \in Nat /\ checkpoints \in Seq([symbols : Nat, files : Nat])
    BY DEF Types
  <1>3. Len(checkpoints) = 0
    BY <1>1, <1>2, NumbersNone DEF Builds
  <1>4. Current = 1 /\ checkpoints = <<>>
    BY <1>2, <1>3 DEF Current
  <1>5. Version(1).files = files
    BY <1>4, LastVersion
  <1>6. QED  BY <1>4, <1>5

\* What a lookup answers is in the tables.
LookupOK == \A t \in Thread : want[t] \in Calls => Lookup(want[t]) \in files \cup {None}

LEMMA LookupAnswers ==
  ASSUME Types, MarksOK, NEW g, Builds(g)
  PROVE  LookupOK
  <1>1. Points(Version(Current))
    <2>1. Current \in 1..Current
      BY DEF Types, Current
    <2>2. SoundVersion(Current, g)
      BY <2>1 DEF Builds
    <2>3. QED  BY <2>2 DEF SoundVersion
  <1>2. \A s \in Symbol : symbols[s] # Undefined => symbols[s].file \in files
    BY <1>1, LastVersion DEF Points
  <1>3. \A s \in Symbol : symbols[s].file \in files \cup {None}
    BY <1>2 DEF Undefined
  <1>4. ASSUME NEW t \in Thread, want[t] \in Calls
        PROVE  Lookup(want[t]) \in files \cup {None}
    <2>1. CASE want[t].kind \in {"FindFileByName", "BuildFile"}
      BY <2>1 DEF Lookup
    <2>2. CASE want[t].kind \notin {"FindFileByName", "BuildFile"}
      <3>1. want[t].name \in Symbol
        BY <1>4, <2>2 DEF Calls
      <3>2. QED  BY <1>3, <2>2, <3>1 DEF Lookup
    <2>3. QED  BY <2>1, <2>2
  <1>5. QED  BY <1>4 DEF LookupOK

\* The end of a build, for the calls.
LEMMA Unlocks ==
  ASSUME Types, FramesOK, HolderOK, PendingOK, Built, db' = db, pending_files' = pending_files,
         NEW outcome \in {"built", "failed"}, stack' = Caller(outcome),
         NEW answer \in File \cup {None}, Unlock(answer)
  PROVE  /\ FramesOK' /\ HolderOK' /\ PendingOK' /\ holder \in Thread /\ want[holder] \in Calls
         /\ holder' \in Thread \cup {None} /\ (holder' = None <=> stack' = <<>>)
         /\ pc' \in [Thread -> {"idle", "cached", "lock", "validate", "return"}]
         /\ result' \in [Thread -> File \cup {None}] /\ want' = want /\ given' = given
         /\ \/ /\ stack' = <<>> /\ holder' = None
               /\ \A t \in Thread : result'[t] = IF t = holder THEN answer ELSE result[t]
            \/ holder' = holder /\ result' = result
  <1>1. /\ stack # <<>> /\ top.at # "load" /\ stack \in Seq(Frames) /\ Len(stack) \in Nat \ {0}
    BY DEF Built, FramesOK
  <1>2. /\ FramesOK' /\ Len(stack') = Len(stack) - 1 /\ LoadingAt' = LoadingAt
    BY <1>1, CallerMoves
  <1>3. PendingOK'
    BY <1>2, PendingStays
  <1>4. holder \in Thread /\ pc[holder] = "lock" /\ want[holder] \in Calls /\ holder # None
    BY <1>1, NoneOK DEF Types, HolderOK
  <1>5. stack' = <<>> <=> Len(stack) = 1
    <2>1. stack' \in Seq(Frames)
      BY <1>2 DEF FramesOK
    <2>2. stack' = <<>> <=> Len(stack') = 0
      BY <2>1
    <2>3. QED  BY <1>1, <1>2, <2>2
  <1>6. CASE Len(stack) = 1
    <2>1. /\ holder' = None /\ result' = [result EXCEPT ![holder] = answer]
          /\ pc' = [pc EXCEPT ![holder] = "validate"] /\ want' = want /\ given' = given
      BY <1>6 DEF Unlock
    <2>2. /\ pc' \in [Thread -> {"idle", "cached", "lock", "validate", "return"}]
          /\ result' \in [Thread -> File \cup {None}]
          /\ \A t \in Thread : result'[t] = IF t = holder THEN answer ELSE result[t]
      BY <1>4, <2>1 DEF Types
    <2>3. HolderOK'
      BY <1>4, <2>1 DEF HolderOK, Types
    <2>4. QED  BY <1>2, <1>3, <1>4, <1>5, <1>6, <2>1, <2>2, <2>3
  <1>7. CASE Len(stack) # 1
    <2>1. UNCHANGED <<holder, lookups>>
      BY <1>7 DEF Unlock
    <2>2. HolderOK'
      BY <2>1, HolderWaits
    <2>3. QED  BY <1>2, <1>3, <1>4, <1>5, <1>7, <2>1, <2>2 DEF lookups, Types
  <1>8. QED  BY <1>6, <1>7

LEMMA CommitStep ==
  ASSUME IInv, Commit
  PROVE  Kept
  <1>1. /\ Types /\ FramesOK /\ HolderOK /\ PendingOK /\ MarksOK /\ CallersOK
        /\ \E g : Builds(g)
    BY DEF IInv, BuildsOK
  <1>2. PICK g : Builds(g)
    BY <1>1
  <1>3. /\ UNCHANGED <<db, tables, pending_files, known>> /\ stack' = Caller("built")
        /\ Built /\ ~top.errors /\ ClearLastCheckpoint /\ Unlock(Lookup(want[holder]))
        /\ deferred' = IF proto(top.file).features = "none" THEN deferred
                       ELSE [deferred EXCEPT ![holder] = @ \cup {top.file}]
    BY DEF Commit
  <1>4. holder \in Thread /\ want[holder] \in Calls
    BY <1>1, <1>3, NoneOK DEF Types, HolderOK, Built
  <1>5. Lookup(want[holder]) \in files \cup {None} /\ files \subseteq File
    BY <1>1, <1>2, <1>4, LookupAnswers DEF LookupOK, Types
  <1>6. /\ FramesOK' /\ HolderOK' /\ PendingOK'
        /\ holder' \in Thread \cup {None} /\ (holder' = None <=> stack' = <<>>)
        /\ pc' \in [Thread -> {"idle", "cached", "lock", "validate", "return"}]
        /\ result' \in [Thread -> File \cup {None}] /\ want' = want /\ given' = given
        /\ \/ /\ stack' = <<>> /\ holder' = None
              /\ \A t \in Thread :
                   result'[t] = IF t = holder THEN Lookup(want[holder]) ELSE result[t]
           \/ holder' = holder /\ result' = result
    BY <1>1, <1>3, <1>5, Unlocks
  <1>7. /\ checkpoints # <<>> /\ Len(checkpoints) \in Nat \ {0} /\ Current = Len(checkpoints) + 1
        /\ g[Len(checkpoints)] = Len(stack) /\ top = stack[Len(stack)] /\ top.file \in File
    BY <1>1, <1>2, <1>3, LastCheckpoint
  <1>8. top.file \in files
    <2>1. FrameOK(top)
      BY <1>1, <1>3, TopOK DEF Built
    <2>2. top.at = "link"
      BY <1>3, <2>1 DEF FrameOK, Built
    <2>3. Len(checkpoints) \in 1..Len(checkpoints)
      BY <1>7
    <2>4. top.file \in Version(Current).files
      BY <1>2, <1>7, <2>2, <2>3 DEF Builds, AddedAt
    <2>5. QED  BY <1>1, <2>4, LastVersion
  <1>9. /\ checkpoints' \in Seq([symbols : Nat, files : Nat])
        /\ symbols_after_checkpoint' \in Seq(Symbol) /\ files_after_checkpoint' \in Seq(File)
    <2>1. /\ checkpoints \in Seq([symbols : Nat, files : Nat])
          /\ symbols_after_checkpoint \in Seq(Symbol) /\ files_after_checkpoint \in Seq(File)
      BY <1>1 DEF Types
    <2>2. checkpoints' \in Seq([symbols : Nat, files : Nat])
      BY <1>3, <1>7, <2>1, FrontIs DEF ClearLastCheckpoint
    <2>3. \/ symbols_after_checkpoint' = <<>> /\ files_after_checkpoint' = <<>>
          \/ /\ symbols_after_checkpoint' = symbols_after_checkpoint
             /\ files_after_checkpoint' = files_after_checkpoint
      BY <1>3 DEF ClearLastCheckpoint
    <2>4. symbols_after_checkpoint' \in Seq(Symbol) /\ files_after_checkpoint' \in Seq(File)
      <3>1. <<>> \in Seq(Symbol) /\ <<>> \in Seq(File)
        OBVIOUS
      <3>2. QED  BY <2>1, <2>3, <3>1, Zenon
    <2>5. QED  BY <2>2, <2>4
  <1>10. /\ deferred' \in [Thread -> SUBSET File]
         /\ \A t \in Thread : t # holder => deferred'[t] = deferred[t]
         /\ deferred'[holder] \subseteq deferred[holder] \cup {top.file}
    BY <1>1, <1>3, <1>4, <1>7 DEF Types
  <1>11. Types'
    BY <1>1, <1>3, <1>6, <1>9, <1>10 DEF Types, tables, known, Undefined
  <1>12. /\ MarksOK' /\ (\E h : Builds(h)') /\ Version(1).files \subseteq Version(1)'.files
    BY <1>1, <1>2, <1>11, CommitBuilds
  <1>13. stack' = <<>> => Version(1)'.files = files'
    <2>1. Types' /\ MarksOK' /\ BuildsOK' => OneVersion'
      BY OneVersionAlways, PTL
    <2>2. BuildsOK'
      BY <1>12 DEF BuildsOK
    <2>3. QED  BY <1>11, <1>12, <2>1, <2>2 DEF OneVersion
  <1>14. CallersOK'
    <2>1. files' = files /\ deferred[holder] \subseteq files
      BY <1>1, <1>3, <1>4 DEF tables, CallersOK
    <2>2. CASE stack' = <<>> /\ holder' = None
      BY <1>1, <1>4, <1>5, <1>6, <1>8, <1>10, <1>12, <1>13, <2>1, <2>2 DEF CallersOK
    <2>3. CASE holder' = holder /\ result' = result
      BY <1>1, <1>4, <1>6, <1>8, <1>10, <1>12, <2>1, <2>3 DEF CallersOK
    <2>4. QED  BY <1>6, <2>2, <2>3
  <1>15. QED  BY <1>6, <1>11, <1>12, <1>14 DEF Kept, IInv, BuildsOK

LEMMA RollbackStep ==
  ASSUME IInv, Rollback
  PROVE  Kept
  <1>1. /\ Types /\ FramesOK /\ HolderOK /\ PendingOK /\ MarksOK /\ CallersOK
        /\ \E g : Builds(g)
    BY DEF IInv, BuildsOK
  <1>2. PICK g : Builds(g)
    BY <1>1
  <1>3. /\ UNCHANGED <<db, pending_files>> /\ stack' = Caller("failed")
        /\ Built /\ RollbackToLastCheckpoint /\ Unlock(None)
        /\ known_bad_files' \subseteq known_bad_files \cup {top.file}
        /\ known_bad_symbols' = known_bad_symbols \cup ({top.via} \ {None})
    BY DEF Rollback
  <1>4. /\ FramesOK' /\ HolderOK' /\ PendingOK' /\ holder \in Thread
        /\ holder' \in Thread \cup {None} /\ (holder' = None <=> stack' = <<>>)
        /\ pc' \in [Thread -> {"idle", "cached", "lock", "validate", "return"}]
        /\ result' \in [Thread -> File \cup {None}] /\ want' = want /\ given' = given
        /\ \/ /\ stack' = <<>> /\ holder' = None
              /\ \A t \in Thread : result'[t] = IF t = holder THEN None ELSE result[t]
           \/ holder' = holder /\ result' = result
    BY <1>1, <1>3, Unlocks
  <1>5. PICK n : n = Len(checkpoints)
    OBVIOUS
  <1>6. /\ checkpoints # <<>> /\ n \in Nat \ {0} /\ Current = n + 1
        /\ top.file \in File /\ stack # <<>>
    BY <1>1, <1>2, <1>3, <1>5, LastCheckpoint
  <1>7. /\ Mark(n) = checkpoints[n] /\ n \in 1..Current
        /\ Mark(n).files \in 0..Len(files_after_checkpoint)
        /\ Mark(n).symbols \in 0..Len(symbols_after_checkpoint)
    <2>1. n \in 1..Len(checkpoints) /\ n \in 1..Current
      BY <1>5, <1>6
    <2>2. QED  BY <1>1, <2>1, MarksAreTyped DEF MarksTyped
  <1>8. /\ symbols' = Without(SymbolsSince(n)) /\ files' = files \ FilesSince(n)
        /\ links' = [f \in File |-> IF f \in FilesSince(n) THEN {} ELSE links[f]]
        /\ deferred' = [deferred EXCEPT ![holder] = @ \ FilesSince(n)]
        /\ symbols_after_checkpoint' = SubSeq(symbols_after_checkpoint, 1, Mark(n).symbols)
        /\ files_after_checkpoint' = SubSeq(files_after_checkpoint, 1, Mark(n).files)
        /\ checkpoints' = Front(checkpoints)
    BY <1>3, <1>5, <1>7 DEF RollbackToLastCheckpoint, FilesSince, SymbolsSince, StillDeferred
  <1>9. /\ checkpoints' \in Seq([symbols : Nat, files : Nat])
        /\ symbols_after_checkpoint' \in Seq(Symbol) /\ files_after_checkpoint' \in Seq(File)
    <2>1. /\ checkpoints \in Seq([symbols : Nat, files : Nat])
          /\ symbols_after_checkpoint \in Seq(Symbol) /\ files_after_checkpoint \in Seq(File)
      BY <1>1 DEF Types
    <2>2. checkpoints' \in Seq([symbols : Nat, files : Nat])
      BY <1>6, <1>8, <2>1, FrontIs
    <2>3. QED  BY <1>7, <1>8, <2>1, <2>2, Prefix
  <1>10. /\ files' \subseteq File
         /\ symbols' \in [Symbol -> [file : File, package : BOOLEAN] \cup {Undefined}]
         /\ links' \in [File -> SUBSET File]
    BY <1>1, <1>8 DEF Types, Without
  <1>11. /\ deferred' \in [Thread -> SUBSET File]
         /\ \A t \in Thread : t # holder => deferred'[t] = deferred[t]
         /\ deferred'[holder] = deferred[holder] \ FilesSince(n)
    BY <1>1, <1>4, <1>8 DEF Types
  <1>12. known_bad_files' \subseteq File /\ known_bad_symbols' \subseteq Symbol \cup {OptionType}
    <2>1. top.via \in Symbol \cup {None}
      BY <1>1, <1>6, TopFrame DEF Frames
    <2>2. QED  BY <1>1, <1>3, <1>6, <2>1 DEF Types
  <1>13. Types'
    BY <1>1, <1>3, <1>4, <1>9, <1>10, <1>11, <1>12 DEF Types, Undefined
  <1>14. MarksOK' /\ (\E h : Builds(h)') /\ Version(1)' = Version(1)
    BY <1>1, <1>2, <1>13, RollbackBuilds
  <1>15. stack' = <<>> => Version(1)'.files = files'
    <2>1. Types' /\ MarksOK' /\ BuildsOK' => OneVersion'
      BY OneVersionAlways, PTL
    <2>2. BuildsOK'
      BY <1>14 DEF BuildsOK
    <2>3. QED  BY <1>13, <1>14, <2>1, <2>2 DEF OneVersion
  <1>16. CallersOK'
    <2>1. Version(1).files \subseteq files'
      BY <1>14 DEF Version
    <2>2. deferred'[holder] \subseteq files'
      BY <1>1, <1>4, <1>8, <1>11 DEF CallersOK
    <2>3. \A t \in Thread : t # holder => deferred'[t] \subseteq Version(1)'.files
      BY <1>1, <1>11, <1>14 DEF CallersOK
    <2>4. \A t \in Thread : deferred'[t] \subseteq files'
      BY <1>14, <2>1, <2>2, <2>3
    <2>5. CASE stack' = <<>> /\ holder' = None
      BY <1>1, <1>4, <1>14, <1>15, <2>4, <2>5 DEF CallersOK
    <2>6. CASE holder' = holder /\ result' = result
      BY <1>1, <1>4, <1>14, <2>3, <2>4, <2>6 DEF CallersOK
    <2>7. QED  BY <1>4, <2>5, <2>6
  <1>17. QED  BY <1>4, <1>13, <1>14, <1>16 DEF Kept, IInv, BuildsOK

\* A step of a call, while no build goes on or next to one.
LEMMA CallStep ==
  ASSUME IInv, UNCHANGED <<db, tables, marks, pending_files, stack, holder>>, Types', HolderOK',
         given' \subseteq Version(1).files,
         \A t \in Thread : /\ result'[t] \in Version(1).files \cup {None}
                           /\ deferred'[t] \subseteq deferred[t]
  PROVE  Kept
  <1>1. /\ Types /\ FramesOK /\ HolderOK /\ PendingOK /\ MarksOK /\ CallersOK
        /\ \E g : Builds(g)
    BY DEF IInv, BuildsOK
  <1>2. PICK g : Builds(g)
    BY <1>1
  <1>3. FramesOK' /\ BegunAt' = BegunAt /\ LoadingAt' = LoadingAt
    BY <1>1 DEF FramesOK, FrameOK, proto, BegunAt, LoadingAt
  <1>4. Builds(g)' /\ MarksOK' /\ Version(1)' = Version(1)
    BY <1>1, <1>2, <1>3, BuildsWait DEF Waits
  <1>5. PendingOK'
    BY <1>1, <1>3, PendingStays
  <1>6. CallersOK'
    BY <1>1, <1>4 DEF CallersOK, tables
  <1>7. QED  BY <1>3, <1>4, <1>5, <1>6 DEF Kept, IInv, BuildsOK

\* A call that begins to build.
LEMMA BuildBegins ==
  ASSUME IInv, holder = None, UNCHANGED <<db, tables, marks, deferred, given, result>>,
         NEW f \in File, NEW via \in Symbol \cup {None}, stack' = <<Frame(f, via)>>,
         pending_files' = IF db.kind = "none" THEN pending_files ELSE <<f>>,
         Types', HolderOK'
  PROVE  Kept
  <1>1. /\ Types /\ FramesOK /\ HolderOK /\ PendingOK /\ MarksOK /\ CallersOK
        /\ \E g : Builds(g)
    BY DEF IInv, BuildsOK
  <1>2. PICK g : Builds(g)
    BY <1>1
  <1>3. stack = <<>>
    BY <1>1 DEF Types
  <1>4. stack' = Append(stack, Frame(f, via)) /\ Len(stack) = 0
    BY <1>3
  <1>5. /\ FramesOK' /\ BegunAt' = BegunAt /\ LoadingAt' = LoadingAt \cup {Len(stack) + 1}
        /\ LoadingAt \in SUBSET (1..Len(stack)) /\ \A m \in BegunAt : Waits(m)
    BY <1>1, <1>3, <1>4, PushMoves
  <1>6. PendingOK'
    <2>1. pending_files = <<>>
      BY <1>1, <1>3, NonePending
    <2>2. CASE db.kind = "none"
      BY <2>1, <2>2 DEF PendingOK
    <2>3. CASE db.kind # "none"
      <3>1. pending_files' = Append(pending_files, f)
        BY <2>1, <2>3
      <3>2. QED  BY <1>1, <1>4, <1>5, <2>3, <3>1, PendingGrows
    <2>4. QED  BY <2>2, <2>3
  <1>7. Builds(g)' /\ MarksOK' /\ Version(1)' = Version(1)
    BY <1>1, <1>2, <1>5, BuildsWait
  <1>8. CallersOK'
    BY <1>1, <1>7, NoneOK DEF CallersOK, tables
  <1>9. QED  BY <1>5, <1>6, <1>7, <1>8 DEF Kept, IInv, BuildsOK

\* While nobody builds, what a lookup answers is committed.
LEMMA AnswersAreCommitted ==
  ASSUME IInv, holder = None
  PROVE  /\ Version(1).files = files /\ stack = <<>>
         /\ \A t \in Thread : want[t] \in Calls => Lookup(want[t]) \in files \cup {None}
         /\ \A s \in Symbol : symbols[s].file \in files \cup {None}
  <1>1. /\ Types /\ MarksOK /\ BuildsOK
    BY DEF IInv
  <1>2. PICK g : Builds(g)
    BY <1>1 DEF BuildsOK
  <1>3. stack = <<>>
    BY <1>1 DEF Types
  <1>4. Version(1).files = files /\ Version(1) = Version(Current)
    BY <1>1, <1>3, OneVersionAlways DEF OneVersion
  <1>5. \A t \in Thread : want[t] \in Calls => Lookup(want[t]) \in files \cup {None}
    BY <1>1, <1>2, LookupAnswers DEF LookupOK
  <1>6. \A s \in Symbol : symbols[s].file \in files \cup {None}
    <2>1. Current \in 1..Current
      BY <1>1 DEF Types, Current
    <2>2. SoundVersion(Current, g)
      BY <1>2, <2>1 DEF Builds
    <2>3. \A s \in Symbol : symbols[s] # Undefined => symbols[s].file \in files
      BY <1>1, <2>2, LastVersion DEF SoundVersion, Points
    <2>4. QED  BY <2>3 DEF Undefined
  <1>7. QED  BY <1>3, <1>4, <1>5, <1>6

LEMMA CallBegins ==
  ASSUME IInv, NEW t \in Thread, NEW kind, NEW n, NEW at \in {"lock", "cached"},
         [kind |-> kind, name |-> n] \in Calls, at = "cached" => kind = "FindByName",
         Call(t, kind, n, at)
  PROVE  Kept
  <1>1. /\ Types /\ HolderOK /\ CallersOK
    BY DEF IInv
  <1>2. /\ pc[t] = "idle" /\ pc' = [pc EXCEPT ![t] = at]
        /\ want' = [want EXCEPT ![t] = [kind |-> kind, name |-> n]]
        /\ UNCHANGED <<db, tables, marks, pending_files, known, stack, holder, result, deferred,
                       given>>
    BY DEF Call
  <1>3. Types'
    BY <1>1, <1>2 DEF Types, tables, marks, known, Undefined
  <1>4. HolderOK'
    BY <1>1, <1>2 DEF HolderOK, Types
  <1>5. QED  BY <1>1, <1>2, <1>3, <1>4, CallStep DEF CallersOK

LEMMA FindCachedStep ==
  ASSUME IInv, NEW t \in Thread, FindCached(t)
  PROVE  Kept
  <1>1. /\ Types /\ HolderOK /\ CallersOK
    BY DEF IInv
  <1>2. /\ pc[t] = "cached" /\ want[t] \in Calls /\ want[t].kind = "FindByName"
        /\ UNCHANGED <<db, tables, marks, pending_files, known, stack, holder, want, calls,
                       deferred, given>>
        /\ holder = None
    BY <1>1 DEF FindCached, HolderOK, ReaderLock
  <1>3. want[t].name \in Symbol
    BY <1>2 DEF Calls
  <1>4. PICK answer \in files \cup {None}, next \in {"return", "lock"} :
          /\ result' = [result EXCEPT ![t] = answer] \/ result' = result
          /\ pc' = [pc EXCEPT ![t] = next]
    BY <1>2, <1>3, AnswersAreCommitted DEF FindCached
  <1>5. Types'
    BY <1>1, <1>2, <1>4 DEF Types, tables, marks, known, Undefined
  <1>6. HolderOK'
    BY <1>1, <1>2, <1>4 DEF HolderOK, Types
  <1>7. \A u \in Thread : result'[u] \in Version(1).files \cup {None}
    BY <1>1, <1>2, <1>4, AnswersAreCommitted DEF CallersOK, Types
  <1>8. QED  BY <1>1, <1>2, <1>5, <1>6, <1>7, CallStep DEF CallersOK

\* A lookup that does not build.
LEMMA AnswerStep ==
  ASSUME IInv, NEW t \in Thread, NEW answer \in Version(1).files \cup {None},
         Answer(t, answer), holder # t,
         UNCHANGED <<db, tables, marks, pending_files, stack, holder, given>>,
         want' \in [Thread -> Calls \cup {None}], want'[t] \in Calls,
         \A u \in Thread : u # t => want'[u] = want[u],
         known_bad_files' \subseteq File, known_bad_symbols' \subseteq Symbol \cup {OptionType},
         deferred' \in [Thread -> SUBSET File],
         \A u \in Thread : deferred'[u] \subseteq deferred[u]
  PROVE  Kept
  <1>1. /\ Types /\ HolderOK /\ CallersOK
    BY DEF IInv
  <1>2. /\ result' = [result EXCEPT ![t] = answer] /\ pc' = [pc EXCEPT ![t] = "return"]
    BY DEF Answer
  <1>3. answer \in File \cup {None}
    BY <1>1 DEF Types, Version
  <1>4. Types'
    BY <1>1, <1>2, <1>3 DEF Types, tables, marks, Undefined
  <1>5. HolderOK'
    BY <1>1, <1>2 DEF HolderOK, Types
  <1>6. \A u \in Thread : result'[u] \in Version(1).files \cup {None}
    BY <1>1, <1>2 DEF CallersOK, Types
  <1>7. QED  BY <1>1, <1>4, <1>5, <1>6, CallStep DEF CallersOK

LEMMA BuiltForIs ==
  ASSUME Types, NEW w \in Calls, w.kind # "BuildFile"
  PROVE  /\ BuiltFor(w) \in File \cup {None} /\ (db.kind = "none" => BuiltFor(w) = None)
         /\ IF ByName(w) THEN w.name \in File ELSE w.name \in Symbol
  <1>1. db.finds \in [Symbol -> File \cup {None}] /\ db.has \subseteq File
    BY DatabasesOK DEF Types, DatabaseOK
  <1>2. IF ByName(w) THEN w.name \in File ELSE w.name \in Symbol
    BY DEF Calls, ByName
  <1>3. QED  BY <1>1, <1>2 DEF BuiltFor, ByName

LEMMA LockingIs ==
  ASSUME IInv, NEW t \in Thread, Locking(t)
  PROVE  /\ Types /\ want[t] \in Calls /\ want[t].kind # "BuildFile" /\ holder = None /\ holder # t
         /\ Version(1).files = files /\ stack = <<>> /\ Lookup(want[t]) \in files \cup {None}
  <1>1. Types /\ HolderOK
    BY DEF IInv
  <1>2. want[t] \in Calls /\ want[t].kind # "BuildFile" /\ holder = None /\ holder # t
    BY <1>1, NoneOK DEF Locking, HolderOK
  <1>3. QED  BY <1>1, <1>2, AnswersAreCommitted

LEMMA FindLockedStep ==
  ASSUME IInv, NEW t \in Thread, FindLocked(t)
  PROVE  Kept
  <1>1. /\ Types /\ want[t] \in Calls /\ holder # t /\ Version(1).files = files
        /\ Lookup(want[t]) \in files \cup {None}
    BY LockingIs DEF FindLocked
  <1>2. /\ Answer(t, Lookup(want[t]))
        /\ UNCHANGED <<db, tables, marks, pending_files, stack, holder, want, calls, deferred,
                       given>>
        /\ known_bad_files' \subseteq known_bad_files
        /\ known_bad_symbols' \subseteq known_bad_symbols
    BY DEF FindLocked, Forget
  <1>3. /\ known_bad_files' \subseteq File /\ known_bad_symbols' \subseteq Symbol \cup {OptionType}
        /\ want' \in [Thread -> Calls \cup {None}] /\ deferred' \in [Thread -> SUBSET File]
    BY <1>1, <1>2 DEF Types
  <1>4. QED  BY <1>1, <1>2, <1>3, AnswerStep

LEMMA FindNothingStep ==
  ASSUME IInv, NEW t \in Thread, FindNothing(t)
  PROVE  Kept
  <1>1. /\ Types /\ want[t] \in Calls /\ want[t].kind # "BuildFile" /\ holder # t
    BY LockingIs DEF FindNothing
  <1>2. /\ Answer(t, None)
        /\ UNCHANGED <<db, tables, marks, pending_files, stack, holder, want, calls, deferred,
                       given>>
        /\ known_bad_files' \in
             {known_bad_files, IF ByName(want[t]) THEN {want[t].name} ELSE {}}
        /\ known_bad_symbols' \in
             {known_bad_symbols, IF ByName(want[t]) THEN {} ELSE {want[t].name}}
    BY DEF FindNothing, Forget
  <1>3. IF ByName(want[t]) THEN want[t].name \in File ELSE want[t].name \in Symbol
    BY <1>1, BuiltForIs
  <1>4. /\ known_bad_files' \subseteq File /\ known_bad_symbols' \subseteq Symbol \cup {OptionType}
        /\ want' \in [Thread -> Calls \cup {None}] /\ deferred' \in [Thread -> SUBSET File]
    BY <1>1, <1>2, <1>3 DEF Types
  <1>5. QED  BY <1>1, <1>2, <1>4, AnswerStep

LEMMA FindInDatabaseStep ==
  ASSUME IInv, NEW t \in Thread, FindInDatabase(t)
  PROVE  Kept
  <1> DEFINE f == BuiltFor(want[t])
             via == IF ByName(want[t]) THEN None ELSE want[t].name
  <1>1. /\ Types /\ want[t] \in Calls /\ want[t].kind # "BuildFile" /\ holder # t
        /\ holder = None /\ HolderOK /\ CallersOK /\ stack = <<>> /\ pc[t] = "lock"
    BY LockingIs DEF FindInDatabase, IInv, Locking
  <1>2. /\ f \in File /\ db.kind # "none"
        /\ IF ByName(want[t]) THEN want[t].name \in File ELSE want[t].name \in Symbol
    <2>1. f # None
      BY DEF FindInDatabase
    <2>2. /\ f \in File \cup {None} /\ (db.kind = "none" => f = None)
          /\ IF ByName(want[t]) THEN want[t].name \in File ELSE want[t].name \in Symbol
      BY <1>1, BuiltForIs
    <2> HIDE DEF f
    <2>3. QED  BY <2>1, <2>2
  <1>3. /\ UNCHANGED <<db, tables, marks, want, calls, deferred, given, result, pc>>
        /\ known_bad_files' = {} /\ known_bad_symbols' = {} /\ holder' = t
        /\ stack' = <<Frame(f, via)>> /\ pending_files' = <<f>>
    BY <1>2 DEF FindInDatabase, Forget
  <1>4. via \in Symbol \cup {None}
    BY <1>2
  <1> HIDE DEF f, via
  <1>5. stack' # <<>> /\ t # None /\ pending_files' \in Seq(File)
    BY <1>2, <1>3, NoneOK
  <1>6. Types'
    BY <1>1, <1>3, <1>5 DEF Types, tables, marks, Undefined
  <1>7. HolderOK'
    BY <1>1, <1>3 DEF HolderOK
  <1>8. QED  BY <1>1, <1>2, <1>3, <1>4, <1>6, <1>7, BuildBegins

LEMMA BuildFileStep ==
  ASSUME IInv, NEW t \in Thread, NEW f \in File, NEW matches \in BOOLEAN, BuildFile(t, f, matches)
  PROVE  Kept
  <1>1. /\ Types /\ HolderOK /\ CallersOK
    BY DEF IInv
  <1>2. /\ db.kind = "none" /\ \A u \in Thread : pc[u] = "idle"
        /\ want' = [want EXCEPT ![t] = [kind |-> "BuildFile", name |-> f]]
        /\ known_bad_files' = {} /\ known_bad_symbols' = {}
        /\ UNCHANGED <<db, tables, marks, pending_files, deferred, given>>
    BY DEF BuildFile
  <1>3. holder = None /\ holder # t /\ t # None
    BY <1>1, <1>2, NoneOK DEF HolderOK, Types
  <1>4. Version(1).files = files /\ stack = <<>>
    BY <1>3, AnswersAreCommitted
  <1>5. /\ want' \in [Thread -> Calls \cup {None}] /\ want'[t] \in Calls
        /\ \A u \in Thread : u # t => want'[u] = want[u]
    BY <1>1, <1>2 DEF Types, Calls
  <1>6. CASE f \in files /\ matches
    <2>1. Answer(t, f) /\ UNCHANGED <<stack, holder>>
      BY <1>6 DEF BuildFile
    <2>2. deferred' \in [Thread -> SUBSET File]
      BY <1>1, <1>2 DEF Types
    <2>3. QED  BY <1>2, <1>3, <1>4, <1>5, <1>6, <2>1, <2>2, AnswerStep
  <1>7. CASE ~(f \in files /\ matches)
    <2>1. /\ stack' = <<Frame(f, None)>> /\ holder' = t /\ pc' = [pc EXCEPT ![t] = "lock"]
          /\ UNCHANGED result
      BY <1>7 DEF BuildFile
    <2>2. stack' # <<>>
      BY <2>1
    <2>3. Types'
      BY <1>1, <1>2, <1>3, <1>5, <2>1, <2>2 DEF Types, tables, marks, Undefined
    <2>4. HolderOK'
      BY <1>1, <1>2, <1>5, <2>1 DEF HolderOK, Types
    <2>5. QED  BY <1>2, <1>3, <2>1, <2>3, <2>4, BuildBegins
  <1>8. QED  BY <1>6, <1>7

LEMMA ValidateStep ==
  ASSUME IInv, NEW t \in Thread, Validate(t)
  PROVE  Kept
  <1>1. /\ Types /\ HolderOK /\ CallersOK
    BY DEF IInv
  <1>2. /\ pc[t] = "validate" /\ deferred' = [deferred EXCEPT ![t] = {}]
        /\ UNCHANGED <<db, tables, marks, pending_files, stack, holder, want, calls, given>>
        /\ \/ UNCHANGED known
           \/ known_bad_files' = {} /\ known_bad_symbols' = {OptionType}
        /\ Answer(t, IF \E f \in deferred[t] : Invalid(f) THEN None ELSE result[t])
    BY DEF Validate
  <1>3. PICK answer \in Version(1).files \cup {None} : Answer(t, answer)
    BY <1>1, <1>2 DEF CallersOK
  <1>4. /\ holder # t /\ want[t] \in Calls
        /\ known_bad_files' \subseteq File /\ known_bad_symbols' \subseteq Symbol \cup {OptionType}
        /\ want' \in [Thread -> Calls \cup {None}] /\ deferred' \in [Thread -> SUBSET File]
        /\ \A u \in Thread : deferred'[u] \subseteq deferred[u]
    BY <1>1, <1>2, NoneOK DEF HolderOK, Types, known
  <1>5. QED  BY <1>2, <1>3, <1>4, AnswerStep

LEMMA ReturnStep ==
  ASSUME IInv, NEW t \in Thread, Return(t)
  PROVE  Kept
  <1>1. /\ Types /\ HolderOK /\ CallersOK
    BY DEF IInv
  <1>2. /\ pc[t] = "return" /\ pc' = [pc EXCEPT ![t] = "idle"]
        /\ given' = given \cup ({result[t]} \ {None})
        /\ want' = [want EXCEPT ![t] = None] /\ result' = [result EXCEPT ![t] = None]
        /\ UNCHANGED <<db, tables, marks, pending_files, known, stack, holder, deferred>>
    BY DEF Return
  <1>3. given' \subseteq Version(1).files /\ Version(1).files \subseteq File
    BY <1>1, <1>2 DEF CallersOK, Types, Version
  <1>4. Types'
    BY <1>1, <1>2, <1>3 DEF Types, tables, marks, known, Undefined
  <1>5. HolderOK'
    BY <1>1, <1>2, NoneOK DEF HolderOK, Types
  <1>6. \A u \in Thread : /\ result'[u] \in Version(1).files \cup {None}
                          /\ deferred'[u] \subseteq deferred[u]
    BY <1>1, <1>2 DEF CallersOK, Types
  <1>7. QED  BY <1>2, <1>3, <1>4, <1>5, <1>6, CallStep

-------------------------------------------------------------------------------
(* The theorems.                                                              *)

LEMMA InitSound ==
  ASSUME Init
  PROVE  IInv
  <1>1. /\ db \in Databases /\ files = {} /\ symbols = [s \in Symbol |-> Undefined]
        /\ links = [f \in File |-> {}] /\ checkpoints = <<>>
        /\ symbols_after_checkpoint = <<>> /\ files_after_checkpoint = <<>>
        /\ pending_files = <<>> /\ known_bad_files = {} /\ known_bad_symbols = {}
        /\ stack = <<>> /\ holder = None /\ pc = [t \in Thread |-> "idle"]
        /\ want = [t \in Thread |-> None] /\ result = [t \in Thread |-> None]
        /\ deferred = [t \in Thread |-> {}] /\ given = {}
    BY DEF Init
  <1>2. Types
    BY <1>1 DEF Types
  <1>3. FramesOK
    BY <1>1 DEF FramesOK
  <1>4. HolderOK
    BY <1>1 DEF HolderOK
  <1>5. BegunAt = {} /\ LoadingAt = {} /\ Len(checkpoints) = 0 /\ Current = 1
    BY <1>1 DEF BegunAt, LoadingAt, Current
  <1>6. Numbers(<<>>, 0, {})
    BY DEF Numbers
  <1>7. PendingOK
    BY <1>1, <1>5, <1>6 DEF PendingOK
  <1>8. MarksOK
    BY <1>1, <1>5 DEF MarksOK, Mark, CheckPoint
  <1>9. /\ Version(1).files = {} /\ Version(1).symbols = symbols /\ Version(1).links = links
    BY <1>1, <1>2, <1>5, <1>8, LastVersion
  <1>10. CallersOK
    BY <1>1, <1>9 DEF CallersOK
  <1>11. PICK one : one = 1
    OBVIOUS
  <1>12. SoundVersion(one, <<>>)
    <2>1. Points(Version(one))
      BY <1>1, <1>9, <1>11 DEF Points
    <2>2. Version(one).files = {} /\ 1..one - 1 = {}
      BY <1>9, <1>11
    <2>3. QED  BY <2>1, <2>2 DEF SoundVersion
  <1>13. \A j \in 1..Current : SoundVersion(j, <<>>)
    BY <1>5, <1>11, <1>12
  <1>14. \A k \in 1..Len(checkpoints) : AddedAt(k, <<>>)
    BY <1>5
  <1>15. Builds(<<>>)
    BY <1>5, <1>6, <1>13, <1>14 DEF Builds
  <1>16. BuildsOK
    BY <1>15 DEF BuildsOK
  <1>17. QED  BY <1>2, <1>3, <1>4, <1>7, <1>8, <1>10, <1>16 DEF IInv

LEMMA StepSound ==
  ASSUME IInv, [Next]_vars
  PROVE  Kept
  <1>1. CASE BuildStep
    BY <1>1, LoadImportStep, AddToTablesStep, ResolveStep, GiveUpScopeStep, BuildForSymbolStep,
       CommitStep, RollbackStep DEF BuildStep
  <1>2. ASSUME NEW t \in Thread, Progress(t)
        PROVE  Kept
    BY <1>2, FindCachedStep, FindLockedStep, FindNothingStep, FindInDatabaseStep, ValidateStep,
       ReturnStep DEF Progress
  <1>3. ASSUME NEW t \in Thread, NEW f \in File, FindFileByName(t, f)
        PROVE  Kept
    <2>1. [kind |-> "FindFileByName", name |-> f] \in Calls
      BY DEF Calls
    <2>2. QED  BY <1>3, <2>1, CallBegins DEF FindFileByName
  <1>4. ASSUME NEW t \in Thread, NEW s \in Symbol, FindFileContainingSymbol(t, s)
        PROVE  Kept
    <2>1. [kind |-> "FindFileContainingSymbol", name |-> s] \in Calls
      BY DEF Calls
    <2>2. QED  BY <1>4, <2>1, CallBegins DEF FindFileContainingSymbol
  <1>5. ASSUME NEW t \in Thread, NEW s \in Symbol, FindByName(t, s)
        PROVE  Kept
    <2>1. [kind |-> "FindByName", name |-> s] \in Calls
      BY DEF Calls
    <2>2. PICK at \in {"lock", "cached"} : Call(t, "FindByName", s, at)
      BY <1>5 DEF FindByName
    <2>3. QED  BY <2>1, <2>2, CallBegins
  <1>6. ASSUME NEW t \in Thread, NEW f \in File, NEW matches \in BOOLEAN, BuildFile(t, f, matches)
        PROVE  Kept
    BY <1>6, BuildFileStep
  <1>7. CASE UNCHANGED vars
    <2>1. /\ UNCHANGED <<db, tables, marks, pending_files, known, stack, holder, pc, want, result,
                         deferred, given>>
      BY <1>7 DEF vars, lookups
    <2>2. Types /\ HolderOK /\ CallersOK
      BY DEF IInv
    <2>3. Types' /\ HolderOK'
      BY <2>1, <2>2 DEF Types, HolderOK, tables, marks, known, Undefined
    <2>4. QED  BY <2>1, <2>2, <2>3, CallStep DEF CallersOK
  <1>8. CASE Rest
    BY <1>7, <1>8 DEF Rest
  <1>9. QED  BY <1>1, <1>2, <1>3, <1>4, <1>5, <1>6, <1>7, <1>8 DEF Next

\* In every state each checkpoint stands for tables that are sound: nothing in
\* them leads to a file that they do not have, and a file that is not complete
\* is one that is being built.
THEOREM Invariant == Spec => []IInv
  <1>1. Init => IInv
    BY InitSound
  <1>2. IInv /\ [Next]_vars => IInv'
    BY StepSound DEF Kept
  <1>3. QED  BY <1>1, <1>2, PTL DEF Spec

\* The variables have their types.
THEOREM TypesAlways == Spec => []Types
  <1>1. IInv => Types
    BY DEF IInv
  <1>2. QED  BY <1>1, Invariant, PTL

\* Nothing points to a file that a rollback erased, in the middle of a build
\* either: not a symbol, not a descriptor, not a validation that was put off.
THEOREM NoDanglingPointersAlways == Spec => []NoDanglingPointers
  <1>1. ASSUME IInv
        PROVE  NoDanglingPointers
    <2>1. /\ Types /\ MarksOK /\ CallersOK /\ BuildsOK
      BY <1>1 DEF IInv
    <2>2. PICK g : Builds(g)
      BY <2>1 DEF BuildsOK
    <2>3. Current \in 1..Current
      BY <2>1 DEF Types, Current
    <2>4. SoundVersion(Current, g)
      BY <2>2, <2>3 DEF Builds
    <2>5. Points(Version(Current))
      BY <2>4 DEF SoundVersion
    <2>6. /\ \A s \in Symbol : symbols[s] # Undefined => symbols[s].file \in files
          /\ \A f \in File : links[f] \subseteq (IF f \in files THEN files ELSE {})
      BY <2>1, <2>5, LastVersion DEF Points
    <2>7. QED  BY <2>1, <2>6 DEF NoDanglingPointers, CallersOK, Defined
  <1>2. QED  BY <1>1, Invariant, PTL

\* What callers have, and what calls will return, no rollback takes away.
THEOREM GivenIsCommittedAlways == Spec => []GivenIsCommitted
  <1>1. ASSUME IInv
        PROVE  GivenIsCommitted
    <2>1. Types /\ MarksOK /\ CallersOK
      BY <1>1 DEF IInv
    <2>2. QED  BY <2>1, FirstVersion DEF CallersOK, GivenIsCommitted
  <1>2. QED  BY <1>1, Invariant, PTL

\* What was added while no checkpoint is left stays in the pool.
THEOREM CommittedStaysAlways == Spec => CommittedStays
  <1>1. Types /\ MarksOK => FirstIsCommitted
    BY FirstVersionAlways
  <1>2. Types' /\ MarksOK' => FirstIsCommitted'
    BY FirstVersionAlways, PTL
  <1>3. IInv /\ [Next]_vars => [Committed \subseteq Committed']_vars
    <2>1. IInv /\ [Next]_vars => Kept
      BY StepSound
    <2>2. QED  BY <1>1, <1>2, <2>1 DEF Kept, IInv, FirstIsCommitted
  <1>4. QED  BY <1>3, Invariant, PTL DEF Spec, CommittedStays

\* When nobody builds, every checkpoint and list is cleared, and the tables hold
\* whole files, each with what it must import and with its names resolved.
THEOREM BuildsLeaveCompleteFilesAlways == Spec => []BuildsLeaveCompleteFiles
  <1>1. ASSUME IInv, holder = None
        PROVE  BuildsLeaveWholeFiles /\ FilesAreComplete
    <2>1. /\ Types /\ MarksOK /\ PendingOK /\ BuildsOK
      BY <1>1 DEF IInv
    <2>2. PICK g : Builds(g)
      BY <2>1 DEF BuildsOK
    <2>3. stack = <<>>
      BY <1>1, <2>1 DEF Types
    <2>4. Current = 1 /\ checkpoints = <<>>
      BY <2>1, <2>3, OneVersionAlways DEF OneVersion
    <2>5. pending_files = <<>>
      BY <2>1, <2>3, NonePending
    <2>6. symbols_after_checkpoint = <<>> /\ files_after_checkpoint = <<>>
      <3>1. Mark(1) = CheckPoint /\ Mark(1) = [symbols |-> 0, files |-> 0]
        BY <2>1, <2>4 DEF Mark, MarksOK
      <3>2. Len(symbols_after_checkpoint) = 0 /\ Len(files_after_checkpoint) = 0
        BY <3>1 DEF CheckPoint
      <3>3. QED  BY <2>1, <3>2 DEF Types
    <2>7. PICK one : one = 1
      OBVIOUS
    <2>8. SoundVersion(one, g) /\ 1..one - 1 = {} /\ one = Current
      BY <2>2, <2>4, <2>7 DEF Builds
    <2>9. /\ Version(one).files = files /\ Version(one).symbols = symbols
          /\ Version(one).links = links
      BY <2>1, <2>8, LastVersion
    <2>10. Points(Version(one)) /\ \A f \in files : Complete(Version(one), f, Finished(f))
      BY <2>8, <2>9 DEF SoundVersion
    <2>11. \A f \in files :
             /\ \A s \in proto(f).defines : symbols[s] = [file |-> f, package |-> FALSE]
             /\ proto(f).package # None => symbols[proto(f).package].package
      BY <2>9, <2>10 DEF Complete, Whole
    <2>12. \A s \in Symbol : Defined(s) =>
             /\ symbols[s].file \in files
             /\ s \in IF symbols[s].package THEN {proto(symbols[s].file).package}
                                            ELSE proto(symbols[s].file).defines
      BY <2>9, <2>10 DEF Points, Defined
    <2>13. ASSUME NEW f \in files
           PROVE  /\ ~proto(f).broken /\ ToSet(proto(f).imports) \ proto(f).weak \subseteq files
                  /\ \A i \in DOMAIN proto(f).refs : \E s \in ToSet(proto(f).refs[i]) :
                       symbols[s].file \in {f} \cup (links[f] \cap ToSet(proto(f).imports))
      <3>1. Imported(Version(one), f) /\ Resolved(Version(one), f, Finished(f))
        BY <2>10 DEF Complete
      <3>2. proto(f).refs \in Seq(Seq(Symbol) \ {<<>>})
        BY <2>1, Protos DEF Types
      <3>3. \A i \in DOMAIN proto(f).refs : i < Finished(f)
        BY <3>2 DEF Finished
      <3>4. QED  BY <2>9, <3>1, <3>3 DEF Imported, Resolved
    <2>14. BuildsLeaveWholeFiles
      BY <2>4, <2>5, <2>6, <2>11, <2>12 DEF BuildsLeaveWholeFiles
    <2>15. FilesAreComplete
      BY <2>13 DEF FilesAreComplete
    <2>16. QED  BY <2>14, <2>15
  <1>2. IInv => BuildsLeaveCompleteFiles
    BY <1>1 DEF BuildsLeaveCompleteFiles, BuildsLeaveWholeFiles, FilesAreComplete
  <1>3. QED  BY <1>2, Invariant, PTL

-------------------------------------------------------------------------------
(* What a database offers.  Levels are taken until nothing is added, which is *)
(* the case after as many steps as there are files.                           *)

Most == Cardinality(File)
IsLevels(d, g, m) == g = [n \in 0..m |-> IF n = 0 THEN {} ELSE Ready(d, g[n - 1])]

LEMMA LevelsExist ==
  ASSUME NEW d
  PROVE  \A m \in Nat : \E g : IsLevels(d, g, m)
  <1> DEFINE S == {m \in Nat : \E g : IsLevels(d, g, m)}
  <1>1. 0 \in S
    <2> DEFINE g == [n \in 0..0 |-> {}]
    <2>1. g = [n \in 0..0 |-> IF n = 0 THEN {} ELSE Ready(d, g[n - 1])]
      <3>1. \A n \in 0..0 : n = 0
        OBVIOUS
      <3>2. QED  BY <3>1
    <2>2. IsLevels(d, g, 0)
      BY <2>1 DEF IsLevels
    <2>3. QED  BY <2>2
  <1>2. ASSUME NEW m \in Nat, m \in S
        PROVE  m + 1 \in S
    <2>1. PICK g : IsLevels(d, g, m)
      BY <1>2
    <2> DEFINE h == [n \in 0..m + 1 |-> IF n = m + 1 THEN Ready(d, g[m]) ELSE g[n]]
    <2>2. ASSUME NEW n \in 0..m + 1
          PROVE  h[n] = IF n = 0 THEN {} ELSE Ready(d, h[n - 1])
      <3>1. CASE n = m + 1
        <4>1. n # 0 /\ n - 1 = m /\ m \in 0..m + 1 /\ m # m + 1
          BY <3>1
        <4>2. QED  BY <3>1, <4>1
      <3>2. CASE n # m + 1
        <4>1. n \in 0..m
          BY <3>2
        <4>2. g[n] = IF n = 0 THEN {} ELSE Ready(d, g[n - 1])
          BY <2>1, <4>1 DEF IsLevels
        <4>3. n # 0 => n - 1 \in 0..m + 1 /\ n - 1 # m + 1
          BY <4>1
        <4>4. QED  BY <3>2, <4>2, <4>3
      <3>3. QED  BY <3>1, <3>2
    <2>3. h = [n \in 0..m + 1 |-> h[n]]
      OBVIOUS
    <2> HIDE DEF h
    <2>4. IsLevels(d, h, m + 1)
      BY <2>2, <2>3 DEF IsLevels
    <2>5. QED  BY <2>4
  <1> HIDE DEF S
  <1>3. \A m \in Nat : m \in S
    BY <1>1, <1>2, SetInduction
  <1>4. QED  BY <1>3 DEF S

LEMMA LevelsAre ==
  ASSUME IsFiniteSet(File), NEW d
  PROVE  /\ Most \in Nat /\ Levels(d)[0] = {}
         /\ \A n \in 1..Most : Levels(d)[n] = Ready(d, Levels(d)[n - 1])
  <1>1. Most \in Nat
    BY FS_CardinalityType DEF Most
  <1>2. PICK g : IsLevels(d, g, Most)
    BY <1>1, LevelsExist
  <1>3. g = [n \in 0..Most |-> IF n = 0 THEN {} ELSE Ready(d, g[n - 1])]
    BY <1>2 DEF IsLevels
  <1>4. Levels(d) = [n \in 0..Most |-> IF n = 0 THEN {} ELSE Ready(d, Levels(d)[n - 1])]
    BY <1>3 DEF Levels, Most
  <1>5. QED
    <2>1. 0 \in 0..Most /\ \A n \in 1..Most : n \in 0..Most /\ n # 0
      BY <1>1
    <2>2. QED  BY <1>1, <1>4, <2>1

LEMMA ReadyGrows ==
  ASSUME NEW d, NEW S, NEW T, S \subseteq T
  PROVE  Ready(d, S) \subseteq Ready(d, T)
  BY DEF Ready

\* Levels grow.
LEMMA LevelsGrow ==
  ASSUME IsFiniteSet(File), NEW d
  PROVE  \A m, n \in 0..Most : m <= n => Levels(d)[m] \subseteq Levels(d)[n]
  <1>1. /\ Most \in Nat /\ Levels(d)[0] = {}
        /\ \A n \in 1..Most : Levels(d)[n] = Ready(d, Levels(d)[n - 1])
    BY LevelsAre
  <1> DEFINE L(n) == Levels(d)[n]
             S == {n \in Nat : n + 1 <= Most => L(n) \subseteq L(n + 1)}
  <1>2. \A n \in Nat : n \in S
    <2>1. 0 \in S
      BY <1>1
    <2>2. ASSUME NEW n \in Nat, n \in S
          PROVE  n + 1 \in S
      <3>1. SUFFICES ASSUME (n + 1) + 1 <= Most
                     PROVE  L(n + 1) \subseteq L((n + 1) + 1)
        OBVIOUS
      <3>2. L(n) \subseteq L(n + 1)
        BY <2>2, <1>1, <3>1
      <3>3. /\ n + 1 \in 1..Most /\ (n + 1) - 1 = n
            /\ (n + 1) + 1 \in 1..Most /\ ((n + 1) + 1) - 1 = n + 1
        BY <1>1, <3>1
      <3>4. L(n + 1) = Ready(d, L(n)) /\ L((n + 1) + 1) = Ready(d, L(n + 1))
        BY <1>1, <3>3
      <3>5. QED  BY <3>2, <3>4, ReadyGrows
    <2> HIDE DEF S
    <2>3. QED  BY <2>1, <2>2, SetInduction
  <1> DEFINE R == {k \in Nat : \A m \in Nat : m + k <= Most => L(m) \subseteq L(m + k)}
  <1>3. \A k \in Nat : k \in R
    <2>1. 0 \in R
      <3>1. \A m \in Nat : m + 0 = m
        OBVIOUS
      <3>2. QED  BY <3>1
    <2>2. ASSUME NEW k \in Nat, k \in R
          PROVE  k + 1 \in R
      <3>1. ASSUME NEW m \in Nat, m + (k + 1) <= Most
            PROVE  L(m) \subseteq L(m + (k + 1))
        <4>1. m + k \in Nat /\ m + k <= Most /\ (m + k) + 1 <= Most /\ (m + k) + 1 = m + (k + 1)
          BY <1>1, <3>1
        <4>2. L(m) \subseteq L(m + k)
          BY <2>2, <4>1
        <4>3. L(m + k) \subseteq L((m + k) + 1)
          BY <1>2, <4>1
        <4>4. QED  BY <4>1, <4>2, <4>3
      <3>2. QED  BY <3>1
    <2> HIDE DEF R
    <2>3. QED  BY <2>1, <2>2, SetInduction
  <1>4. ASSUME NEW m \in 0..Most, NEW n \in 0..Most, m <= n
        PROVE  L(m) \subseteq L(n)
    <2>1. n - m \in Nat /\ m \in Nat /\ m + (n - m) = n /\ m + (n - m) <= Most
      BY <1>1, <1>4
    <2>2. n - m \in R
      BY <1>3, <2>1
    <2>3. QED  BY <2>1, <2>2
  <1>5. QED  BY <1>4

LEMMA LevelsAreOffered ==
  ASSUME IsFiniteSet(File), NEW d, DatabaseOK(d), NEW n \in 0..Most
  PROVE  Levels(d)[n] \subseteq d.has /\ d.has \subseteq File /\ IsFiniteSet(Levels(d)[n])
  <1>1. /\ Most \in Nat /\ Levels(d)[0] = {}
        /\ \A k \in 1..Most : Levels(d)[k] = Ready(d, Levels(d)[k - 1])
    BY LevelsAre
  <1>2. Levels(d)[n] \subseteq d.has
    <2>1. n = 0 \/ n \in 1..Most
      BY <1>1
    <2>2. QED  BY <1>1, <2>1 DEF Ready
  <1>3. d.has \subseteq File
    BY DEF DatabaseOK
  <1>4. IsFiniteSet(Levels(d)[n])
    BY <1>2, <1>3, FS_Subset
  <1>5. QED  BY <1>2, <1>3, <1>4

\* As long as levels grow they have more and more files.
LEMMA LevelsStop ==
  ASSUME IsFiniteSet(File), NEW d, DatabaseOK(d)
  PROVE  Ready(d, Buildable(d)) \subseteq Buildable(d)
  <1> DEFINE L(n) == Levels(d)[n]
             S == {n \in Nat : n <= Most => \/ \E k \in Nat : k + 1 <= n /\ L(k) = L(k + 1)
                                            \/ n <= Cardinality(L(n))}
  <1>1. /\ Most \in Nat /\ L(0) = {}
        /\ \A n \in 1..Most : L(n) = Ready(d, L(n - 1))
    BY LevelsAre
  <1>2. Buildable(d) = L(Most)
    BY DEF Buildable, Most
  <1>3. \A n \in 0..Most : IsFiniteSet(L(n)) /\ L(n) \subseteq File /\ Cardinality(L(n)) \in Nat
    BY LevelsAreOffered, FS_CardinalityType
  <1>4. \A n \in Nat : n \in S
    <2>1. 0 \in S
      BY <1>1, <1>3
    <2>2. ASSUME NEW n \in Nat, n \in S
          PROVE  n + 1 \in S
      <3>1. SUFFICES ASSUME n + 1 <= Most, L(n) # L(n + 1), n <= Cardinality(L(n))
                     PROVE  n + 1 <= Cardinality(L(n + 1))
        <4>1. ASSUME n + 1 <= Most
              PROVE  n <= Most
          BY <1>1, <4>1
        <4>2. ASSUME NEW k \in Nat, k + 1 <= n
              PROVE  k + 1 <= n + 1
          BY <4>2
        <4>3. n + 1 <= n + 1
          OBVIOUS
        <4>4. QED  BY <2>2, <4>1, <4>2, <4>3
      <3>2. n \in 0..Most /\ n + 1 \in 0..Most /\ n <= n + 1
        BY <1>1, <3>1
      <3>3. L(n) \subseteq L(n + 1)
        BY <3>2, LevelsGrow
      <3>4. IsFiniteSet(L(n + 1)) /\ Cardinality(L(n)) \in Nat /\ Cardinality(L(n + 1)) \in Nat
        BY <1>3, <3>2
      <3>5. Cardinality(L(n)) < Cardinality(L(n + 1))
        BY <3>1, <3>3, <3>4, FS_Subset
      <3>6. QED  BY <3>1, <3>4, <3>5
    <2> HIDE DEF S
    <2>3. QED  BY <2>1, <2>2, SetInduction
  <1>5. \/ \E k \in Nat : k + 1 <= Most /\ L(k) = L(k + 1)
        \/ Most <= Cardinality(L(Most))
    <2>1. Most \in S /\ Most <= Most
      BY <1>1, <1>4
    <2>2. QED  BY <2>1
  <1> HIDE DEF S
  <1>6. CASE \E k \in Nat : k + 1 <= Most /\ L(k) = L(k + 1)
    <2>1. PICK k \in Nat : k + 1 <= Most /\ L(k) = L(k + 1)
      BY <1>6
    <2> DEFINE R == {j \in Nat : k + j <= Most => L(k + j) = L(k)}
    <2>2. 0 \in R
      OBVIOUS
    <2>3. ASSUME NEW j \in Nat, j \in R
          PROVE  j + 1 \in R
      <3>1. SUFFICES ASSUME k + (j + 1) <= Most
                     PROVE  L(k + (j + 1)) = L(k)
        OBVIOUS
      <3>2. /\ k + j <= Most /\ k + (j + 1) \in 1..Most /\ (k + (j + 1)) - 1 = k + j
            /\ k + 1 \in 1..Most /\ (k + 1) - 1 = k
        BY <1>1, <2>1, <3>1
      <3>3. L(k + j) = L(k)
        BY <2>3, <3>2
      <3>4. L(k + (j + 1)) = Ready(d, L(k + j)) /\ L(k + 1) = Ready(d, L(k))
        BY <1>1, <3>2
      <3>5. QED  BY <2>1, <3>3, <3>4
    <2> HIDE DEF R
    <2>4. \A j \in Nat : j \in R
      BY <2>2, <2>3, SetInduction
    <2>5. /\ Most - k \in Nat /\ k + (Most - k) = Most /\ Most <= Most
          /\ k + 1 \in 1..Most /\ (k + 1) - 1 = k
      BY <1>1, <2>1
    <2>6. L(Most) = L(k)
      <3>1. Most - k \in R
        BY <2>4, <2>5
      <3>2. QED  BY <2>5, <3>1 DEF R
    <2>7. Ready(d, L(k)) = L(k + 1)
      BY <1>1, <2>5
    <2>8. QED  BY <1>2, <2>1, <2>6, <2>7
  <1>7. CASE Most <= Cardinality(L(Most))
    <2>1. L(Most) \subseteq File /\ Cardinality(L(Most)) \in Nat /\ Most \in 0..Most
      BY <1>1, <1>3
    <2>2. L(Most) = File
      <3>1. Cardinality(L(Most)) <= Cardinality(File) /\ (Cardinality(File) = Cardinality(L(Most)) => File = L(Most))
        BY <2>1, FS_Subset
      <3>2. QED  BY <1>1, <1>7, <2>1, <3>1 DEF Most
    <2>3. Ready(d, Buildable(d)) \subseteq File
      BY DEF Ready, DatabaseOK
    <2>4. QED  BY <1>2, <2>2, <2>3
  <1>8. QED  BY <1>5, <1>6, <1>7

\* The files that can be built are those whose imports can be.
LEMMA BuildableIs ==
  ASSUME IsFiniteSet(File), NEW d, DatabaseOK(d)
  PROVE  /\ Buildable(d) \subseteq d.has /\ d.has \subseteq File
         /\ Buildable(d) = Ready(d, Buildable(d))
  <1>1. /\ Most \in Nat /\ Levels(d)[0] = {}
        /\ \A n \in 1..Most : Levels(d)[n] = Ready(d, Levels(d)[n - 1])
    BY LevelsAre
  <1>2. Buildable(d) = Levels(d)[Most] /\ Most \in 0..Most
    BY <1>1 DEF Buildable, Most
  <1>3. Buildable(d) \subseteq d.has /\ d.has \subseteq File
    BY <1>2, LevelsAreOffered
  <1>4. Buildable(d) \subseteq Ready(d, Buildable(d))
    <2>1. CASE Most = 0
      BY <1>1, <1>2, <2>1
    <2>2. CASE Most # 0
      <3>1. Most \in 1..Most /\ Most - 1 \in 0..Most /\ Most - 1 <= Most
        BY <1>1, <2>2
      <3>2. Levels(d)[Most - 1] \subseteq Levels(d)[Most]
        BY <1>2, <3>1, LevelsGrow
      <3>3. QED  BY <1>1, <1>2, <3>1, <3>2, ReadyGrows
    <2>3. QED  BY <2>1, <2>2
  <1>5. QED  BY <1>3, <1>4, LevelsStop

\* One file is on a lower level than another.
Below(d, a, b) == \E n \in 0..Most : a \in Levels(d)[n] /\ b \notin Levels(d)[n]

LEMMA ImportsAreBelow ==
  ASSUME IsFiniteSet(File), NEW d, DatabaseOK(d), NEW b \in Buildable(d),
         NEW a \in ToSet(d.proto[b].imports)
  PROVE  Below(d, a, b) /\ a \in Buildable(d)
  <1>1. /\ Most \in Nat /\ Levels(d)[0] = {}
        /\ \A n \in 1..Most : Levels(d)[n] = Ready(d, Levels(d)[n - 1])
    BY LevelsAre
  <1> DEFINE T == {n \in 0..Most : b \in Levels(d)[n]}
  <1>2. T \in SUBSET Nat /\ T # {}
    <2>1. Most \in T
      BY <1>1 DEF Buildable, Most
    <2>2. QED  BY <1>1, <2>1
  <1>3. PICK n \in T : \A m \in T : n <= m
    BY <1>2, LeastNatural
  <1>4. n \in 1..Most /\ n - 1 \in 0..Most /\ n - 1 \notin T
    <2>1. n # 0
      BY <1>1, <1>3
    <2>2. QED  BY <1>1, <1>3, <2>1
  <1>5. b \notin Levels(d)[n - 1]
    BY <1>4
  <1>6. a \in Levels(d)[n - 1]
    <2>1. b \in Ready(d, Levels(d)[n - 1])
      BY <1>1, <1>3, <1>4
    <2>2. QED  BY <2>1 DEF Ready
  <1>7. Most \in 0..Most /\ n - 1 <= Most
    BY <1>1, <1>4
  <1>8. a \in Buildable(d)
    BY <1>4, <1>6, <1>7, LevelsGrow DEF Buildable, Most
  <1>9. QED  BY <1>4, <1>5, <1>6, <1>8 DEF Below

LEMMA BelowIs ==
  ASSUME IsFiniteSet(File), NEW d, DatabaseOK(d)
  PROVE  /\ \A a : ~Below(d, a, a)
         /\ \A a, b : Below(d, a, b) => a \in Buildable(d)
         /\ \A a, b, c : Below(d, a, b) /\ Below(d, b, c) => Below(d, a, c)
  <1>1. Most \in Nat
    BY LevelsAre
  <1>2. ASSUME NEW a, NEW b, Below(d, a, b)
        PROVE  a \in Buildable(d)
    <2>1. PICK n \in 0..Most : a \in Levels(d)[n]
      BY <1>2 DEF Below
    <2>2. Most \in 0..Most /\ n <= Most
      BY <1>1
    <2>3. QED  BY <2>1, <2>2, LevelsGrow DEF Buildable, Most
  <1>3. ASSUME NEW a, NEW b, NEW c, Below(d, a, b), Below(d, b, c)
        PROVE  Below(d, a, c)
    <2>1. PICK m \in 0..Most : a \in Levels(d)[m] /\ b \notin Levels(d)[m]
      BY <1>3 DEF Below
    <2>2. PICK n \in 0..Most : b \in Levels(d)[n] /\ c \notin Levels(d)[n]
      BY <1>3 DEF Below
    <2>3. ~ n <= m
      BY <2>1, <2>2, LevelsGrow
    <2>4. m <= n
      BY <1>1, <2>3
    <2>5. QED  BY <2>1, <2>2, <2>4, LevelsGrow DEF Below
  <1>4. QED  BY <1>2, <1>3 DEF Below

-------------------------------------------------------------------------------
(* The frames after a step of the one on top.                                 *)

LEMMA TopFrames ==
  ASSUME FramesOK, FramesOK', stack # <<>>, NEW fr, stack' = Top(fr)
  PROVE  /\ Len(stack) \in Nat \ {0} /\ DOMAIN stack = 1..Len(stack)
         /\ Len(stack') = Len(stack) /\ DOMAIN stack' = DOMAIN stack
         /\ stack'[Len(stack)] = fr /\ top = stack[Len(stack)]
         /\ \A n \in DOMAIN stack : n # Len(stack) => stack'[n] = stack[n]
  <1>1. stack \in Seq(Frames) /\ stack' \in Seq(Frames)
    BY DEF FramesOK
  <1>2. /\ Len(stack) \in Nat \ {0} /\ DOMAIN stack = 1..Len(stack)
        /\ DOMAIN stack' = 1..Len(stack') /\ Len(stack') \in Nat
    BY <1>1
  <1>3. Len(stack) \in DOMAIN stack
    BY <1>2
  <1>4. /\ DOMAIN stack' = DOMAIN stack /\ stack'[Len(stack)] = fr
        /\ \A n \in DOMAIN stack : n # Len(stack) => stack'[n] = stack[n]
    BY <1>3 DEF Top
  <1>5. Len(stack') = Len(stack)
    <2>1. Len(stack) \in 1..Len(stack') /\ (Len(stack') # 0 => Len(stack') \in 1..Len(stack))
      BY <1>2, <1>3, <1>4
    <2>2. PICK m \in Nat, n \in Nat : m = Len(stack) /\ n = Len(stack')
      BY <1>2
    <2>3. m \in 1..n /\ (n # 0 => n \in 1..m)
      BY <2>1, <2>2
    <2>4. m = n
      BY <2>3
    <2>5. QED  BY <2>2, <2>4
  <1>6. QED  BY <1>2, <1>4, <1>5 DEF top

LEMMA PushFrames ==
  ASSUME FramesOK, NEW fr \in Frames, stack' = Append(stack, fr)
  PROVE  /\ Len(stack) \in Nat /\ DOMAIN stack = 1..Len(stack)
         /\ Len(stack') = Len(stack) + 1 /\ DOMAIN stack' = 1..Len(stack) + 1
         /\ stack'[Len(stack) + 1] = fr
         /\ \A n \in DOMAIN stack : stack'[n] = stack[n]
  <1>1. stack \in Seq(Frames)
    BY DEF FramesOK
  <1>2. /\ stack' \in Seq(Frames) /\ Len(stack') = Len(stack) + 1
        /\ stack'[Len(stack) + 1] = fr /\ \A n \in 1..Len(stack) : stack'[n] = stack[n]
    BY <1>1, AppendProperties
  <1>3. QED  BY <1>1, <1>2

\* What becomes of a caller.
Resumed(fr, outcome) ==
  IF fr.at = "load" THEN [fr EXCEPT !.i = @ + 1] ELSE [fr EXCEPT !.tried = outcome]

LEMMA CallerFrames ==
  ASSUME FramesOK, stack # <<>>, NEW outcome, stack' = Caller(outcome)
  PROVE  /\ Len(stack) \in Nat \ {0} /\ DOMAIN stack = 1..Len(stack)
         /\ Len(stack') = Len(stack) - 1 /\ DOMAIN stack' = 1..Len(stack) - 1
         /\ top = stack[Len(stack)]
         /\ \A n \in 1..Len(stack) - 1 :
              stack'[n] = IF n = Len(stack) - 1 THEN Resumed(stack[n], outcome) ELSE stack[n]
  <1> DEFINE below == Front(stack)
  <1>1. stack \in Seq(Frames)
    BY DEF FramesOK
  <1>2. /\ below \in Seq(Frames) /\ Len(below) = Len(stack) - 1 /\ Len(stack) - 1 \in Nat
        /\ \A m \in 1..Len(stack) - 1 : below[m] = stack[m]
    BY <1>1, FrontIs
  <1> HIDE DEF below
  <1>3. Len(stack) \in Nat \ {0} /\ DOMAIN stack = 1..Len(stack) /\ DOMAIN below = 1..Len(stack) - 1
    BY <1>1, <1>2
  <1>4. CASE Len(below) = 0
    <2>1. stack' = <<>>
      BY <1>4 DEF Caller, below
    <2>2. QED  BY <1>2, <1>3, <1>4, <2>1 DEF top
  <1>5. CASE Len(below) # 0
    <2>1. Len(below) \in 1..Len(stack) - 1 /\ below[Len(below)] = stack[Len(below)]
      BY <1>2, <1>5
    <2>2. stack' = [below EXCEPT ![Len(below)] = Resumed(stack[Len(below)], outcome)]
      <3>1. CASE below[Len(below)].at = "load"
        <4>1. stack' = [below EXCEPT ![Len(below)].i = @ + 1]
          BY <1>5, <3>1 DEF Caller, below
        <4>2. QED  BY <2>1, <3>1, <4>1 DEF Resumed
      <3>2. CASE below[Len(below)].at # "load"
        <4>1. stack' = [below EXCEPT ![Len(below)].tried = outcome]
          BY <1>5, <3>2 DEF Caller, below
        <4>2. QED  BY <2>1, <3>2, <4>1 DEF Resumed
      <3>3. QED  BY <3>1, <3>2
    <2>3. /\ Len(stack') = Len(below) /\ DOMAIN stack' = DOMAIN below
          /\ \A n \in DOMAIN below : stack'[n] =
               IF n = Len(below) THEN Resumed(stack[Len(below)], outcome) ELSE below[n]
      <3>1. DOMAIN stack' = DOMAIN below
        BY <2>2
      <3>2. \A n \in DOMAIN below : stack'[n] =
               IF n = Len(below) THEN Resumed(stack[Len(below)], outcome) ELSE below[n]
        BY <2>2
      <3>3. Len(stack') = Len(below)
        BY <1>2, <2>2
      <3>4. QED  BY <3>1, <3>2, <3>3
    <2>4. QED  BY <1>2, <1>3, <2>3 DEF top
  <1>6. QED  BY <1>4, <1>5

\* A file and the import it is at.
LEMMA ImportIs ==
  ASSUME Types, FramesOK, Loading, top.i <= Len(proto(top.file).imports)
  PROVE  /\ top.i \in DOMAIN proto(top.file).imports /\ proto(top.file).imports[top.i] \in File
         /\ proto(top.file).imports[top.i] \in ToSet(proto(top.file).imports)
         /\ top.file \in File /\ stack # <<>> /\ top \in Frames
  <1>1. /\ stack # <<>> /\ top \in Frames /\ FrameOK(top) /\ top.file \in File
    BY TopFrame, TopOK DEF Loading
  <1>2. proto(top.file).imports \in Seq(File)
    BY <1>1, Protos
  <1>3. top.i \in 1..Len(proto(top.file).imports)
    BY <1>1, <1>2 DEF Frames, FrameOK
  <1>4. QED  BY <1>1, <1>2, <1>3, ToSetIs, ElementOfSeq

-------------------------------------------------------------------------------
(* A lookup finds nothing but what the database offers.  Files are complete,  *)
(* but files that are built in circles could be complete and import each      *)
(* other; they do not, because a file is added after its imports.             *)

Sourced == files \subseteq db.has /\ \A n \in DOMAIN stack : stack[n].file \in db.has

\* Files that are not committed were added in an order in which imports come
\* first, but for those that an error will take out again.
Added(i) == Committed \cup {files_after_checkpoint[j] : j \in 1..i - 1}
Ordered(g) ==
  \A i \in DOMAIN files_after_checkpoint :
    \/ ToSet(proto(files_after_checkpoint[i]).imports) \subseteq Added(i)
    \/ \E k \in 1..Len(checkpoints) : checkpoints[k].files < i /\ stack[g[k]].errors
OrderOK == \E g : Numbers(g, Len(checkpoints), BegunAt) /\ Ordered(g)

FromDatabase == Consistent(db) => Sourced /\ OrderOK /\ Committed \subseteq Buildable(db)

LEMMA DatabaseIs ==
  ASSUME Types
  PROVE  DatabaseOK(db)
  BY DatabasesOK DEF Types

\* Steps that leave files and checkpoints alone.
LEMMA OrderStays ==
  ASSUME Types, FromDatabase, db' = db, UNCHANGED <<files, marks>>, BegunAt' = BegunAt,
         \A n \in BegunAt : stack[n].errors => stack'[n].errors,
         Consistent(db) => \A n \in DOMAIN stack' : stack'[n].file \in db.has
  PROVE  FromDatabase'
  <1>1. SUFFICES ASSUME Consistent(db)
                 PROVE  Sourced' /\ OrderOK' /\ Committed' \subseteq Buildable(db')
    BY DEF FromDatabase
  <1>2. Sourced /\ OrderOK /\ Committed \subseteq Buildable(db)
    BY <1>1 DEF FromDatabase
  <1>3. Sourced' /\ Committed' = Committed
    BY <1>1, <1>2 DEF Sourced, Committed, marks
  <1>4. PICK g : Numbers(g, Len(checkpoints), BegunAt) /\ Ordered(g)
    BY <1>2 DEF OrderOK
  <1>5. Numbers(g, Len(checkpoints'), BegunAt')
    BY <1>4 DEF marks
  <1>6. \A k \in 1..Len(checkpoints) : g[k] \in BegunAt
    BY <1>4 DEF Numbers
  <1>7. Ordered(g)'
    <2>1. ASSUME NEW i \in DOMAIN files_after_checkpoint
          PROVE  \/ ToSet(proto(files_after_checkpoint[i]).imports)' \subseteq Added(i)'
                 \/ \E k \in 1..Len(checkpoints') : checkpoints'[k].files < i /\ stack'[g[k]].errors
      <3>1. CASE ToSet(proto(files_after_checkpoint[i]).imports) \subseteq Added(i)
        BY <1>3, <3>1 DEF Added, proto, marks
      <3>2. CASE \E k \in 1..Len(checkpoints) : checkpoints[k].files < i /\ stack[g[k]].errors
        BY <1>6, <3>2 DEF marks
      <3>3. QED  BY <1>4, <3>1, <3>2 DEF Ordered
    <2>2. QED  BY <2>1 DEF Ordered, marks
  <1>8. OrderOK'
    BY <1>5, <1>7 DEF OrderOK, Numbers
  <1>9. QED  BY <1>2, <1>3, <1>8

LEMMA TopStaysSourced ==
  ASSUME FramesOK, FramesOK', FromDatabase, stack # <<>>, NEW fr, stack' = Top(fr),
         fr.file = top.file
  PROVE  Consistent(db) => \A n \in DOMAIN stack' : stack'[n].file \in db.has
  BY TopFrames DEF FromDatabase, Sourced

\* Steps of the frame on top that do not begin to link it.
LEMMA TopOrder ==
  ASSUME IInv, IInv', FromDatabase, db' = db, UNCHANGED <<files, marks>>, stack # <<>>,
         NEW fr, stack' = Top(fr), fr.file = top.file, fr.at = top.at, top.errors => fr.errors
  PROVE  FromDatabase'
  <1>1. Types /\ FramesOK /\ FramesOK'
    BY DEF IInv
  <1>2. /\ DOMAIN stack' = DOMAIN stack /\ stack'[Len(stack)] = fr /\ top = stack[Len(stack)]
        /\ \A n \in DOMAIN stack : n # Len(stack) => stack'[n] = stack[n]
    BY <1>1, TopFrames
  <1>3. BegunAt' = BegunAt /\ \A n \in BegunAt : stack[n].errors => stack'[n].errors
    BY <1>2 DEF BegunAt
  <1>4. Consistent(db) => \A n \in DOMAIN stack' : stack'[n].file \in db.has
    BY <1>1, TopStaysSourced
  <1>5. QED  BY <1>1, <1>3, <1>4, OrderStays

LEMMA PushOrder ==
  ASSUME IInv, IInv', FromDatabase, db' = db, UNCHANGED <<files, marks>>,
         NEW f \in File, NEW via \in Symbol \cup {None}, stack' = Append(stack, Frame(f, via)),
         Consistent(db) => f \in db.has
  PROVE  FromDatabase'
  <1>1. Types /\ FramesOK
    BY DEF IInv
  <1>2. Frame(f, via) \in Frames /\ Frame(f, via).at = "load" /\ Frame(f, via).file = f
    BY DEF Frame, Frames
  <1>3. /\ Len(stack) \in Nat /\ DOMAIN stack = 1..Len(stack) /\ DOMAIN stack' = 1..Len(stack) + 1
        /\ stack'[Len(stack) + 1] = Frame(f, via)
        /\ \A n \in DOMAIN stack : stack'[n] = stack[n]
    BY <1>1, <1>2, PushFrames
  <1>4. \A n \in DOMAIN stack' : n \in DOMAIN stack \/ n = Len(stack) + 1
    BY <1>3
  <1>5. \A n \in DOMAIN stack : n \in DOMAIN stack'
    BY <1>3
  <1>6. BegunAt' = BegunAt /\ \A n \in BegunAt : stack'[n] = stack[n]
    BY <1>2, <1>3, <1>4, <1>5 DEF BegunAt
  <1>7. Consistent(db) => \A n \in DOMAIN stack' : stack'[n].file \in db.has
    BY <1>2, <1>3, <1>4 DEF FromDatabase, Sourced
  <1>8. QED  BY <1>1, <1>6, <1>7, OrderStays

LEMMA LoadImportOrder ==
  ASSUME IInv, IInv', FromDatabase, LoadImport
  PROVE  FromDatabase'
  <1>1. Types /\ FramesOK
    BY DEF IInv
  <1>2. /\ UNCHANGED <<db, tables, marks>> /\ Loading
        /\ top.i <= Len(proto(top.file).imports)
    BY DEF LoadImport
  <1> DEFINE f == proto(top.file).imports[top.i]
  <1>3. f \in File /\ top \in Frames /\ stack # <<>>
    BY <1>1, <1>2, ImportIs
  <1>4. \/ stack' = NextImport
        \/ f \in db.has /\ stack' = Append(stack, Frame(f, None))
    BY DEF LoadImport
  <1> HIDE DEF f
  <1>5. CASE stack' = NextImport
    <2> DEFINE fr == [top EXCEPT !.i = @ + 1]
    <2>1. fr.file = top.file /\ fr.at = top.at /\ fr.errors = top.errors
      BY <1>3 DEF Frames
    <2>2. stack' = Top(fr)
      BY <1>5 DEF NextImport
    <2> HIDE DEF fr
    <2>3. QED  BY <1>2, <1>3, <2>1, <2>2, TopOrder DEF tables
  <1>6. CASE f \in db.has /\ stack' = Append(stack, Frame(f, None))
    BY <1>2, <1>3, <1>6, PushOrder DEF tables
  <1>7. QED  BY <1>4, <1>5, <1>6

LEMMA ScopeOrder ==
  ASSUME IInv, IInv', FromDatabase, UNCHANGED <<db, files, marks>>, Linking,
         \/ stack' = NextScope
         \/ stack' = Top([top EXCEPT !.k = @ + 1, !.c = 1, !.tried = "no"])
  PROVE  FromDatabase'
  <1>1. stack # <<>> /\ top \in Frames
    BY TopFrame DEF IInv, Linking
  <1>2. PICK fr : /\ stack' = Top(fr) /\ fr.file = top.file /\ fr.at = top.at
                  /\ top.errors => fr.errors
    <2>1. CASE stack' = NextScope
      <3> DEFINE last == top.c = Len(proto(top.file).refs[top.k])
                 fr == [top EXCEPT !.tried = "no", !.c = IF last THEN 1 ELSE @ + 1,
                                   !.k = IF last THEN @ + 1 ELSE @, !.errors = @ \/ last]
      <3>1. stack' = Top(fr)
        BY <2>1 DEF NextScope
      <3> HIDE DEF last
      <3>2. fr.file = top.file /\ fr.at = top.at /\ (top.errors => fr.errors)
        BY <1>1 DEF Frames
      <3>3. QED  BY <3>1, <3>2
    <2>2. CASE stack' = Top([top EXCEPT !.k = @ + 1, !.c = 1, !.tried = "no"])
      <3> DEFINE fr == [top EXCEPT !.k = @ + 1, !.c = 1, !.tried = "no"]
      <3>1. fr.file = top.file /\ fr.at = top.at /\ fr.errors = top.errors
        BY <1>1 DEF Frames
      <3>2. QED  BY <2>2, <3>1
    <2>3. QED  BY <2>1, <2>2
  <1>3. QED  BY <1>1, <1>2, TopOrder

LEMMA BuildForSymbolOrder ==
  ASSUME IInv, IInv', FromDatabase, BuildForSymbol
  PROVE  FromDatabase'
  <1>1. Types /\ FramesOK
    BY DEF IInv
  <1>2. UNCHANGED <<db, tables, marks>> /\ Linking
    BY DEF BuildForSymbol
  <1> DEFINE f == db.finds[name]
  <1>3. name \in Symbol /\ f \in File \cup {None}
    BY <1>1, <1>2, NameIs
  <1>4. Consistent(db) => f \in db.has \cup {None}
    BY <1>3 DEF Consistent
  <1>5. \/ stack' = NextScope
        \/ f # None /\ stack' = Append(stack, Frame(f, name))
    BY DEF BuildForSymbol
  <1> HIDE DEF f
  <1>6. CASE stack' = NextScope
    BY <1>2, <1>6, ScopeOrder DEF tables
  <1>7. CASE f # None /\ stack' = Append(stack, Frame(f, name))
    BY <1>2, <1>3, <1>4, <1>7, PushOrder DEF tables
  <1>8. QED  BY <1>5, <1>6, <1>7

LEMMA AddToTablesOrder ==
  ASSUME IInv, IInv', FromDatabase, AddToTables
  PROVE  FromDatabase'
  <1>0. PICK f, m, n : /\ f = top.file /\ m = Len(checkpoints)
                       /\ n = Len(files_after_checkpoint)
    OBVIOUS
  <1>1. SUFFICES ASSUME Consistent(db)
                 PROVE  Sourced' /\ OrderOK' /\ Committed' \subseteq Buildable(db')
    BY DEF FromDatabase, AddToTables
  <1>2. Sourced /\ OrderOK /\ Committed \subseteq Buildable(db)
    BY <1>1 DEF FromDatabase
  <1>3. Types /\ FramesOK /\ Types' /\ FramesOK'
    BY DEF IInv
  <1>4. /\ db' = db /\ checkpoints' = Append(checkpoints, CheckPoint)
        /\ stack # <<>> /\ f \in File /\ DOMAIN stack' = DOMAIN stack
        /\ stack'[Len(stack)].file = f /\ BegunAt' = BegunAt \cup {Len(stack)}
        /\ Len(stack) \in LoadingAt
        /\ \A k \in DOMAIN stack : k # Len(stack) => stack'[k] = stack[k]
    BY <1>0, <1>3, Adds, AddMoves
  <1>5. Len(stack) \in Nat \ {0} /\ DOMAIN stack = 1..Len(stack) /\ Len(stack) \in DOMAIN stack
    BY <1>3, <1>4, TopFrame DEF FramesOK
  <1>6. /\ m \in Nat /\ n \in Nat /\ checkpoints \in Seq([symbols : Nat, files : Nat])
        /\ CheckPoint \in [symbols : Nat, files : Nat] /\ CheckPoint.files = n
    BY <1>0, <1>3 DEF Types, CheckPoint
  <1>7. /\ Len(checkpoints') = m + 1 /\ checkpoints'[m + 1].files = n
        /\ \A k \in 1..m : checkpoints'[k] = checkpoints[k]
    BY <1>0, <1>4, <1>6, AppendProperties
  <1>8. PICK g : Numbers(g, m, BegunAt) /\ Ordered(g)
    BY <1>0, <1>2 DEF OrderOK
  <1>9. PICK h : /\ Numbers(h, m + 1, BegunAt') /\ h[m + 1] = Len(stack)
                 /\ \A k \in 1..m : h[k] = g[k]
    <2>1. BegunAt \in SUBSET (1..Len(stack) - 1)
      BY <1>4, <1>5 DEF BegunAt, LoadingAt
    <2>2. PICK low \in Nat : low = Len(stack) - 1 /\ low + 1 = Len(stack)
      <3>1. Len(stack) - 1 \in Nat /\ (Len(stack) - 1) + 1 = Len(stack)
        BY <1>5
      <3>2. QED  BY <3>1
    <2>3. \E h : /\ Numbers(h, m + 1, BegunAt \cup {low + 1})
                 /\ h[m + 1] = low + 1 /\ \A k \in 1..m : h[k] = g[k]
      <3>1. BegunAt \in SUBSET (1..low)
        BY <2>1, <2>2
      <3>2. m \in Nat /\ low \in Nat /\ Numbers(g, m, BegunAt)
        BY <1>6, <1>8, <2>2
      <3>3. QED  BY <3>1, <3>2, NumbersPush
    <2>4. QED  BY <1>4, <2>2, <2>3
  <1>10. \A k \in 1..m : stack'[h[k]] = stack[g[k]]
    <2>1. \A k \in 1..m : g[k] \in BegunAt
      BY <1>8 DEF Numbers
    <2>2. Len(stack) \notin BegunAt /\ BegunAt \subseteq DOMAIN stack
      BY <1>4 DEF BegunAt, LoadingAt
    <2>3. QED  BY <1>4, <1>9, <2>1, <2>2
  <1>11. \/ files' = files /\ files_after_checkpoint' = files_after_checkpoint
         \/ /\ f \notin files /\ files' = files \cup {f}
            /\ files_after_checkpoint' = Append(files_after_checkpoint, f)
            /\ stack'[Len(stack)].errors \/ ToSet(proto(f).imports) \subseteq files
    <2>1. CASE f \in files
      BY <1>0, <2>1 DEF AddToTables, IsNew, tables
    <2>2. CASE f \notin files
      <3> DEFINE errors == \/ f \in ToSet(proto(f).imports)
                           \/ (proto(f).package # None /\ Defined(proto(f).package)
                                 /\ ~symbols[proto(f).package].package)
                           \/ (\E s \in proto(f).defines : Defined(s))
                           \/ proto(f).broken \/ MissingImports(f) # {}
                 at == IF f \in ToSet(proto(f).imports) THEN "finish" ELSE "link"
      <3>1. /\ files' = files \cup {f}
            /\ files_after_checkpoint' = Append(files_after_checkpoint, f)
            /\ stack' = Top([top EXCEPT !.at = at, !.errors = errors])
        BY <1>0, <2>2 DEF AddToTables, IsNew
      <3>2. stack'[Len(stack)].errors = errors
        <4>1. top \in Frames
          BY <1>3, <1>4, TopFrame
        <4> DEFINE fr == [top EXCEPT !.at = at, !.errors = errors]
        <4>2. fr.errors = errors
          BY <4>1 DEF Frames
        <4> HIDE DEF errors, at, fr
        <4>3. stack' = Top(fr)
          BY <3>1 DEF fr
        <4>4. stack'[Len(stack)] = fr
          BY <1>3, <1>4, <4>3, TopFrames
        <4>5. QED  BY <4>2, <4>4
      <3>3. ~errors => ToSet(proto(f).imports) \subseteq files
        <4>1. proto(f).weak = {}
          BY <1>1, <1>4 DEF Consistent, proto
        <4>2. QED  BY <4>1 DEF MissingImports
      <3> HIDE DEF errors, at
      <3>4. QED  BY <2>2, <3>1, <3>2, <3>3
    <2>3. QED  BY <2>1, <2>2
  <1>12. files_after_checkpoint \in Seq(File)
    BY <1>3 DEF Types
  <1>13. /\ Sourced'
    <2>1. f \in db.has
      BY <1>0, <1>2, <1>5 DEF Sourced, top
    <2>2. \A k \in DOMAIN stack' : stack'[k].file \in db.has
      BY <1>2, <1>4, <2>1 DEF Sourced
    <2>3. files' \subseteq db.has
      BY <1>2, <1>11, <2>1 DEF Sourced
    <2>4. QED  BY <1>4, <2>2, <2>3 DEF Sourced
  <1>14. CASE files' = files /\ files_after_checkpoint' = files_after_checkpoint
    <2>1. Committed' = Committed
      BY <1>14 DEF Committed
    <2>2. ASSUME NEW i \in DOMAIN files_after_checkpoint'
          PROVE  \/ ToSet(proto(files_after_checkpoint[i]).imports)' \subseteq Added(i)'
                 \/ \E k \in 1..Len(checkpoints') :
                      checkpoints'[k].files < i /\ stack'[h[k]].errors
      <3>1. CASE ToSet(proto(files_after_checkpoint[i]).imports) \subseteq Added(i)
        BY <1>4, <1>14, <2>1, <3>1 DEF Added, proto
      <3>2. CASE \E k \in 1..m : checkpoints[k].files < i /\ stack[g[k]].errors
        <4>1. PICK k \in 1..m : checkpoints[k].files < i /\ stack[g[k]].errors
          BY <3>2
        <4>2. k \in 1..Len(checkpoints')
          BY <1>6, <1>7
        <4>3. QED  BY <1>7, <1>10, <4>1, <4>2
      <3>3. QED  BY <1>0, <1>8, <1>14, <3>1, <3>2 DEF Ordered
    <2>3. Ordered(h)'
      BY <2>2 DEF Ordered
    <2>4. OrderOK'
      BY <1>7, <1>9, <2>3 DEF OrderOK
    <2>5. QED  BY <1>2, <1>4, <1>13, <2>1, <2>4
  <1>15. CASE /\ f \notin files /\ files' = files \cup {f}
              /\ files_after_checkpoint' = Append(files_after_checkpoint, f)
              /\ stack'[Len(stack)].errors \/ ToSet(proto(f).imports) \subseteq files
    <2> DEFINE fac == files_after_checkpoint
    <2>1. /\ fac' \in Seq(File) /\ Len(fac') = n + 1 /\ fac'[n + 1] = f
          /\ \A i \in 1..n : fac'[i] = fac[i]
      BY <1>0, <1>4, <1>12, <1>15, AppendProperties
    <2>2. DOMAIN fac = 1..n /\ DOMAIN fac' = 1..n + 1
      BY <1>0, <1>12, <2>1
    <2>3. ToSet(fac) = {fac[i] : i \in 1..n} /\ ToSet(fac') = {fac'[i] : i \in 1..n + 1}
      BY <1>0, <1>12, <2>1, ToSetIs
    <2>4. Committed' = Committed
      <3>1. ToSet(fac') = ToSet(fac) \cup {f}
        <4>1. \A i \in 1..n + 1 : i \in 1..n \/ i = n + 1
          BY <1>6
        <4>2. \A i \in 1..n : i \in 1..n + 1
          BY <1>6
        <4>3. n + 1 \in 1..n + 1
          BY <1>6
        <4>4. QED  BY <2>1, <2>3, <4>1, <4>2, <4>3
      <3>2. QED  BY <1>15, <3>1 DEF Committed
    <2>5. \A i \in 1..n + 1 : Added(i)' = Added(i)
      <3>1. \A i \in 1..n + 1 : \A j \in 1..i - 1 : fac'[j] = fac[j]
        <4>1. \A i \in 1..n + 1 : \A j \in 1..i - 1 : j \in 1..n
          BY <1>6
        <4>2. QED  BY <2>1, <4>1
      <3>2. QED  BY <2>4, <3>1 DEF Added
    <2>6. Added(n + 1) = Committed \cup ToSet(fac) /\ files \subseteq Added(n + 1)
      <3>1. (n + 1) - 1 = n
        BY <1>6
      <3>2. QED  BY <2>3, <3>1 DEF Added, Committed
    <2>7. ASSUME NEW i \in 1..n
          PROVE  \/ ToSet(proto(fac[i]).imports)' \subseteq Added(i)'
                 \/ \E k \in 1..Len(checkpoints') :
                      checkpoints'[k].files < i /\ stack'[h[k]].errors
      <3>1. fac'[i] = fac[i] /\ i \in 1..n + 1
        BY <1>6, <2>1
      <3>2. CASE ToSet(proto(fac[i]).imports) \subseteq Added(i)
        BY <1>4, <2>5, <3>1, <3>2 DEF proto
      <3>3. CASE \E k \in 1..m : checkpoints[k].files < i /\ stack[g[k]].errors
        <4>1. PICK k \in 1..m : checkpoints[k].files < i /\ stack[g[k]].errors
          BY <3>3
        <4>2. k \in 1..Len(checkpoints')
          BY <1>6, <1>7
        <4>3. QED  BY <1>7, <1>10, <4>1, <4>2
      <3>4. QED  BY <1>0, <1>8, <2>2, <3>2, <3>3 DEF Ordered
    <2>8. \/ ToSet(proto(fac[n + 1]).imports)' \subseteq Added(n + 1)'
          \/ \E k \in 1..Len(checkpoints') :
               checkpoints'[k].files < n + 1 /\ stack'[h[k]].errors
      <3>1. n + 1 \in 1..n + 1 /\ m + 1 \in 1..Len(checkpoints') /\ n < n + 1
        BY <1>6, <1>7
      <3>2. CASE stack'[Len(stack)].errors
        BY <1>7, <1>9, <3>1, <3>2
      <3>3. CASE ToSet(proto(f).imports) \subseteq files
        <4>1. Added(n + 1)' = Added(n + 1)
          BY <2>5, <3>1
        <4>3. ToSet(proto(fac[n + 1]).imports)' = ToSet(proto(f).imports)
          BY <1>4, <2>1 DEF proto
        <4>4. QED  BY <2>6, <3>3, <4>1, <4>3
      <3>4. QED  BY <1>15, <3>2, <3>3
    <2>9. Ordered(h)'
      <3>1. \A i \in DOMAIN fac' : i \in 1..n \/ i = n + 1
        BY <1>6, <2>2
      <3>2. ASSUME NEW i \in DOMAIN fac'
            PROVE  \/ ToSet(proto(fac[i]).imports)' \subseteq Added(i)'
                   \/ \E k \in 1..Len(checkpoints') :
                        checkpoints'[k].files < i /\ stack'[h[k]].errors
        BY <2>7, <2>8, <3>1
      <3>3. QED  BY <3>2 DEF Ordered
    <2>10. OrderOK'
      BY <1>7, <1>9, <2>9 DEF OrderOK
    <2>11. QED  BY <1>2, <1>4, <1>13, <2>4, <2>10
  <1>16. QED  BY <1>11, <1>14, <1>15

\* A file that is complete can be built if its imports can.
LEMMA CompleteIsReady ==
  ASSUME IsFiniteSet(File), Types, NEW v, Points(v), NEW f \in File, f \in db.has,
         Complete(v, f, Finished(f)), ToSet(proto(f).imports) \subseteq Buildable(db)
  PROVE  f \in Buildable(db)
  <1>1. /\ proto(f).refs \in Seq(Seq(Symbol) \ {<<>>})
        /\ ToSet(proto(f).imports) \subseteq File
    BY Protos, ToSetIs
  <1>2. /\ ~proto(f).broken /\ Resolved(v, f, Finished(f))
    BY DEF Complete, Imported
  <1> DEFINE types == UNION {db.proto[g].defines : g \in {f} \cup ToSet(db.proto[f].imports)}
  <1>3. ASSUME NEW i \in DOMAIN db.proto[f].refs
        PROVE  ToSet(db.proto[f].refs[i]) \cap types # {}
    <2>1. i \in DOMAIN proto(f).refs /\ i < Finished(f)
      BY <1>1, <1>3 DEF Finished, proto
    <2>2. PICK s \in ToSet(proto(f).refs[i]) :
            /\ v.symbols[s].file \in {f} \cup (v.links[f] \cap ToSet(proto(f).imports))
            /\ ~v.symbols[s].package
      BY <1>2, <2>1 DEF Resolved
    <2>3. s \in Symbol
      <3>1. proto(f).refs[i] \in Seq(Symbol)
        BY <1>1, <2>1
      <3>2. QED  BY <2>2, <3>1, ToSetIs
    <2>4. v.symbols[s].file \in {f} \cup ToSet(proto(f).imports) /\ v.symbols[s].file \in File
      BY <1>1, <2>2
    <2>5. v.symbols[s] # Undefined
      BY <2>4, NoneOK DEF Undefined
    <2>6. s \in proto(v.symbols[s].file).defines
      BY <2>2, <2>3, <2>5 DEF Points
    <2>7. s \in types
      BY <2>4, <2>6 DEF proto
    <2>8. s \in ToSet(db.proto[f].refs[i])
      BY <2>2 DEF proto
    <2> HIDE DEF types
    <2>9. QED  BY <2>7, <2>8
  <1>4. f \in Ready(db, Buildable(db))
    BY <1>2, <1>3 DEF Ready, proto
  <1>5. QED  BY <1>4, BuildableIs, DatabaseIs

\* When the outermost file is done, all that was added with it can be built.
LEMMA AllAreBuildable ==
  ASSUME IsFiniteSet(File), IInv, FromDatabase, Consistent(db), Built, ~top.errors,
         Len(checkpoints) = 1
  PROVE  files \subseteq Buildable(db)
  <1>1. /\ Types /\ FramesOK /\ MarksOK /\ BuildsOK
    BY DEF IInv
  <1>2. PICK g : Builds(g)
    BY <1>1 DEF BuildsOK
  <1>3. PICK h : Numbers(h, 1, BegunAt) /\ Ordered(h)
    BY DEF FromDatabase, OrderOK
  <1>4. /\ files \subseteq db.has /\ Committed \subseteq Buildable(db) /\ files \subseteq File
        /\ files_after_checkpoint \in Seq(File)
    BY <1>1 DEF FromDatabase, Sourced, Types
  <1>5. stack # <<>> /\ top.at # "load"
    BY DEF Built
  <1>6. stack[h[1]] = top /\ stack[g[1]] = top
    BY <1>1, <1>2, <1>3, <1>5, TopHasLast DEF Builds, top
  <1>7. ASSUME NEW f \in files
        PROVE  Complete(Version(Current), f, Finished(f))
    <2>1. CASE f = top.file
      BY <1>1, <1>2, <1>5, <2>1, TopIsComplete
    <2>2. CASE f # top.file
      <3>1. PICK last : last = Current
        OBVIOUS
      <3>2. last = 2 /\ last \in 1..Current /\ last - 1 = 1
        BY <3>1 DEF Current
      <3>3. SoundVersion(last, g) /\ Version(last).files = files
        BY <1>1, <1>2, <3>1, <3>2, LastVersion DEF Builds
      <3>4. \/ Complete(Version(last), f, Finished(f))
            \/ \E k \in 1..last - 1 : f = stack[g[k]].file
        BY <3>3 DEF SoundVersion
      <3>5. \A k \in 1..last - 1 : k = 1
        BY <3>2
      <3>6. QED  BY <1>6, <2>2, <3>1, <3>4, <3>5
    <2>3. QED  BY <2>1, <2>2
  <1>8. Points(Version(Current))
    <2>1. PICK last : last = Current
      OBVIOUS
    <2>2. last \in 1..Current
      BY <2>1 DEF Current
    <2>3. SoundVersion(last, g)
      BY <1>2, <2>2 DEF Builds
    <2>4. QED  BY <2>1, <2>3 DEF SoundVersion
  <1>9. \A f \in files : ToSet(proto(f).imports) \subseteq Buildable(db) => f \in Buildable(db)
    BY <1>1, <1>4, <1>7, <1>8, CompleteIsReady
  <1> DEFINE fac == files_after_checkpoint
             S == {i \in Nat : \A j \in 1..i : j <= Len(fac) /\ fac[j] \in files =>
                                 fac[j] \in Buildable(db)}
  <1>10. ASSUME NEW i \in 1..Len(fac)
         PROVE  ToSet(proto(fac[i]).imports) \subseteq Added(i)
    <2>1. i \in DOMAIN fac
      BY <1>4
    <2>2. \A k \in 1..Len(checkpoints) : ~stack[h[k]].errors
      BY <1>6
    <2>3. QED  BY <1>3, <2>1, <2>2 DEF Ordered
  <1>11. \A i \in Nat : i \in S
    <2>1. 0 \in S
      OBVIOUS
    <2>2. ASSUME NEW i \in Nat, i \in S
          PROVE  i + 1 \in S
      <3>1. ASSUME i + 1 <= Len(fac), fac[i + 1] \in files
            PROVE  fac[i + 1] \in Buildable(db)
        <4>1. i + 1 \in 1..Len(fac) /\ (i + 1) - 1 = i
          BY <1>4, <3>1
        <4>2. Added(i + 1) = Committed \cup {fac[j] : j \in 1..i}
          BY <4>1 DEF Added
        <4>3. ToSet(proto(fac[i + 1]).imports) \subseteq Added(i + 1)
          BY <1>10, <4>1
        <4>4. ToSet(proto(fac[i + 1]).imports) \subseteq files
          <5>1. ToSet(proto(fac[i + 1]).imports) \ proto(fac[i + 1]).weak \subseteq files
            BY <1>1, <1>7, <3>1, LastVersion DEF Complete, Imported
          <5>2. proto(fac[i + 1]).weak = {}
            BY <1>4, <3>1 DEF Consistent, proto
          <5>3. QED  BY <5>1, <5>2
        <4>5. ASSUME NEW j \in 1..i, fac[j] \in files
              PROVE  fac[j] \in Buildable(db)
          <5>1. j <= Len(fac)
            BY <1>4, <3>1, <4>5
          <5>2. QED  BY <2>2, <4>5, <5>1
        <4>6. ToSet(proto(fac[i + 1]).imports) \subseteq Buildable(db)
          BY <1>4, <4>2, <4>3, <4>4, <4>5
        <4>7. QED  BY <1>9, <3>1, <4>6
      <3>2. \A j \in 1..i + 1 : j \in 1..i \/ j = i + 1
        OBVIOUS
      <3>3. QED  BY <2>2, <3>1, <3>2
    <2> HIDE DEF S
    <2>3. QED  BY <2>1, <2>2, SetInduction
  <1>12. ASSUME NEW f \in files
         PROVE  f \in Buildable(db)
    <2>1. CASE f \in Committed
      BY <1>4, <2>1
    <2>2. CASE f \notin Committed
      <3>1. f \in ToSet(fac)
        BY <2>2 DEF Committed
      <3>2. PICK i \in 1..Len(fac) : f = fac[i]
        BY <1>4, <3>1, ToSetIs
      <3>3. i \in Nat /\ i \in 1..i /\ i <= Len(fac)
        BY <1>4, <3>2
      <3>4. i \in S
        BY <1>11, <3>3
      <3>5. QED  BY <3>2, <3>3, <3>4
    <2>3. QED  BY <2>1, <2>2
  <1>13. QED  BY <1>12

\* The checkpoints of the files that are still being built.
LEMMA CallerOrder ==
  ASSUME IInv, IInv', Built, db' = db, NEW outcome \in {"built", "failed"},
         stack' = Caller(outcome), checkpoints' = Front(checkpoints), NEW g,
         Numbers(g, Len(checkpoints), BegunAt), NEW n, n = Len(checkpoints)
  PROVE  /\ n \in Nat \ {0} /\ Len(checkpoints') = n - 1 /\ stack[g[n]] = top
         /\ \A k \in 1..n - 1 : checkpoints'[k] = checkpoints[k]
         /\ \A m \in DOMAIN stack' : m \in DOMAIN stack /\ stack'[m].file = stack[m].file
         /\ \E h : /\ Numbers(h, n - 1, BegunAt')
                   /\ \A k \in 1..n - 1 : stack[g[k]].errors => stack'[h[k]].errors
  <1>1. Types /\ FramesOK /\ stack # <<>> /\ top.at # "load"
    BY DEF IInv, Built
  <1>2. /\ n \in Nat \ {0} /\ g[n] = Len(stack)
        /\ \A k \in 1..n - 1 : g[k] \in BegunAt \ {Len(stack)}
        /\ Numbers([a \in 1..n - 1 |-> g[a]], n - 1, BegunAt \ {Len(stack)})
    BY <1>1, TopHasLast
  <1>3. BegunAt' = BegunAt \ {Len(stack)} /\ \A m \in BegunAt \ {Len(stack)} : Waits(m)
    BY <1>1, CallerMoves
  <1>4. Len(checkpoints') = n - 1 /\ \A k \in 1..n - 1 : checkpoints'[k] = checkpoints[k]
    <2>1. checkpoints \in Seq([symbols : Nat, files : Nat]) /\ checkpoints # <<>>
      BY <1>1, <1>2 DEF Types
    <2>2. QED  BY <2>1, FrontIs
  <1>5. stack[g[n]] = top
    BY <1>2 DEF top
  <1>6. \A m \in DOMAIN stack' : m \in DOMAIN stack /\ stack'[m].file = stack[m].file
    <2>1. /\ Len(stack) \in Nat \ {0} /\ DOMAIN stack = 1..Len(stack)
          /\ DOMAIN stack' = 1..Len(stack) - 1
          /\ \A m \in 1..Len(stack) - 1 :
               stack'[m] = IF m = Len(stack) - 1 THEN Resumed(stack[m], outcome) ELSE stack[m]
      BY <1>1, CallerFrames
    <2>2. ASSUME NEW m \in DOMAIN stack'
          PROVE  m \in DOMAIN stack /\ stack'[m].file = stack[m].file
      <3>1. m \in DOMAIN stack
        <4>1. PICK n1 \in Nat \ {0} : n1 = Len(stack)
          BY <2>1
        <4>2. m \in 1..n1 - 1 /\ DOMAIN stack = 1..n1
          BY <2>1, <4>1
        <4>3. QED  BY <4>2
      <3>2. stack[m] \in Frames
        BY <1>1, <3>1, ElementOfSeq DEF FramesOK
      <3>3. Resumed(stack[m], outcome).file = stack[m].file
        BY <3>2 DEF Resumed, Frames
      <3>4. QED  BY <2>1, <3>1, <3>3
    <2>3. QED  BY <2>2
  <1>7. \E h : /\ Numbers(h, n - 1, BegunAt')
               /\ \A k \in 1..n - 1 : stack[g[k]].errors => stack'[h[k]].errors
    <2> DEFINE h == [a \in 1..n - 1 |-> g[a]]
    <2>1. Numbers(h, n - 1, BegunAt')
      BY <1>2, <1>3
    <2>2. \A k \in 1..n - 1 : h[k] = g[k]
      OBVIOUS
    <2> HIDE DEF h
    <2>3. \A k \in 1..n - 1 : stack[g[k]].errors => stack'[h[k]].errors
      BY <1>2, <1>3, <2>2 DEF Waits
    <2>4. QED  BY <2>1, <2>3
  <1>8. QED  BY <1>2, <1>4, <1>5, <1>6, <1>7

LEMMA CommitOrder ==
  ASSUME IsFiniteSet(File), IInv, IInv', FromDatabase, Commit
  PROVE  FromDatabase'
  <1>1. SUFFICES ASSUME Consistent(db)
                 PROVE  Sourced' /\ OrderOK' /\ Committed' \subseteq Buildable(db')
    BY DEF FromDatabase, Commit
  <1>2. Sourced /\ OrderOK /\ Committed \subseteq Buildable(db)
    BY <1>1 DEF FromDatabase
  <1>3. /\ UNCHANGED <<db, tables>> /\ stack' = Caller("built") /\ Built /\ ~top.errors
        /\ checkpoints' = Front(checkpoints)
        /\ IF Len(checkpoints) = 1 THEN files_after_checkpoint' = <<>>
           ELSE files_after_checkpoint' = files_after_checkpoint
    BY DEF Commit, ClearLastCheckpoint
  <1>4. PICK n : n = Len(checkpoints)
    OBVIOUS
  <1>5. PICK g : Numbers(g, n, BegunAt) /\ Ordered(g)
    BY <1>2, <1>4 DEF OrderOK
  <1>6. /\ n \in Nat \ {0} /\ Len(checkpoints') = n - 1 /\ stack[g[n]] = top
        /\ \A k \in 1..n - 1 : checkpoints'[k] = checkpoints[k]
        /\ \A m \in DOMAIN stack' : m \in DOMAIN stack /\ stack'[m].file = stack[m].file
        /\ \E h : /\ Numbers(h, n - 1, BegunAt')
                  /\ \A k \in 1..n - 1 : stack[g[k]].errors => stack'[h[k]].errors
    BY <1>3, <1>4, <1>5, CallerOrder
  <1>7. PICK h : /\ Numbers(h, n - 1, BegunAt')
                 /\ \A k \in 1..n - 1 : stack[g[k]].errors => stack'[h[k]].errors
    BY <1>6
  <1>8. Sourced'
    BY <1>2, <1>3, <1>6 DEF Sourced, tables
  <1>9. CASE n = 1
    <2>1. files_after_checkpoint' = <<>> /\ DOMAIN files_after_checkpoint' = {}
      BY <1>3, <1>4, <1>9
    <2>2. Ordered(h)'
      BY <2>1 DEF Ordered
    <2>3. Committed' \subseteq files
      BY <1>3 DEF Committed, tables
    <2>4. files \subseteq Buildable(db)
      BY <1>1, <1>3, <1>4, <1>9, AllAreBuildable
    <2>5. QED  BY <1>3, <1>6, <1>7, <1>8, <2>2, <2>3, <2>4 DEF OrderOK
  <1>10. CASE n # 1
    <2>1. files_after_checkpoint' = files_after_checkpoint /\ Committed' = Committed
      BY <1>3, <1>4, <1>10 DEF Committed, tables
    <2>2. ASSUME NEW i \in DOMAIN files_after_checkpoint
          PROVE  \/ ToSet(proto(files_after_checkpoint[i]).imports)' \subseteq Added(i)'
                 \/ \E k \in 1..Len(checkpoints') : checkpoints'[k].files < i /\ stack'[h[k]].errors
      <3>1. CASE ToSet(proto(files_after_checkpoint[i]).imports) \subseteq Added(i)
        BY <1>3, <2>1, <3>1 DEF Added, proto
      <3>2. CASE \E k \in 1..n : checkpoints[k].files < i /\ stack[g[k]].errors
        <4>1. PICK k \in 1..n : checkpoints[k].files < i /\ stack[g[k]].errors
          BY <3>2
        <4>2. k # n
          BY <1>3, <1>6, <4>1
        <4>3. k \in 1..n - 1
          BY <1>6, <4>2
        <4>4. QED  BY <1>6, <1>7, <4>1, <4>3
      <3>3. QED  BY <1>4, <1>5, <3>1, <3>2 DEF Ordered
    <2>3. Ordered(h)'
      BY <2>1, <2>2 DEF Ordered
    <2>4. QED  BY <1>2, <1>3, <1>6, <1>7, <1>8, <2>1, <2>3 DEF OrderOK
  <1>11. QED  BY <1>9, <1>10

LEMMA RollbackOrder ==
  ASSUME IInv, IInv', FromDatabase, Rollback
  PROVE  FromDatabase'
  <1>1. SUFFICES ASSUME Consistent(db)
                 PROVE  Sourced' /\ OrderOK' /\ Committed' \subseteq Buildable(db')
    BY DEF FromDatabase, Rollback
  <1>2. Sourced /\ OrderOK /\ Committed \subseteq Buildable(db)
    BY <1>1 DEF FromDatabase
  <1>3. /\ Types /\ Types' /\ FramesOK /\ MarksOK /\ MarksOK' /\ BuildsOK
    BY DEF IInv
  <1>4. PICK b : Builds(b)
    BY <1>3 DEF BuildsOK
  <1>5. PICK n : n = Len(checkpoints)
    OBVIOUS
  <1>6. /\ db' = db /\ stack' = Caller("failed") /\ Built
        /\ checkpoints' = Front(checkpoints)
        /\ files' = files \ Since(files_after_checkpoint, checkpoints[n].files)
        /\ files_after_checkpoint' = SubSeq(files_after_checkpoint, 1, checkpoints[n].files)
    BY <1>5 DEF Rollback, RollbackToLastCheckpoint
  <1>7. PICK g : Numbers(g, n, BegunAt) /\ Ordered(g)
    BY <1>2, <1>5 DEF OrderOK
  <1>8. /\ n \in Nat \ {0} /\ Len(checkpoints') = n - 1
        /\ \A k \in 1..n - 1 : checkpoints'[k] = checkpoints[k]
        /\ \A m \in DOMAIN stack' : m \in DOMAIN stack /\ stack'[m].file = stack[m].file
        /\ \E h : /\ Numbers(h, n - 1, BegunAt')
                  /\ \A k \in 1..n - 1 : stack[g[k]].errors => stack'[h[k]].errors
    BY <1>5, <1>6, <1>7, CallerOrder
  <1>9. PICK h : /\ Numbers(h, n - 1, BegunAt')
                 /\ \A k \in 1..n - 1 : stack[g[k]].errors => stack'[h[k]].errors
    BY <1>8
  <1>10. Sourced'
    BY <1>2, <1>6, <1>8 DEF Sourced
  <1>11. Committed' = Committed
    <2>1. Version(1)' = Version(1)
      BY <1>3, <1>4, RollbackBuilds
    <2>2. Types' /\ MarksOK' => FirstIsCommitted'
      BY FirstVersionAlways, PTL
    <2>3. QED  BY <1>3, <2>1, <2>2, FirstVersion DEF FirstIsCommitted
  <1> DEFINE fac == files_after_checkpoint
             kept == checkpoints[n].files
  <1>12. /\ fac \in Seq(File) /\ kept \in 0..Len(fac)
    <2>1. n \in 1..Len(checkpoints)
      BY <1>5, <1>8
    <2>2. Mark(n) = checkpoints[n] /\ n \in 1..Current
      BY <1>3, <2>1, MarksAreTyped
    <2>3. QED  BY <1>3, <2>2, MarksAreTyped DEF MarksTyped, Types
  <1>13. PICK m \in Nat : m = kept /\ m <= Len(fac)
    BY <1>12
  <1>14. /\ DOMAIN fac' = 1..m /\ DOMAIN fac = 1..Len(fac) /\ \A i \in 1..m : fac'[i] = fac[i]
    <2>1. /\ SubSeq(fac, 1, m) \in Seq(File) /\ Len(SubSeq(fac, 1, m)) = m
          /\ \A i \in 1..m : SubSeq(fac, 1, m)[i] = fac[i]
      BY <1>12, <1>13, Prefix
    <2>2. QED  BY <1>6, <1>12, <1>13, <2>1
  <1>15. ASSUME NEW i \in 1..m
         PROVE  \/ ToSet(proto(fac[i]).imports)' \subseteq Added(i)'
                \/ \E k \in 1..Len(checkpoints') : checkpoints'[k].files < i /\ stack'[h[k]].errors
    <2>1. i \in DOMAIN fac /\ fac'[i] = fac[i] /\ \A j \in 1..i - 1 : fac'[j] = fac[j]
      <3>1. i \in 1..Len(fac) /\ \A j \in 1..i - 1 : j \in 1..m
        BY <1>12, <1>13
      <3>2. QED  BY <1>14, <3>1
    <2>2. Added(i)' = Added(i)
      BY <1>11, <2>1 DEF Added
    <2>3. CASE ToSet(proto(fac[i]).imports) \subseteq Added(i)
      BY <1>6, <2>1, <2>2, <2>3 DEF proto
    <2>4. CASE \E k \in 1..n : checkpoints[k].files < i /\ stack[g[k]].errors
      <3>1. PICK k \in 1..n : checkpoints[k].files < i /\ stack[g[k]].errors
        BY <2>4
      <3>2. k # n
        BY <1>13, <3>1
      <3>3. k \in 1..n - 1
        BY <1>8, <3>2
      <3>4. QED  BY <1>8, <1>9, <3>1, <3>3
    <2>5. QED  BY <1>5, <1>7, <2>1, <2>3, <2>4 DEF Ordered
  <1>16. Ordered(h)'
    BY <1>14, <1>15 DEF Ordered
  <1>17. OrderOK'
    BY <1>8, <1>9, <1>16 DEF OrderOK
  <1>18. QED  BY <1>2, <1>6, <1>10, <1>11, <1>17

\* What a call builds is in the database.
LEMMA BuiltForIsThere ==
  ASSUME Types, Consistent(db), NEW w \in Calls, w.kind # "BuildFile"
  PROVE  BuiltFor(w) \in db.has \cup {None}
  <1>1. w.kind # "FindFileByName" => w.name \in Symbol
    BY DEF Calls
  <1>2. QED  BY <1>1 DEF BuiltFor, Consistent

LEMMA CallOrder ==
  ASSUME IInv, FromDatabase, UNCHANGED <<db, tables, marks, stack>>
  PROVE  FromDatabase'
  <1>1. Types
    BY DEF IInv
  <1>2. BegunAt' = BegunAt
    BY DEF BegunAt
  <1>3. Consistent(db) => \A n \in DOMAIN stack' : stack'[n].file \in db.has
    BY DEF FromDatabase, Sourced
  <1>4. QED  BY <1>1, <1>2, <1>3, OrderStays DEF tables

LEMMA FindInDatabaseOrder ==
  ASSUME IInv, IInv', FromDatabase, NEW t \in Thread, FindInDatabase(t)
  PROVE  FromDatabase'
  <1>1. /\ Types /\ want[t] \in Calls /\ want[t].kind # "BuildFile" /\ stack = <<>>
    BY LockingIs DEF FindInDatabase
  <1>2. UNCHANGED <<db, tables, marks>>
    BY DEF FindInDatabase
  <1> DEFINE f == BuiltFor(want[t])
             via == IF ByName(want[t]) THEN None ELSE want[t].name
  <1>3. \/ stack' = stack
        \/ stack' = <<Frame(f, via)>>
    BY DEF FindInDatabase
  <1>4. f \in File /\ via \in Symbol \cup {None} /\ (Consistent(db) => f \in db.has)
    <2>1. f # None
      BY DEF FindInDatabase
    <2>2. QED  BY <1>1, <2>1, BuiltForIs, BuiltForIsThere
  <1> HIDE DEF f, via
  <1>5. CASE stack' = stack
    BY <1>2, <1>5, CallOrder
  <1>6. CASE stack' = <<Frame(f, via)>>
    <2>1. stack' = Append(stack, Frame(f, via))
      BY <1>1, <1>6
    <2>2. QED  BY <1>2, <1>4, <2>1, PushOrder DEF tables
  <1>7. QED  BY <1>3, <1>5, <1>6

LEMMA FromDatabaseStep ==
  ASSUME IsFiniteSet(File), IInv, IInv', FromDatabase, [Next]_vars
  PROVE  FromDatabase'
  <1>1. CASE BuildStep
    <2>1. CASE Resolve
      <3>1. UNCHANGED <<db, files, marks>> /\ Linking
        BY <2>1 DEF Resolve
      <3>2. \/ stack' = NextScope
            \/ stack' = Top([top EXCEPT !.k = @ + 1, !.c = 1, !.tried = "no"])
        BY <2>1 DEF Resolve
      <3>3. QED  BY <3>1, <3>2, ScopeOrder
    <2>2. CASE GiveUpScope
      BY <2>2, ScopeOrder DEF GiveUpScope, tables
    <2>3. QED  BY <1>1, <2>1, <2>2, LoadImportOrder, AddToTablesOrder, BuildForSymbolOrder,
                  CommitOrder, RollbackOrder DEF BuildStep
  <1>2. ASSUME NEW t \in Thread, Progress(t)
        PROVE  FromDatabase'
    <2>1. FindInDatabase(t) \/ UNCHANGED <<db, tables, marks, stack>>
      BY <1>2 DEF Progress, FindCached, FindLocked, FindNothing, Validate, Return
    <2>2. QED  BY <2>1, CallOrder, FindInDatabaseOrder
  <1>3. ASSUME NEW t \in Thread, NEW kind, NEW n, NEW at, Call(t, kind, n, at)
        PROVE  FromDatabase'
    BY <1>3, CallOrder DEF Call
  <1>4. ASSUME NEW t \in Thread, NEW f \in File, NEW matches \in BOOLEAN, BuildFile(t, f, matches)
        PROVE  FromDatabase'
    <2>1. db' = db /\ db.kind = "none"
      BY <1>4 DEF BuildFile
    <2>2. ~Consistent(db')
      BY <2>1 DEF Consistent
    <2>3. QED  BY <2>2 DEF FromDatabase
  <1>5. CASE UNCHANGED vars
    BY <1>5, CallOrder DEF vars
  <1>6. QED
    BY <1>1, <1>2, <1>3, <1>4, <1>5
    DEF Next, Rest, FindFileByName, FindFileContainingSymbol, FindByName

LEMMA FromDatabaseStarts ==
  ASSUME Init
  PROVE  FromDatabase
  <1>1. /\ checkpoints = <<>> /\ files_after_checkpoint = <<>> /\ files = {} /\ stack = <<>>
    BY DEF Init
  <1>2. BegunAt = {} /\ Len(checkpoints) = 0
    BY <1>1 DEF BegunAt
  <1>3. Numbers(<<>>, 0, {})
    BY DEF Numbers
  <1>4. Ordered(<<>>)
    BY <1>1 DEF Ordered
  <1>5. OrderOK
    BY <1>2, <1>3, <1>4 DEF OrderOK
  <1>6. Sourced /\ Committed = {}
    BY <1>1 DEF Sourced, Committed
  <1>7. QED  BY <1>5, <1>6 DEF FromDatabase

-------------------------------------------------------------------------------
(* A lookup finds what the database offers, if names are fully qualified.     *)
(* Whatever failed before, a file that can be built is never known as bad,    *)
(* and builds without an error; what it imports is on a lower level, so it    *)
(* does not wait for a file that waits for it.                                *)

KnownOK == known_bad_files \cap Buildable(db) = {}

\* Nothing has gone wrong with a frame so far, given the files and links.
Untroubled(fr, built, linked) ==
  LET imports == proto(fr.file).imports IN
  /\ ~fr.errors /\ fr.tried = "no" /\ fr.at \in {"load", "link"}
  /\ fr.at = "load" =>
       fr.file \notin built /\ \A j \in DOMAIN imports : j < fr.i => imports[j] \in built
  /\ fr.at = "link" => fr.file \in built /\ ToSet(imports) \subseteq linked[fr.file]
\* A file that can be built waits for an import only.
Requests(n) ==
  /\ stack[n].at = "load" /\ stack[n].i \in DOMAIN proto(stack[n].file).imports
  /\ stack[n + 1].file = proto(stack[n].file).imports[stack[n].i]
GoodFrame(n) ==
  /\ Untroubled(stack[n], files, links)
  /\ n < Len(stack) => Requests(n)
  /\ \A m \in DOMAIN stack : n < m => Below(db, stack[m].file, stack[n].file)
GoodFrames == \A n \in DOMAIN stack : stack[n].file \in Buildable(db) => GoodFrame(n)

PendingFrom(g) == \A a \in 1..Len(pending_files) : pending_files[a] = stack[g[a]].file
PendingAre == \E g : Numbers(g, Len(pending_files), LoadingAt) /\ PendingFrom(g)

Qualified == Consistent(db) /\ FullyQualified(db)
BuildsGood == KnownOK /\ GoodFrames /\ PendingAre

\* A file that can be built is on top of a file that can be built.
LEMMA TopDecides ==
  ASSUME IsFiniteSet(File), Types, FramesOK, GoodFrames, NEW n \in DOMAIN stack,
         stack[n].file \in Buildable(db)
  PROVE  /\ stack # <<>> /\ top.file \in Buildable(db)
         /\ n # Len(stack) => n < Len(stack) /\ Below(db, top.file, stack[n].file)
  <1>1. stack \in Seq(Frames)
    BY DEF FramesOK
  <1>2. /\ Len(stack) \in DOMAIN stack /\ stack # <<>> /\ top = stack[Len(stack)]
        /\ (n # Len(stack) => n < Len(stack))
    BY <1>1 DEF top
  <1>3. n # Len(stack) => Below(db, top.file, stack[n].file)
    BY <1>2 DEF GoodFrames, GoodFrame
  <1>4. QED  BY <1>2, <1>3, BelowIs, DatabaseIs

\* The frame on top, if its file can be built.
LEMMA TopIsGood ==
  ASSUME FramesOK, GoodFrames, stack # <<>>, top.file \in Buildable(db)
  PROVE  Untroubled(top, files, links)
  <1>1. Len(stack) \in DOMAIN stack /\ top = stack[Len(stack)]
    BY TopFrame, TopOK
  <1>2. QED  BY <1>1 DEF GoodFrames, GoodFrame

LEMMA NoneGood ==
  ASSUME IsFiniteSet(File), Types, FramesOK, GoodFrames, db' = db,
         stack # <<>> => top.file \notin Buildable(db),
         \A n \in DOMAIN stack' : n \in DOMAIN stack /\ stack'[n].file = stack[n].file
  PROVE  GoodFrames'
  <1>1. \A n \in DOMAIN stack : stack[n].file \notin Buildable(db)
    BY TopDecides
  <1>2. \A n \in DOMAIN stack' : stack'[n].file \notin Buildable(db')
    BY <1>1
  <1>3. QED  BY <1>2 DEF GoodFrames

\* The frame on top goes on.
LEMMA TopGood ==
  ASSUME IsFiniteSet(File), Types, FramesOK, FramesOK', GoodFrames, db' = db, stack # <<>>,
         NEW fr, stack' = Top(fr), fr.file = top.file,
         top.file \in Buildable(db) =>
           /\ Untroubled(fr, files', links')
           /\ \A n \in DOMAIN stack : n # Len(stack) /\ stack[n].file \in Buildable(db) =>
                Untroubled(stack[n], files', links')
  PROVE  GoodFrames'
  <1>1. /\ Len(stack) \in Nat \ {0} /\ DOMAIN stack = 1..Len(stack)
        /\ Len(stack') = Len(stack) /\ DOMAIN stack' = DOMAIN stack
        /\ stack'[Len(stack)] = fr /\ top = stack[Len(stack)]
        /\ \A n \in DOMAIN stack : n # Len(stack) => stack'[n] = stack[n]
    BY TopFrames
  <1>2. \A n \in DOMAIN stack : stack'[n].file = stack[n].file
    BY <1>1
  <1>3. ASSUME NEW n \in DOMAIN stack, stack[n].file \in Buildable(db)
        PROVE  GoodFrame(n)'
    <2>1. top.file \in Buildable(db)
      BY <1>3, TopDecides
    <2>2. Untroubled(stack'[n], files', links')
      BY <1>1, <1>3, <2>1
    <2>3. n < Len(stack) => Requests(n)'
      <3>1. ASSUME n < Len(stack)
            PROVE  n + 1 \in DOMAIN stack /\ stack'[n] = stack[n] /\ Requests(n)
        BY <1>1, <1>3, <3>1 DEF GoodFrames, GoodFrame
      <3>2. QED  BY <1>2, <3>1 DEF Requests, proto
    <2>4. \A m \in DOMAIN stack' : n < m => Below(db', stack'[m].file, stack'[n].file)
      BY <1>1, <1>2, <1>3 DEF GoodFrames, GoodFrame
    <2>5. QED  BY <1>1, <2>2, <2>3, <2>4 DEF GoodFrame, Untroubled, proto
  <1>4. QED  BY <1>1, <1>2, <1>3 DEF GoodFrames

\* The frame on top asks for an import.
LEMMA PushGood ==
  ASSUME IsFiniteSet(File), Types, FramesOK, FramesOK', GoodFrames, db' = db,
         UNCHANGED <<files, links>>, NEW f \in File, NEW via \in Symbol \cup {None},
         stack' = Append(stack, Frame(f, via)), f \notin files,
         stack # <<>> /\ top.file \in Buildable(db) =>
           /\ top.at = "load" /\ top.i \in DOMAIN proto(top.file).imports
           /\ f = proto(top.file).imports[top.i]
  PROVE  GoodFrames'
  <1>1. /\ Frame(f, via) \in Frames /\ Frame(f, via).at = "load" /\ Frame(f, via).file = f
        /\ Frame(f, via).i = 1 /\ ~Frame(f, via).errors /\ Frame(f, via).tried = "no"
    BY DEF Frame, Frames
  <1>2. PICK fr : fr = Frame(f, via)
    OBVIOUS
  <1>3. PICK top_n \in Nat : top_n = Len(stack)
    BY DEF FramesOK
  <1>4. /\ DOMAIN stack = 1..top_n /\ Len(stack') = top_n + 1 /\ DOMAIN stack' = 1..top_n + 1
        /\ stack'[top_n + 1] = fr /\ \A n \in DOMAIN stack : stack'[n] = stack[n]
    BY <1>1, <1>2, <1>3, PushFrames
  <1>5. Untroubled(fr, files, links)
    <2>1. proto(f).imports \in Seq(File)
      BY Protos
    <2>2. \A j \in DOMAIN proto(f).imports : ~ j < 1
      BY <2>1
    <2>3. QED  BY <1>1, <1>2, <2>2 DEF Untroubled
  <1>6. ASSUME NEW n \in 1..top_n, stack[n].file \in Buildable(db)
        PROVE  GoodFrame(n)'
    <2>1. GoodFrame(n) /\ n \in DOMAIN stack /\ n <= top_n /\ n + 1 \in 1..top_n + 1 /\ n # top_n + 1
      BY <1>4, <1>6 DEF GoodFrames
    <2>2. stack # <<>> /\ top = stack[top_n] /\ top_n \in 1..top_n
      BY <1>3, <1>6, <2>1 DEF top
    <2>3. top.file \in Buildable(db)
      BY <1>6, <2>1, TopDecides
    <2>4. /\ top.at = "load" /\ top.i \in DOMAIN proto(top.file).imports
          /\ f = proto(top.file).imports[top.i]
      BY <2>2, <2>3
    <2>5. Below(db, f, top.file)
      <3>1. top.file \in File
        BY <2>2, TopFrame
      <3>2. proto(top.file).imports \in Seq(File)
        BY <3>1, Protos
      <3>3. f \in ToSet(db.proto[top.file].imports)
        BY <2>4, <3>2, ToSetIs DEF proto
      <3>4. QED  BY <2>3, <3>3, ImportsAreBelow, DatabaseIs
    <2>6. Requests(n)'
      <3>1. CASE n = top_n
        <4>1. stack'[n] = top /\ stack'[n + 1].file = f
          BY <1>1, <1>2, <1>4, <2>1, <2>2, <3>1
        <4>2. QED  BY <2>4, <4>1 DEF Requests, proto
      <3>2. CASE n # top_n
        <4>1. n < top_n /\ n + 1 \in DOMAIN stack
          BY <1>4, <2>1, <3>2
        <4>2. Requests(n) /\ stack'[n] = stack[n] /\ stack'[n + 1] = stack[n + 1]
          BY <1>3, <1>4, <2>1, <4>1 DEF GoodFrame
        <4>3. QED  BY <4>2 DEF Requests, proto
      <3>3. QED  BY <3>1, <3>2
    <2>7. ASSUME NEW m \in 1..top_n + 1, n < m
          PROVE  Below(db, stack'[m].file, stack[n].file)
      <3>1. CASE m = top_n + 1
        <4>1. n = top_n \/ Below(db, top.file, stack[n].file)
          BY <1>3, <1>6, <2>1, TopDecides
        <4>2. stack'[m].file = f
          BY <1>1, <1>2, <1>4, <3>1
        <4>3. n = top_n => stack[n].file = top.file
          BY <2>2
        <4>4. QED  BY <2>5, <4>1, <4>2, <4>3, BelowIs, DatabaseIs
      <3>2. CASE m # top_n + 1
        <4>1. m \in DOMAIN stack /\ stack'[m] = stack[m]
          BY <1>4, <3>2
        <4>2. QED  BY <2>1, <2>7, <4>1 DEF GoodFrame
      <3>3. QED  BY <3>1, <3>2
    <2>8. stack'[n] = stack[n]
      BY <1>4, <2>1
    <2>9. QED  BY <1>4, <2>1, <2>6, <2>7, <2>8 DEF GoodFrame, Untroubled, proto
  <1>7. GoodFrame(top_n + 1)'
    <2>1. ~ top_n + 1 < Len(stack') /\ \A m \in DOMAIN stack' : ~ top_n + 1 < m
      BY <1>4
    <2>2. QED  BY <1>4, <1>5, <2>1 DEF GoodFrame, Untroubled, proto
  <1>8. \A n \in DOMAIN stack' : n \in 1..top_n \/ n = top_n + 1
    BY <1>4
  <1>9. ASSUME NEW n \in DOMAIN stack', stack'[n].file \in Buildable(db')
        PROVE  GoodFrame(n)'
    <2>1. CASE n \in 1..top_n
      BY <1>4, <1>6, <1>9, <2>1
    <2>2. QED  BY <1>7, <1>8, <2>1
  <1>10. QED  BY <1>9 DEF GoodFrames

\* The frame on top is done, and so is the import for which it ran.
LEMMA CallerGood ==
  ASSUME IsFiniteSet(File), Types, FramesOK, FramesOK', GoodFrames, db' = db,
         UNCHANGED <<files, links>>, stack # <<>>, NEW outcome, stack' = Caller(outcome),
         top.file \in Buildable(db) => top.file \in files
  PROVE  GoodFrames'
  <1>1. PICK N \in Nat \ {0} : N = Len(stack)
    BY CallerFrames
  <1>2. /\ DOMAIN stack = 1..N /\ Len(stack') = N - 1 /\ DOMAIN stack' = 1..N - 1
        /\ top = stack[N]
        /\ \A n \in 1..N - 1 :
             stack'[n] = IF n = N - 1 THEN Resumed(stack[n], outcome) ELSE stack[n]
    BY <1>1, CallerFrames
  <1>3. \A n \in 1..N - 1 : n \in DOMAIN stack /\ stack[n] \in Frames
    <2>1. stack \in Seq(Frames) /\ \A n \in 1..N - 1 : n \in 1..N
      BY <1>1 DEF FramesOK
    <2>2. QED  BY <1>2, <2>1, ElementOfSeq
  <1>4. \A n \in 1..N - 1 : stack'[n].file = stack[n].file /\ stack'[n].at = stack[n].at
    BY <1>2, <1>3 DEF Resumed, Frames
  <1>5. ASSUME NEW n \in 1..N - 1, stack[n].file \in Buildable(db)
        PROVE  GoodFrame(n)'
    <2>1. GoodFrame(n) /\ n < N /\ n \in DOMAIN stack /\ n + 1 \in 1..N
      BY <1>3, <1>5, <1>1 DEF GoodFrames
    <2>2. Requests(n) /\ Untroubled(stack[n], files, links)
      BY <1>1, <2>1 DEF GoodFrame
    <2>3. top.file \in Buildable(db) /\ top.file \in files
      BY <1>5, <2>1, TopDecides
    <2>4. Untroubled(stack'[n], files, links)
      <3>1. CASE n = N - 1
        <4> DEFINE fr == [stack[n] EXCEPT !.i = @ + 1]
        <4>1. stack[n].at = "load" /\ stack[n] \in Frames
          BY <1>3, <2>2 DEF Requests
        <4>2. stack'[n] = fr
          BY <1>2, <3>1, <4>1 DEF Resumed
        <4>3. /\ fr.file = stack[n].file /\ fr.at = "load" /\ fr.errors = stack[n].errors
              /\ fr.tried = stack[n].tried /\ fr.i = stack[n].i + 1 /\ stack[n].i \in Nat
          BY <4>1 DEF Frames
        <4>4. stack[n + 1] = top
          BY <1>1, <1>2, <3>1
        <4>5. proto(fr.file).imports[stack[n].i] \in files
          BY <2>2, <2>3, <4>3, <4>4 DEF Requests
        <4>6. proto(fr.file).imports \in Seq(File)
          <5>1. stack[n].file \in File
            BY <4>1 DEF Frames
          <5>2. QED  BY <4>3, <5>1, Protos
        <4> HIDE DEF fr
        <4>7. ASSUME NEW j \in DOMAIN proto(fr.file).imports, j < fr.i
              PROVE  proto(fr.file).imports[j] \in files
          <5>1. j \in Nat
            BY <4>6
          <5>2. j < stack[n].i \/ j = stack[n].i
            BY <4>3, <4>7, <5>1
          <5>3. QED  BY <2>2, <4>1, <4>3, <4>5, <5>2 DEF Untroubled
        <4>8. fr.file \notin files /\ ~fr.errors /\ fr.tried = "no"
          BY <2>2, <4>1, <4>3 DEF Untroubled
        <4>9. QED  BY <4>2, <4>3, <4>7, <4>8 DEF Untroubled
      <3>2. CASE n # N - 1
        BY <1>2, <2>2, <3>2
      <3>3. QED  BY <3>1, <3>2
    <2>5. ASSUME n < Len(stack')
          PROVE  Requests(n)'
      <3>1. n # N - 1 /\ n + 1 \in 1..N - 1
        BY <1>1, <1>2, <2>1, <2>5
      <3>2. stack'[n] = stack[n] /\ stack'[n + 1].file = stack[n + 1].file
        BY <1>2, <1>4, <3>1
      <3>3. QED  BY <2>2, <3>2 DEF Requests, proto
    <2>6. \A m \in DOMAIN stack' : n < m => Below(db, stack'[m].file, stack'[n].file)
      BY <1>2, <1>3, <1>4, <2>1 DEF GoodFrame
    <2>7. QED  BY <2>4, <2>5, <2>6 DEF GoodFrame, Untroubled, proto
  <1>6. QED  BY <1>2, <1>4, <1>5 DEF GoodFrames

-------------------------------------------------------------------------------
(* The files on the list of pending files are those that load imports.        *)

LEMMA PendingStaysFrom ==
  ASSUME PendingAre, pending_files' = pending_files, LoadingAt' = LoadingAt,
         \A n \in LoadingAt : stack'[n].file = stack[n].file
  PROVE  PendingAre'
  <1>1. PICK g : Numbers(g, Len(pending_files), LoadingAt) /\ PendingFrom(g)
    BY DEF PendingAre
  <1>2. \A a \in 1..Len(pending_files) : g[a] \in LoadingAt
    BY <1>1 DEF Numbers
  <1>3. Numbers(g, Len(pending_files'), LoadingAt')
    BY <1>1
  <1>4. PendingFrom(g)'
    BY <1>1, <1>2 DEF PendingFrom
  <1>5. QED  BY <1>3, <1>4 DEF PendingAre, Numbers

LEMMA PendingPushFrom ==
  ASSUME Types, FramesOK, PendingAre, NEW f \in File, NEW via \in Symbol \cup {None},
         stack' = Append(stack, Frame(f, via)), pending_files' = Append(pending_files, f)
  PROVE  PendingAre'
  <1>1. PICK m \in Nat, N \in Nat : m = Len(pending_files) /\ N = Len(stack)
    BY DEF Types, FramesOK
  <1>2. PICK g : Numbers(g, m, LoadingAt) /\ PendingFrom(g)
    BY <1>1 DEF PendingAre
  <1>3. Frame(f, via) \in Frames /\ Frame(f, via).at = "load" /\ Frame(f, via).file = f
    BY DEF Frame, Frames
  <1>4. /\ DOMAIN stack = 1..N /\ DOMAIN stack' = 1..N + 1
        /\ stack'[N + 1] = Frame(f, via) /\ \A n \in DOMAIN stack : stack'[n] = stack[n]
    BY <1>1, <1>3, PushFrames
  <1>5. LoadingAt' = LoadingAt \cup {N + 1} /\ LoadingAt \in SUBSET (1..N)
    <2>1. \A n \in 1..N + 1 : n \in 1..N \/ n = N + 1
      OBVIOUS
    <2>2. \A n \in 1..N : n \in 1..N + 1
      OBVIOUS
    <2>3. N + 1 \in 1..N + 1
      OBVIOUS
    <2>4. QED  BY <1>3, <1>4, <2>1, <2>2, <2>3 DEF LoadingAt
  <1>6. PICK h : /\ Numbers(h, m + 1, LoadingAt \cup {N + 1})
                 /\ h[m + 1] = N + 1 /\ \A a \in 1..m : h[a] = g[a]
    BY <1>2, <1>5, NumbersPush
  <1>7. /\ Len(pending_files') = m + 1 /\ pending_files'[m + 1] = f
        /\ \A a \in 1..m : pending_files'[a] = pending_files[a]
    <2>1. pending_files \in Seq(File)
      BY DEF Types
    <2>2. QED  BY <1>1, <2>1, AppendProperties
  <1>8. \A a \in 1..m : g[a] \in DOMAIN stack /\ pending_files[a] = stack[g[a]].file
    BY <1>1, <1>2 DEF Numbers, PendingFrom, LoadingAt
  <1>9. ASSUME NEW a \in 1..m + 1
        PROVE  pending_files'[a] = stack'[h[a]].file
    <2>1. CASE a = m + 1
      BY <1>3, <1>4, <1>6, <1>7, <2>1
    <2>2. CASE a # m + 1
      <3>1. a \in 1..m
        BY <2>2
      <3>2. QED  BY <1>4, <1>6, <1>7, <1>8, <3>1
    <2>3. QED  BY <2>1, <2>2
  <1>10. PendingFrom(h)'
    BY <1>7, <1>9 DEF PendingFrom
  <1>11. Numbers(h, Len(pending_files'), LoadingAt')
    BY <1>5, <1>6, <1>7
  <1>12. QED  BY <1>10, <1>11 DEF PendingAre, Numbers

LEMMA PendingPopFrom ==
  ASSUME Types, FramesOK, PendingAre, stack # <<>>, Len(stack) \in LoadingAt,
         LoadingAt' = LoadingAt \ {Len(stack)}, pending_files' = Front(pending_files),
         \A n \in LoadingAt : stack'[n].file = stack[n].file
  PROVE  PendingAre'
  <1>1. PICK m \in Nat : m = Len(pending_files)
    BY DEF Types
  <1>2. PICK g : Numbers(g, m, LoadingAt) /\ PendingFrom(g)
    BY <1>1 DEF PendingAre
  <1>3. LoadingAt \in SUBSET Nat /\ \A x \in LoadingAt : x <= Len(stack)
    BY DEF FramesOK, LoadingAt
  <1>4. PICK h : h = [a \in 1..m - 1 |-> g[a]]
    OBVIOUS
  <1>5. /\ m \in Nat \ {0} /\ Numbers(h, m - 1, LoadingAt \ {Len(stack)})
        /\ \A a \in 1..m - 1 : g[a] \in LoadingAt \ {Len(stack)}
    <2>1. Len(stack) \in LoadingAt
      OBVIOUS
    <2>2. /\ m \in Nat \ {0} /\ g[m] = Len(stack)
          /\ \A a \in 1..m - 1 : g[a] \in LoadingAt \ {Len(stack)}
          /\ Numbers([a \in 1..m - 1 |-> g[a]], m - 1, LoadingAt \ {Len(stack)})
      BY <1>2, <1>3, <2>1, NumbersPop
    <2>3. QED  BY <1>4, <2>2
  <1>6. /\ Len(pending_files') = m - 1
        /\ \A a \in 1..m - 1 : pending_files'[a] = pending_files[a]
    <2>1. pending_files # <<>> /\ pending_files \in Seq(File)
      BY <1>1, <1>5 DEF Types
    <2>2. QED  BY <1>1, <2>1, FrontIs
  <1>7. \A a \in 1..m - 1 : a \in 1..m
    BY <1>5
  <1>8. PendingFrom(h)'
    BY <1>1, <1>2, <1>4, <1>5, <1>6, <1>7 DEF PendingFrom
  <1>9. Numbers(h, Len(pending_files'), LoadingAt')
    BY <1>5, <1>6
  <1>10. QED  BY <1>8, <1>9 DEF PendingAre, Numbers

\* What waits for a file that can be built is below it, except that file itself.
LEMMA PendingIsBelow ==
  ASSUME IsFiniteSet(File), Types, FramesOK, GoodFrames, PendingAre,
         NEW f \in ToSet(pending_files), f \in Buildable(db)
  PROVE  /\ stack # <<>> /\ top.file \in Buildable(db)
         /\ (top.file = f /\ top.at = "load") \/ Below(db, top.file, f)
  <1>1. PICK a \in 1..Len(pending_files) : f = pending_files[a]
    BY ToSetIs DEF Types
  <1>2. PICK g : Numbers(g, Len(pending_files), LoadingAt) /\ PendingFrom(g)
    BY DEF PendingAre
  <1>3. PICK n \in LoadingAt : f = stack[n].file
    BY <1>1, <1>2 DEF Numbers, PendingFrom
  <1>4. n \in DOMAIN stack /\ stack[n].at = "load"
    BY DEF LoadingAt
  <1>5. n = Len(stack) => top = stack[n]
    BY DEF top
  <1>6. QED  BY <1>3, <1>4, <1>5, TopDecides

-------------------------------------------------------------------------------
(* What the tables have of a file that can be built.                          *)

LEMMA OneDefiner ==
  ASSUME IsFiniteSet(File), Consistent(db), NEW s \in Symbol, NEW f \in File, NEW g \in File,
         s \in proto(f).defines \cup {proto(f).package},
         s \in proto(g).defines \cup {proto(g).package}
  PROVE  f = g
  <1> DEFINE S == {h \in File : s \in db.proto[h].defines \cup {db.proto[h].package}}
  <1>1. f \in S /\ g \in S
    BY DEF proto
  <1>2. IsFiniteSet(S) /\ Cardinality(S) \in Nat
    BY FS_Subset, FS_CardinalityType
  <1>3. Cardinality(S) <= 1
    BY DEF Consistent
  <1> HIDE DEF S
  <1>4. Cardinality(S) # 0
    BY <1>1, <1>2, FS_EmptySet
  <1>5. Cardinality(S) = 1
    BY <1>2, <1>3, <1>4
  <1>6. PICK x : S = {x}
    BY <1>2, <1>5, FS_Singleton
  <1>7. QED  BY <1>1, <1>6

LEMMA TablesPoint ==
  ASSUME IInv
  PROVE  /\ \A s \in Symbol : symbols[s] # Undefined =>
              /\ symbols[s].file \in files
              /\ s \in proto(symbols[s].file).defines \cup {proto(symbols[s].file).package}
              /\ ~symbols[s].package => s \in proto(symbols[s].file).defines
         /\ \A f \in File : links[f] \subseteq files
  <1>1. Types /\ MarksOK /\ BuildsOK
    BY DEF IInv
  <1>2. PICK g : Builds(g)
    BY <1>1 DEF BuildsOK
  <1>3. PICK last : last = Current
    OBVIOUS
  <1>4. last \in 1..Current
    BY <1>1, <1>3, MarksAreTyped
  <1>5. Points(Version(last))
    BY <1>2, <1>4 DEF Builds, SoundVersion
  <1>6. /\ Version(last).files = files /\ Version(last).symbols = symbols
        /\ Version(last).links = links
    BY <1>1, <1>3, LastVersion
  <1>7. QED  BY <1>5, <1>6 DEF Points

\* All that it defines is in the tables once it is.
LEMMA BuildableIsWhole ==
  ASSUME IInv, GoodFrames, NEW f \in files, f \in Buildable(db), NEW s \in proto(f).defines
  PROVE  symbols[s] = [file |-> f, package |-> FALSE]
  <1>1. Types /\ MarksOK /\ BuildsOK /\ FramesOK
    BY DEF IInv
  <1>2. PICK g : Builds(g)
    BY <1>1 DEF BuildsOK
  <1>3. PICK last : last = Current
    OBVIOUS
  <1>4. last \in 1..Current
    BY <1>1, <1>3, MarksAreTyped
  <1>5. SoundVersion(last, g) /\ Version(last).files = files /\ Version(last).symbols = symbols
    BY <1>1, <1>2, <1>3, <1>4, LastVersion DEF Builds
  <1>6. CASE Complete(Version(last), f, Finished(f))
    BY <1>5, <1>6 DEF Complete, Whole
  <1>7. CASE \E k \in 1..last - 1 : f = stack[g[k]].file
    <2>1. PICK k \in 1..last - 1 : f = stack[g[k]].file
      BY <1>7
    <2>2. g[k] \in DOMAIN stack
      BY <1>1, <1>2, <1>4, Begun
    <2>3. ~stack[g[k]].errors
      BY <2>1, <2>2 DEF GoodFrames, GoodFrame, Untroubled
    <2>4. Complete(Version(last), f, stack[g[k]].k)
      BY <1>5, <2>1, <2>3 DEF SoundVersion
    <2>5. QED  BY <1>5, <2>4 DEF Complete, Whole
  <1>8. QED  BY <1>5, <1>6, <1>7 DEF SoundVersion

\* A file that can be built is not broken, and its imports can be built.
LEMMA BuildableHas ==
  ASSUME IsFiniteSet(File), Types, NEW f \in Buildable(db)
  PROVE  /\ f \in File /\ f \in db.has /\ ~proto(f).broken
         /\ ToSet(proto(f).imports) \subseteq Buildable(db)
         /\ f \notin ToSet(proto(f).imports)
         /\ \A i \in DOMAIN proto(f).refs : \E s \in ToSet(proto(f).refs[i]) :
              \E g \in {f} \cup ToSet(proto(f).imports) : s \in proto(g).defines
  <1>1. /\ Buildable(db) \subseteq db.has /\ db.has \subseteq File
        /\ Buildable(db) = Ready(db, Buildable(db))
    BY BuildableIs, DatabaseIs
  <1>2. ~ f \in ToSet(db.proto[f].imports)
    BY ImportsAreBelow, BelowIs, DatabaseIs
  <1>3. f \in Ready(db, Buildable(db))
    BY <1>1
  <1> DEFINE types == UNION {db.proto[g].defines : g \in {f} \cup ToSet(db.proto[f].imports)}
  <1>4. /\ ~db.proto[f].broken /\ ToSet(db.proto[f].imports) \subseteq Buildable(db)
        /\ \A i \in DOMAIN db.proto[f].refs : ToSet(db.proto[f].refs[i]) \cap types # {}
    BY <1>3 DEF Ready
  <1>5. \A i \in DOMAIN db.proto[f].refs : \E s \in ToSet(db.proto[f].refs[i]) : s \in types
    BY <1>4
  <1>6. \A s \in types : \E g \in {f} \cup ToSet(db.proto[f].imports) : s \in db.proto[g].defines
    OBVIOUS
  <1> HIDE DEF types
  <1>7. QED  BY <1>1, <1>2, <1>4, <1>5, <1>6 DEF proto

\* Its names are there, and are what they should be.
LEMMA NameIsThere ==
  ASSUME IsFiniteSet(File), IInv, Qualified, GoodFrames, Linking, top.file \in Buildable(db)
  PROVE  Defined(name) /\ Visible(name) /\ Untroubled(top, files, links)
  <1>1. Types /\ FramesOK
    BY DEF IInv
  <1>2. /\ stack # <<>> /\ top.at = "link" /\ top.file \in File /\ FrameOK(top)
        /\ top.k <= Len(proto(top.file).refs) /\ top \in Frames
    BY <1>1, TopFrame, TopOK DEF Linking
  <1>3. PICK f : f = top.file
    OBVIOUS
  <1>4. proto(f).refs \in Seq(Seq(Symbol) \ {<<>>}) /\ ToSet(proto(f).imports) \subseteq File
    BY <1>1, <1>2, <1>3, Protos, ToSetIs
  <1>5. PICK k : k = top.k
    OBVIOUS
  <1>6. k \in DOMAIN proto(f).refs /\ top.c \in 1..Len(proto(f).refs[k])
    BY <1>2, <1>3, <1>4, <1>5 DEF FrameOK
  <1>7. Len(proto(f).refs[k]) = 1 /\ proto(f).refs[k] \in Seq(Symbol)
    BY <1>2, <1>3, <1>4, <1>6 DEF Qualified, FullyQualified, proto
  <1>8. ToSet(proto(f).refs[k]) = {name}
    <2>1. PICK r \in Seq(Symbol) : r = proto(f).refs[k]
      BY <1>7
    <2>2. ToSet(r) = {r[i] : i \in 1..Len(r)} /\ 1..1 = {1} /\ Len(r) = 1 /\ top.c = 1
      BY <1>6, <1>7, <2>1, ToSetIs
    <2>3. name = r[1]
      BY <1>3, <1>5, <2>1, <2>2 DEF name
    <2>4. QED  BY <2>1, <2>2, <2>3
  <1>9. /\ ToSet(proto(f).imports) \subseteq Buildable(db)
        /\ \E s \in ToSet(proto(f).refs[k]) :
             \E g \in {f} \cup ToSet(proto(f).imports) : s \in proto(g).defines
    BY <1>1, <1>3, <1>6, BuildableHas
  <1>10. PICK g \in {f} \cup ToSet(proto(f).imports) : name \in proto(g).defines
    BY <1>8, <1>9
  <1>11. Untroubled(top, files, links)
    BY <1>1, <1>2, TopIsGood
  <1>12. f \in files /\ ToSet(proto(f).imports) \subseteq links[f]
    BY <1>2, <1>3, <1>11 DEF Untroubled
  <1>13. g \in files /\ g \in Buildable(db) /\ g \in {f} \cup links[f]
    BY <1>2, <1>3, <1>9, <1>12, TablesPoint
  <1>14. symbols[name] = [file |-> g, package |-> FALSE]
    BY <1>10, <1>13, BuildableIsWhole
  <1>15. g # None
    BY <1>1, <1>13, NoneOK DEF Types
  <1>16. QED  BY <1>3, <1>11, <1>13, <1>14, <1>15 DEF Defined, Undefined, Visible

-------------------------------------------------------------------------------
(* The steps of a build.                                                      *)

LEMMA LoadImportGood ==
  ASSUME IsFiniteSet(File), IInv, IInv', Qualified, BuildsGood, LoadImport
  PROVE  BuildsGood'
  <1>1. Types /\ FramesOK /\ FramesOK' /\ KnownOK /\ GoodFrames /\ PendingAre
    BY DEF IInv, BuildsGood
  <1>2. /\ UNCHANGED <<db, tables, marks, known_bad_symbols, holder, lookups, deferred>>
        /\ Loading /\ top.i <= Len(proto(top.file).imports)
    BY DEF LoadImport
  <1> DEFINE f == proto(top.file).imports[top.i]
  <1>3. /\ top.i \in DOMAIN proto(top.file).imports /\ f \in File
        /\ f \in ToSet(proto(top.file).imports)
        /\ top.file \in File /\ stack # <<>> /\ top \in Frames
    BY <1>1, <1>2, ImportIs
  <1>4. top.file \in Buildable(db) =>
          /\ f \in Buildable(db) /\ Below(db, f, top.file) /\ Untroubled(top, files, links)
    <2>1. top.file \in Buildable(db) => f \in Buildable(db) /\ Below(db, f, top.file)
      BY <1>1, <1>3, ImportsAreBelow, DatabaseIs DEF proto
    <2>2. QED  BY <1>1, <1>3, <2>1, TopIsGood
  <1>5. f \in Buildable(db) => f \in db.has
    BY <1>1, BuildableHas
  <1>6. f \in Buildable(db) /\ f \in ToSet(pending_files) => top.file \notin Buildable(db)
    <2>1. SUFFICES ASSUME f \in Buildable(db), f \in ToSet(pending_files),
                          top.file \in Buildable(db)
                   PROVE  FALSE
      OBVIOUS
    <2>2. top.file = f \/ Below(db, top.file, f)
      BY <1>1, <2>1, PendingIsBelow
    <2>3. Below(db, f, top.file)
      BY <1>4, <2>1
    <2>4. QED  BY <1>1, <2>2, <2>3, BelowIs, DatabaseIs
  <1>7. f \in Buildable(db) /\ f \in ToSet(pending_files) => top.file \in Buildable(db)
    BY <1>1, PendingIsBelow
  <1>8. \/ /\ f \in files \cup known_bad_files /\ stack' = NextImport
           /\ UNCHANGED <<pending_files, known_bad_files>>
        \/ /\ f \notin db.has \/ f \in ToSet(pending_files)
           /\ known_bad_files' = known_bad_files \cup {f}
           /\ stack' = NextImport /\ UNCHANGED pending_files
        \/ /\ f \notin files /\ stack' = Append(stack, Frame(f, None))
           /\ pending_files' = Append(pending_files, f) /\ UNCHANGED known_bad_files
    BY DEF LoadImport
  <1>9. f = proto(top.file).imports[top.i]
    OBVIOUS
  <1> HIDE DEF f
  <1>10. KnownOK'
    <2>1. f \in known_bad_files' => f \in known_bad_files \/ f \notin Buildable(db)
      BY <1>5, <1>6, <1>7, <1>8
    <2>2. known_bad_files' \subseteq known_bad_files \cup {f}
      BY <1>8
    <2>3. QED  BY <1>1, <1>2, <2>1, <2>2 DEF KnownOK
  <1>11. CASE /\ stack' = NextImport /\ UNCHANGED pending_files
              /\ f \in files \cup known_bad_files \/ f \notin db.has \/ f \in ToSet(pending_files)
    <2>1. top.file \in Buildable(db) => f \in files
      BY <1>1, <1>4, <1>5, <1>6, <1>11 DEF KnownOK
    <2> DEFINE fr == [top EXCEPT !.i = @ + 1]
    <2>2. /\ fr.file = top.file /\ fr.at = "load" /\ fr.errors = top.errors
          /\ fr.tried = top.tried /\ fr.i = top.i + 1 /\ top.i \in Nat /\ top.at = "load"
      BY <1>2, <1>3 DEF Frames, Loading
    <2>3. stack' = Top(fr)
      BY <1>11 DEF NextImport
    <2> HIDE DEF fr
    <2>4. ASSUME top.file \in Buildable(db)
          PROVE  Untroubled(fr, files, links)
      <3>1. proto(fr.file).imports \in Seq(File)
        BY <1>1, <1>3, <2>2, Protos
      <3>2. ASSUME NEW j \in DOMAIN proto(fr.file).imports, j < fr.i
            PROVE  proto(fr.file).imports[j] \in files
        <4>1. j < top.i \/ j = top.i
          BY <2>2, <3>1, <3>2
        <4>2. QED  BY <1>4, <1>9, <2>1, <2>2, <2>4, <3>2, <4>1 DEF Untroubled
      <3>3. QED  BY <1>4, <2>2, <2>4, <3>2 DEF Untroubled
    <2>5. \A n \in DOMAIN stack : stack[n].file \in Buildable(db) =>
            Untroubled(stack[n], files, links)
      BY <1>1 DEF GoodFrames, GoodFrame
    <2>6. GoodFrames'
      BY <1>1, <1>2, <1>3, <2>2, <2>3, <2>4, <2>5, TopGood DEF tables
    <2>7. LoadingAt' = LoadingAt /\ \A n \in LoadingAt : stack'[n].file = stack[n].file
      <3>1. /\ DOMAIN stack' = DOMAIN stack
            /\ stack'[Len(stack)] = fr /\ top = stack[Len(stack)]
            /\ \A n \in DOMAIN stack : n # Len(stack) => stack'[n] = stack[n]
        BY <1>1, <1>3, <2>3, TopFrames
      <3>2. QED  BY <2>2, <3>1 DEF LoadingAt
    <2>8. PendingAre'
      BY <1>1, <1>11, <2>7, PendingStaysFrom
    <2>9. QED  BY <1>10, <2>6, <2>8 DEF BuildsGood
  <1>12. CASE /\ f \notin files /\ stack' = Append(stack, Frame(f, None))
              /\ pending_files' = Append(pending_files, f)
    <2>1. GoodFrames'
      BY <1>1, <1>2, <1>3, <1>9, <1>12, PushGood DEF tables, Loading
    <2>2. PendingAre'
      BY <1>1, <1>3, <1>12, PendingPushFrom
    <2>3. QED  BY <1>10, <2>1, <2>2 DEF BuildsGood
  <1>13. QED  BY <1>8, <1>11, <1>12

\* A frame that cannot be that of a file that can be built.
LEMMA OthersGood ==
  ASSUME IsFiniteSet(File), IInv, IInv', BuildsGood, UNCHANGED <<db, files, pending_files>>,
         known_bad_files' \cap Buildable(db) = {}, stack # <<>>, top.file \notin Buildable(db),
         NEW fr, stack' = Top(fr), fr.file = top.file, fr.at = top.at
  PROVE  BuildsGood'
  <1>1. Types /\ FramesOK /\ FramesOK' /\ GoodFrames /\ PendingAre
    BY DEF IInv, BuildsGood
  <1>2. /\ DOMAIN stack' = DOMAIN stack
        /\ stack'[Len(stack)] = fr /\ top = stack[Len(stack)]
        /\ \A n \in DOMAIN stack : n # Len(stack) => stack'[n] = stack[n]
    BY <1>1, TopFrames
  <1>3. GoodFrames'
    <2>1. \A n \in DOMAIN stack' : n \in DOMAIN stack /\ stack'[n].file = stack[n].file
      BY <1>2
    <2>2. QED  BY <1>1, <2>1, NoneGood
  <1>4. LoadingAt' = LoadingAt /\ \A n \in LoadingAt : stack'[n].file = stack[n].file
    BY <1>2 DEF LoadingAt
  <1>5. PendingAre'
    BY <1>1, <1>4, PendingStaysFrom
  <1>6. QED  BY <1>3, <1>5 DEF BuildsGood, KnownOK

LEMMA ScopeGood ==
  ASSUME IsFiniteSet(File), IInv, IInv', BuildsGood, UNCHANGED <<db, files, pending_files>>,
         known_bad_files' \cap Buildable(db) = {}, Linking, top.file \notin Buildable(db),
         stack' = NextScope
  PROVE  BuildsGood'
  <1>1. stack # <<>> /\ top \in Frames
    BY TopFrame DEF IInv, Linking
  <1> DEFINE last == top.c = Len(proto(top.file).refs[top.k])
             fr == [top EXCEPT !.tried = "no", !.c = IF last THEN 1 ELSE @ + 1,
                               !.k = IF last THEN @ + 1 ELSE @, !.errors = @ \/ last]
  <1>2. stack' = Top(fr)
    BY DEF NextScope
  <1> HIDE DEF last
  <1>3. fr.file = top.file /\ fr.at = top.at
    BY <1>1 DEF Frames
  <1>4. QED  BY <1>1, <1>2, <1>3, OthersGood

LEMMA ResolveGood ==
  ASSUME IsFiniteSet(File), IInv, IInv', Qualified, BuildsGood, Resolve
  PROVE  BuildsGood'
  <1>1. Types /\ FramesOK /\ FramesOK' /\ KnownOK /\ GoodFrames /\ PendingAre
    BY DEF IInv, BuildsGood
  <1>2. /\ UNCHANGED <<db, files, symbols, marks, pending_files, known, holder, lookups, deferred>>
        /\ Linking
    BY DEF Resolve
  <1>3. /\ stack # <<>> /\ top \in Frames /\ top.file \in File /\ top.at = "link"
    BY <1>1, <1>2, TopFrame DEF Linking
  <1>4. KnownOK' /\ known_bad_files' \cap Buildable(db) = {}
    BY <1>1, <1>2 DEF KnownOK, known
  <1>5. CASE top.file \notin Buildable(db)
    <2>1. CASE stack' = NextScope
      BY <1>2, <1>4, <1>5, <2>1, ScopeGood
    <2>2. CASE stack' = Top([top EXCEPT !.k = @ + 1, !.c = 1, !.tried = "no"])
      <3> DEFINE fr == [top EXCEPT !.k = @ + 1, !.c = 1, !.tried = "no"]
      <3>1. fr.file = top.file /\ fr.at = top.at
        BY <1>3 DEF Frames
      <3> HIDE DEF fr
      <3>2. stack' = Top(fr)
        BY <2>2 DEF fr
      <3>3. QED  BY <1>2, <1>3, <1>4, <1>5, <3>1, <3>2, OthersGood
    <2>3. QED  BY <2>1, <2>2 DEF Resolve
  <1>6. CASE top.file \in Buildable(db)
    <2>1. Visible(name) /\ Untroubled(top, files, links)
      BY <1>1, <1>2, <1>6, NameIsThere
    <2>2. /\ links' = [links EXCEPT ![top.file] = @ \cup {symbols[name].file}]
          /\ stack' = Top([top EXCEPT !.k = @ + 1, !.c = 1, !.tried = "no"])
      BY <2>1 DEF Resolve
    <2> DEFINE fr == [top EXCEPT !.k = @ + 1, !.c = 1, !.tried = "no"]
    <2>3. /\ fr.file = top.file /\ fr.at = "link" /\ fr.errors = top.errors /\ fr.tried = "no"
      BY <1>3 DEF Frames
    <2>4. stack' = Top(fr)
      BY <2>2
    <2> HIDE DEF fr
    <2>5. \A f \in File : links[f] \subseteq links'[f]
      BY <1>1, <1>3, <2>2 DEF Types
    <2>6. Untroubled(fr, files, links')
      <3>1. top.file \in files /\ ToSet(proto(top.file).imports) \subseteq links[top.file]
        BY <1>3, <2>1 DEF Untroubled
      <3>2. ~fr.errors
        BY <2>1, <2>3 DEF Untroubled
      <3>3. ToSet(proto(fr.file).imports) \subseteq links'[fr.file]
        BY <1>3, <2>3, <2>5, <3>1
      <3>4. QED  BY <2>3, <3>1, <3>2, <3>3 DEF Untroubled
    <2>7. ASSUME NEW n \in DOMAIN stack, stack[n].file \in Buildable(db)
          PROVE  Untroubled(stack[n], files, links')
      <3>1. Untroubled(stack[n], files, links)
        BY <1>1, <2>7 DEF GoodFrames, GoodFrame
      <3>2. stack[n].file \in File
        BY <1>1, <2>7, BuildableHas
      <3>3. links[stack[n].file] \subseteq links'[stack[n].file]
        BY <2>5, <3>2
      <3>4. QED  BY <3>1, <3>3 DEF Untroubled
    <2>8. GoodFrames'
      BY <1>1, <1>2, <1>3, <2>3, <2>4, <2>6, <2>7, TopGood
    <2>9. LoadingAt' = LoadingAt /\ \A n \in LoadingAt : stack'[n].file = stack[n].file
      <3>1. /\ DOMAIN stack' = DOMAIN stack
            /\ stack'[Len(stack)] = fr /\ top = stack[Len(stack)]
            /\ \A n \in DOMAIN stack : n # Len(stack) => stack'[n] = stack[n]
        BY <1>1, <1>3, <2>4, TopFrames
      <3>2. QED  BY <1>3, <2>3, <3>1 DEF LoadingAt
    <2>10. PendingAre'
      BY <1>1, <1>2, <2>9, PendingStaysFrom
    <2>11. QED  BY <1>4, <2>8, <2>10 DEF BuildsGood
  <1>7. QED  BY <1>5, <1>6

LEMMA GiveUpScopeGood ==
  ASSUME IsFiniteSet(File), IInv, IInv', Qualified, BuildsGood, GiveUpScope
  PROVE  BuildsGood'
  <1>1. GoodFrames /\ known_bad_files \cap Buildable(db) = {}
    BY DEF BuildsGood, KnownOK
  <1>2. /\ Linking /\ stack' = NextScope
        /\ UNCHANGED <<db, tables, marks, pending_files, known, holder, lookups, deferred>>
        /\ top.tried = "failed" \/ ~Defined(name)
    BY DEF GiveUpScope
  <1>3. top.file \notin Buildable(db)
    BY <1>1, <1>2, NameIsThere DEF Untroubled
  <1>4. QED  BY <1>1, <1>2, <1>3, ScopeGood DEF tables, known

LEMMA BuildForSymbolGood ==
  ASSUME IsFiniteSet(File), IInv, IInv', Qualified, BuildsGood, BuildForSymbol
  PROVE  BuildsGood'
  <1>1. Types /\ FramesOK /\ FramesOK' /\ KnownOK /\ GoodFrames /\ PendingAre
    BY DEF IInv, BuildsGood
  <1>2. /\ Linking /\ ~Defined(name) /\ UNCHANGED <<db, tables, marks, holder, lookups, deferred>>
    BY DEF BuildForSymbol
  <1>3. top.file \notin Buildable(db)
    BY <1>1, <1>2, NameIsThere
  <1> DEFINE f == db.finds[name]
  <1>4. name \in Symbol /\ stack # <<>> /\ f \in File \cup {None}
    BY <1>1, <1>2, NameIs
  <1>5. f \in ToSet(pending_files) => f \notin Buildable(db)
    BY <1>1, <1>3, PendingIsBelow
  <1>6. \/ /\ known_bad_files' = known_bad_files \cup ({f} \cap ToSet(pending_files))
           /\ stack' = NextScope /\ UNCHANGED pending_files
        \/ /\ f \notin {None} \cup files /\ stack' = Append(stack, Frame(f, name))
           /\ pending_files' = Append(pending_files, f) /\ UNCHANGED known
    BY DEF BuildForSymbol
  <1> HIDE DEF f
  <1>7. CASE /\ known_bad_files' = known_bad_files \cup ({f} \cap ToSet(pending_files))
             /\ stack' = NextScope /\ UNCHANGED pending_files
    <2>1. known_bad_files' \cap Buildable(db) = {}
      BY <1>1, <1>5, <1>7 DEF KnownOK
    <2>2. QED  BY <1>2, <1>3, <1>7, <2>1, ScopeGood DEF tables
  <1>8. CASE /\ f \notin {None} \cup files /\ stack' = Append(stack, Frame(f, name))
             /\ pending_files' = Append(pending_files, f) /\ UNCHANGED known
    <2>1. f \in File /\ f \notin files
      BY <1>4, <1>8
    <2>2. GoodFrames'
      BY <1>1, <1>2, <1>3, <1>4, <1>8, <2>1, PushGood DEF tables
    <2>3. PendingAre'
      BY <1>1, <1>4, <1>8, <2>1, PendingPushFrom
    <2>4. KnownOK'
      BY <1>1, <1>2, <1>8 DEF KnownOK, known
    <2>5. QED  BY <2>2, <2>3, <2>4 DEF BuildsGood
  <1>9. QED  BY <1>6, <1>7, <1>8

\* A file that can be built is added without an error.
LEMMA AddsGood ==
  ASSUME IsFiniteSet(File), IInv, Qualified, GoodFrames, AddToTables,
         top.file \in Buildable(db)
  PROVE  /\ top.file \notin files /\ files' = files \cup {top.file}
         /\ links' = [links EXCEPT ![top.file] = ToSet(proto(top.file).imports)]
         /\ stack' = Top([top EXCEPT !.at = "link", !.errors = FALSE])
  <1>1. Types /\ FramesOK
    BY DEF IInv
  <1>2. stack # <<>> /\ top.at = "load" /\ top \in Frames /\ top.file \in File
    BY <1>1, TopFrame DEF AddToTables, Loaded, Loading
  <1>3. PICK f : f = top.file
    OBVIOUS
  <1>4. /\ proto(f).imports \in Seq(File) /\ proto(f).defines \subseteq Symbol
        /\ proto(f).package \in Symbol \cup {None}
    BY <1>1, <1>2, <1>3, Protos
  <1>5. f \notin files /\ \A j \in DOMAIN proto(f).imports : j < top.i => proto(f).imports[j] \in files
    BY <1>1, <1>2, <1>3, TopIsGood DEF Untroubled
  <1>6. ~proto(f).broken /\ f \notin ToSet(proto(f).imports)
    BY <1>1, <1>3, BuildableHas
  <1>7. ToSet(proto(f).imports) \subseteq files
    <2>1. top.i > Len(proto(f).imports) /\ top.i \in Nat
      BY <1>2, <1>3 DEF AddToTables, Loaded, Qualified, Consistent, Frames
    <2>2. \A j \in DOMAIN proto(f).imports : j < top.i
      BY <1>4, <2>1
    <2>3. \A j \in 1..Len(proto(f).imports) : proto(f).imports[j] \in files
      BY <1>4, <1>5, <2>2
    <2>4. QED  BY <1>4, <2>3, ToSetIs
  <1>8. ASSUME NEW s \in Symbol, Defined(s), s \in proto(f).defines \cup {proto(f).package},
               symbols[s].package => s \in proto(f).defines
        PROVE  FALSE
    <2>1. /\ symbols[s].file \in files /\ symbols[s].file \in File
          /\ s \in proto(symbols[s].file).defines \cup {proto(symbols[s].file).package}
      BY <1>1, <1>8, TablesPoint DEF Defined, Types
    <2>2. symbols[s].file = f
      BY <1>2, <1>3, <1>8, <2>1, OneDefiner DEF Qualified
    <2>3. QED  BY <1>5, <2>1, <2>2
  <1>9. \A s \in proto(f).defines : ~Defined(s)
    BY <1>4, <1>8
  <1>10. proto(f).package # None => ~Defined(proto(f).package) \/ symbols[proto(f).package].package
    BY <1>4, <1>8
  <1>11. MissingImports(f) = {} /\ LoadedImports(f) = ToSet(proto(f).imports)
    BY <1>7 DEF MissingImports, LoadedImports
  <1> DEFINE errors == \/ f \in ToSet(proto(f).imports)
                       \/ (\/ proto(f).package # None /\ Defined(proto(f).package)
                                /\ ~symbols[proto(f).package].package
                           \/ \E s \in proto(f).defines : Defined(s))
                       \/ proto(f).broken
                       \/ MissingImports(f) # {}
             at == IF f \in ToSet(proto(f).imports) THEN "finish" ELSE "link"
  <1>12. /\ files' = files \cup {f} /\ links' = [links EXCEPT ![f] = LoadedImports(f)]
         /\ stack' = Top([top EXCEPT !.at = at, !.errors = errors])
    BY <1>3, <1>5 DEF AddToTables, IsNew
  <1>13. errors = FALSE /\ at = "link"
    BY <1>6, <1>9, <1>10, <1>11
  <1> HIDE DEF errors, at
  <1>14. QED  BY <1>3, <1>5, <1>11, <1>12, <1>13

LEMMA AddToTablesGood ==
  ASSUME IsFiniteSet(File), IInv, IInv', Qualified, BuildsGood, AddToTables
  PROVE  BuildsGood'
  <1>1. Types /\ FramesOK /\ FramesOK' /\ KnownOK /\ GoodFrames /\ PendingAre
    BY DEF IInv, BuildsGood
  <1>2. UNCHANGED <<db, known>> /\ pending_files' = Front(pending_files)
    BY DEF AddToTables, Qualified, Consistent
  <1>3. /\ stack # <<>> /\ DOMAIN stack' = DOMAIN stack /\ Len(stack) \in LoadingAt
        /\ stack'[Len(stack)].file = top.file /\ LoadingAt' = LoadingAt \ {Len(stack)}
        /\ \A n \in DOMAIN stack : n # Len(stack) => stack'[n] = stack[n]
    BY <1>1, AddMoves
  <1>4. top = stack[Len(stack)] /\ top \in Frames /\ top.file \in File
    BY <1>1, <1>3, TopFrame, TopOK
  <1>5. \A n \in DOMAIN stack : stack'[n].file = stack[n].file
    BY <1>3, <1>4
  <1>6. KnownOK'
    BY <1>1, <1>2 DEF KnownOK, known
  <1>7. PendingAre'
    <2>1. \A n \in LoadingAt : stack'[n].file = stack[n].file
      BY <1>5 DEF LoadingAt
    <2>2. QED  BY <1>1, <1>2, <1>3, <2>1, PendingPopFrom
  <1>8. CASE top.file \notin Buildable(db)
    <2>1. GoodFrames'
      BY <1>1, <1>2, <1>3, <1>5, <1>8, NoneGood
    <2>2. QED  BY <1>6, <1>7, <2>1 DEF BuildsGood
  <1>9. CASE top.file \in Buildable(db)
    <2>1. PICK f : f = top.file
      OBVIOUS
    <2>2. /\ f \notin files /\ files' = files \cup {f}
          /\ links' = [links EXCEPT ![f] = ToSet(proto(f).imports)]
          /\ stack' = Top([top EXCEPT !.at = "link", !.errors = FALSE])
      BY <1>1, <1>9, <2>1, AddsGood
    <2> DEFINE fr == [top EXCEPT !.at = "link", !.errors = FALSE]
    <2>3. /\ fr.file = f /\ fr.at = "link" /\ fr.errors = FALSE /\ fr.tried = top.tried
      BY <1>4, <2>1 DEF Frames
    <2>4. stack' = Top(fr)
      BY <2>2
    <2> HIDE DEF fr
    <2>5. Untroubled(fr, files', links')
      <3>1. top.tried = "no"
        BY <1>1, <1>3, <1>9, TopIsGood DEF Untroubled
      <3>2. f \in files' /\ links'[f] = ToSet(proto(f).imports)
        BY <1>1, <1>4, <2>1, <2>2 DEF Types
      <3>3. QED  BY <2>3, <3>1, <3>2 DEF Untroubled
    <2>6. ASSUME NEW n \in DOMAIN stack, n # Len(stack), stack[n].file \in Buildable(db)
          PROVE  Untroubled(stack[n], files', links')
      <3>1. n < Len(stack) /\ Below(db, f, stack[n].file)
        BY <1>1, <2>1, <2>6, TopDecides
      <3>2. stack[n].file # f
        BY <1>1, <3>1, BelowIs, DatabaseIs
      <3>3. Untroubled(stack[n], files, links) /\ stack[n].at = "load"
        BY <1>1, <2>6, <3>1 DEF GoodFrames, GoodFrame, Requests
      <3>4. QED  BY <2>2, <3>2, <3>3 DEF Untroubled
    <2>7. GoodFrames'
      BY <1>1, <1>2, <1>3, <2>1, <2>3, <2>4, <2>5, <2>6, TopGood
    <2>8. QED  BY <1>6, <1>7, <2>7 DEF BuildsGood
  <1>10. QED  BY <1>8, <1>9

LEMMA CallerFiles ==
  ASSUME FramesOK, stack # <<>>, NEW outcome, stack' = Caller(outcome)
  PROVE  \A n \in DOMAIN stack' : n \in DOMAIN stack /\ stack'[n].file = stack[n].file
  <1>1. PICK N \in Nat \ {0} : N = Len(stack)
    BY CallerFrames
  <1>2. /\ DOMAIN stack = 1..N /\ DOMAIN stack' = 1..N - 1
        /\ \A n \in 1..N - 1 :
             stack'[n] = IF n = N - 1 THEN Resumed(stack[n], outcome) ELSE stack[n]
    BY <1>1, CallerFrames
  <1>3. ASSUME NEW n \in 1..N - 1
        PROVE  n \in 1..N /\ stack'[n].file = stack[n].file
    <2>1. n \in 1..N
      BY <1>1
    <2>2. stack[n] \in Frames
      BY <1>2, <2>1, ElementOfSeq DEF FramesOK
    <2>3. Resumed(stack[n], outcome).file = stack[n].file
      BY <2>2 DEF Resumed, Frames
    <2>4. QED  BY <1>2, <2>1, <2>3
  <1>4. QED  BY <1>2, <1>3

\* The file of a frame that is done, if it can be built, is in the tables.
LEMMA BuiltIsThere ==
  ASSUME IInv, GoodFrames, Built, top.file \in Buildable(db)
  PROVE  ~top.errors /\ top.file \in files
  <1>1. Untroubled(top, files, links)
    BY TopIsGood DEF IInv, Built
  <1>2. QED  BY <1>1 DEF Untroubled, Built

LEMMA CommitGood ==
  ASSUME IsFiniteSet(File), IInv, IInv', Qualified, BuildsGood, Commit
  PROVE  BuildsGood'
  <1>1. Types /\ FramesOK /\ FramesOK' /\ KnownOK /\ GoodFrames /\ PendingAre
    BY DEF IInv, BuildsGood
  <1>2. /\ UNCHANGED <<db, tables, pending_files, known>> /\ stack' = Caller("built")
        /\ Built /\ stack # <<>> /\ top.at # "load"
    BY DEF Commit, Built
  <1>3. GoodFrames'
    BY <1>1, <1>2, BuiltIsThere, CallerGood DEF tables
  <1>4. LoadingAt' = LoadingAt
    BY <1>1, <1>2, CallerMoves
  <1>5. \A n \in LoadingAt : stack'[n].file = stack[n].file
    <2>1. LoadingAt \subseteq DOMAIN stack'
      BY <1>4 DEF LoadingAt
    <2>2. QED  BY <1>1, <1>2, <2>1, CallerFiles
  <1>6. PendingAre'
    BY <1>1, <1>2, <1>4, <1>5, PendingStaysFrom
  <1>7. QED  BY <1>1, <1>2, <1>3, <1>6 DEF BuildsGood, KnownOK, known

LEMMA RollbackGood ==
  ASSUME IsFiniteSet(File), IInv, IInv', Qualified, BuildsGood, Rollback
  PROVE  BuildsGood'
  <1>1. Types /\ FramesOK /\ FramesOK' /\ KnownOK /\ GoodFrames /\ PendingAre
    BY DEF IInv, BuildsGood
  <1>2. /\ UNCHANGED <<db, pending_files>> /\ stack' = Caller("failed")
        /\ Built /\ stack # <<>> /\ top.at # "load" /\ top.errors
        /\ known_bad_files' \subseteq known_bad_files \cup {top.file}
    BY DEF Rollback, Built
  <1>3. top.file \notin Buildable(db)
    BY <1>1, <1>2, BuiltIsThere
  <1>4. \A n \in DOMAIN stack' : n \in DOMAIN stack /\ stack'[n].file = stack[n].file
    BY <1>1, <1>2, CallerFiles
  <1>5. GoodFrames'
    BY <1>1, <1>2, <1>3, <1>4, NoneGood
  <1>6. LoadingAt' = LoadingAt
    BY <1>1, <1>2, CallerMoves
  <1>7. \A n \in LoadingAt : stack'[n].file = stack[n].file
    BY <1>4, <1>6 DEF LoadingAt
  <1>8. PendingAre'
    BY <1>1, <1>2, <1>6, <1>7, PendingStaysFrom
  <1>9. KnownOK'
    BY <1>1, <1>2, <1>3 DEF KnownOK
  <1>10. QED  BY <1>5, <1>8, <1>9 DEF BuildsGood

\* A call that does not build.
LEMMA CallGood ==
  ASSUME BuildsGood, UNCHANGED <<db, tables, stack, pending_files>>,
         known_bad_files' \cap Buildable(db) = {}
  PROVE  BuildsGood'
  <1>1. KnownOK'
    BY DEF KnownOK
  <1>2. PendingAre'
    <2>1. LoadingAt' = LoadingAt
      BY DEF LoadingAt
    <2>2. QED  BY <2>1, PendingStaysFrom DEF BuildsGood
  <1>3. GoodFrames'
    BY DEF BuildsGood, GoodFrames, GoodFrame, Untroubled, Requests, proto, tables
  <1>4. QED  BY <1>1, <1>2, <1>3 DEF BuildsGood

LEMMA FindInDatabaseGood ==
  ASSUME IsFiniteSet(File), IInv, IInv', Qualified, BuildsGood, NEW t \in Thread,
         FindInDatabase(t)
  PROVE  BuildsGood'
  <1>1. /\ Types /\ want[t] \in Calls /\ want[t].kind # "BuildFile" /\ stack = <<>>
        /\ FramesOK /\ FramesOK' /\ GoodFrames /\ PendingAre /\ PendingOK
    BY LockingIs DEF FindInDatabase, IInv, BuildsGood
  <1> DEFINE f == BuiltFor(want[t])
             via == IF ByName(want[t]) THEN None ELSE want[t].name
  <1>2. /\ UNCHANGED <<db, tables, marks>> /\ known_bad_files' = {} /\ f \notin {None} \cup files
        /\ stack' = <<Frame(f, via)>> /\ pending_files' = <<f>>
    BY DEF FindInDatabase, Forget, Qualified, Consistent
  <1>3. f \in File /\ via \in Symbol \cup {None}
    BY <1>1, <1>2, BuiltForIs
  <1> HIDE DEF f, via
  <1>4. pending_files = <<>>
    BY <1>1, NonePending
  <1>5. stack' = Append(stack, Frame(f, via)) /\ pending_files' = Append(pending_files, f)
    BY <1>1, <1>2, <1>4
  <1>6. GoodFrames'
    BY <1>1, <1>2, <1>3, <1>5, PushGood DEF tables
  <1>7. PendingAre'
    BY <1>1, <1>3, <1>5, PendingPushFrom
  <1>8. QED  BY <1>2, <1>6, <1>7 DEF BuildsGood, KnownOK

\* A name that is not found in the database is not that of a file that can be built.
LEMMA FindNothingGood ==
  ASSUME IsFiniteSet(File), IInv, Qualified, BuildsGood, NEW t \in Thread, FindNothing(t)
  PROVE  BuildsGood'
  <1>1. /\ Types /\ want[t] \in Calls /\ want[t].kind # "BuildFile"
    BY LockingIs DEF FindNothing
  <1>2. /\ UNCHANGED <<db, tables, stack, pending_files>>
        /\ Lookup(want[t]) = None /\ BuiltFor(want[t]) \in {None} \cup files
        /\ known_bad_files' = IF ByName(want[t]) THEN {want[t].name} ELSE {}
    BY DEF FindNothing, Forget, Qualified, Consistent
  <1>3. ASSUME ByName(want[t])
        PROVE  want[t].name \notin Buildable(db)
    <2>1. want[t].name # None /\ want[t].name \in File
      BY <1>1, <1>3, BuiltForIs, NoneOK
    <2>2. want[t].name \notin files
      BY <1>2, <1>3, <2>1 DEF Lookup, ByName
    <2>3. want[t].name \notin db.has
      BY <1>2, <1>3, <2>1, <2>2 DEF BuiltFor, ByName, Qualified, Consistent
    <2>4. QED  BY <1>1, <2>3, BuildableHas
  <1>4. known_bad_files' \cap Buildable(db) = {}
    BY <1>2, <1>3
  <1>5. QED  BY <1>2, <1>4, CallGood

LEMMA BuildsGoodStep ==
  ASSUME IsFiniteSet(File), IInv, IInv', Qualified, BuildsGood, [Next]_vars
  PROVE  BuildsGood'
  <1>1. CASE BuildStep
    BY <1>1, LoadImportGood, AddToTablesGood, ResolveGood, GiveUpScopeGood, BuildForSymbolGood,
       CommitGood, RollbackGood DEF BuildStep
  <1>2. known_bad_files \cap Buildable(db) = {}
    BY DEF BuildsGood, KnownOK
  <1>3. ASSUME NEW t \in Thread, Progress(t)
        PROVE  BuildsGood'
    <2>1. CASE FindInDatabase(t) \/ FindNothing(t)
      BY <2>1, FindInDatabaseGood, FindNothingGood
    <2>2. CASE FindCached(t) \/ FindLocked(t) \/ Validate(t) \/ Return(t)
      <3>1. /\ UNCHANGED <<db, tables, stack, pending_files>>
            /\ known_bad_files' = known_bad_files \/ known_bad_files' = {}
        BY <2>2 DEF FindCached, FindLocked, Validate, Return, Forget, known
      <3>2. QED  BY <1>2, <3>1, CallGood
    <2>3. QED  BY <1>3, <2>1, <2>2 DEF Progress
  <1>4. ASSUME NEW t \in Thread, NEW kind, NEW n, NEW at, Call(t, kind, n, at)
        PROVE  BuildsGood'
    BY <1>2, <1>4, CallGood DEF Call, known
  <1>5. ASSUME NEW t \in Thread, NEW f \in File, NEW matches \in BOOLEAN, BuildFile(t, f, matches)
        PROVE  BuildsGood'
    BY <1>5 DEF BuildFile, Qualified, Consistent
  <1>6. CASE UNCHANGED vars
    BY <1>2, <1>6, CallGood DEF vars, known
  <1>7. QED
    BY <1>1, <1>3, <1>4, <1>5, <1>6
    DEF Next, Rest, FindFileByName, FindFileContainingSymbol, FindByName

-------------------------------------------------------------------------------
(* What calls are answered.                                                   *)

\* A build runs for what its call asked for.
BuiltForCaller ==
  stack # <<>> => stack[1].file = BuiltFor(want[holder]) /\ want[holder].kind # "BuildFile"
Answered ==
  \A t \in Thread :
    pc[t] \in {"validate", "return"} /\ result[t] = None => ~Offered(db, want[t])
CallsGood == BuiltForCaller /\ Answered

\* What is offered is what the database has for the call.
LEMMA OfferedIs ==
  ASSUME IsFiniteSet(File), Types, Consistent(db), NEW w \in Calls, w.kind # "BuildFile",
         Offered(db, w)
  PROVE  /\ BuiltFor(w) \in Buildable(db)
         /\ IF ByName(w) THEN BuiltFor(w) = w.name ELSE w.name \in proto(BuiltFor(w)).defines
  <1>1. db.kind # "none"
    BY DEF Consistent
  <1>2. CASE ByName(w)
    <2>1. w.name \in Buildable(db)
      BY <1>2 DEF Offered
    <2>2. w.name \in db.has
      BY <2>1, BuildableHas
    <2>3. QED  BY <1>1, <1>2, <2>1, <2>2 DEF BuiltFor, ByName
  <1>3. CASE ~ByName(w)
    <2>1. PICK f \in Buildable(db) \cap {db.finds[w.name]} : w.name \in db.proto[f].defines
      BY <1>3 DEF Offered
    <2>2. BuiltFor(w) = f
      BY <1>1, <1>3, <2>1 DEF BuiltFor, ByName
    <2>3. QED  BY <1>3, <2>1, <2>2 DEF proto
  <1>4. QED  BY <1>2, <1>3

\* What is offered is found once the file is in the tables.
LEMMA OfferedIsFound ==
  ASSUME IsFiniteSet(File), IInv, Qualified, GoodFrames, NEW w \in Calls, w.kind # "BuildFile",
         Offered(db, w), BuiltFor(w) \in files
  PROVE  Lookup(w) # None
  <1>1. Types /\ BuiltFor(w) # None
    BY NoneOK DEF IInv, Types
  <1>2. /\ BuiltFor(w) \in Buildable(db)
        /\ IF ByName(w) THEN BuiltFor(w) = w.name ELSE w.name \in proto(BuiltFor(w)).defines
    BY <1>1, OfferedIs DEF Qualified
  <1>3. CASE ByName(w)
    BY <1>1, <1>2, <1>3 DEF Lookup, ByName
  <1>4. CASE ~ByName(w)
    <2>1. symbols[w.name] = [file |-> BuiltFor(w), package |-> FALSE]
      BY <1>2, <1>4, BuildableIsWhole
    <2>2. Lookup(w) = symbols[w.name].file
      BY <1>4 DEF Lookup, ByName
    <2>3. QED  BY <1>1, <2>1, <2>2
  <1>5. QED  BY <1>3, <1>4

\* Steps of a build that is not at its end.
LEMMA BuildWaitsForCaller ==
  ASSUME CallsGood, UNCHANGED <<db, lookups, holder>>, stack # <<>>,
         stack'[1].file = stack[1].file
  PROVE  CallsGood'
  <1>1. BuiltFor(want[holder])' = BuiltFor(want[holder])
    BY DEF BuiltFor, lookups
  <1>2. BuiltForCaller'
    BY <1>1 DEF CallsGood, BuiltForCaller, lookups
  <1>3. Answered'
    BY DEF CallsGood, Answered, Offered, lookups
  <1>4. QED  BY <1>2, <1>3 DEF CallsGood

\* Steps of another thread than the one for which a build runs.
LEMMA CallAnswers ==
  ASSUME Types, CallsGood, NEW t \in Thread, t # holder, UNCHANGED <<db, stack, holder>>,
         \A u \in Thread : u # t =>
           want'[u] = want[u] /\ pc'[u] = pc[u] /\ result'[u] = result[u],
         pc'[t] \in {"validate", "return"} /\ result'[t] = None => ~Offered(db, want'[t])
  PROVE  CallsGood'
  <1>1. ASSUME stack # <<>>
        PROVE  want'[holder] = want[holder]
    <2>1. holder \in Thread
      BY <1>1 DEF Types
    <2>2. QED  BY <2>1
  <1>2. BuiltForCaller'
    BY <1>1 DEF CallsGood, BuiltForCaller, BuiltFor
  <1>3. Answered'
    BY DEF CallsGood, Answered, Offered
  <1>4. QED  BY <1>2, <1>3 DEF CallsGood

\* The end of the build of a file.
LEMMA UnlockAnswers ==
  ASSUME Types, FramesOK, FramesOK', HolderOK, CallsGood, db' = db, stack # <<>>, NEW outcome,
         stack' = Caller(outcome), NEW answer, Unlock(answer),
         Len(stack) = 1 /\ answer = None => ~Offered(db, want[holder])
  PROVE  CallsGood'
  <1>1. PICK N \in Nat \ {0} : N = Len(stack)
    BY CallerFrames
  <1>2. /\ Len(stack') = N - 1 /\ DOMAIN stack' = 1..N - 1
        /\ \A n \in DOMAIN stack' : n \in DOMAIN stack /\ stack'[n].file = stack[n].file
    BY <1>1, CallerFrames, CallerFiles
  <1>3. CASE N = 1
    <2>1. /\ holder' = None /\ result' = [result EXCEPT ![holder] = answer]
          /\ pc' = [pc EXCEPT ![holder] = "validate"] /\ want' = want
      BY <1>1, <1>3 DEF Unlock
    <2>2. stack' = <<>>
      BY <1>2, <1>3 DEF FramesOK
    <2>3. holder \in Thread
      BY DEF Types
    <2>4. Answered'
      BY <1>1, <1>3, <2>1, <2>3 DEF CallsGood, Answered, Offered, Types
    <2>5. QED  BY <2>2, <2>4 DEF CallsGood, BuiltForCaller
  <1>4. CASE N # 1
    <2>1. UNCHANGED <<holder, lookups>>
      BY <1>1, <1>4 DEF Unlock
    <2>2. 1 \in DOMAIN stack'
      BY <1>2, <1>4
    <2>3. QED  BY <1>2, <2>1, <2>2, BuildWaitsForCaller
  <1>5. QED  BY <1>3, <1>4

LEMMA CommitAnswers ==
  ASSUME IsFiniteSet(File), IInv, IInv', Qualified, BuildsGood, CallsGood, Commit
  PROVE  CallsGood'
  <1>1. Types /\ FramesOK /\ FramesOK' /\ HolderOK /\ GoodFrames
    BY DEF IInv, BuildsGood
  <1>2. /\ db' = db /\ stack' = Caller("built") /\ Built /\ stack # <<>>
        /\ Unlock(Lookup(want[holder]))
    BY DEF Commit, Built
  <1>3. holder \in Thread /\ want[holder] \in Calls
    BY <1>1, <1>2, NoneOK DEF Types, HolderOK
  <1>4. ASSUME Len(stack) = 1, Lookup(want[holder]) = None, Offered(db, want[holder])
        PROVE  FALSE
    <2>1. top.file = BuiltFor(want[holder]) /\ want[holder].kind # "BuildFile"
      BY <1>2, <1>4 DEF CallsGood, BuiltForCaller, top
    <2>2. top.file \in Buildable(db)
      BY <1>1, <1>3, <1>4, <2>1, OfferedIs DEF Qualified
    <2>3. top.file \in files
      BY <1>1, <1>2, <2>2, BuiltIsThere
    <2>4. QED  BY <1>1, <1>3, <1>4, <2>1, <2>3, OfferedIsFound
  <1>5. QED  BY <1>1, <1>2, <1>4, UnlockAnswers

LEMMA RollbackAnswers ==
  ASSUME IsFiniteSet(File), IInv, IInv', Qualified, BuildsGood, CallsGood, Rollback
  PROVE  CallsGood'
  <1>1. Types /\ FramesOK /\ FramesOK' /\ HolderOK /\ GoodFrames
    BY DEF IInv, BuildsGood
  <1>2. /\ db' = db /\ stack' = Caller("failed") /\ Built /\ stack # <<>> /\ top.errors
        /\ Unlock(None)
    BY DEF Rollback, Built
  <1>3. holder \in Thread /\ want[holder] \in Calls
    BY <1>1, <1>2, NoneOK DEF Types, HolderOK
  <1>4. ASSUME Len(stack) = 1, Offered(db, want[holder])
        PROVE  FALSE
    <2>1. top.file = BuiltFor(want[holder]) /\ want[holder].kind # "BuildFile"
      BY <1>2, <1>4 DEF CallsGood, BuiltForCaller, top
    <2>2. top.file \in Buildable(db)
      BY <1>1, <1>3, <1>4, <2>1, OfferedIs DEF Qualified
    <2>3. QED  BY <1>1, <1>2, <2>2, BuiltIsThere
  <1>5. QED  BY <1>1, <1>2, <1>4, UnlockAnswers

\* The outermost file stays what it is.
LEMMA FirstStays ==
  ASSUME FramesOK, FramesOK', stack # <<>>,
         \/ \E fr : stack' = Top(fr) /\ fr.file = top.file
         \/ \E fr \in Frames : stack' = Append(stack, fr)
  PROVE  stack'[1].file = stack[1].file
  <1>1. 1 \in DOMAIN stack /\ stack \in Seq(Frames)
    BY DEF FramesOK
  <1>2. CASE \E fr : stack' = Top(fr) /\ fr.file = top.file
    BY <1>1, <1>2, TopFrames
  <1>3. CASE \E fr \in Frames : stack' = Append(stack, fr)
    BY <1>1, <1>3, PushFrames
  <1>4. QED  BY <1>2, <1>3

LEMMA BuildAnswers ==
  ASSUME IInv, IInv', CallsGood,
         LoadImport \/ AddToTables \/ Resolve \/ GiveUpScope \/ BuildForSymbol
  PROVE  CallsGood'
  <1>1. Types /\ FramesOK /\ FramesOK'
    BY DEF IInv
  <1>2. UNCHANGED <<db, lookups, holder>> /\ stack # <<>>
    BY DEF LoadImport, AddToTables, Resolve, GiveUpScope, BuildForSymbol, Loading, Loaded, Linking
  <1>3. top \in Frames
    BY <1>1, <1>2, TopFrame
  <1>4. \A f \in File, via \in Symbol \cup {None} : Frame(f, via) \in Frames
    BY DEF Frame, Frames
  <1>5. ASSUME stack' = NextScope
        PROVE  \E fr : stack' = Top(fr) /\ fr.file = top.file
    <2> DEFINE last == top.c = Len(proto(top.file).refs[top.k])
               fr == [top EXCEPT !.tried = "no", !.c = IF last THEN 1 ELSE @ + 1,
                                 !.k = IF last THEN @ + 1 ELSE @, !.errors = @ \/ last]
    <2>1. stack' = Top(fr)
      BY <1>5 DEF NextScope
    <2> HIDE DEF last
    <2>2. fr.file = top.file
      BY <1>3 DEF Frames
    <2>3. QED  BY <2>1, <2>2
  <1>6. CASE LoadImport
    <2> DEFINE f == proto(top.file).imports[top.i]
               fr == [top EXCEPT !.i = @ + 1]
    <2>1. f \in File
      BY <1>1, <1>6, ImportIs DEF LoadImport
    <2>2. stack' = NextImport \/ stack' = Append(stack, Frame(f, None))
      BY <1>6 DEF LoadImport
    <2>3. NextImport = Top(fr) /\ fr.file = top.file
      BY <1>3 DEF NextImport, Frames
    <2> HIDE DEF f, fr
    <2>4. \/ \E x : stack' = Top(x) /\ x.file = top.file
          \/ \E x \in Frames : stack' = Append(stack, x)
      BY <1>4, <2>1, <2>2, <2>3
    <2>5. QED  BY <1>1, <1>2, <2>4, FirstStays, BuildWaitsForCaller
  <1>7. CASE AddToTables
    <2>1. /\ stack'[Len(stack)].file = top.file /\ top = stack[Len(stack)] /\ 1 \in DOMAIN stack
          /\ \A n \in DOMAIN stack : n # Len(stack) => stack'[n] = stack[n]
      BY <1>1, <1>2, <1>7, AddMoves, TopOK DEF FramesOK
    <2>2. QED  BY <1>2, <2>1, BuildWaitsForCaller
  <1>8. CASE Resolve
    <2> DEFINE fr == [top EXCEPT !.k = @ + 1, !.c = 1, !.tried = "no"]
    <2>1. fr.file = top.file
      BY <1>3 DEF Frames
    <2>2. stack' = NextScope \/ stack' = Top(fr)
      BY <1>8 DEF Resolve
    <2> HIDE DEF fr
    <2>3. QED  BY <1>1, <1>2, <1>5, <2>1, <2>2, FirstStays, BuildWaitsForCaller
  <1>9. CASE GiveUpScope
    BY <1>1, <1>2, <1>5, <1>9, FirstStays, BuildWaitsForCaller DEF GiveUpScope
  <1>10. CASE BuildForSymbol
    <2> DEFINE f == db.finds[name]
    <2>1. name \in Symbol /\ f \in File \cup {None}
      BY <1>1, <1>10, NameIs DEF BuildForSymbol
    <2>2. stack' = NextScope \/ (f # None /\ stack' = Append(stack, Frame(f, name)))
      BY <1>10 DEF BuildForSymbol
    <2> HIDE DEF f
    <2>3. QED  BY <1>1, <1>2, <1>4, <1>5, <2>1, <2>2, FirstStays, BuildWaitsForCaller
  <1>11. QED  BY <1>6, <1>7, <1>8, <1>9, <1>10

LEMMA FindInDatabaseAnswers ==
  ASSUME IInv, Qualified, CallsGood, NEW t \in Thread, FindInDatabase(t)
  PROVE  CallsGood'
  <1>1. want[t].kind # "BuildFile"
    BY LockingIs DEF FindInDatabase
  <1> DEFINE f == BuiltFor(want[t])
             via == IF ByName(want[t]) THEN None ELSE want[t].name
  <1>2. /\ UNCHANGED <<db, want, pc, result>> /\ holder' = t /\ stack' = <<Frame(f, via)>>
    BY DEF FindInDatabase, Forget, Qualified, Consistent
  <1>3. f' = f
    BY <1>2 DEF BuiltFor
  <1>4. stack'[1].file = f
    BY <1>2 DEF Frame
  <1>5. BuiltForCaller'
    BY <1>1, <1>2, <1>3, <1>4 DEF BuiltForCaller
  <1>6. Answered'
    BY <1>2 DEF CallsGood, Answered, Offered
  <1>7. QED  BY <1>5, <1>6 DEF CallsGood

LEMMA ProgressAnswers ==
  ASSUME IsFiniteSet(File), IInv, Qualified, BuildsGood, CallsGood, NEW t \in Thread, Progress(t)
  PROVE  CallsGood'
  <1>1. Types /\ HolderOK /\ GoodFrames
    BY DEF IInv, BuildsGood
  <1>2. CASE FindCached(t)
    <2>1. /\ pc[t] = "cached" /\ want[t] \in Calls /\ want[t].kind = "FindByName"
          /\ UNCHANGED <<db, stack, holder, want>>
      BY <1>1, <1>2 DEF FindCached, HolderOK
    <2>2. want[t].name \in Symbol
      BY <2>1 DEF Calls
    <2>3. Defined(want[t].name) => symbols[want[t].name].file # None
      <3>1. symbols[want[t].name] \in [file : File, package : BOOLEAN] \cup {Undefined}
        BY <1>1, <2>2 DEF Types
      <3>2. QED  BY <3>1, NoneOK DEF Defined
    <2>4. \/ /\ pc' = [pc EXCEPT ![t] = "return"]
             /\ \E answer : answer # None /\ result' = [result EXCEPT ![t] = answer]
          \/ pc' = [pc EXCEPT ![t] = "lock"] /\ result' = result
      BY <1>2, <2>3 DEF FindCached
    <2>5. t # holder
      BY <1>1, <2>1, NoneOK DEF HolderOK
    <2>6. pc \in [Thread -> {"idle", "cached", "lock", "validate", "return"}]
          /\ result \in [Thread -> File \cup {None}]
      BY <1>1 DEF Types
    <2>7. QED  BY <1>1, <2>1, <2>4, <2>5, <2>6, CallAnswers
  <1>3. CASE FindLocked(t)
    <2>1. t # holder
      BY <1>3, LockingIs DEF FindLocked
    <2>2. /\ UNCHANGED <<db, stack, holder, want>> /\ Lookup(want[t]) # None
          /\ pc' = [pc EXCEPT ![t] = "return"]
          /\ result' = [result EXCEPT ![t] = Lookup(want[t])]
      BY <1>3 DEF FindLocked, Answer
    <2>3. /\ \A u \in Thread : u # t => pc'[u] = pc[u] /\ result'[u] = result[u]
          /\ result'[t] = Lookup(want[t])
      BY <1>1, <2>2 DEF Types
    <2>4. QED  BY <1>1, <2>1, <2>2, <2>3, CallAnswers
  <1>4. CASE FindNothing(t)
    <2>1. t # holder /\ want[t] \in Calls /\ want[t].kind # "BuildFile"
      BY <1>4, LockingIs DEF FindNothing
    <2>2. /\ UNCHANGED <<db, stack, holder, want>> /\ Lookup(want[t]) = None
          /\ BuiltFor(want[t]) \in {None} \cup files
          /\ pc' = [pc EXCEPT ![t] = "return"] /\ result' = [result EXCEPT ![t] = None]
      BY <1>4 DEF FindNothing, Answer
    <2>3. ~Offered(db, want[t])
      <3>1. SUFFICES ASSUME Offered(db, want[t])
                     PROVE  FALSE
        OBVIOUS
      <3>2. BuiltFor(want[t]) \in Buildable(db)
        BY <1>1, <2>1, <3>1, OfferedIs DEF Qualified
      <3>3. BuiltFor(want[t]) # None
        BY <1>1, <3>2, BuildableHas, NoneOK
      <3>4. QED  BY <1>1, <2>1, <2>2, <3>1, <3>3, OfferedIsFound
    <2>4. \A u \in Thread : u # t => pc'[u] = pc[u] /\ result'[u] = result[u]
      BY <1>1, <2>2 DEF Types
    <2>5. QED  BY <1>1, <2>1, <2>2, <2>3, <2>4, CallAnswers
  <1>5. CASE FindInDatabase(t)
    BY <1>5, FindInDatabaseAnswers
  <1>6. CASE Validate(t)
    <2>1. deferred[t] \subseteq File
      BY <1>1 DEF Types
    <2>2. ~\E f \in deferred[t] : Invalid(f)
      BY <2>1 DEF Invalid, Qualified, Consistent, proto
    <2>3. /\ UNCHANGED <<db, stack, holder, want>> /\ pc[t] = "validate"
          /\ pc' = [pc EXCEPT ![t] = "return"] /\ result' = [result EXCEPT ![t] = result[t]]
      BY <1>6, <2>2 DEF Validate, Answer
    <2>4. t # holder
      BY <1>1, <2>3, NoneOK DEF HolderOK
    <2>5. result'[t] = None => ~Offered(db, want[t])
      BY <1>1, <2>3 DEF CallsGood, Answered, Types
    <2>6. \A u \in Thread : u # t => pc'[u] = pc[u] /\ result'[u] = result[u]
      BY <1>1, <2>3 DEF Types
    <2>7. QED  BY <1>1, <2>3, <2>4, <2>5, <2>6, CallAnswers
  <1>7. CASE Return(t)
    <2>1. /\ UNCHANGED <<db, stack, holder>> /\ pc[t] = "return"
          /\ pc' = [pc EXCEPT ![t] = "idle"] /\ want' = [want EXCEPT ![t] = None]
          /\ result' = [result EXCEPT ![t] = None]
      BY <1>7 DEF Return
    <2>2. t # holder
      BY <1>1, <2>1, NoneOK DEF HolderOK
    <2>3. /\ \A u \in Thread : u # t =>
               want'[u] = want[u] /\ pc'[u] = pc[u] /\ result'[u] = result[u]
          /\ pc'[t] = "idle"
      BY <1>1, <2>1 DEF Types
    <2>4. QED  BY <1>1, <2>1, <2>2, <2>3, CallAnswers
  <1>8. QED  BY <1>2, <1>3, <1>4, <1>5, <1>6, <1>7 DEF Progress

LEMMA CallsGoodStep ==
  ASSUME IsFiniteSet(File), IInv, IInv', Qualified, BuildsGood, CallsGood, [Next]_vars
  PROVE  CallsGood'
  <1>1. CASE BuildStep
    BY <1>1, BuildAnswers, CommitAnswers, RollbackAnswers DEF BuildStep
  <1>2. ASSUME NEW t \in Thread, NEW kind, NEW n, NEW at \in {"lock", "cached"},
               Call(t, kind, n, at)
        PROVE  CallsGood'
    <2>1. Types /\ HolderOK
      BY DEF IInv
    <2>2. /\ pc[t] = "idle" /\ pc' = [pc EXCEPT ![t] = at]
          /\ want' = [want EXCEPT ![t] = [kind |-> kind, name |-> n]]
          /\ UNCHANGED <<db, stack, holder, result>>
      BY <1>2 DEF Call
    <2>3. t # holder
      BY <2>1, <2>2, NoneOK DEF HolderOK
    <2>4. /\ \A u \in Thread : u # t => want'[u] = want[u] /\ pc'[u] = pc[u]
          /\ pc'[t] = at
      BY <2>1, <2>2 DEF Types
    <2>5. QED  BY <2>1, <2>2, <2>3, <2>4, CallAnswers
  <1>3. ASSUME NEW t \in Thread, NEW f \in File, NEW matches \in BOOLEAN, BuildFile(t, f, matches)
        PROVE  CallsGood'
    BY <1>3 DEF BuildFile, Qualified, Consistent
  <1>4. CASE UNCHANGED vars
    BY <1>4 DEF vars, lookups, CallsGood, BuiltForCaller, BuiltFor, Answered, Offered
  <1>5. QED
    BY <1>1, <1>2, <1>3, <1>4, ProgressAnswers
    DEF Next, Rest, FindFileByName, FindFileContainingSymbol, FindByName

-------------------------------------------------------------------------------
(* What lookups find.                                                         *)

FoundInv == FromDatabase /\ (Qualified => BuildsGood /\ CallsGood)

LEMMA FoundStarts ==
  ASSUME Init
  PROVE  FoundInv
  <1>1. /\ stack = <<>> /\ known_bad_files = {} /\ pending_files = <<>>
        /\ \A t \in Thread : pc[t] = "idle"
    BY DEF Init
  <1>2. KnownOK /\ GoodFrames /\ CallsGood
    BY <1>1 DEF KnownOK, GoodFrames, CallsGood, BuiltForCaller, Answered
  <1>3. PendingAre
    <2>1. LoadingAt = {} /\ Len(pending_files) = 0
      BY <1>1 DEF LoadingAt
    <2>2. Numbers(<<>>, 0, {}) /\ PendingFrom(<<>>)
      BY <2>1 DEF Numbers, PendingFrom
    <2>3. QED  BY <2>1, <2>2 DEF PendingAre
  <1>4. QED  BY <1>2, <1>3, FromDatabaseStarts DEF FoundInv, BuildsGood

LEMMA FoundStep ==
  ASSUME IsFiniteSet(File), IInv, IInv', FoundInv, [Next]_vars
  PROVE  FoundInv'
  <1>1. FromDatabase'
    BY FromDatabaseStep DEF FoundInv
  <1>2. db' = db
    BY DEF Next, BuildStep, Progress, Rest, vars, LoadImport, AddToTables, Resolve, GiveUpScope,
           BuildForSymbol, Commit, Rollback, FindFileByName, FindFileContainingSymbol, FindByName,
           Call, FindCached, FindLocked, FindNothing, FindInDatabase, Validate, Return, BuildFile
  <1>3. ASSUME Qualified
        PROVE  (BuildsGood /\ CallsGood)'
    BY <1>3, BuildsGoodStep, CallsGoodStep DEF FoundInv
  <1>4. Qualified' => Qualified
    BY <1>2 DEF Qualified, Consistent, FullyQualified
  <1>5. QED  BY <1>1, <1>3, <1>4 DEF FoundInv

\* What a lookup finds can be built from the database; and where names are fully
\* qualified it finds all that can be, whatever failed before, in this call or
\* in another, and though imports and names may lead in circles.
THEOREM OffersAreFoundExactlyAlways ==
  ASSUME IsFiniteSet(File)
  PROVE  Spec => []OffersAreFoundExactly
  <1>1. Init => FoundInv
    BY FoundStarts
  <1>2. IInv /\ IInv' /\ FoundInv /\ [Next]_vars => FoundInv'
    BY FoundStep
  <1>3. ASSUME IInv, FoundInv
        PROVE  OffersAreFoundExactly
    <2>1. Types /\ MarksOK /\ CallersOK
      BY <1>3 DEF IInv
    <2>2. Version(1).files = Committed
      BY <2>1, FirstVersion
    <2>3. OnlyOffersAreFound
      BY <1>3, <2>1, <2>2 DEF OnlyOffersAreFound, CallersOK, FoundInv, FromDatabase
    <2>4. QualifiedOffersAreFound
      BY <1>3 DEF QualifiedOffersAreFound, OffersAreFound, FoundInv, Qualified, CallsGood, Answered
    <2>5. QED  BY <2>3, <2>4 DEF OffersAreFoundExactly
  <1>4. QED  BY <1>1, <1>2, <1>3, Invariant, PTL DEF Spec

===============================================================================
