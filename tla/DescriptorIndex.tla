--------------------------- MODULE DescriptorIndex ---------------------------
(***************************************************************************)
(* SimpleDescriptorDatabase and EncodedDescriptorDatabase: files that are  *)
(* added one by one and found by their name, by a symbol, or by an         *)
(* extension.  Each sorts the symbols of all files and looks a name up by  *)
(* its predecessor.  The simple database has one tree of each kind; the    *)
(* encoded one inserts into a tree and empties it into a sorted vector     *)
(* with the next lookup.  A MergedDescriptorDatabase asks both in turn.    *)
(*                                                                         *)
(* A name is a sequence of characters, a character its rank in the order   *)
(* of bytes.  Trees and vectors are sorted sequences; an entry of either   *)
(* database carries its file.                                              *)
(***************************************************************************)
EXTENDS Naturals, FiniteSets, SequencesExt

CONSTANTS
  Offers,      \* the files that may be added
  Dot,         \* the character '.'
  InName,      \* the characters that ValidateSymbolName accepts
  MaxAdds,     \* how many times a file may be added
  Careless,    \* what is added although it goes wrong: "inside", "twice"
  None

\* What the search relies on.
DotSortsFirst == Dot \in InName /\ \A x \in InName : x >= Dot

VARIABLES
  simple, encoded,
  accepted,    \* the files for which Add() returned true, of each
  adds         \* how many times it was called

vars == <<simple, encoded, accepted, adds>>

-------------------------------------------------------------------------------
(* Names. *)

Before(x, y) ==
  \E i \in DOMAIN y :
    /\ i <= Len(x) + 1 /\ \A j \in 1..(i - 1) : x[j] = y[j]
    /\ i <= Len(x) => x[i] < y[i]

ValidateSymbolName(name) == ToSet(name) \subseteq InName

IsSubSymbol(sub, super) ==
  \/ sub = super
  \/ /\ IsPrefix(sub, super) /\ Len(sub) < Len(super)
     /\ super[Len(sub) + 1] = Dot

Join(package, symbol) == IF package = <<>> THEN symbol ELSE package \o <<Dot>> \o symbol

\* Where upper_bound() is, less one unless that is before the first; behind the
\* last of an empty container.
FindLastLessOrEqual(notGreater) == IF notGreater = 0 THEN 1 ELSE notGreater

\* The new symbol is not compared with the first one if that is greater.
Overlooked(names, at, name) ==
  at \in DOMAIN names /\ Before(name, names[at]) /\ IsSubSymbol(name, names[at])

-------------------------------------------------------------------------------
(* SimpleDescriptorDatabase *)

Refuse(d) == [d EXCEPT !.ok = FALSE]
Known(entries, key) == \E e \in entries : e.key = key
Get(entries, key) == IF Known(entries, key) THEN (CHOOSE e \in entries : e.key = key).file ELSE None

AtOrBefore(names, name) == FindLastLessOrEqual(Cardinality({i \in DOMAIN names : ~Before(name, names[i])}))

NextNotCompared(names, at, name) == at \in DOMAIN names => ~IsSubSymbol(names[at], name)
\* The second comparison is with the first symbol that is greater.
MayAdd(names, at, name) ==
  /\ at \in DOMAIN names => ~IsSubSymbol(names[at], name)
  /\ at + 1 \in DOMAIN names => ~IsSubSymbol(name, names[at + 1])

SimpleAddSymbol(d, name, f) ==
  LET names == [i \in DOMAIN d.by_symbol_ |-> d.by_symbol_[i].name]
      at == AtOrBefore(names, name)
      greater == Cardinality({i \in DOMAIN names : Before(names[i], name)}) + 1 IN
  IF ~ValidateSymbolName(name) \/ ~MayAdd(names, at, name) THEN Refuse(d)
  ELSE [d EXCEPT !.by_symbol_ = InsertAt(@, greater, [name |-> name, file |-> f]),
                 !.slips = @ \cup IF Overlooked(names, at, name) THEN {"inside"} ELSE {}]

\* Extensions of relative names are not indexed.
SimpleAddExtension(d, x, f) ==
  IF ~x.qualified THEN d
  ELSE IF Known(d.by_extension_, <<x.extendee, x.number>>) THEN Refuse(d)
  ELSE [d EXCEPT !.by_extension_ = @ \cup {[key |-> <<x.extendee, x.number>>, file |-> f]}]

\* The symbols and extensions of a file in the order in which they are added;
\* those before one that is refused stay.
SimpleAddFile(d, f) ==
  IF Known(d.by_name_, f.name) THEN Refuse(d)
  ELSE FoldLeft(LAMBDA a, x : IF ~a.ok THEN a
                              ELSE IF x.kind = "symbol" THEN SimpleAddSymbol(a, Join(f.package, x.symbol), f)
                              ELSE SimpleAddExtension(a, x, f),
                [d EXCEPT !.by_name_ = @ \cup {[key |-> f.name, file |-> f]}], f.declares)

SimpleFindFile(name) == Get(simple.by_name_, name)
SimpleFindSymbol(name) ==
  LET names == [i \in DOMAIN simple.by_symbol_ |-> simple.by_symbol_[i].name]
      at == AtOrBefore(names, name) IN
  IF at \in DOMAIN names /\ IsSubSymbol(names[at], name) THEN simple.by_symbol_[at].file ELSE None
SimpleFindExtension(extendee, number) == Get(simple.by_extension_, <<extendee, number>>)
SimpleFindAllExtensionNumbers(extendee) == {e.key[2] : e \in {e \in simple.by_extension_ : e.key[1] = extendee}}

-------------------------------------------------------------------------------
(* EncodedDescriptorDatabase: entries keep the package apart from the symbol. *)

AsString(e) == Join(e.file.package, e.symbol)

\* SymbolCompare of two entries.
First(e) == IF e.file.package = <<>> THEN e.symbol ELSE e.file.package
Second(e) == IF e.file.package = <<>> THEN <<>> ELSE e.symbol
SymbolLess(l, r) ==
  LET n == IF Len(First(l)) < Len(First(r)) THEN Len(First(l)) ELSE Len(First(r))
      left == SubSeq(First(l), 1, n)
      right == SubSeq(First(r), 1, n) IN
  IF left # right THEN Before(left, right)
  ELSE IF Len(First(l)) = Len(First(r)) THEN Before(Second(l), Second(r))
  ELSE Before(AsString(l), AsString(r))

\* SymbolCompare of a name with an entry: after the package comes an implicit dot.
NameLess(name, e) ==
  LET p == e.file.package
      n == IF Len(p) < Len(name) THEN Len(p) ELSE Len(name)
      rest == SubSeq(name, n + 1, Len(name)) IN
  IF p = <<>> THEN Before(name, e.symbol)
  ELSE IF SubSeq(name, 1, n) # p THEN Before(SubSeq(name, 1, n), p)
  ELSE rest = <<>> \/ Head(rest) < Dot \/ (Head(rest) = Dot /\ Before(Tail(rest), e.symbol))

\* A part of a name is consumed with the dot behind it.
Consumed(name, part) ==
  LET rest == SubSeq(name, Len(part) + 1, Len(name)) IN
  IF ~IsPrefix(part, name) THEN {}
  ELSE IF rest = <<>> THEN {rest} ELSE IF Head(rest) = Dot THEN {Tail(rest)} ELSE {}
IsSubSymbolOf(e, super) ==
  \E rest \in (IF e.file.package = <<>> THEN {super} ELSE Consumed(super, e.file.package)) :
    Consumed(rest, e.symbol) # {}

\* Insertion into a tree; into the vector, in front of what is equal.
AddName(s, e) == InsertAt(s, Cardinality({i \in DOMAIN s : s[i].name < e.name}) + 1, e)
AddEntry(s, e) == InsertAt(s, Cardinality({i \in DOMAIN s : SymbolLess(s[i], e)}) + 1, e)
ExtensionLess(l, r) ==
  \/ Before(l.extendee, r.extendee)
  \/ l.extendee = r.extendee /\ l.number < r.number
AddExtensionEntry(s, e) == InsertAt(s, Cardinality({i \in DOMAIN s : ExtensionLess(s[i], e)}) + 1, e)

\* An insertion does nothing where a tree has an equal entry, and does not look
\* into the vector.
EncodedAddExtension(d, x, f) ==
  LET e == [extendee |-> x.extendee, number |-> x.number, file |-> f]
      same(s) == \E i \in DOMAIN s : s[i].extendee = x.extendee /\ s[i].number = x.number IN
  IF ~x.qualified THEN d
  ELSE IF same(d.by_extension_) THEN Refuse(d)
  ELSE IF same(d.by_extension_flat_)
  THEN Refuse([d EXCEPT !.by_extension_ = AddExtensionEntry(@, e), !.slips = @ \cup {"twice"}])
  ELSE [d EXCEPT !.by_extension_ = AddExtensionEntry(@, e)]

\* CheckForMutualSubsymbols in the tree and in the vector.
EncodedAddSymbol(d, symbol, f) ==
  LET e == [symbol |-> symbol, file |-> f]
      name == AsString(e)
      names(s) == [i \in DOMAIN s |-> AsString(s[i])]
      at(s) == FindLastLessOrEqual(Cardinality({i \in DOMAIN s : ~SymbolLess(e, s[i])}))
      both == {d.by_symbol_, d.by_symbol_flat_} IN
  IF ~ValidateSymbolName(symbol) \/ \E s \in both : ~MayAdd(names(s), at(s), name) THEN Refuse(d)
  ELSE [d EXCEPT !.by_symbol_ = AddEntry(@, e),
                 !.slips = @ \cup IF \E s \in both : Overlooked(names(s), at(s), name)
                                  THEN {"inside"} ELSE {}]

EncodedAddFile(d, f) ==
  LET e == [name |-> f.name, file |-> f]
      same(s) == \E i \in DOMAIN s : s[i].name = f.name IN
  IF ~ValidateSymbolName(f.package) \/ same(d.by_name_) THEN Refuse(d)
  ELSE IF same(d.by_name_flat_)
  THEN Refuse([d EXCEPT !.by_name_ = AddName(@, e), !.slips = @ \cup {"twice"}])
  ELSE FoldLeft(LAMBDA a, x : IF ~a.ok THEN a
                              ELSE IF x.kind = "symbol" THEN EncodedAddSymbol(a, x.symbol, f)
                              ELSE EncodedAddExtension(a, x, f),
                [d EXCEPT !.by_name_ = AddName(@, e)], f.declares)

\* What precedes every lookup.
EnsureFlat(d) ==
  [d EXCEPT !.by_name_ = <<>>, !.by_name_flat_ = FoldLeft(AddName, @, d.by_name_),
            !.by_symbol_ = <<>>, !.by_symbol_flat_ = FoldLeft(AddEntry, @, d.by_symbol_),
            !.by_extension_ = <<>>,
            !.by_extension_flat_ = FoldLeft(AddExtensionEntry, @, d.by_extension_)]

EncodedFindFile(name) ==
  LET s == EnsureFlat(encoded).by_name_flat_
      at == Cardinality({i \in DOMAIN s : s[i].name < name}) + 1 IN
  IF at \in DOMAIN s /\ s[at].name = name THEN s[at].file ELSE None
EncodedFindSymbol(name) ==
  LET s == EnsureFlat(encoded).by_symbol_flat_
      at == FindLastLessOrEqual(Cardinality({i \in DOMAIN s : ~NameLess(name, s[i])})) IN
  IF at \in DOMAIN s /\ IsSubSymbolOf(s[at], name) THEN s[at].file ELSE None
ExtensionsFrom(s, extendee, number) ==
  Cardinality({i \in DOMAIN s : ExtensionLess(s[i], [extendee |-> extendee, number |-> number])}) + 1
EncodedFindExtension(extendee, number) ==
  LET s == EnsureFlat(encoded).by_extension_flat_
      at == ExtensionsFrom(s, extendee, number) IN
  IF at \in DOMAIN s /\ s[at].extendee = extendee /\ s[at].number = number THEN s[at].file ELSE None
EncodedFindAllExtensionNumbers(extendee) ==
  LET s == EnsureFlat(encoded).by_extension_flat_
      at == ExtensionsFrom(s, extendee, 0) IN
  {s[i].number : i \in {i \in at..Len(s) : \A j \in at..i : s[j].extendee = extendee}}
EncodedFindAllFileNames ==
  LET all == encoded.by_name_ \o encoded.by_name_flat_ IN [i \in DOMAIN all |-> all[i].name]

-------------------------------------------------------------------------------
(* MergedDescriptorDatabase over the simple one and the encoded one. *)

FirstOf(x, y) == IF x # None THEN x ELSE y
MergedFindFileByName(name) == FirstOf(SimpleFindFile(name), EncodedFindFile(name))

NotHidden(f) == f
\* What an earlier database has a file of the same name for is hidden.
Unhidden(f) == IF f # None /\ SimpleFindFile(f.name) # None THEN None ELSE f
MergedFindFileContainingSymbol(name) ==
  FirstOf(SimpleFindSymbol(name), Unhidden(EncodedFindSymbol(name)))
MergedFindFileContainingExtension(extendee, number) ==
  FirstOf(SimpleFindExtension(extendee, number), Unhidden(EncodedFindExtension(extendee, number)))

-------------------------------------------------------------------------------
Init ==
  /\ simple = [by_name_ |-> {}, by_symbol_ |-> <<>>, by_extension_ |-> {}, ok |-> TRUE, slips |-> {}]
  /\ encoded = [by_name_ |-> <<>>, by_name_flat_ |-> <<>>, by_symbol_ |-> <<>>, by_symbol_flat_ |-> <<>>,
                by_extension_ |-> <<>>, by_extension_flat_ |-> <<>>, ok |-> TRUE, slips |-> {}]
  /\ accepted = [simple |-> {}, encoded |-> {}]
  /\ adds = 0

\* `ok` is what Add() returns and `slips` what it did not notice; neither is kept.
Reset(d) == [d EXCEPT !.ok = TRUE, !.slips = {}]
Accepting(which, r, f) ==
  accepted' = [accepted EXCEPT ![which] = IF r.ok THEN @ \cup {f} ELSE @]

AddToSimple ==
  /\ adds < MaxAdds
  /\ \E f \in Offers : LET r == SimpleAddFile(simple, f) IN
       /\ r.slips \subseteq Careless
       /\ simple' = Reset(r) /\ Accepting("simple", r, f)
  /\ adds' = adds + 1 /\ UNCHANGED encoded

AddToEncoded ==
  /\ adds < MaxAdds
  /\ \E f \in Offers : LET r == EncodedAddFile(encoded, f) IN
       /\ r.slips \subseteq Careless
       /\ encoded' = Reset(r) /\ Accepting("encoded", r, f)
  /\ adds' = adds + 1 /\ UNCHANGED simple

\* Any lookup in the encoded database but FindAllFileNames().
LookInEncoded == encoded' = EnsureFlat(encoded) /\ UNCHANGED <<simple, accepted, adds>>

Next == AddToSimple \/ AddToEncoded \/ LookInEncoded
Spec == Init /\ [][Next]_vars

-------------------------------------------------------------------------------
Symbols(f) == {Join(f.package, x.symbol) : x \in {x \in ToSet(f.declares) : x.kind = "symbol"}}
Extensions(f) == {x \in ToSet(f.declares) : x.kind = "extension" /\ x.qualified}
\* Every declared name, and one inside of it.
SomeNames == LET declared == UNION {Symbols(f) : f \in Offers} IN
             declared \cup {n \o <<Dot, Dot + 1>> : n \in declared}
SymbolFound(which, name) == IF which = "simple" THEN SimpleFindSymbol(name) ELSE EncodedFindSymbol(name)
FileFound(which, name) == IF which = "simple" THEN SimpleFindFile(name) ELSE EncodedFindFile(name)
ExtensionFound(which, x) ==
  IF which = "simple" THEN SimpleFindExtension(x.extendee, x.number)
  ELSE EncodedFindExtension(x.extendee, x.number)
NumbersFound(which, extendee) ==
  IF which = "simple" THEN SimpleFindAllExtensionNumbers(extendee)
  ELSE EncodedFindAllExtensionNumbers(extendee)

(* A lookup finds what was added, whatever order it came in and whatever lookups
   were in between, and whatever else was added or refused but for what slips
   (Careless): a symbol added in front of all others although one is inside of it, and
   what is refused only after a part of it went in.  Found are a file by its name, the one
   file that declares a symbol or the symbol that it is inside of, the
   extensions one by one and all at once.  What is found was declared.  All names
   of files are listed once. *)
WhatWasAddedIsFound ==
  \A which \in {"simple", "encoded"} :
    /\ \A f \in accepted[which] :
         /\ FileFound(which, f.name) = f
         /\ \A x \in Extensions(f) :
              ExtensionFound(which, x) = f /\ x.number \in NumbersFound(which, x.extendee)
    /\ \A name \in SomeNames :
         LET f == SymbolFound(which, name)
             owners == {g \in accepted[which] : \E s \in Symbols(g) : IsSubSymbol(s, name)} IN
         /\ owners # {} => owners = {f}
         /\ f # None => \E s \in Symbols(f) : IsSubSymbol(s, name)
    /\ IsInjective(EncodedFindAllFileNames)
    /\ {f.name : f \in accepted["encoded"]} \subseteq ToSet(EncodedFindAllFileNames)

(* A merged database is one database: what it finds by a symbol or an extension it
   also finds by its name, so that a file never hides behind another one of its
   name. *)
MergedIsOneView ==
  LET found == {MergedFindFileContainingSymbol(name) : name \in SomeNames}
                 \cup {MergedFindFileContainingExtension(x.extendee, x.number) :
                         x \in UNION {Extensions(f) : f \in Offers}} IN
  \A f \in found \ {None} : MergedFindFileByName(f.name) = f

(* descriptor_database.h:223: "The by_symbol_ map does not contain any symbols
   which are prefixes of other symbols in the map."  The search relies on it. *)
NoSymbolInsideAnother ==
  \A i, j \in DOMAIN simple.by_symbol_ :
    i # j => ~IsSubSymbol(simple.by_symbol_[i].name, simple.by_symbol_[j].name)
===============================================================================
