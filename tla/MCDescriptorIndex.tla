-------------------------- MODULE MCDescriptorIndex --------------------------
(* Files for DescriptorIndex: symbols inside of each other, next to each other
   and with characters on both sides of the dot; names and extensions that two
   files have; packages and symbols that are refused.                         *)
EXTENDS DescriptorIndex

hyphen == 1
zero == 3
a == 4
b == 5

Sym(s) == [kind |-> "symbol", symbol |-> s]
Ext(extendee, number, qualified) ==
  [kind |-> "extension", extendee |-> extendee, number |-> number, qualified |-> qualified]
FileProto(name, package, declares) == [name |-> name, package |-> package, declares |-> declares]

MCOffers ==
  {FileProto(1, <<a>>, <<Sym(<<b>>), Ext(<<a>>, 2, TRUE)>>),
   FileProto(2, <<>>, <<Sym(<<a>>)>>),
   FileProto(3, <<>>, <<Sym(<<zero>>), Ext(<<a>>, 1, TRUE), Ext(<<a>>, 1, FALSE)>>),
   FileProto(4, <<>>, <<Sym(<<a, b>>), Sym(<<a, hyphen>>)>>),
   FileProto(1, <<b>>, <<Sym(<<a>>), Sym(<<b>>)>>),
   FileProto(5, <<a, Dot, b>>, <<Sym(<<a>>), Sym(<<b>>)>>),
   FileProto(6, <<b>>, <<Sym(<<zero>>), Ext(<<a>>, 2, TRUE), Sym(<<a>>)>>),
   FileProto(7, <<hyphen>>, <<Sym(<<b>>)>>)}
===============================================================================
