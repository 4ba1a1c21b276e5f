\* A relative name leads to a file that imports what is being loaded.
SPECIFICATION Spec
CONSTANTS
  Thread = {t1}
  t1 = t1
  A = A
  B = B
  C = C
  D = D
  sA = sA
  sB = sB
  sC = sC
  sD = sD
  pkg = pkg
  File = {A, B, C, D}
  Symbol = {sA, sB, sC, sD}
  Databases <- MCScopes
  OptionType = OptionType
  MaxCalls <- MCMaxCalls
  None = None
INVARIANTS
  TypeOK
  OffersAreFound
