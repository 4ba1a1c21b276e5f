\* BuildFile of a file whose features are outside their lifetime.
SPECIFICATION Spec
CONSTANTS
  Thread = {t1}
  t1 = t1
  A = A
  B = B
  C = C
  D = D
  sA = sA
  sB = sB
  sC = sC
  sD = sD
  pkg = pkg
  File = {A, B, C}
  Symbol = {sA, sB, sC, pkg}
  Databases <- MCInvalid
  OptionType = OptionType
  MaxCalls <- MCMaxCalls
  None = None
INVARIANTS
  InvalidIsNotGiven
