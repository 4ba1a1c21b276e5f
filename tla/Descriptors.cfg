\* Every graph of imports of three files with a complication and two calls in a row,
\* and a few databases for two threads that look up, build and validate; the databases of MCDescriptors beside them.
SPECIFICATION MCSpec
CONSTANTS
  Thread = {t1, t2}
  t1 = t1
  t2 = t2
  A = A
  B = B
  C = C
  D = D
  sA = sA
  sB = sB
  sC = sC
  sD = sD
  pkg = pkg
  File = {A, B, C}
  Symbol = {sA, sB, sC, pkg}
  Databases <- MCAll
  OptionType = OptionType
  MaxCalls <- MCMaxCalls
  None = None
INVARIANTS
  BuildsLeaveCompleteFiles
  NoDanglingPointers
  GivenIsCommitted
  OffersAreFoundExactly
  WhatWasAddedIsFound
  MergedIsOneView
PROPERTIES
  CommittedStays
  EveryCallReturns
