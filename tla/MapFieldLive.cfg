\* Const accessors that race for one field all return.
SPECIFICATION FairSpec
CONSTANTS
  f1 = f1
  f2 = f2
  f3 = f3
  t1 = t1
  t2 = t2
  k1 = k1
  k2 = k2
  v1 = v1
  v2 = v2
  p1 = p1
  p2 = p2
  p3 = p3
  heap = heap
  arena = arena
  Field = {f1}
  Thread = {t1, t2}
  Key = {k1}
  Value = {v1}
  PayloadId = {p1, p2}
  ArenaOf <- OnHeap
  Absent = Absent
  NoPayload = NoPayload
  NoThread = NoThread
  NoField = NoField
  MaxEntries = 2
INVARIANTS IInv ReadersSeeContent
PROPERTIES EveryAccessorReturns
