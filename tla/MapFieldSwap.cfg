\* Two fields of one arena and one of another: merges and both kinds of swap of
\* fields with unequal contents, in every state of their copies.
SPECIFICATION Spec
CONSTANTS
  f1 = f1
  f2 = f2
  f3 = f3
  t1 = t1
  t2 = t2
  k1 = k1
  k2 = k2
  v1 = v1
  v2 = v2
  p1 = p1
  p2 = p2
  p3 = p3
  heap = heap
  arena = arena
  Field = {f1, f2, f3}
  Thread = {}
  Key = {k1, k2}
  Value = {v1}
  PayloadId = {p1, p2}
  ArenaOf <- TwoTogether
  Absent = Absent
  NoPayload = NoPayload
  NoThread = NoThread
  NoField = {f1, f2, f3}
  MaxEntries = 1
SYMMETRY Symmetry
PROPERTIES MutatorsDoAsPromised
