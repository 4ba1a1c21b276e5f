\* The inductive invariant of the proofs (run with ThreadSafeArena_proofs), and that
\* lifecycle ids are used once.
CONSTANTS
  Thread = {t1, t2}
  Arena = {a, b}
  Serial = {s1, s2}
  kPerThreadIds = 2
  kHeaderSize = 1
  kEntrySize = 1
  kMaxBytes = 2
  kGrowthFactor = 2
  Managers = {t1, t2}
  Walkers = {}
  MaxBatches = 2
  NoThread = NoThread
  NoArena = NoArena
  NoSerial = NoSerial
  NoId = NoId
SPECIFICATION Spec
INVARIANTS IInv
PROPERTIES IdsAreFresh
