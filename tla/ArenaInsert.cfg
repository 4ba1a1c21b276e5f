\* Four threads race to add their SerialArenas to one arena whose chunks hold one
\* and then two entries; one of them also resets and destroys it, and walks its list.
CONSTANTS
  t1 = t1
  t2 = t2
  t3 = t3
  a = a
  b = b
  Scenes <- WithEveryone
  Thread = {t1, t2, t3, t4}
  Arena = {a}
  Serial = {s1, s2, s3}
  kPerThreadIds = 2
  kHeaderSize = 1
  kEntrySize = 1
  kMaxBytes = 3
  kGrowthFactor = 2
  Managers = {t1}
  Walkers = {t1}
  MaxBatches = 2
  NoThread = NoThread
  NoArena = NoArena
  NoSerial = NoSerial
  NoId = NoId
SPECIFICATION SceneSpec
SYMMETRY Symmetric
INVARIANTS ListedOnce WalkCountsListed
