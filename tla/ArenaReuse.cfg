\* Either two threads create, reset and destroy two arenas, end and begin again, or
\* three come to one arena, where two race for slots and the mutex and the third walks
\* the list; under a fair scheduler, with lifecycle ids reserved two at a time.
CONSTANTS
  t1 = t1
  t2 = t2
  t3 = t3
  a = a
  b = b
  Scenes <- ReuseOrContention
  Thread = {t1, t2, t3}
  Arena = {a, b}
  Serial = {s1, s2}
  kPerThreadIds = 2
  kHeaderSize = 1
  kEntrySize = 1
  kMaxBytes = 2
  kGrowthFactor = 2
  Managers = {t1, t2}
  Walkers = {t1}
  MaxBatches = 2
  NoThread = NoThread
  NoArena = NoArena
  NoSerial = NoSerial
  NoId = NoId
SPECIFICATION FairSceneSpec
INVARIANTS CacheHitsAreRight
PROPERTIES ImplementsArenaThreads EveryAccessEnds
