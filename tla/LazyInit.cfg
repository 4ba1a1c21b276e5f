\* Two threads with two calls each into generated code that nobody has used.
SPECIFICATION LiveSpec
CONSTANTS
  Thread = {t1, t2}
  a = a
  b = b
  c = c
  d = d
  Ta = Ta
  Tb = Tb
  Td = Td
  memoKey = memoKey
  File = {a, b, c, d}
  LazyFiles <- MCLazyFiles
  Eager = {a}
  Deps <- MCDeps
  Type = {Ta, Tb, Td}
  FileOf <- MCFileOf
  Fields <- MCFields
  DroppedTypes = {Ta, Tb}
  Number = {1}
  Key = {memoKey}
  Question <- MCQuestions
  MaxCalls = 2
  None = None
  Generated = Generated
  Dropped = Dropped
INVARIANTS
  OneAnswer
  FilesReadQuietly
PROPERTIES
  EveryQuestionIsAnswered
