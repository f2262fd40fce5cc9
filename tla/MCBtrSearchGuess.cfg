CONSTANTS
  Threads = {t1}
  Pages = {"p1", "p2"}
  PageOrder <- MCPageOrder
  KeyRange <- MCKeyRange
  InitRecs <- MCInitRecs
  NUnique = 2
  FieldVals <- MCFieldVals
  NHeaps = 2
  NCells = 2
  Crc32c <- MCCrc32c
  Indexes = {i1}
  Idx = i1
  NULL = NULL
  BuildSigs <- MCAllBuildSigs
  SearchTuples <- MCAllTuples
  SearchModes <- MCAllModes
SPECIFICATION Spec
INVARIANT GuessCorrect
VIEW MCView
