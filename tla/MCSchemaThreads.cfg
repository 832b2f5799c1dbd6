SPECIFICATION Spec
CONSTANTS
  k1 = k1
  k2 = k2
  a = a
  b = b
  t1 = t1
  t2 = t2
  Keys <- MCKeys
  Values <- MCValues
  Puts <- MCPuts
  FirstFile <- OneKey
  RecSize <- MCRecSize
  Garbage = Garbage
  Nobody = Nobody
  NULL = NULL
  MaxDataFileSize = 3
  MaxKvSize = 4
  MinLen = 3
  PtrSize = 8
  MaxFiles = 4
  MaxOps <- ThreeCalls
  Writers <- BothThreads
  Readers <- BothThreads
  Deleters <- BothThreads
CHECK_DEADLOCK FALSE
INVARIANTS
  TypeOK
  UsedFilesOpen
  TableInStep
  SizesAccounted
  FilesAddedForFull
  KeysCounted
PROPERTIES
  CallsReturn
