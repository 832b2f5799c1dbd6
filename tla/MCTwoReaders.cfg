SPECIFICATION Spec
CONSTANTS
  k1 = k1
  k2 = k2
  a = a
  b = b
  t1 = t1
  t2 = t2
  Keys <- MCKeys
  Values <- MCValues
  Puts <- MCPuts
  FirstFile <- BothKeys
  RecSize <- MCRecSize
  Garbage = Garbage
  Nobody = Nobody
  NULL = NULL
  MaxDataFileSize = 3
  MaxKvSize = 4
  MinLen = 4
  PtrSize = 8
  MaxFiles = 3
  MaxOps <- OneCall
  Writers <- NoThread
  Readers <- BothThreads
  Deleters <- NoThread
CHECK_DEADLOCK FALSE
INVARIANTS
  GetsOwnValue
