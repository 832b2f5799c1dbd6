SPECIFICATION FaultSpec
CONSTANTS
  k1 = k1
  k2 = k2
  val = val
  huge = huge
  Keys <- MCKeys
  Values <- MCValues
  RecSize <- MCRecSize
  NoValue = NoValue
  Garbage = Garbage
  MaxDataFileSize = 3
  MaxKvSize = 3
  MinLen = 2
  PtrSize = 8
  MaxFiles = 2
  MaxFaults = 2
  MaxRestarts = 1
SYMMETRY MCSymmetry
CHECK_DEADLOCK FALSE
INVARIANTS
  FaultTypeOK
  DamageContained
  LeavesDisjoint
  RecordsDisjoint
PROPERTIES
  AppendOnly
