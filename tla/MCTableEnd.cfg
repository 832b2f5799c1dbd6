SPECIFICATION Spec
CONSTANTS
  k1 = k1
  k2 = k2
  small = small
  large = large
  huge = huge
  Keys <- MCKeys
  Values <- MCValues
  RecSize <- MCRecSize
  NoValue = NoValue
  Garbage = Garbage
  MaxDataFileSize = 3
  MaxKvSize = 4
  MinLen = 3
  PtrSize = 8
  MaxFiles = 4
SYMMETRY MCSymmetry
CHECK_DEADLOCK FALSE
INVARIANTS
  Defined
