SPECIFICATION Spec
CONSTANTS
  v1 = v1
  v2 = v2
  Values <- MCTwoValues
  NoValue = NoValue
  NBytes = 16
  MAX_PREFIX_LEN = 2
  Capacity <- TreeCapacity
  Shrink <- TreeShrink
  Keys <- TreeKeys
  MaxKeyLen = 7
  Refs <- TreeRefs
  Root = 0
  Rests <- Terminated
VIEW MCView
INVARIANTS
  TypeOK
  OneOwner
  PrefixesRight
  SizeRight
  EndsOrdered
  IterationComplete
  PrefixIterationComplete
PROPERTIES
  ImplementsMap
