SPECIFICATION Spec
CONSTANTS
  v1 = v1
  v2 = v2
  Values <- MCOneValue
  NoValue = NoValue
  NBytes = 16
  MAX_PREFIX_LEN = 2
  Capacity <- TreeCapacity
  Shrink <- TreeShrink
  Keys <- ForkKeys
  MaxKeyLen = 5
  Refs <- ForkRefs
  Root = 0
  Rests <- Terminated
VIEW MCView
INVARIANT PrefixIterationExact
