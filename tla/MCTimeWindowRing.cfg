SPECIFICATION Spec
CONSTANTS
  Size = 9
  Sampling = 2
  MaxBufferBuckets = 3
  Values <- MCValues
INVARIANTS
  TypeOK
PROPERTIES
  ImplementsSlidingWindow
