SPECIFICATION Spec
CONSTANTS
  Size = 5
  Sampling = 2
  MaxBufferBuckets = 3
  Claims = {c1, c2}
  MaxRecords = 2
  MaxRedelivered = 1
  Modulus = 8
INVARIANTS
  HandlerNeverPanics
