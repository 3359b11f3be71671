CONSTANTS
  MaxAddr = 4
  MaxSegs = 2
  LargeSpan = 8
  Zero = "zero"
  None = None
  Idle = Idle
  Byte <- MCByte
  Calls <- MCCalls
SPECIFICATION Spec
INVARIANTS
  TypeOK
  NormalizedIsCanonical
  ContiguousReadsAgree
PROPERTY
  ImplementsSparseImage
CHECK_DEADLOCK FALSE
