CONSTANTS
  MaxAddr = 2
  MaxSegs = 3
  LargeSpan = 8
  Zero = "zero"
  None = None
  Idle = Idle
  Byte <- MCByte
  Calls <- MCCalls
SPECIFICATION Spec
PROPERTY
  MergeFillsGaps
CHECK_DEADLOCK FALSE
