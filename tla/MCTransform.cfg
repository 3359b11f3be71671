CONSTANTS
  MaxAddr = 7
  MaxSegs = 2
  LargeSpan = 6
  Zero = "zero"
  None = None
  Idle = Idle
  Byte <- MCByte
  Calls <- MCCalls
SPECIFICATION Spec
PROPERTIES
  ImplementsSparseImage
  AlignsRuns
  SplitFits
  SwapsWords
  SwapsLongWords
  ScaleShowsAll
ACTION_CONSTRAINT OneKind
CHECK_DEADLOCK FALSE
