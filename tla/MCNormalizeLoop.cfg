CONSTANTS
  MaxAddr = 5
  MaxSegs = 3
  None = None
  Byte <- MCByte
  Inputs <- MCInputs
SPECIFICATION Spec
INVARIANTS
  TypeOK
  OverlayIsLastWins
  ResultIsLastWins
  StepsComputeNormalized
CHECK_DEADLOCK FALSE
