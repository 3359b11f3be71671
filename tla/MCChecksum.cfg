CONSTANTS
  MaxAddr = 9
  Base = 3
  None = None
  Byte <- MCByte
  Files <- MCFiles
  JobLists <- MCJobLists
SPECIFICATION Spec
INVARIANTS
  LastVerifies
  EarlierStayValid
CHECK_DEADLOCK FALSE
