CONSTANTS
  MaxAddr = 31
  Quarter = 2
  BankCount = 2
  Byte <- MCByte
  Files <- MCFiles
  Options <- MCOptions
SPECIFICATION Spec
INVARIANTS
  PlansByWindow
  FailsForAReason
CHECK_DEADLOCK FALSE
