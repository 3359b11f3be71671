CONSTANTS
  MaxAddr = 7
  Byte <- MCByte
  Files <- MCFiles
  Options <- MCOptions
SPECIFICATION FairSpec
INVARIANTS
  TypeOK
  CursorInSegment
  NoByteLost
  ErrorsAreReal
PROPERTIES
  PlacedByAddress
  Terminates
CHECK_DEADLOCK FALSE
