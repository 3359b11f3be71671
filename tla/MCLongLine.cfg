CONSTANTS
  MaxAddr = 15
  Bank = 4
  Para = 2
  IntelPerLine = 2
  ByteRange = 8
  SRecPerLine = 2
  DetectLines = 2
  None = None
  NoFile = NoFile
  SRecTop <- MCTop
  Byte <- MCByte
  Files <- MCFiles
  Texts = {}
  IntelOptions = {}
  SRecOptions <- LongLines
SPECIFICATION Spec
INVARIANT ImageKeptForAllLines
CHECK_DEADLOCK FALSE
