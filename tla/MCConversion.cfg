CONSTANTS
  MaxAddr = 15
  Bank = 4
  Para = 2
  IntelPerLine = 2
  ByteRange = 8
  SRecPerLine = 2
  DetectLines = 2
  None = None
  NoFile = NoFile
  SRecTop <- MCTop
  Byte <- MCByte
  Files <- MCFiles
  Texts <- MCTexts
  IntelOptions <- MCIntelOptions
  SRecOptions <- MCSRecOptions
SPECIFICATION Spec
INVARIANTS
  ReadsAsRecords
  RecordsInBank
  AcceptsWholeFiles
  ImageKept
CHECK_DEADLOCK FALSE
