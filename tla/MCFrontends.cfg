CONSTANTS
  MaxAddr = 11
  Base = 3
  LargeSpan = 12
  Zero = 0
  DenseLimit = 6
  RecordTop <- MCRecordTop
  SignatureBytes <- MCSignatureBytes
  MaxChoices = 2
  None = None
  Failed = Failed
  Byte <- MCByte
  MapStar <- MCMapStar
  Requests <- MCRequests
  Sources <- MCSources
  Settings <- MCSettings
  Disks <- MCDisks
SPECIFICATION Spec
INVARIANTS
  FailedLeavesOutput
  OutputVerifies
  OutputChecksumHolds
  OutputShowsImage
PROPERTIES
  SameAsPipeline
  ImportKeepsBoth
CHECK_DEADLOCK FALSE
