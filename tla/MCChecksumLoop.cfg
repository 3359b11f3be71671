CONSTANTS
  MaxAddr = 7
  Base = 3
  None = None
  Byte <- MCByte
  Normals <- MCNormals
  Options <- MCOptions
  Targets <- MCTargets
SPECIFICATION FairSpec
INVARIANTS
  TakesIncludedInOrder
  TakesAll
  IndexBehindCursor
  FailsBeforeData
  WalkIsCollectData
PROPERTY Terminates
CHECK_DEADLOCK FALSE
