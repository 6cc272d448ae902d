SPECIFICATION FairSpec
CONSTANTS
  Boards <- AllBoards
  NfcBoards <- PushBoard
  QueueCapacity = 1
  PendingCapacity = 4
  RetainedEdgeMax = 2
  MaxPresses <- Presses
  MaxLost <- Failures
INVARIANTS
  LevelNotLost
  NoOvertaking
  PendingOrRetained
  Accounted
  SnapshotNotBehind
  FaultReleases
PROPERTY
  LevelReceived
CHECK_DEADLOCK FALSE
