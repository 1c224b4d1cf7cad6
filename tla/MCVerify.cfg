CONSTANTS
  t1 = t1
  t2 = t2
  n1 = n1
  n2 = n2
  n3 = n3
  Torrents = {t1, t2}
  PieceCount = 2
  NodeIds = {n1, n2, n3}
  Sizes = {1, 2}
  Priority <- MCPriority
  None = None
  Disks <- OneGoodPiece
  Magnets = {t1}
  MayFail = TRUE
SPECIFICATION Spec
INVARIANTS
  TypeOK
  QueuedOnce
  RemovedIsReleased
  StopHitsItsTorrent
  CallbackOwed
  CutShortIsAborted
  VerifiedIsTruth
PROPERTY RemoveEnds
CHECK_DEADLOCK FALSE
