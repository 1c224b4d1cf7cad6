CONSTANTS
  t1 = t1
  t2 = t2
  n1 = n1
  n2 = n2
  n3 = n3
  Torrents = {t1, t2}
  PieceCount = 1
  NodeIds = {n1, n2, n3}
  Sizes = {1}
  Priority <- MCPriority
  None = None
  ClientCalls <- NoCalls
  RpcCalls <- MagnetRpc
  Disks <- AnyDisk
  Magnets = {t1}
  MayFail = FALSE
  MaxCalls = 3
SPECIFICATION LSpec
INVARIANTS
  LTypeOK
  RunningMeansSwarm
  NoSwarmWhileVerifying
PROPERTIES
  StoppingEnds
  MagnetResumes
CHECK_DEADLOCK FALSE
