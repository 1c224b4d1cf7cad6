CONSTANTS
  t1 = t1
  t2 = t2
  n1 = n1
  n2 = n2
  n3 = n3
  Torrents = {t1, t2}
  PieceCount = 1
  NodeIds = {n1, n2, n3}
  Sizes = {1}
  Priority <- MCPriority
  None = None
  ClientCalls <- ClientMix
  RpcCalls <- NoCalls
  Disks <- AnyDisk
  Magnets = {t1}
  MayFail = TRUE
  MaxCalls = 3
SPECIFICATION LSpec
INVARIANTS
  SingleIsForgotten
  FlagAndSwarmMeet
CHECK_DEADLOCK FALSE
