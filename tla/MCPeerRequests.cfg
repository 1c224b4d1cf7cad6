CONSTANTS
  honest = honest
  silent = silent
  web = web
  a = a
  b = b
  Peers = {honest, silent}
  Webseeds = {web}
  Fext = {honest}
  Honest = {honest}
  PeerHas <- MCPeerHas
  Blocks = {0, 1, 2}
  Pieces = {a, b}
  PieceOf <- MCPieceOf
  Desired = 2
  MaxTasks = 1
  MaxMishaps = 2
SPECIFICATION FairSpec
INVARIANTS
  TypeOK
  TablesAgree
  NoWaste
PROPERTY
  EveryBlockArrives
CHECK_DEADLOCK FALSE
