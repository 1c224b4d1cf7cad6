CONSTANTS
  t1 = t1
  t2 = t2
  Torrents = {t1, t2}
  BlockCount = 3
  PieceOf <- OneAndTwo
  Files <- OneFile
  Limits = {3}
  Contents = {"good"}
  Webseeds = FALSE
  MayFail = FALSE
  MayShort = FALSE
  AgeStep = 8200
  MaxAge = 8200
SPECIFICATION Spec
INVARIANT
  SavedIsDurable
