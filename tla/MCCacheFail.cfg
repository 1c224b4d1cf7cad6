CONSTANTS
  t1 = t1
  t2 = t2
  Torrents = {t1, t2}
  BlockCount = 2
  PieceOf <- OneByOne
  Files <- OneFile
  Limits = {1}
  Contents = {"good", "bad"}
  Webseeds = TRUE
  MayFail = TRUE
  MayShort = FALSE
  AgeStep = 0
  MaxAge = 0
SPECIFICATION Spec
PROPERTIES
  CacheIsBounded
  StoreSpec
SYMMETRY Symmetric
