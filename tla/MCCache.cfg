CONSTANTS
  t1 = t1
  t2 = t2
  Torrents = {t1}
  BlockCount = 3
  PieceOf <- OneAndTwo
  Files <- TwoFiles
  Limits = {0, 1, 2}
  Contents = {"good", "bad"}
  Webseeds = FALSE
  MayFail = TRUE
  MayShort = FALSE
  AgeStep = 1
  MaxAge = 2
SPECIFICATION Spec
INVARIANTS
  TypeOK
  CompletePieceIsGood
  SavedIsDurable
  CompleteFileIsFlushed
