SPECIFICATION FairSpec
CONSTANTS
  t1 = t1
  t2 = t2
  t3 = t3
  None = None
  Torrents = {t1, t2, t3}
  Sizes <- OneUpTwoDown
  Switched = {"down"}
  Positions <- Places
  Moves = {"top", "up", "down", "bottom"}
  Batches <- Pairs
  Flipping = {t1}
  Idling = {t2}
  Losing = {t3}
INVARIANT QTypeOK
PROPERTIES OrderSpec BatchKeepsOrder SlotsRespected NoOvertaking WaitingIsServed
