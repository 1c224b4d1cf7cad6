CONSTANTS
  t1 = t1
  t2 = t2
  u = u
  v = v
  Torrents = {t1}
  Urls = {u, v}
  Scrapable = {u}
  Layouts <- Shrinking
  MaxTasks = 1
  ScrapePaused = FALSE
  MaxKey = 2
  MaxEvents = 2
  MaxSlots = 2
  MaxTicks = 2
SPECIFICATION FairSpec
INVARIANTS
  TypeOK
  BusyIsInFlight
  NoSlotIsLost
  LastWordIsRight
PROPERTY
  RunningIsAnnounced
