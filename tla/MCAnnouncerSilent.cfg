CONSTANTS
  t1 = t1
  t2 = t2
  u = u
  v = v
  Torrents = {t1}
  Urls = {v}
  Scrapable = {}
  Layouts <- Single
  MaxTasks = 1
  ScrapePaused = FALSE
  MaxKey = 1
  MaxEvents = 2
  MaxSlots = 1
  MaxTicks = 1
SPECIFICATION Spec
INVARIANT
  StoppedIsSilent
