CONSTANTS
  Processes = {p1, p2, cl}
  Cleaner = cl
  NThreads = 3
  FirstIds <- MCFirstIds
  MaxLoads = 4
  MaxCrashes = 1
  Creators = {t1, t2}
  Workers = {w1, w2}
  MaxVThreads = 3
  FirstVid = 2
  Width = 4
  MaxCreates = 3
  MaxAlive = 3
  NBlocks = 6
  QueueSize = 3
  None = None
SPECIFICATION MCSpec
INVARIANTS TaskInv SlotsInv
PROPERTIES GateStaysOpen SharesSettle CreatedEnds
CHECK_DEADLOCK FALSE
