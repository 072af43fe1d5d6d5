CONSTANTS
  Creators = {t1}
  Workers = {w1}
  MaxVThreads = 2
  FirstVid = 1
  Width = 4
  MaxCreates = 3
  MaxAlive = 1
  NBlocks = 5
  QueueSize = 3
  None = None
SPECIFICATION SlotsSpec
INVARIANTS OwnStack
CHECK_DEADLOCK FALSE
