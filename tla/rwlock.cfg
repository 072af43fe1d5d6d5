CONSTANTS
  VThreads = {t1, t2, t3}
  None = None
  MaxCalls = 2
  UsedOps = {"tryrdlock", "rdlock", "trywrlock", "wrlock"}
SPECIFICATION FairSpec
INVARIANTS RWExclusion ReadersCounted FreeAtRest
PROPERTIES ServedOrConflicting
CHECK_DEADLOCK FALSE
