CONSTANTS
  VThreads = {v1, v2}
  RawThreads = {r1}
  Workers = {w1, w2}
  Locks = {m}
  Mutex = m
  None = None
  MaxCalls = 2
  VOps = {"lock", "wait", "signal"}
  RawOps = {"trylock", "wait", "broadcast", "yield"}
SPECIFICATION FairSpec
INVARIANTS MutexOwned NoVthreadLost CondInv
PROPERTIES AllEndOrWait
CHECK_DEADLOCK FALSE
