CONSTANTS
  VThreads = {v1, v2}
  RawThreads = {}
  Workers = {w1, w2}
  Locks = {m}
  Mutex = m
  None = None
  MaxCalls = 3
  VOps = {"lock", "wait", "signal"}
  RawOps = {}
SPECIFICATION Spec
SYMMETRY Symmetry
INVARIANTS JumpsToContextData
CHECK_DEADLOCK FALSE
