CONSTANTS
  VThreads = {v1, v2, v3}
  RawThreads = {}
  Workers = {w1}
  Locks = {m}
  Mutex = m
  None = None
  MaxCalls = 3
  VOps = {"lock", "trylock", "wait", "signal", "broadcast", "yield"}
  RawOps = {}
SPECIFICATION Spec
SYMMETRY Symmetry
INVARIANTS ExactlyOnePlace
CHECK_DEADLOCK FALSE
