CONSTANTS
  v1 = v1
  v2 = v2
  v3 = v3
  r1 = r1
  VThreads = {v1, v2, v3}
  RawThreads = {r1}
  Workers = {w1, w2, w3}
  Locks = {}
  None = None
  Setups <- SharedSetups
  MaxRounds = 3
SPECIFICATION Spec
INVARIANTS NeverReached
CHECK_DEADLOCK FALSE
