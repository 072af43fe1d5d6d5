CONSTANTS
  v1 = v1
  v2 = v2
  v3 = v3
  r1 = r1
  VThreads = {v1, v2, v3}
  RawThreads = {r1}
  Workers = {w1, w2}
  Locks = {v1, v2, v3}
  None = None
  Joins <- MCJoins
  Exiters = {v1, r1}
SPECIFICATION FairSpec
INVARIANTS JoinInv JoinMutexOwned
PROPERTIES JoinsReturn
CHECK_DEADLOCK FALSE
