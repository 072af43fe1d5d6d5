CONSTANTS
  v1 = v1
  v2 = v2
  v3 = v3
  r1 = r1
  VThreads = {v1, v2, v3}
  RawThreads = {r1}
  Workers = {w1, w2, w3}
  Locks = {}
  None = None
  Setups <- MCSetups
  MaxRounds = 3
SPECIFICATION FairSpec
INVARIANTS BarrierSync OneSerialPerRound GroupRelease BarrierInv
PROPERTIES AllPass
CHECK_DEADLOCK FALSE
