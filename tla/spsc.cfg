CONSTANTS
  Programs <- MCPrograms
  MaxPuts = 5
  MaxTakes = 4
  SetThreads = {t1, t2}
  Values <- MCValues
  Size = 2
  MaxCalls = 5
SPECIFICATION MCSpec
INVARIANTS SidesInv HoldsMaxSize NothingLeaks SetInv
PROPERTIES IsFifo ConsumerServed
CHECK_DEADLOCK FALSE
