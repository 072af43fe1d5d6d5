CONSTANTS
  t1 = t1
  t2 = t2
  t3 = t3
  n1 = n1
  n2 = n2
  Threads = {t1, t2, t3}
  None = None
  HashOf <- MCHashOf
  Programs <- MCPrograms
  BlockSize = 2
  InitialIndexSize = 2
  PoolSize = 1
  Nodes <- MCNodes
  Starts <- MCStarts
  Users = {t1, t2, t3}
  MaxTurns = 4
  nullptr = nullptr
SPECIFICATION MCSpec
INVARIANTS TablesInv UnitsHaveElements BlocksInv DestroyedOnce ListInv
PROPERTIES IsRunQueue ElementsFound CallsReturn
CHECK_DEADLOCK FALSE
