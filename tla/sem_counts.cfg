CONSTANTS
  VThreads = {v1, v2}
  RawThreads = {r1}
  Initial = 1
  MaxCalls = 3
  VOps = {"wait", "trywait", "post"}
  RawOps = {"wait", "trywait", "post"}
  Threads = {t1, t2, t3}
  Kinds = {"sem", "light", "queued"}
  Start = 1
  MaxTurns = 2
  Counts = {1, 2}
  Interrupts = 1
SPECIFICATION MCSpec
PROPERTIES IsCountingSemaphore WaitersServed KernelSemCounts LightServes
CHECK_DEADLOCK FALSE
