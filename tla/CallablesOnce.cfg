SPECIFICATION Spec
CONSTANTS
  Caller = {c1}
  N = 3
  ThreadsToUse = 2
  PoolThreads = 3
INVARIANT
  RunOnce
CHECK_DEADLOCK FALSE
