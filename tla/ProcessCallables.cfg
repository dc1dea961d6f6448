SPECIFICATION Spec
CONSTANTS
  Caller = {c1, c2}
  N = 3
  ThreadsToUse = 2
  PoolThreads = 4
INVARIANTS
  TypeOK
  WithinLimit
  CompleteAtReturn
PROPERTY
  AllReturn
CHECK_DEADLOCK FALSE
