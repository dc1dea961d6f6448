SPECIFICATION Spec
CONSTANTS
  Item = {m1}
  NoItem = NoItem
  Worker = {w1}
  MaxThreads = 1
  IntMax = 3
  StopRace = FALSE
  Runner = {r1, r2}
  Timers = 2
PROPERTY
  ErrorRecovers
CHECK_DEADLOCK FALSE
