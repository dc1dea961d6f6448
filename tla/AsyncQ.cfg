SPECIFICATION AsyncQSpec
CONSTANTS
  Item = {m1, m2, m3}
  NoItem = NoItem
  Worker = {w1, w2, w3}
  MaxThreads = 2
  IntMax = 7
  StopRace = FALSE
INVARIANTS
  AsyncQTypeOK
  SlotAccounting
  NoStranding
  ThreadLimit

  
CHECK_DEADLOCK FALSE
