SPECIFICATION Spec
CONSTANTS
  Item = {m1, m2}
  NoItem = NoItem
  Worker = {w1, w2}
  MaxThreads = 1
  IntMax = 3
  StopRace = FALSE
  Runner = {r1, r2}
  Timers = 0
INVARIANTS
  TypeOK
  
  LostOnlyOutOfService
  
PROPERTIES
  MessageServed
  ImplementsMailbox
CHECK_DEADLOCK FALSE
