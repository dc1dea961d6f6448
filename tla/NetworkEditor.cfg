SPECIFICATION Spec
CONSTANTS
  n1 = n1
  n2 = n2
  w1 = w1
  w2 = w2
  Network <- MCNetwork
  Way <- MCWay
  InitialFile <- MCInitialFile
  Request = {q1, q2}
  List = {l1, l2}
  NoRequest = NoRequest
  NoList = NoList
  NoNetwork = NoNetwork
  MaxListeners = 2
  MaxSends = 5
INVARIANTS
  TypeOK
  OneDeadlock
  EditsDisjoint
  PictureAgrees
CHECK_DEADLOCK FALSE
