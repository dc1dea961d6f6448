SPECIFICATION Spec
CONSTANTS
  n1 = n1
  n2 = n2
  w1 = w1
  w2 = w2
  Network <- MCOneNetwork
  Way <- MCTwoWays
  InitialFile <- MCBothIncluded
  Request = {q1}
  List = {l1, l2}
  NoRequest = NoRequest
  NoList = NoList
  NoNetwork = NoNetwork
  MaxListeners = 1
  MaxSends = 5
PROPERTY
  CanceledEditsLost
CHECK_DEADLOCK FALSE
