SPECIFICATION Spec
CONSTANTS
  s1 = s1
  s2 = s2
  q1 = q1
  q2 = q2
  A = A
  B = B
  Segment <- MCSegment
  Label <- MCLabel
  Class <- MCClass
  BaseClass <- MCBaseClass
  InitialTemplates <- MCTemplates
  Request <- MCRequest
  NoLabel = NoLabel
  Names = 2
  SeveralNetworks = TRUE
  MaxWork = 4
  MaxTimers = 1
SYMMETRY Interchangeable
INVARIANTS
  TypeOK
  GroupsSound
  Removable
  
  
  ValuesSet
CHECK_DEADLOCK FALSE
