SPECIFICATION Spec
CONSTANTS
  Network = {n1, n2}
  Publisher = {p1, p2}
  Generation = Generation
  Reprocess = Reprocess
  None = None
  MaxWork = 4
  MaxEnds = 1
INVARIANTS
  TypeOK
  
  

  
CHECK_DEADLOCK FALSE
