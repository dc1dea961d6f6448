SPECIFICATION Spec
CONSTANTS
  Network = {n1, n2}
  Publisher = {}
  Generation = Generation
  Reprocess = Reprocess
  None = None
  MaxWork = 5
  MaxEnds = 1
CHECK_DEADLOCK FALSE
INVARIANT DeletedNotSaved
