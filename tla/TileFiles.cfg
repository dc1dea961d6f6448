SPECIFICATION Spec
CONSTANTS
  f = f
  g = g
  collectedF = collectedF
  collectedG = collectedG
  request = request
  again = again
  Info <- MCInfo
  File = {f, g}
  Thread = {t1, t2}
  Kind <- MCKind
  Key <- MCKey
  Wanted <- MCWanted
  MayFail = {request}
  NoInfo = NoInfo
INVARIANTS
  TypeOK
  OneExecution
  FileExclusive
  
PROPERTY
  AllProcessed
CHECK_DEADLOCK FALSE
