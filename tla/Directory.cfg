SPECIFICATION Spec
CONSTANTS
  a = a
  b = b
  c = c
  s = s
  Core <- MCCore
  Servlet <- MCServlet
  Subscribes <- MCSubscribes
  MayFail = {a}
  Task <- MCTask
  NoName = NoName
INVARIANTS
  TypeOK
  NoStartupLost
  DependenciesFirst
  ServletsAwaited
PROPERTY
  AllStarted
CHECK_DEADLOCK FALSE
