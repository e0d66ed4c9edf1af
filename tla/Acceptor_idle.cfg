\* The comment in acceptStopped on an idle acceptor.
SPECIFICATION Spec
CONSTANTS
  c1 = c1
  Conn = {c1}
  Whitelisted = {}
  Sockets = 1
  MaxHandshakes = 1
  WorkerMax = 0
  TotalLimit = 0
  ActiveLimit = 0
INVARIANT
  IdleIsDrained
CHECK_DEADLOCK FALSE
