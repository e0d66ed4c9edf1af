\* The acceptor (four connections, one whitelisted, two sockets, load shedding
\* and forced drops), the bootstrap (two IO threads, two acceptor threads), the
\* routing of two connections among two workers, and the TLS session cache
\* (three sockets on two threads, two session ids, room for one session).
SPECIFICATION ServerSpec
CONSTANTS
  Components = {"acceptor", "bootstrap", "routing", "sessions"}
  c1 = c1
  c2 = c2
  c3 = c3
  c4 = c4
  Conn = {c1, c2, c3, c4}
  Whitelisted = {c1}
  Sockets = 2
  MaxHandshakes = 2
  WorkerMax = 1
  TotalLimit = 2
  ActiveLimit = 1
  Threads = {1, 2}
  Acceptors = 2
  Ports = {80, 81}
  MaxBinds = 1
  MaxConns = 1
  Concurrent = FALSE
  Conns = {"c", "d"}
  Workers = {1, 2}
  RoutingData = {4, 5}
  HeaderLen = 2
  Total = 4
  TlsThreads = {"t", "u"}
  TlsSockets = {"p", "q", "r"}
  Ids = {"i", "j"}
  Earlier = {"i"}
  maxCacheSize = 1
  cacheCullSize = 1
  MaxSessions = 2
INVARIANTS
  ServerTypeOK
  AcceptorSafe
  SocketsMatchWorkers
  RoutedIntact
  SessionsSound
PROPERTIES
  StateAdvances
  StoppingEnds
  WaitingEnds
CHECK_DEADLOCK FALSE
