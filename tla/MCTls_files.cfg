\* A thread that registers files while the poller checks them.
SPECIFICATION TlsSpec
CONSTANTS
  Components = {"files"}
  h1 = h1
  h2 = h2
  Idle = Idle
  Conn = {h1, h2}
  Peeked = {"c"}
  numBytes_ = 4
  Type = 2
  Limit = 5
  Paths = {"a", "b"}
  MaxVersion = 2
  Threads = {"t"}
  MaxId = 2
  TicketPaths = {"t", "u"}
  CertPaths = {"c"}
  Valid = {1, 3}
  MaxCredVersion = 3
  MaxCalls = 2
PROPERTY
  EveryChangeTriggers
CHECK_DEADLOCK FALSE
