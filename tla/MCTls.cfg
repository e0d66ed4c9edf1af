\* Two handshakes over two event loops, a peeked connection, two polled files
\* with one registering thread, and three credential files.
SPECIFICATION TlsSpec
CONSTANTS
  Components = {"evb", "peeking", "files", "quiet files", "creds"}
  h1 = h1
  h2 = h2
  Idle = Idle
  Conn = {h1, h2}
  Peeked = {"c"}
  numBytes_ = 4
  Type = 2
  Limit = 5
  Paths = {"a", "b"}
  MaxVersion = 2
  Threads = {"t"}
  MaxId = 2
  TicketPaths = {"t", "u"}
  CertPaths = {"c"}
  Valid = {1, 3}
  MaxCredVersion = 3
  MaxCalls = 2
INVARIANTS
  TlsTypeOK
  HelperSafe
  PeekIsTransparent
  PollersSound
PROPERTIES
  EventuallyDeleted
  HelpersKeepContract
  ChangesReported
CHECK_DEADLOCK FALSE
