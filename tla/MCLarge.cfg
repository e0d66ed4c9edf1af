\* Full and partial drains of three connections in batches of one; and one client
\* thread of the cache, two layers, failing writes and crashes.
SPECIFICATION LargeSpec
CONSTANTS
  Components = {"connections", "cache"}
  c1 = c1
  c2 = c2
  c3 = c3
  End = End
  Conn = {c1, c2, c3}
  Batch = 1
  Graces = {TRUE, FALSE}
  Pcts = {67}
  Timeouts = {FALSE}
  Thresholds = {}
  ArrivalStates = {"NONE"}
  a = a
  k1 = k1
  k2 = k2
  v1 = v1
  p1 = p1
  p2 = p2
  NoPersistence = NoPersistence
  Client = {a}
  Key = {k1, k2}
  Val = {v1}
  Layer = {p1, p2}
  Capacity = 2
  nSyncRetries = 2
  MaxVersion = 4
  Crashes = TRUE
SYMMETRY
  Symmetry
INVARIANTS
  LargeTypeOK
  DrainListSound
  DrainNeverStalls
  SyncedIsPersisted
PROPERTIES
  FullDrainAdvances
  RestartRestores
CHECK_DEADLOCK FALSE
