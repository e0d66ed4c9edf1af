\* The persistent cache (one client, one key, two layers), the etcd client (two
\* clients, three keys), a watch of up to three events, and up to three TLS contexts.
SPECIFICATION StoreSpec
CONSTANTS
  Components = {"cache", "etcd", "watch", "contexts"}
  a = a
  k1 = k1
  v1 = v1
  p1 = p1
  p2 = p2
  NoPersistence = NoPersistence
  Client = {a}
  Key = {k1}
  Val = {v1}
  Layer = {p1, p2}
  Capacity = 1
  nSyncRetries = 2
  MaxVersion = 3
  Crashes = FALSE
  Clients = {"c", "d"}
  MaxByte = 3
  MaxCalls = 3
  MaxRevision = 4
  MaxEvents = 3
  MaxBatch = 2
  MaxCancels = 2
  MaxConfigs = 2
  MaxCtxs = 3
  Undecodable = {"bad"}
INVARIANTS
  StoreTypeOK
  
  WatchReports
  ContextsServeRight
PROPERTIES
  
  SyncerEnds
  ResetsKeepTickets
CHECK_DEADLOCK FALSE
