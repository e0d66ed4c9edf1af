\* An update while the syncer's last attempt fails.
SPECIFICATION Spec
CONSTANTS
  a = a
  k1 = k1
  v1 = v1
  v2 = v2
  p1 = p1
  NoPersistence = NoPersistence
  Client = {a}
  Key = {k1}
  Val = {v1, v2}
  Layer = {p1}
  Capacity = 1
  nSyncRetries = 1
  MaxVersion = 4
  Crashes = FALSE
SYMMETRY
  Symmetry
INVARIANT
  GivesUpOnTried
CHECK_DEADLOCK FALSE
