\* Two connections in batches of one, with timers, idle shedding and
\* connections that arrive in any drain state; a drain ends.
SPECIFICATION FairSpec
CONSTANTS
  c1 = c1
  c2 = c2
  End = End
  Conn = {c1, c2}
  Batch = 1
  Graces = {TRUE, FALSE}
  Pcts = {50}
  Timeouts = {TRUE, FALSE}
  Thresholds = {TRUE, FALSE}
  ArrivalStates = {"NONE", "SENT_NOTIFY"}
INVARIANTS
  NothingDangles
PROPERTIES
  DrainCompletes
CHECK_DEADLOCK FALSE
