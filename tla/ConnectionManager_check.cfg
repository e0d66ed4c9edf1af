\* The CHECK at the head of drainConnections, with drops and restarted drains.
SPECIFICATION Spec
CONSTANTS
  c1 = c1
  c2 = c2
  c3 = c3
  End = End
  Conn = {c1, c2, c3}
  Batch = 1
  Graces = {TRUE, FALSE}
  Pcts = {67}
  Timeouts = {FALSE}
  Thresholds = {}
  ArrivalStates = {"NONE"}
SYMMETRY Symmetry
INVARIANT
  DrainCheckHolds
CHECK_DEADLOCK FALSE
