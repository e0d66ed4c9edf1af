\* What the header says of a completed notify pass.
SPECIFICATION Spec
CONSTANTS
  c1 = c1
  c2 = c2
  c3 = c3
  End = End
  Conn = {c1, c2, c3}
  Batch = 1
  Graces = {TRUE}
  Pcts = {}
  Timeouts = {FALSE}
  Thresholds = {}
  ArrivalStates = {"NONE"}
SYMMETRY Symmetry
INVARIANT
  AllReceivedNotify
CHECK_DEADLOCK FALSE
