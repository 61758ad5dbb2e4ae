SPECIFICATION Spec
CONSTANTS
  Clients = {p1, p2}
  Webhooks = {w1}
  Reporters = {e1}
  Threshold = 1
  MaxRequests = 3
  MaxReports = 2
  MaxFaults = 1
CHECK_DEADLOCK FALSE
SYMMETRY MCSymmetry
INVARIANTS
  AttemptsAreContiguous
  LoopIsBounded
  TimelineHasNoGaps
  CaseFileIsOrdered
