SPECIFICATION Spec
CONSTANTS
  Ids = {p1, p2}
  Bundles = {b1, b2}
  Checks = {c1, c2}
  Handlers = {h1, h2}
  MaxRequests = 5
  MaxFaults = 1
CHECK_DEADLOCK FALSE
SYMMETRY MCSymmetry
INVARIANTS
  LoneVerdictStands
  NothingIsLeftPending
