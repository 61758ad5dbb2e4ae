SPECIFICATION IntakeSpec
CONSTANTS
  Deliveries = {d1, d2}
  Commits = {k1, k2}
  Operations = {o1, o2}
  Agents = {a1, a2}
  Handlers = {h1, h2}
  MaxIntakeRequests = 2
  MaxIntakeFaults = 1
CHECK_DEADLOCK FALSE
SYMMETRY MCSymmetry
INVARIANTS
  DuplicatesNeedOverlap
  RecordedIsHandled
  ApprovedHasAgent
