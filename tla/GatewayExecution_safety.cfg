SPECIFICATION Spec
CONSTANTS
  Callers = {c1, c2}
  Externals = {e1, e2}
  Enforcers = {n1}
  Actions = {a1}
  MaxUses = 2
  MaxRequests = 4
  MaxFaults = 2
CHECK_DEADLOCK FALSE
SYMMETRY MCSymmetry
INVARIANTS
  UsesBounded
  TotalsAgree
  RevocationDrains
  RepeatsNeedOverlap
