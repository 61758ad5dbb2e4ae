SPECIFICATION Spec
CONSTANTS
  Servers = {s1}
  Sessions = {x1}
  Calls = {k1}
  Handlers = {h1, h2}
  Boot = boot
  Reloads = {boot, r1, r2}
  MaxChanges = 1
  MaxFaults = 1
CHECK_DEADLOCK FALSE
SYMMETRY MCSymmetry
INVARIANTS
  PerformedIsPermitted
  RepeatsNeedOverlap
  QuietProxyIsConsistent
