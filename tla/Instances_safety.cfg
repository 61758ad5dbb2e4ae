SPECIFICATION Spec
CONSTANTS
  Workers = {w1, w2}
  Servers = {s1, s2}
  MaxCommands = 4
  MaxChanges = 2
  MaxFaults = 1
CHECK_DEADLOCK FALSE
SYMMETRY MCSymmetry
INVARIANTS
  TransientIsOwned
  QuietStatusIsTrue
  ProxyIsCurrent
