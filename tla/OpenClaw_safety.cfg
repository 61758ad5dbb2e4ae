SPECIFICATION Spec
CONSTANTS
  Instances = {"agent"}
  Kinds = {"read", "write"}
  Reads = {"read"}
  Matches <- MCMatches
  Offered = {"DENY"}
  Presets <- MCPresets
  Seed <- MCStrict
  Askers = {c1}
  Editors = {w1, w2}
  MaxEdits = 3
CHECK_DEADLOCK FALSE
SYMMETRY MCSymmetry
INVARIANTS
  DecisionWasInForce
  TiesNeedOverlap
  PerformedPassedTwice
