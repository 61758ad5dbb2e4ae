SPECIFICATION WorkspacesSpec
CONSTANTS
  Connections = {c1, c2}
  Names = {"key"}
  Editors = {e1, e2}
  Executors = {x1}
  MaxRequests = 2
  Workspaces = {w1, w2}
  Runs = {r1}
  Unknown = unknown
  Stoppers = {s1}
  MaxFailures = 1
CHECK_DEADLOCK FALSE
SYMMETRY MCSymmetry
INVARIANTS
  ContainersAreReachable
  ErrorHasCause
PROPERTIES
  SecretsGoWhereDeclared
