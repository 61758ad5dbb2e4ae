SPECIFICATION Spec
CONSTANTS
  TheWorkspace = w1
  OtherWorkspace = w2
  NoWorkspace = NoWorkspace
  Runs = {1, 2, 3, 4}
  Operators = {o1, o2}
  Schedulers = {s1}
  Priority <- MCPriority
  WorkspaceOf <- MCWorkspaceOf
  GlobalCap = 2
  WorkspaceCap = 1
  Commands = {"running", "kill", "quarantine"}
  Expiring = {1}
  MaxCommands = 3
  MaxFaults = 1
SYMMETRY MCSymmetry
INVARIANTS
  WithinCaps
  QuarantineDisarms
PROPERTIES
  LegalUnlessOvertaken
  UrgentFirst
