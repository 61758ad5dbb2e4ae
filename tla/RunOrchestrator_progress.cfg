SPECIFICATION Spec
CONSTANTS
  TheWorkspace = w1
  OtherWorkspace = w2
  NoWorkspace = NoWorkspace
  Runs = {1, 2, 3, 4}
  Operators = {o1}
  Schedulers = {s1}
  Priority <- MCPriority
  WorkspaceOf <- MCWorkspaceOf
  GlobalCap = 2
  WorkspaceCap = 1
  Commands = {"running", "paused", "kill"}
  Expiring = {1}
  MaxCommands = 2
  MaxFaults = 1
PROPERTIES
  LateRunIsStopped
  PendingIsServed
