SPECIFICATION Spec
CONSTANTS
  TheAgent = a1
  NoCall = NoCall
  Calls = {c1, c2}
  Deciders = {d1, d2}
  Agents = {a1}
  AgentOf <- MCAgentOf
  DbFaults = TRUE
  EnforceRunFk = FALSE
  MaxCrashes = 1
CHECK_DEADLOCK FALSE
SYMMETRY MCSymmetry
INVARIANTS
  TypeOK
  LedgerChained
  PerformedWasPermitted
  LedgerIsAnnounced
  ReplyIsRecorded
  LoneDecisionAgrees
PROPERTIES
  ImplementsLedger
