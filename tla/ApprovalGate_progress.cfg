SPECIFICATION Spec
CONSTANTS
  TheAgent = a1
  NoCall = NoCall
  Calls = {c1, c2}
  Deciders = {d1}
  Agents = {a1}
  AgentOf <- MCAgentOf
  DbFaults = TRUE
  EnforceRunFk = FALSE
  MaxCrashes = 1
CHECK_DEADLOCK FALSE
PROPERTIES
  EveryRequestAnswered
  ClientNeverHangs
