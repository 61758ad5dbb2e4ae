--------------------------- MODULE MCApprovalGate ---------------------------
\* Two calls of one agent, so that their first requests race to register it,
\* and decision requests that may race for the same approval.  The calls are
\* interchangeable, and so are the decision requests.
EXTENDS ApprovalGate, TLC

CONSTANT TheAgent

MCAgentOf == [c \in Calls |-> TheAgent]
MCSymmetry == Permutations(Calls) \cup Permutations(Deciders)
=============================================================================
