------------------------------ MODULE MCIntake ------------------------------
\* Two deliveries of one commit or of two, two of them handled at once, agents enough for a
\* choice.
EXTENDS Intake, TLC

MCSymmetry ==
  UNION {Permutations(S) : S \in {Deliveries, Commits, Operations, Agents, Handlers}}
=============================================================================
