------------------------- MODULE MCRunOrchestrator -------------------------
\* Two runs that compete for a workspace, the more urgent one created later; a
\* run of another workspace behind them; and an urgent one without a workspace.
\* The per-workspace cap is tight for the first two and the global cap for all:
\* with the first active, the second keeps the one free slot from the third.
EXTENDS RunOrchestrator, TLC

CONSTANTS TheWorkspace, OtherWorkspace

MCPriority ==
  [r \in Runs |-> CASE r = 1 -> "P2" [] r = 4 -> "P0" [] OTHER -> "P1"]

MCSymmetry == Permutations(Operators)

MCWorkspaceOf ==
  [r \in Runs |-> CASE r = 4 -> NoWorkspace
                    [] r = 3 -> OtherWorkspace
                    [] OTHER -> TheWorkspace]
=============================================================================
