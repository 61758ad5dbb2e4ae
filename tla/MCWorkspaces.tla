---------------------------- MODULE MCWorkspaces ----------------------------
\* Two workspaces, so that two first creations race for the network and one run may be given
\* both; two editors of one connection, and a second connection beside it.
EXTENDS Workspaces, TLC

MCSymmetry == UNION {Permutations(S) : S \in {Connections, Editors, Workspaces, Stoppers}}
=============================================================================
