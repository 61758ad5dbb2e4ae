----------------------------- MODULE MCMcpProxy -----------------------------
\* Two handlers for two checks of one call, two reloads besides Boot for an overlap, and a
\* session that may be lost at any point.
EXTENDS McpProxy, TLC

MCSymmetry ==
  UNION {Permutations(S) : S \in {Handlers, Sessions, Calls, Reloads \ {Boot}}}
=============================================================================
