---------------------------- MODULE MCRunRecords ----------------------------
\* More requests than the threshold and its overshoot allow, so that the bound
\* of the loop detection is met.
EXTENDS RunRecords, TLC

MCSymmetry ==
  Permutations(Clients) \cup Permutations(Webhooks) \cup Permutations(Reporters)
=============================================================================
