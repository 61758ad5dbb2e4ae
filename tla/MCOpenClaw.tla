----------------------------- MODULE MCOpenClaw -----------------------------
\* One instance, a call that reads and one that writes, rules for each and for both, and two
\* presets: one that denies before it allows, and one that allows everything.
EXTENDS OpenClaw, TLC

MCMatches == {{"read", "write"}}
MCStrict == {[priority |-> 10, kinds |-> {"write"}, decision |-> "DENY"],
             [priority |-> 20, kinds |-> {"read"}, decision |-> "ALLOW"]}
MCMonitor == {[priority |-> 10, kinds |-> {"read", "write"}, decision |-> "ALLOW"]}
MCPresets == {MCStrict, MCMonitor}
MCSymmetry == Permutations(Editors)
=============================================================================
