---------------------------- MODULE MCInstances ----------------------------
\* Two workers, so that a command meets another or a refresh, and two servers, so that the
\* proxy's may be a wrong set.
EXTENDS Instances, TLC

MCSymmetry == UNION {Permutations(S) : S \in {Workers, Servers}}
=============================================================================
