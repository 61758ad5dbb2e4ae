---------------------------- MODULE MCProposals ----------------------------
\* Two proposals, each of which two operators may decide at once, and two pieces of evidence,
\* of which the newer may replace the older.
EXTENDS Proposals, TLC

MCSymmetry == UNION {Permutations(S) : S \in {Ids, Bundles, Checks, Handlers}}
=============================================================================
