------------------------- MODULE MCGatewayExecution -------------------------
\* Requests for one use more than the callers that may exceed the maximum, and
\* for two retries of an action that is in the cache.
EXTENDS GatewayExecution, TLC

MCSymmetry == Permutations(Callers) \cup Permutations(Externals)
=============================================================================
