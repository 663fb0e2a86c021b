---------------------------- MODULE MCRateLimit ----------------------------
\* RateLimit on small instances.
EXTENDS RateLimit, TLC

Symmetry == Permutations(Request)

============================================================================
