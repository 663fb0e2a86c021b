----------------------------- MODULE MCSession -----------------------------
\* Session on small instances.
EXTENDS Session, TLC

Symmetry == Permutations(Request) \cup Permutations(Device)

============================================================================
