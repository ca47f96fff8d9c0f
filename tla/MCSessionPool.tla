---------------------------- MODULE MCSessionPool ----------------------------
EXTENDS SessionPool, TLC
Symmetry == Permutations(Managers) \cup Permutations(Clients)
=============================================================================
