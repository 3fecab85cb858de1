------------------------------ MODULE MCStore ------------------------------
EXTENDS StoreRequests, TLC

Symmetry == Permutations(Request)
============================================================================
