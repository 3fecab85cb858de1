----------------------------- MODULE MCRecords -----------------------------
EXTENDS Records, TLC

Symmetry == Permutations(Request)
============================================================================
