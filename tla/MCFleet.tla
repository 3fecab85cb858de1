------------------------------ MODULE MCFleet ------------------------------
EXTENDS Fleet, TLC

Symmetry == Permutations(Request) \cup Permutations(Email)
============================================================================
