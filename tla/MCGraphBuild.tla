---------------------------- MODULE MCGraphBuild ----------------------------
EXTENDS GraphBuild, TLC

Symmetry == Permutations(Actions) \cup Permutations(States)
=============================================================================
