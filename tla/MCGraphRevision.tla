-------------------------- MODULE MCGraphRevision -------------------------
EXTENDS GraphRevision, TLC
CONSTANTS e1, e2, e3
Symmetry == Permutations(Editors)
===========================================================================
