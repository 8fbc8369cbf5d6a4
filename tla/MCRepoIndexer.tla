--------------------------- MODULE MCRepoIndexer --------------------------
EXTENDS RepoIndexer, TLC
CONSTANTS f1, f2, v1, v2, m1, m2
Symmetry == Permutations(Files) \cup Permutations(Contents) \cup Permutations(Models)
===========================================================================
