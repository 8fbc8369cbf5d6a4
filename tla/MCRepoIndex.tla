---------------------------- MODULE MCRepoIndex ---------------------------
EXTENDS RepoIndex, TLC
CONSTANTS u1, w1
===========================================================================
