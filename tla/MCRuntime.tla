----------------------------- MODULE MCRuntime ----------------------------
EXTENDS RuntimeInstance, TLC
CONSTANTS c1, c2
===========================================================================
