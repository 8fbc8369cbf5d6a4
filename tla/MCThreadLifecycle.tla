------------------------- MODULE MCThreadLifecycle ------------------------
(* Small instances of ThreadLifecycle: the values of its constants are in
   the .cfg files, one per run. *)
EXTENDS ThreadLifecycle, TLC

\* no definition tells one request from another
Symmetry == Permutations(Callers)
===========================================================================
