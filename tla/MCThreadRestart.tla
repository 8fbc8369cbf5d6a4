-------------------------- MODULE MCThreadRestart -------------------------
(* Small instances of ThreadRestart: the values of its constants are in the
   .cfg file. *)
EXTENDS ThreadRestart, TLC

\* no definition tells one request from another
Symmetry == Permutations(Callers)
===========================================================================
