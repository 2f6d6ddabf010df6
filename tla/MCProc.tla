------------------------------- MODULE MCProc -------------------------------
(* Instances of Proc for TLC. *)
EXTENDS Proc, TLC

CONSTANTS c1, c2
Symmetric == Permutations({c1, c2})
=============================================================================
