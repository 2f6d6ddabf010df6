----------------------------- MODULE MCBufCache -----------------------------
(* Instances of BufCache for TLC. *)
EXTENDS BufCache, TLC

CONSTANTS x1, x2
Order2 == <<x1, x2>>
Perms == Permutations(Users) \cup Permutations(Blocks)
=============================================================================
