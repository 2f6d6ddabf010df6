------------------------------- MODULE MCLog --------------------------------
(* Instances of Log for TLC. *)
EXTENDS Log, TLC

\* Processes other than InitProc, and blocks, are interchangeable.
Perms == Permutations(Procs \ {InitProc}) \cup Permutations(Blocks)
=============================================================================
