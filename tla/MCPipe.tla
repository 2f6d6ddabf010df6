------------------------------- MODULE MCPipe -------------------------------
(* Instances of Pipe for TLC. *)
EXTENDS Pipe, TLC

Perms == Permutations(Killable) \cup Permutations(Procs \ Killable)
=============================================================================
