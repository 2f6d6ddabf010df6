----------------------------- MODULE MCMsgQueue -----------------------------
(* Instances of MsgQueue for TLC. *)
EXTENDS MsgQueue, TLC

Perms == Permutations(Procs) \cup Permutations(Msgs)
=============================================================================
