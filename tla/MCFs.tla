-------------------------------- MODULE MCFs --------------------------------
(***************************************************************************)
(* Two processes on a disk of a few inodes: init makes and removes what    *)
(* its child uses.                                                         *)
(***************************************************************************)
EXTENDS Fs

CONSTANTS p1, p2

MCProcs == {p1, p2}
A == [abs |-> TRUE, els |-> <<"a">>]         \* /a
AB == [abs |-> TRUE, els |-> <<"a", "b">>]   \* /a/b
B == [abs |-> FALSE, els |-> <<"b">>]        \* b
MCPaths == [open |-> {AB}, openw |-> {A}, create |-> {A, B}, mkdir |-> {A, B}, mknod |-> {AB},
            unlink |-> {A, AB, Root}, chdir |-> {A, Root}, link |-> {A, AB}, new |-> {B}]
MCCalls == [p \in MCProcs |->
  IF p = p1 THEN {"mkdir", "unlink", "fork"}
  ELSE {"create", "link", "unlink", "close", "exit", "chdir", "dup", "pipe", "open", "openw",
        "mknod", "fstat", "mkdir"}]
=============================================================================
