----------------------------- MODULE MCConsole -----------------------------
(***************************************************************************)
(* Two harts; one process reads the console, another writes to it.  The    *)
(* scripts fill the input ring, edit a line, end the input, and press ^C.  *)
(***************************************************************************)
EXTENDS Console

CONSTANTS h1, h2, p1, p2

MCHarts == {h1, h2}
MCProcs == {p1, p2}
MCCalls == [p \in MCProcs |-> IF p = p1 THEN {"read"} ELSE {"write", "print", "sleep"}]
MCScripts == {<<"x", "x", "x", "cr">>, <<"x", "x", "^U", "cr">>, <<"cr", "x", "^H", "^D">>,
              <<"x", "^D", "^D", "x">>, <<"x", "^C", "cr", "^P">>}
=============================================================================
