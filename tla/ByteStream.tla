----------------------------- MODULE ByteStream -----------------------------
(***************************************************************************)
(* What a pipe promises: a bounded first-in first-out stream of bytes.     *)
(***************************************************************************)
EXTENDS Sequences, Naturals

CONSTANTS Bytes, PIPESIZE

VARIABLES stream,  \* bytes written and not yet read
          ch       \* the byte last taken out

SInit == stream = <<>> /\ ch \in Bytes

Put(x) == /\ Len(stream) < PIPESIZE
          /\ stream' = Append(stream, x)
          /\ UNCHANGED ch

Get == /\ stream # <<>>
       /\ ch' = Head(stream) /\ stream' = Tail(stream)

\* The last descriptor is closed: what was not read is gone.
Close == stream' = <<>> /\ UNCHANGED ch

SNext == (\E x \in Bytes : Put(x)) \/ Get \/ Close

SSpec == SInit /\ [][SNext]_<<stream, ch>>
=============================================================================
