------------------------------ MODULE SyncDisk ------------------------------
(***************************************************************************)
(* What the disk driver promises its callers: a call of virtio_disk_rw()   *)
(* moves its block between its buffer and the disk exactly once, at one    *)
(* moment between call and return, whatever other calls are doing.         *)
(***************************************************************************)
CONSTANTS Procs,    \* callers
          Blocks,   \* block numbers, each with its buffer
          Vals,     \* contents of a block
          NoBlock

VARIABLES content,  \* the disk
          data,     \* the buffer of each block
          call      \* per caller: block, direction, and whether it has been moved

svars == <<content, data, call>>

Idle == [b |-> NoBlock, write |-> 0, done |-> 0]

SInit == /\ content \in [Blocks -> Vals] /\ data \in [Blocks -> Vals]
         /\ call = [p \in Procs |-> Idle]

\* The caller, who has the buffer locked, has filled it before it asks for a write.
Call(p, b, w) == /\ call[p] = Idle /\ \A q \in Procs : call[q].b # b
                 /\ call' = [call EXCEPT ![p] = [b |-> b, write |-> w, done |-> 0]]
                 /\ \/ w = 0 /\ UNCHANGED data
                    \/ w = 1 /\ \E v \in Vals : data' = [data EXCEPT ![b] = v]
                 /\ UNCHANGED content

Move(p) == LET b == call[p].b IN
  /\ b # NoBlock /\ call[p].done = 0
  /\ call' = [call EXCEPT ![p].done = 1]
  /\ IF call[p].write = 1
       THEN content' = [content EXCEPT ![b] = data[b]] /\ UNCHANGED data
       ELSE data' = [data EXCEPT ![b] = content[b]] /\ UNCHANGED content

Return(p) == /\ call[p].done = 1
             /\ call' = [call EXCEPT ![p] = Idle]
             /\ UNCHANGED <<content, data>>

SNext == \E p \in Procs :
           Move(p) \/ Return(p) \/ \E b \in Blocks, w \in {0, 1} : Call(p, b, w)

SSpec == SInit /\ [][SNext]_svars
=============================================================================
