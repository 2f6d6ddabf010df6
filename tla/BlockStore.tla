----------------------------- MODULE BlockStore -----------------------------
(***************************************************************************)
(* What the buffer cache promises: every block has one current content and *)
(* at most one user at a time, whatever is cached, recycled or read again. *)
(***************************************************************************)
CONSTANTS Users,    \* accesses, each from bread() to brelse()
          Blocks,   \* block numbers
          Vals,     \* contents of a block
          Nobody

VARIABLES content,  \* what a user of the block finds in it
          user      \* who has it

svars == <<content, user>>

SInit == /\ content \in [Blocks -> Vals]
         /\ user = [n \in Blocks |-> Nobody]

Take(u, n) == /\ user[n] = Nobody
              /\ user' = [user EXCEPT ![n] = u]
              /\ UNCHANGED content

Write(u, n, v) == /\ user[n] = u
                  /\ content' = [content EXCEPT ![n] = v]
                  /\ UNCHANGED user

Give(u, n) == /\ user[n] = u
              /\ user' = [user EXCEPT ![n] = Nobody]
              /\ UNCHANGED content

SNext == \E u \in Users, n \in Blocks :
           Take(u, n) \/ Give(u, n) \/ \E v \in Vals : Write(u, n, v)

SSpec == SInit /\ [][SNext]_svars
=============================================================================
