----------------------------- MODULE AtomicDisk -----------------------------
(***************************************************************************)
(* What the logging layer promises to the file system above it: a disk     *)
(* whose blocks change in memory while operations are active and reach     *)
(* stable storage all at once, only when no operation is active.  A crash  *)
(* forgets exactly what the last commit did not cover.                     *)
(***************************************************************************)
CONSTANTS Procs,    \* processes that run file system operations
          Blocks,   \* home blocks of the file system
          Vals      \* contents a block can have

VARIABLES durable,  \* block contents a reboot would find
          current,  \* block contents the file system code sees
          active    \* processes inside an operation

avars == <<durable, current, active>>

AInit == /\ durable \in [Blocks -> Vals]
         /\ current = durable
         /\ active = {}

Begin(p) == /\ p \notin active
            /\ active' = active \cup {p}
            /\ UNCHANGED <<durable, current>>

\* Only an active operation changes a block.
Update(p, b, v) == /\ p \in active
                   /\ current' = [current EXCEPT ![b] = v]
                   /\ UNCHANGED <<durable, active>>

End(p) == /\ p \in active
          /\ active' = active \ {p}
          /\ UNCHANGED <<durable, current>>

\* Every finished operation becomes durable in one step; none is half done.
Commit == /\ active = {}
          /\ durable' = current
          /\ UNCHANGED <<current, active>>

Lose == /\ current' = durable
        /\ active' = {}
        /\ UNCHANGED durable

ANext == \/ \E p \in Procs : Begin(p) \/ End(p)
         \/ \E p \in Procs, b \in Blocks, v \in Vals : Update(p, b, v)
         \/ Commit
         \/ Lose

ASpec == AInit /\ [][ANext]_avars
=============================================================================
