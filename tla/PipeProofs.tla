----------------------------- MODULE PipeProofs -----------------------------
(***************************************************************************)
(* Proofs about Pipe, for every number of processes, every PIPESIZE and    *)
(* every width of the counters that PIPESIZE divides: the invariant        *)
(* PipeInv, the two properties of the steps, and that the ring buffer with *)
(* its wrapping counters is the FIFO of ByteStream.                        *)
(***************************************************************************)
EXTENDS Pipe, Sequences, SequenceTheorems, TLAPS

-----------------------------------------------------------------------------
(* Facts about numbers.                                                    *)

\* Quotient and remainder are unique.
LEMMA ModUnique ==
  ASSUME NEW W \in Nat, W > 0, NEW a \in Int, NEW q \in Int, NEW r \in 0..(W - 1),
         a = q * W + r
  PROVE  a % W = r
  OBVIOUS

\* Every number has a quotient and a remainder.
LEMMA Quot ==
  ASSUME NEW W \in Nat, W > 0, NEW a \in Int, NEW r \in Int, r = a % W
  PROVE  r \in 0..(W - 1) /\ \E q \in Int : a = q * W + r
  OBVIOUS

\* Multiplication distributes; stated so that the provers need not find it.
LEMMA MultAdd ==
  ASSUME NEW a \in Int, NEW b \in Int, NEW P \in Int
  PROVE  (a + b) * P = a * P + b * P
  OBVIOUS

LEMMA MultSub ==
  ASSUME NEW a \in Int, NEW b \in Int, NEW P \in Int
  PROVE  (a - b) * P = a * P - b * P
  OBVIOUS

\* A multiple of P makes no difference modulo P, ...
LEMMA ModAdd ==
  ASSUME NEW P \in Nat, P > 0, NEW W \in Nat, W % P = 0, NEW x \in Int
  PROVE  (x + W) % P = x % P
  <1>1. PICK a \in Int : W = a * P + 0
    BY Quot
  <1>2. PICK r \in Int : r = x % P
    OBVIOUS
  <1>3. PICK q \in Int : x = q * P + r
    BY <1>2, Quot
  <1>4. PICK c \in Int : c = q + a
    OBVIOUS
  <1>5. c * P = q * P + a * P
    BY <1>4, MultAdd
  <1>6. x + W = c * P + r
    <2>1. q * P \in Int /\ a * P \in Int
      OBVIOUS
    <2>2. QED BY <2>1, <1>1, <1>3, <1>5
  <1>7. r \in 0..(P - 1)
    BY <1>2, Quot
  <1>8. (x + W) % P = r
    <2>1. PICK y \in Int : y = x + W
      OBVIOUS
    <2>2. QED BY <1>6, <1>7, <2>1, ModUnique
  <1>9. QED BY <1>2, <1>8

\* ... and less than P always does.
LEMMA ModDiffer ==
  ASSUME NEW P \in Nat, P > 0, NEW x \in Int, NEW d \in 1..(P - 1)
  PROVE  x % P # (x + d) % P
  <1> SUFFICES ASSUME x % P = (x + d) % P PROVE FALSE
    OBVIOUS
  <1>1. PICK r \in Int : r = x % P
    OBVIOUS
  <1>2. PICK q1 \in Int : x = q1 * P + r
    BY <1>1, Quot
  <1>3. PICK q2 \in Int : x + d = q2 * P + r
    <2>1. PICK y \in Int : y = x + d
      OBVIOUS
    <2>2. r = y % P
      BY <1>1, <2>1
    <2>3. \E q2 \in Int : y = q2 * P + r
      BY <2>2, Quot
    <2>4. QED BY <2>1, <2>3
  <1>4. PICK q \in Int : q = q2 - q1
    OBVIOUS
  <1>5. q * P = q2 * P - q1 * P
    BY <1>4, MultSub
  <1>6. d = q * P
    <2>1. q1 * P \in Int /\ q2 * P \in Int
      OBVIOUS
    <2>2. QED BY <2>1, <1>2, <1>3, <1>5
  <1>7. CASE q <= 0
    BY <1>6, <1>7
  <1>8. CASE q >= 1
    BY <1>6, <1>8
  <1>9. QED BY <1>7, <1>8

-----------------------------------------------------------------------------
(* The inductive invariant.                                                *)

LockInv == \A p \in Procs : lock = p <=> pc[p] \in Locked
EndsInv == \A p \in Procs : /\ pc[p] \in Writing => "w" \in ends[p]
                            /\ pc[p] \in Reading => "r" \in ends[p]
UsedInv == (nwrite - nread) % WRAP <= PIPESIZE
OpenInv == /\ writeopen = 1 <=> \E p \in Procs : "w" \in ends[p] \/ pc[p] = "close_w"
           /\ readopen = 1 <=> \E p \in Procs : "r" \in ends[p] \/ pc[p] = "close_r"
AllocInv == alloc = 1 <=> readopen = 1 \/ writeopen = 1

\* Only the last descriptor of an end leads to pipeclose(), so nobody else has
\* one, and nobody else is on his way there.
CloseInv ==
  \A p \in Procs :
    /\ pc[p] = "close_w" => \A q \in Procs : "w" \notin ends[q] /\ (q # p => pc[q] # "close_w")
    /\ pc[p] = "close_r" => \A q \in Procs : "r" \notin ends[q] /\ (q # p => pc[q] # "close_r")

\* What was tested under pi->lock is still true while it is held, and what a
\* sleeper waits for has not come, unless a reader is taking bytes out now.
WaitInv ==
  \A p \in Procs :
    /\ pc[p] \in Reading => n[p] # 0
    /\ pc[p] = "wput" => readopen = 1
    /\ pc[p] = "rblock" => Empty /\ writeopen = 1
    /\ pc[p] = "rcopy" /\ i[p] = 0 /\ Empty => writeopen = 0
    /\ pc[p] = "rsleep" => writeopen = 1
    /\ pc[p] = "wsleep" => readopen = 1 /\ (Full \/ \E r \in Procs : pc[r] = "rcopy")

IInv == PipeInv /\ CloseInv /\ WaitInv

-----------------------------------------------------------------------------
(* Arithmetic of the counters.                                             *)

\* A counter that is incremented stays in range, and wraps around at WRAP.
LEMMA SuccMod == ASSUME NEW x \in 0..(WRAP - 1)
                 PROVE  /\ (x + 1) % WRAP = IF x = WRAP - 1 THEN 0 ELSE x + 1
                        /\ (x + 1) % WRAP \in 0..(WRAP - 1)
                        /\ (x + 1) % WRAP # x
  BY PipeAssumption

\* The number of bytes in the ring, with the wrap-around written out.
LEMMA UsedMod == ASSUME NEW x \in 0..(WRAP - 1), NEW y \in 0..(WRAP - 1)
                 PROVE  (y - x) % WRAP = IF x <= y THEN y - x ELSE y - x + WRAP
  <1>1. CASE x <= y
    BY <1>1, PipeAssumption
  <1>2. CASE ~(x <= y)
    <2>1. y - x = (-1) * WRAP + (y - x + WRAP) /\ y - x + WRAP \in 0..(WRAP - 1)
      BY <1>2, PipeAssumption
    <2>2. (y - x) % WRAP = y - x + WRAP
      BY <2>1, ModUnique, PipeAssumption
    <2>3. QED BY <1>2, <2>2
  <1>3. QED BY <1>1, <1>2

\* Where the counter stands when the ring is full.
LEMMA FullMod == ASSUME NEW x \in 0..(WRAP - 1)
                 PROVE  (x + PIPESIZE) % WRAP = IF x + PIPESIZE < WRAP THEN x + PIPESIZE
                                                ELSE x + PIPESIZE - WRAP
  <1>1. CASE x + PIPESIZE < WRAP
    BY <1>1, PipeAssumption
  <1>2. CASE ~(x + PIPESIZE < WRAP)
    <2>1. x + PIPESIZE = 1 * WRAP + (x + PIPESIZE - WRAP) /\ x + PIPESIZE - WRAP \in 0..(WRAP - 1)
      BY <1>2, PipeAssumption
    <2>2. (x + PIPESIZE) % WRAP = x + PIPESIZE - WRAP
      BY <2>1, ModUnique, PipeAssumption
    <2>3. QED BY <1>2, <2>2
  <1>3. QED BY <1>1, <1>2

\* Full and Empty are what the number of bytes says.
LEMMA FullEmpty ==
  ASSUME TypeOK
  PROVE  /\ Full <=> (nwrite - nread) % WRAP = PIPESIZE
         /\ Empty <=> (nwrite - nread) % WRAP = 0
         /\ (nwrite - nread) % WRAP \in 0..(WRAP - 1)
  <1>1. nread \in 0..(WRAP - 1) /\ nwrite \in 0..(WRAP - 1)
    BY DEF TypeOK
  <1>2. (nwrite - nread) % WRAP = IF nread <= nwrite THEN nwrite - nread ELSE nwrite - nread + WRAP
    BY <1>1, UsedMod
  <1>3. (nread + PIPESIZE) % WRAP = IF nread + PIPESIZE < WRAP THEN nread + PIPESIZE
                                    ELSE nread + PIPESIZE - WRAP
    BY <1>1, FullMod
  <1>4. QED BY <1>1, <1>2, <1>3, PipeAssumption DEF Full, Empty

\* A byte put into a ring that is not full, or taken out of one that is not empty.
LEMMA PutUsed ==
  ASSUME TypeOK, UsedInv, ~Full
  PROVE  (((nwrite + 1) % WRAP) - nread) % WRAP = ((nwrite - nread) % WRAP) + 1
  <1> DEFINE w == (nwrite + 1) % WRAP
  <1>1. nread \in 0..(WRAP - 1) /\ nwrite \in 0..(WRAP - 1)
    BY DEF TypeOK
  <1>2. w \in 0..(WRAP - 1) /\ w = IF nwrite = WRAP - 1 THEN 0 ELSE nwrite + 1
    BY <1>1, SuccMod
  <1>3. (nwrite - nread) % WRAP = IF nread <= nwrite THEN nwrite - nread ELSE nwrite - nread + WRAP
    BY <1>1, UsedMod
  <1>4. (w - nread) % WRAP = IF nread <= w THEN w - nread ELSE w - nread + WRAP
    BY <1>1, <1>2, UsedMod
  <1>5. (nwrite - nread) % WRAP < PIPESIZE
    BY FullEmpty, PipeAssumption DEF UsedInv
  <1> HIDE DEF w
  <1>6. (w - nread) % WRAP = ((nwrite - nread) % WRAP) + 1
    BY <1>1, <1>2, <1>3, <1>4, <1>5, PipeAssumption
  <1>7. QED BY <1>6 DEF w

LEMMA GetUsed ==
  ASSUME TypeOK, ~Empty, NEW r \in 0..(WRAP - 1), r = (nread + 1) % WRAP
  PROVE  (nwrite - r) % WRAP = ((nwrite - nread) % WRAP) - 1
  <1>1. nread \in 0..(WRAP - 1) /\ nwrite \in 0..(WRAP - 1) /\ nread # nwrite
    BY DEF TypeOK, Empty
  <1>2. r = IF nread = WRAP - 1 THEN 0 ELSE nread + 1
    BY <1>1, SuccMod
  <1>3. (nwrite - nread) % WRAP = IF nread <= nwrite THEN nwrite - nread ELSE nwrite - nread + WRAP
    BY <1>1, UsedMod
  <1>4. (nwrite - r) % WRAP = IF r <= nwrite THEN nwrite - r ELSE nwrite - r + WRAP
    BY <1>1, UsedMod
  <1>5. QED BY <1>1, <1>2, <1>3, <1>4, PipeAssumption

-----------------------------------------------------------------------------
(* Steps of whoever holds pi->lock.                                        *)

PCs == Writing \cup Reading \cup {"user", "close_r", "close_w"}

\* Everyone but p stays where he is, or is woken up.
OthersStay(p) ==
  \A q \in Procs \ {p} :
    /\ n'[q] = n[q] /\ i'[q] = i[q]
    /\ \/ pc'[q] = pc[q]
       \/ pc[q] = "rsleep" /\ pc'[q] = "rwoken"
       \/ pc[q] = "wsleep" /\ pc'[q] = "write"

\* p goes on in its loop with the lock, or gives it up to sleep or to return.
InsideStep(p) ==
  /\ lock' = IF pc'[p] \in Locked THEN p ELSE Nobody
  /\ pc[p] \in Locked /\ pc' \in [Procs -> PCs]
  /\ pc[p] \in Writing => pc'[p] \in Writing \cup {"user"}
  /\ pc[p] \in Reading => pc'[p] \in Reading \cup {"user"}
  /\ OthersStay(p)
  /\ UNCHANGED <<alloc, readopen, writeopen, ends, killed>>

\* wakeup() moves those who sleep, and nobody else.
LEMMA WakeTypes ==
  ASSUME TypeOK, NEW l \in {"rsleep", "wsleep"}
  PROVE  /\ Wake(l) \in [Procs -> PCs]
         /\ \A q \in Procs : /\ pc[q] # l => Wake(l)[q] = pc[q]
                             /\ pc[q] = l /\ l = "rsleep" => Wake(l)[q] = "rwoken"
                             /\ pc[q] = l /\ l = "wsleep" => Wake(l)[q] = "write"
  BY DEF TypeOK, PCs, Wake, Writing, Reading

\* Such a step keeps the parts of the invariant that are about the lock and the
\* descriptors.
LEMMA InsideInv ==
  ASSUME IInv, NEW p \in Procs, InsideStep(p)
  PROVE  LockInv' /\ EndsInv' /\ OpenInv' /\ AllocInv' /\ CloseInv'
  <1> USE DEF InsideStep, OthersStay, PCs, Writing, Reading, Locked
  <1>1. TypeOK /\ LockInv /\ EndsInv /\ OpenInv /\ AllocInv /\ CloseInv
    BY DEF IInv, PipeInv, LockInv, EndsInv, OpenInv, AllocInv
  <1>2. lock = p /\ lock # Nobody
    BY <1>1, PipeAssumption DEF LockInv
  <1>3. LockInv'
    BY <1>1, <1>2, PipeAssumption DEF LockInv
  <1>4. EndsInv'
    BY <1>1 DEF EndsInv
  <1>5. \A q \in Procs : /\ pc'[q] = "close_w" <=> pc[q] = "close_w"
                         /\ pc'[q] = "close_r" <=> pc[q] = "close_r"
    BY <1>1
  <1>6. OpenInv'
    BY <1>1, <1>5 DEF OpenInv
  <1>7. AllocInv'
    BY <1>1 DEF AllocInv
  <1>8. CloseInv'
    BY <1>1, <1>5 DEF CloseInv
  <1>9. QED BY <1>3, <1>4, <1>6, <1>7, <1>8

\* What p itself waits for after its step.
OwnWait(p) ==
    /\ pc'[p] \in Reading => n'[p] # 0
    /\ pc'[p] = "wput" => readopen' = 1
    /\ pc'[p] = "rblock" => Empty' /\ writeopen' = 1
    /\ pc'[p] = "rcopy" /\ i'[p] = 0 /\ Empty' => writeopen' = 0
    /\ pc'[p] = "rsleep" => writeopen' = 1
    /\ pc'[p] = "wsleep" => readopen' = 1 /\ Full'

\* The others hold no lock: of them only the writers asleep depend on the ring.
LEMMA InsideWait ==
  ASSUME IInv, NEW p \in Procs, InsideStep(p), OwnWait(p),
         \A q \in Procs \ {p} : pc'[q] = "wsleep" => Full' \/ pc'[p] = "rcopy"
  PROVE  WaitInv'
  <1>1. TypeOK /\ LockInv /\ WaitInv
    BY DEF IInv, PipeInv, LockInv
  <1>2. SUFFICES ASSUME NEW q \in Procs, q # p
                 PROVE  /\ pc'[q] \in Reading => n'[q] # 0
                        /\ pc'[q] \notin {"wput", "rblock", "rcopy"}
                        /\ pc'[q] = "rsleep" => writeopen' = 1
                        /\ pc'[q] = "wsleep" => /\ readopen' = 1
                                                /\ Full' \/ \E r \in Procs : pc'[r] = "rcopy"
    BY DEF WaitInv, OwnWait
  <1>3. pc[q] \notin Locked
    BY <1>1, <1>2 DEF LockInv, InsideStep
  <1>4. n'[q] = n[q] /\ (\/ pc'[q] = pc[q]
                         \/ pc[q] = "rsleep" /\ pc'[q] = "rwoken"
                         \/ pc[q] = "wsleep" /\ pc'[q] = "write")
    BY <1>2 DEF InsideStep, OthersStay
  <1>5. readopen' = readopen /\ writeopen' = writeopen
    BY DEF InsideStep
  <1>6. QED BY <1>1, <1>2, <1>3, <1>4, <1>5 DEF WaitInv, Locked, Reading

-----------------------------------------------------------------------------
(* One lemma per action.                                                   *)

\* The invariant by its parts, before and after a step.
LEMMA Parts == IInv <=> /\ TypeOK /\ LockInv /\ EndsInv /\ UsedInv /\ OpenInv
                        /\ AllocInv /\ CloseInv /\ WaitInv
  BY DEF IInv, PipeInv, LockInv, EndsInv, UsedInv, OpenInv, AllocInv

LEMMA PartsPrime ==
  ASSUME TypeOK', LockInv', EndsInv', UsedInv', OpenInv', AllocInv', CloseInv', WaitInv'
  PROVE  IInv'
  BY DEF IInv, PipeInv, LockInv, EndsInv, UsedInv, OpenInv, AllocInv

\* No descriptor is left of a pipe that does not exist, so nobody is inside it.
LEMMA PipeallocInv == ASSUME IInv, NEW p \in Procs, pipealloc(p) PROVE IInv'
  <1> USE DEF pipealloc, pipe, Goto, Writing, Reading, Locked
  <1>1. /\ TypeOK /\ LockInv /\ EndsInv /\ UsedInv /\ OpenInv
        /\ AllocInv /\ CloseInv /\ WaitInv
    BY Parts
  <1>2. TypeOK' BY <1>1, PipeAssumption DEF TypeOK
  <1>3. LockInv' BY <1>1, PipeAssumption DEF TypeOK, LockInv
  <1>4. EndsInv'
    <2>1. \A q \in Procs : pc[q] \notin Writing \cup Reading \cup {"close_w", "close_r"}
      BY <1>1 DEF TypeOK, AllocInv, OpenInv, EndsInv
    <2>2. QED BY <1>1, <2>1, PipeAssumption DEF TypeOK, EndsInv
  <1>5. UsedInv' BY <1>1, PipeAssumption DEF UsedInv
  <1>6. OpenInv' BY <1>1 DEF TypeOK, OpenInv
  <1>7. AllocInv' BY <1>1 DEF AllocInv
  <1>8. CloseInv'
    <2>1. \A q \in Procs : pc[q] \notin Writing \cup Reading \cup {"close_w", "close_r"}
      BY <1>1 DEF TypeOK, AllocInv, OpenInv, EndsInv
    <2>2. QED BY <1>1, <2>1, PipeAssumption DEF TypeOK, CloseInv
  <1>9. WaitInv'
    <2>1. \A q \in Procs : pc[q] \notin Writing \cup Reading \cup {"close_w", "close_r"}
      BY <1>1 DEF TypeOK, AllocInv, OpenInv, EndsInv
    <2>2. QED BY <1>1, <2>1, PipeAssumption DEF TypeOK, WaitInv
  <1>10. QED BY <1>2, <1>3, <1>4, <1>5, <1>6, <1>7, <1>8, <1>9, PartsPrime

\* A copy of the descriptors of p opens no end that was closed.
LEMMA ForkInv == ASSUME IInv, NEW p \in Procs, NEW q \in Procs, fork(p, q) PROVE IInv'
  <1> USE DEF fork, pipe, Goto, Writing, Reading, Locked
  <1>1. /\ TypeOK /\ LockInv /\ EndsInv /\ UsedInv /\ OpenInv
        /\ AllocInv /\ CloseInv /\ WaitInv
    BY Parts
  <1>2. TypeOK' BY <1>1, PipeAssumption DEF TypeOK
  <1>3. LockInv' BY <1>1, PipeAssumption DEF TypeOK, LockInv
  <1>4. EndsInv' BY <1>1 DEF TypeOK, EndsInv
  <1>5. UsedInv' BY <1>1 DEF UsedInv
  <1>6. OpenInv' BY <1>1 DEF TypeOK, OpenInv
  <1>7. AllocInv' BY <1>1 DEF AllocInv
  <1>8. CloseInv' BY <1>1 DEF TypeOK, CloseInv
  <1>9. WaitInv' BY <1>1 DEF TypeOK, WaitInv, Empty, Full
  <1>10. QED BY <1>2, <1>3, <1>4, <1>5, <1>6, <1>7, <1>8, <1>9, PartsPrime

\* The last descriptor of an end is replaced by the process that closes the end.
LEMMA FilecloseInv ==
  ASSUME IInv, NEW p \in Procs, NEW e \in {"r", "w"}, fileclose(p, e)
  PROVE  IInv'
  <1> USE DEF fileclose, pipe, Goto, Writing, Reading, Locked
  <1>1. /\ TypeOK /\ LockInv /\ EndsInv /\ UsedInv /\ OpenInv
        /\ AllocInv /\ CloseInv /\ WaitInv
    BY Parts
  <1>2. TypeOK' BY <1>1, PipeAssumption DEF TypeOK
  <1>3. LockInv' BY <1>1, PipeAssumption DEF TypeOK, LockInv
  <1>4. EndsInv' BY <1>1 DEF TypeOK, EndsInv
  <1>5. UsedInv' BY <1>1 DEF UsedInv
  <1>6. OpenInv' BY <1>1 DEF TypeOK, OpenInv
  <1>7. AllocInv' BY <1>1 DEF AllocInv
  <1>8. CloseInv' BY <1>1 DEF TypeOK, CloseInv
  <1>9. WaitInv' BY <1>1 DEF TypeOK, WaitInv, Empty, Full
  <1>10. QED BY <1>2, <1>3, <1>4, <1>5, <1>6, <1>7, <1>8, <1>9, PartsPrime

\* A writer enters with a descriptor of the write end.
LEMMA WriteInv == ASSUME IInv, NEW p \in Procs, NEW k \in Sizes, write(p, k) PROVE IInv'
  <1> USE DEF write, pipe, Goto, Writing, Reading, Locked
  <1>1. /\ TypeOK /\ LockInv /\ EndsInv /\ UsedInv /\ OpenInv
        /\ AllocInv /\ CloseInv /\ WaitInv
    BY Parts
  <1>2. TypeOK' BY <1>1, PipeAssumption DEF TypeOK
  <1>3. LockInv' BY <1>1, PipeAssumption DEF TypeOK, LockInv
  <1>4. EndsInv' BY <1>1 DEF TypeOK, EndsInv
  <1>5. UsedInv' BY <1>1 DEF UsedInv
  <1>6. OpenInv' BY <1>1 DEF TypeOK, OpenInv
  <1>7. AllocInv' BY <1>1 DEF AllocInv
  <1>8. CloseInv' BY <1>1 DEF TypeOK, CloseInv
  <1>9. WaitInv' BY <1>1 DEF TypeOK, WaitInv, Empty, Full
  <1>10. QED BY <1>2, <1>3, <1>4, <1>5, <1>6, <1>7, <1>8, <1>9, PartsPrime

\* The lock is free: nobody is at a control point that holds it.
LEMMA Write_acquireInv == ASSUME IInv, NEW p \in Procs, write_acquire(p) PROVE IInv'
  <1> USE DEF write_acquire, pipe, Goto, Writing, Reading, Locked
  <1>1. /\ TypeOK /\ LockInv /\ EndsInv /\ UsedInv /\ OpenInv
        /\ AllocInv /\ CloseInv /\ WaitInv
    BY Parts
  <1>2. TypeOK' BY <1>1, PipeAssumption DEF TypeOK
  <1>3. LockInv' BY <1>1, PipeAssumption DEF TypeOK, LockInv
  <1>4. EndsInv' BY <1>1 DEF TypeOK, EndsInv
  <1>5. UsedInv' BY <1>1 DEF UsedInv
  <1>6. OpenInv' BY <1>1 DEF TypeOK, OpenInv
  <1>7. AllocInv' BY <1>1 DEF AllocInv
  <1>8. CloseInv' BY <1>1 DEF TypeOK, CloseInv
  <1>9. WaitInv' BY <1>1 DEF TypeOK, WaitInv, Empty, Full
  <1>10. QED BY <1>2, <1>3, <1>4, <1>5, <1>6, <1>7, <1>8, <1>9, PartsPrime

\* A reader enters with a descriptor of the read end and asks for something.
LEMMA ReadInv == ASSUME IInv, NEW p \in Procs, NEW k \in Sizes, read(p, k) PROVE IInv'
  <1> USE DEF read, pipe, Goto, Writing, Reading, Locked
  <1>1. /\ TypeOK /\ LockInv /\ EndsInv /\ UsedInv /\ OpenInv
        /\ AllocInv /\ CloseInv /\ WaitInv
    BY Parts
  <1>2. TypeOK' BY <1>1, PipeAssumption DEF TypeOK
  <1>3. LockInv' BY <1>1, PipeAssumption DEF TypeOK, LockInv
  <1>4. EndsInv' BY <1>1 DEF TypeOK, EndsInv
  <1>5. UsedInv' BY <1>1 DEF UsedInv
  <1>6. OpenInv' BY <1>1 DEF TypeOK, OpenInv
  <1>7. AllocInv' BY <1>1 DEF AllocInv
  <1>8. CloseInv' BY <1>1 DEF TypeOK, CloseInv
  <1>9. WaitInv' BY <1>1, PipeAssumption DEF TypeOK, WaitInv, Empty, Full
  <1>10. QED BY <1>2, <1>3, <1>4, <1>5, <1>6, <1>7, <1>8, <1>9, PartsPrime

\* The lock is free, and the reader tests (again) whether there is something.
LEMMA Read_acquireInv == ASSUME IInv, NEW p \in Procs, read_acquire(p) PROVE IInv'
  <1> USE DEF read_acquire, pipe, Goto, Writing, Reading, Locked, Retest
  <1>1. /\ TypeOK /\ LockInv /\ EndsInv /\ UsedInv /\ OpenInv
        /\ AllocInv /\ CloseInv /\ WaitInv
    BY Parts
  <1>2. TypeOK' BY <1>1, PipeAssumption DEF TypeOK
  <1>3. LockInv' BY <1>1, PipeAssumption DEF TypeOK, LockInv
  <1>4. EndsInv' BY <1>1 DEF TypeOK, EndsInv
  <1>5. UsedInv' BY <1>1 DEF UsedInv
  <1>6. OpenInv' BY <1>1 DEF TypeOK, OpenInv
  <1>7. AllocInv' BY <1>1 DEF AllocInv
  <1>8. CloseInv' BY <1>1 DEF TypeOK, CloseInv
  <1>9. WaitInv' BY <1>1 DEF TypeOK, WaitInv, Empty, Full
  <1>10. QED BY <1>2, <1>3, <1>4, <1>5, <1>6, <1>7, <1>8, <1>9, PartsPrime

\* The victim leaves sleep(); it stays inside pipewrite() or piperead().
LEMMA KillInv == ASSUME IInv, NEW p \in Procs, kill(p) PROVE IInv'
  <1> USE DEF kill, pipe, Goto, Writing, Reading, Locked
  <1>1. /\ TypeOK /\ LockInv /\ EndsInv /\ UsedInv /\ OpenInv
        /\ AllocInv /\ CloseInv /\ WaitInv
    BY Parts
  <1>2. TypeOK' BY <1>1, PipeAssumption DEF TypeOK
  <1>3. LockInv' BY <1>1, PipeAssumption DEF TypeOK, LockInv
  <1>4. EndsInv' BY <1>1 DEF TypeOK, EndsInv
  <1>5. UsedInv' BY <1>1 DEF UsedInv
  <1>6. OpenInv' BY <1>1 DEF TypeOK, OpenInv
  <1>7. AllocInv' BY <1>1 DEF AllocInv
  <1>8. CloseInv' BY <1>1 DEF TypeOK, CloseInv
  <1>9. WaitInv' BY <1>1 DEF TypeOK, WaitInv, Empty, Full
  <1>10. QED BY <1>2, <1>3, <1>4, <1>5, <1>6, <1>7, <1>8, <1>9, PartsPrime

\* The process that closes an end is the only one that could: with it the flag
\* goes, and those who slept for that end are woken.
LEMMA PipecloseInv == ASSUME IInv, NEW p \in Procs, pipeclose(p) PROVE IInv'
  <1>0. /\ lock = Nobody /\ alloc' = IF BothClosed THEN 0 ELSE alloc
        /\ UNCHANGED <<data, nread, nwrite, lock, ends, killed, n, i, ch>>
    BY DEF pipeclose
  <1> USE DEF Writing, Reading, Locked
  <1>1. /\ TypeOK /\ LockInv /\ EndsInv /\ UsedInv /\ OpenInv
        /\ AllocInv /\ CloseInv /\ WaitInv
    BY Parts
  <1>2. \A q \in Procs : pc[q] \notin Locked
    BY <1>0, <1>1, PipeAssumption DEF LockInv
  <1>3. UsedInv'
    BY <1>0, <1>1 DEF UsedInv
  <1>4. CASE pc[p] = "close_w" /\ writeopen' = 0 /\ UNCHANGED readopen
                /\ pc' = [Wake("rsleep") EXCEPT ![p] = "user"]
    <2>1. /\ pc' \in [Procs -> PCs] /\ pc'[p] = "user"
          /\ \A q \in Procs \ {p} : /\ pc[q] = "rsleep" => pc'[q] = "rwoken"
                                    /\ pc[q] # "rsleep" => pc'[q] = pc[q]
      BY <1>4, <1>1, WakeTypes DEF PCs
    <2>2. TypeOK'
      BY <1>0, <1>4, <1>1, <2>1 DEF TypeOK, PCs
    <2>3. LockInv'
      BY <1>0, <1>2, <2>1, PipeAssumption DEF LockInv, PCs
    <2>4. EndsInv'
      BY <1>0, <1>1, <2>1 DEF EndsInv, PCs
    <2>5. OpenInv'
      <3>1. \A q \in Procs : "w" \notin ends[q] /\ (pc[q] # "close_w" \/ q = p)
        BY <1>4, <1>1 DEF CloseInv
      <3>2. \A q \in Procs : pc'[q] # "close_w" /\ "w" \notin ends[q]
        BY <1>4, <1>1, <2>1, <3>1 DEF CloseInv
      <3>3. \A q \in Procs : pc'[q] = "close_r" <=> pc[q] = "close_r"
        BY <1>4, <2>1
      <3>4. QED BY <1>0, <1>4, <1>1, <3>2, <3>3 DEF OpenInv
    <2>6. AllocInv'
      BY <1>0, <1>4, <1>1, <2>2 DEF AllocInv, BothClosed, TypeOK
    <2>7. CloseInv'
      <3>1. \A q \in Procs : /\ pc'[q] = "close_w" => pc[q] = "close_w"
                             /\ pc'[q] = "close_r" <=> pc[q] = "close_r"
        BY <1>4, <2>1
      <3>2. QED BY <1>0, <1>1, <3>1 DEF CloseInv
    <2>8. WaitInv'
      <3>1. \A q \in Procs : pc'[q] \notin Locked /\ pc'[q] # "rsleep"
        BY <1>2, <2>1
      <3>2. QED BY <1>0, <1>4, <1>1, <2>1, <3>1 DEF WaitInv, Empty, Full
    <2>9. QED BY <1>3, <2>2, <2>3, <2>4, <2>5, <2>6, <2>7, <2>8, PartsPrime
  <1>5. CASE pc[p] = "close_r" /\ readopen' = 0 /\ UNCHANGED writeopen
                /\ pc' = [Wake("wsleep") EXCEPT ![p] = "user"]
    <2>1. /\ pc' \in [Procs -> PCs] /\ pc'[p] = "user"
          /\ \A q \in Procs \ {p} : /\ pc[q] = "wsleep" => pc'[q] = "write"
                                    /\ pc[q] # "wsleep" => pc'[q] = pc[q]
      BY <1>5, <1>1, WakeTypes DEF PCs
    <2>2. TypeOK'
      BY <1>0, <1>5, <1>1, <2>1 DEF TypeOK, PCs
    <2>3. LockInv'
      BY <1>0, <1>2, <2>1, PipeAssumption DEF LockInv, PCs
    <2>4. EndsInv'
      BY <1>0, <1>1, <2>1 DEF EndsInv, PCs
    <2>5. OpenInv'
      <3>1. \A q \in Procs : "r" \notin ends[q] /\ (pc[q] # "close_r" \/ q = p)
        BY <1>5, <1>1 DEF CloseInv
      <3>2. \A q \in Procs : pc'[q] # "close_r" /\ "r" \notin ends[q]
        BY <1>5, <1>1, <2>1, <3>1 DEF CloseInv
      <3>3. \A q \in Procs : pc'[q] = "close_w" <=> pc[q] = "close_w"
        BY <1>5, <2>1
      <3>4. QED BY <1>0, <1>5, <1>1, <3>2, <3>3 DEF OpenInv
    <2>6. AllocInv'
      BY <1>0, <1>5, <1>1, <2>2 DEF AllocInv, BothClosed, TypeOK
    <2>7. CloseInv'
      <3>1. \A q \in Procs : /\ pc'[q] = "close_r" => pc[q] = "close_r"
                             /\ pc'[q] = "close_w" <=> pc[q] = "close_w"
        BY <1>5, <2>1
      <3>2. QED BY <1>0, <1>1, <3>1 DEF CloseInv
    <2>8. WaitInv'
      <3>1. \A q \in Procs : pc'[q] \notin Locked /\ pc'[q] # "wsleep"
        BY <1>2, <2>1
      <3>2. QED BY <1>0, <1>5, <1>1, <2>1, <3>1 DEF WaitInv, Empty, Full
    <2>9. QED BY <1>3, <2>2, <2>3, <2>4, <2>5, <2>6, <2>7, <2>8, PartsPrime
  <1>6. QED BY <1>4, <1>5 DEF pipeclose

\* From the three parts that the ring and the locals matter for, the invariant.
LEMMA InsideAll ==
  ASSUME IInv, NEW p \in Procs, InsideStep(p), TypeOK', UsedInv', WaitInv'
  PROVE  IInv'
  BY InsideInv, PartsPrime

\* Outcomes of a step under the lock, as InsideStep() wants them: p goes on, ...
LEMMA GotoStep ==
  ASSUME TypeOK, NEW p \in Procs, NEW l \in Locked, Goto(p, l), pc[p] \in Locked, lock = p,
         pc[p] \in Writing <=> l \in Writing,
         UNCHANGED <<alloc, readopen, writeopen, ends, killed, lock, n>>,
         \A q \in Procs \ {p} : i'[q] = i[q]
  PROVE  InsideStep(p) /\ pc'[p] = l /\ \A q \in Procs \ {p} : pc'[q] = pc[q]
  <1>1. /\ pc' \in [Procs -> PCs] /\ pc'[p] = l
        /\ \A q \in Procs \ {p} : pc'[q] = pc[q]
    BY DEF Goto, TypeOK, PCs, Locked, Writing, Reading
  <1>2. QED BY <1>1 DEF InsideStep, OthersStay, Locked, Writing, Reading

\* ... or leaves after waking those who sleep at l, ...
LEMMA LeaveStep ==
  ASSUME TypeOK, NEW p \in Procs, NEW l \in {"rsleep", "wsleep"}, pc[p] \in Locked,
         NEW m \in {"user", "rsleep", "wsleep"}, pc' = [Wake(l) EXCEPT ![p] = m],
         pc[p] \in Writing => m # "rsleep", pc[p] \in Reading => m # "wsleep", lock' = Nobody,
         UNCHANGED <<alloc, readopen, writeopen, ends, killed>>,
         \A q \in Procs \ {p} : n'[q] = n[q] /\ i'[q] = i[q]
  PROVE  InsideStep(p) /\ pc'[p] = m /\ \A q \in Procs \ {p} : pc'[q] # l
  <1>1. /\ pc' \in [Procs -> PCs] /\ pc'[p] = m
        /\ \A q \in Procs \ {p} : pc'[q] = Wake(l)[q]
    BY WakeTypes DEF PCs, Writing, Reading
  <1>2. ASSUME NEW q \in Procs \ {p}
        PROVE  /\ pc'[q] # l
               /\ \/ pc'[q] = pc[q]
                  \/ pc[q] = "rsleep" /\ pc'[q] = "rwoken"
                  \/ pc[q] = "wsleep" /\ pc'[q] = "write"
    <2>1. /\ pc'[q] = Wake(l)[q]
          /\ pc[q] # l => Wake(l)[q] = pc[q]
          /\ pc[q] = l /\ l = "rsleep" => Wake(l)[q] = "rwoken"
          /\ pc[q] = l /\ l = "wsleep" => Wake(l)[q] = "write"
      BY <1>1, WakeTypes
    <2>2. QED BY <2>1
  <1>3. QED BY <1>1, <1>2 DEF InsideStep, OthersStay, Locked, Writing, Reading

\* ... or leaves without a wakeup().
LEMMA QuietStep ==
  ASSUME TypeOK, NEW p \in Procs, pc[p] \in Locked,
         NEW m \in {"user", "rsleep", "wsleep"}, pc' = [pc EXCEPT ![p] = m],
         pc[p] \in Writing => m # "rsleep", pc[p] \in Reading => m # "wsleep", lock' = Nobody,
         UNCHANGED <<alloc, readopen, writeopen, ends, killed>>,
         \A q \in Procs \ {p} : n'[q] = n[q] /\ i'[q] = i[q]
  PROVE  InsideStep(p) /\ pc'[p] = m /\ \A q \in Procs \ {p} : pc'[q] = pc[q]
  <1>1. /\ pc' \in [Procs -> PCs] /\ pc'[p] = m
        /\ \A q \in Procs \ {p} : pc'[q] = pc[q]
    BY DEF TypeOK, PCs, Writing, Reading
  <1>2. QED BY <1>1 DEF InsideStep, OthersStay, Locked, Writing, Reading

\* Return() clears the locals.
LEMMA ReturnLocals ==
  ASSUME TypeOK, NEW p \in Procs, n' = [n EXCEPT ![p] = 0], i' = [i EXCEPT ![p] = 0]
  PROVE  /\ n' \in [Procs -> Sizes \cup {0}] /\ i' \in [Procs -> Nat]
         /\ \A q \in Procs \ {p} : n'[q] = n[q] /\ i'[q] = i[q]
  BY DEF TypeOK

\* The test of the loop in pipewrite(): nothing of the ring changes.
LEMMA Write_testInv == ASSUME IInv, NEW p \in Procs, write_test(p) PROVE IInv'
  <1>1. TypeOK /\ LockInv /\ UsedInv /\ WaitInv /\ lock = p /\ lock # Nobody
    BY Parts, PipeAssumption DEF LockInv, Locked, write_test
  <1>2. \A q \in Procs \ {p} : pc[q] \notin Locked
    BY <1>1 DEF LockInv
  <1>3. pc[p] = "wtest" /\ UNCHANGED <<alloc, pipe, ends, killed, ch>>
    BY DEF write_test
  <1>4. \A q \in Procs \ {p} : pc[q] = "wsleep" => Full
    BY <1>1, <1>2 , <1>3 DEF WaitInv, Locked
  <1>5. CASE i[p] = n[p] /\ WriteDone(p)
    <2>1. InsideStep(p) /\ pc'[p] = "user" /\ OthersStay(p)
      <3>1. /\ n' = [n EXCEPT ![p] = 0] /\ i' = [i EXCEPT ![p] = 0] /\ lock' = Nobody
            /\ pc' = [Wake("rsleep") EXCEPT ![p] = "user"]
        BY <1>5 DEF WriteDone, Return
      <3>2. QED BY <1>1, <1>3, <3>1, ReturnLocals, LeaveStep
            DEF pipe, Locked, Writing, Reading, InsideStep
    <2>2. TypeOK'
      BY <1>1, <1>5, <2>1, <1>3, ReturnLocals DEF TypeOK, InsideStep, PCs, pipe, WriteDone, Return
    <2>3. UsedInv'
      BY <1>1, <1>3 DEF UsedInv, pipe
    <2>4. OwnWait(p)
      BY <2>1 DEF OwnWait, Reading
    <2>5. \A q \in Procs \ {p} : pc'[q] = "wsleep" => Full' \/ pc'[p] = "rcopy"
      BY <1>3, <1>4, <2>1 DEF pipe, Full, OthersStay
    <2>6. QED BY <2>1, <2>2, <2>3, <2>4, <2>5, InsideWait, InsideAll
  <1>6. CASE i[p] < n[p] /\ (readopen = 0 \/ killed[p] = 1) /\ Return(p, pc)
    <2>1. InsideStep(p) /\ pc'[p] = "user" /\ OthersStay(p)
      <3>1. /\ n' = [n EXCEPT ![p] = 0] /\ i' = [i EXCEPT ![p] = 0] /\ lock' = Nobody
            /\ pc' = [pc EXCEPT ![p] = "user"]
        BY <1>6 DEF Return
      <3>2. QED BY <1>1, <1>3, <3>1, ReturnLocals, QuietStep
            DEF pipe, Locked, Writing, Reading, InsideStep
    <2>2. TypeOK'
      BY <1>1, <1>6, <2>1, <1>3, ReturnLocals DEF TypeOK, InsideStep, PCs, pipe, Return
    <2>3. UsedInv'
      BY <1>1, <1>3 DEF UsedInv, pipe
    <2>4. OwnWait(p)
      BY <2>1 DEF OwnWait, Reading
    <2>5. \A q \in Procs \ {p} : pc'[q] = "wsleep" => Full' \/ pc'[p] = "rcopy"
      BY <1>3, <1>4, <2>1 DEF pipe, Full, OthersStay
    <2>6. QED BY <2>1, <2>2, <2>3, <2>4, <2>5, InsideWait, InsideAll
  <1>7. CASE /\ i[p] < n[p] /\ readopen = 1 /\ killed[p] = 0
             /\ Goto(p, "wput") /\ UNCHANGED <<lock, n, i>>
    <2>1. InsideStep(p) /\ pc'[p] = "wput" /\ OthersStay(p)
      BY <1>1, <1>3, <1>7, GotoStep DEF pipe, Locked, Writing, Reading, InsideStep
    <2>2. TypeOK'
      BY <1>1, <1>7, <2>1, <1>3 DEF TypeOK, InsideStep, PCs, pipe
    <2>3. UsedInv'
      BY <1>1, <1>3 DEF UsedInv, pipe
    <2>4. OwnWait(p)
      BY <1>3, <1>7, <2>1 DEF OwnWait, Reading, pipe
    <2>5. \A q \in Procs \ {p} : pc'[q] = "wsleep" => Full' \/ pc'[p] = "rcopy"
      BY <1>3, <1>4, <2>1 DEF pipe, Full, OthersStay
    <2>6. QED BY <2>1, <2>2, <2>3, <2>4, <2>5, InsideWait, InsideAll
  <1>8. QED BY <1>5, <1>6, <1>7 DEF write_test

\* pipewrite() puts a byte where there is room, sleeps where there is none.
LEMMA Write_putInv == ASSUME IInv, NEW p \in Procs, write_put(p) PROVE IInv'
  <1>1. TypeOK /\ LockInv /\ UsedInv /\ WaitInv /\ lock = p /\ lock # Nobody
    BY Parts, PipeAssumption DEF LockInv, Locked, write_put
  <1>2. \A q \in Procs \ {p} : pc[q] \notin Locked
    BY <1>1 DEF LockInv
  <1>3. /\ pc[p] = "wput"
        /\ UNCHANGED <<alloc, nread, readopen, writeopen, ends, killed, ch>>
    BY DEF write_put
  <1>4. (\A q \in Procs \ {p} : pc[q] = "wsleep" => Full) /\ readopen = 1
    BY <1>1, <1>2, <1>3 DEF WaitInv, Locked
  <1>5. CASE Full /\ Sleep(p, Wake("rsleep"), "wsleep") /\ UNCHANGED <<data, nwrite>>
    <2>1. /\ lock' = Nobody /\ UNCHANGED <<n, i>>
          /\ pc' = [Wake("rsleep") EXCEPT ![p] = "wsleep"]
      BY <1>5 DEF Sleep
    <2>2. InsideStep(p) /\ pc'[p] = "wsleep" /\ OthersStay(p)
      BY <1>1, <1>3, <2>1, LeaveStep DEF Locked, Writing, Reading, InsideStep
    <2>3. TypeOK'
      BY <1>1, <1>3, <1>5, <2>1, <2>2 DEF TypeOK, InsideStep, PCs
    <2>4. UsedInv' /\ Full'
      BY <1>1, <1>3, <1>5 DEF UsedInv, Full
    <2>5. OwnWait(p)
      BY <1>3, <1>4, <2>2, <2>4 DEF OwnWait, Reading
    <2>6. QED BY <2>2, <2>3, <2>4, <2>5, InsideWait, InsideAll
  <1>6. CASE /\ ~Full /\ Goto(p, "wtest") /\ UNCHANGED <<lock, n>>
             /\ \E x \in Bytes : data' = [data EXCEPT ![nwrite % PIPESIZE] = x]
             /\ nwrite' = (nwrite + 1) % WRAP /\ i' = [i EXCEPT ![p] = @ + 1]
    <2>1. i' \in [Procs -> Nat] /\ \A q \in Procs \ {p} : i'[q] = i[q]
      BY <1>1, <1>6 DEF TypeOK
    <2>2. InsideStep(p) /\ pc'[p] = "wtest" /\ \A q \in Procs \ {p} : pc'[q] = pc[q]
      BY <1>1, <1>3, <1>6, <2>1, GotoStep DEF Locked, Writing, Reading
    <2>3. nwrite' \in 0..(WRAP - 1) /\ data' \in [0..(PIPESIZE - 1) -> Bytes]
      BY <1>1, <1>6, SuccMod DEF TypeOK
    <2>4. TypeOK'
      BY <1>1, <1>3, <1>6, <2>1, <2>2, <2>3 DEF TypeOK, InsideStep, PCs
    <2>5. UsedInv'
      <3>1. (nwrite' - nread') % WRAP = ((nwrite - nread) % WRAP) + 1
        BY <1>1, <1>3, <1>6, PutUsed
      <3>2. (nwrite - nread) % WRAP < PIPESIZE
        BY <1>1, <1>6, FullEmpty, PipeAssumption DEF UsedInv
      <3>3. (nwrite - nread) % WRAP \in Nat
        BY <1>1, FullEmpty
      <3>4. QED BY <3>1, <3>2, <3>3, PipeAssumption DEF UsedInv
    <2>6. OwnWait(p)
      BY <2>2 DEF OwnWait, Reading
    <2>7. \A q \in Procs \ {p} : pc'[q] # "wsleep"
      BY <1>4, <1>6, <2>2
    <2>8. QED BY <2>2, <2>4, <2>5, <2>6, <2>7, InsideWait, InsideAll
  <1>7. CASE ~Full /\ WriteDone(p) /\ UNCHANGED <<data, nwrite>>
    <2>1. /\ n' = [n EXCEPT ![p] = 0] /\ i' = [i EXCEPT ![p] = 0] /\ lock' = Nobody
          /\ pc' = [Wake("rsleep") EXCEPT ![p] = "user"]
      BY <1>7 DEF WriteDone, Return
    <2>2. InsideStep(p) /\ pc'[p] = "user" /\ OthersStay(p)
      BY <1>1, <1>3, <2>1, ReturnLocals, LeaveStep DEF Locked, Writing, Reading, InsideStep
    <2>3. TypeOK'
      BY <1>1, <1>3, <1>7, <2>1, <2>2, ReturnLocals DEF TypeOK, InsideStep, PCs
    <2>4. UsedInv'
      BY <1>1, <1>3, <1>7 DEF UsedInv
    <2>5. OwnWait(p)
      BY <2>2 DEF OwnWait, Reading
    <2>6. \A q \in Procs \ {p} : pc'[q] # "wsleep"
      BY <1>4, <1>7, <2>2 DEF OthersStay
    <2>7. QED BY <2>2, <2>3, <2>4, <2>5, <2>6, InsideWait, InsideAll
  <1>8. QED BY <1>5, <1>6, <1>7 DEF write_put

\* The loop of piperead() that waits: nothing of the ring changes.
LEMMA Read_testInv == ASSUME IInv, NEW p \in Procs, read_test(p) PROVE IInv'
  <1>1. TypeOK /\ LockInv /\ UsedInv /\ WaitInv /\ lock = p /\ lock # Nobody
    BY Parts, PipeAssumption DEF LockInv, Locked, read_test
  <1>2. \A q \in Procs \ {p} : pc[q] \notin Locked
    BY <1>1 DEF LockInv
  <1>3. pc[p] = "rtest" /\ UNCHANGED <<alloc, pipe, ends, killed, ch>>
    BY DEF read_test
  <1>4. (\A q \in Procs \ {p} : pc[q] = "wsleep" => Full) /\ n[p] # 0
    BY <1>1, <1>2, <1>3 DEF WaitInv, Locked, Reading
  <1>5. UsedInv' /\ (Full' <=> Full) /\ (Empty' <=> Empty) /\ writeopen' = writeopen
    BY <1>1, <1>3 DEF pipe, UsedInv, Full, Empty
  <1>6. ASSUME NEW l \in {"rcopy", "rblock"}, Goto(p, l), UNCHANGED <<lock, n, i>>,
               l = "rcopy" /\ Empty => writeopen = 0, l = "rblock" => Empty /\ writeopen = 1,
               writeopen = 0 \/ writeopen = 1
        PROVE  IInv'
    <2>1. InsideStep(p) /\ pc'[p] = l /\ \A q \in Procs \ {p} : pc'[q] = pc[q]
      BY <1>1, <1>3, <1>6, GotoStep DEF pipe, Locked, Writing, Reading
    <2>2. TypeOK'
      BY <1>1, <1>3, <1>6, <2>1 DEF TypeOK, InsideStep, PCs, pipe
    <2>3. OwnWait(p)
      BY <1>4, <1>5, <1>6, <2>1 DEF OwnWait
    <2>4. \A q \in Procs \ {p} : pc'[q] = "wsleep" => Full'
      BY <1>4, <1>5, <2>1
    <2>5. QED BY <1>5, <2>1, <2>2, <2>3, <2>4, InsideWait, InsideAll
  <1>7. CASE Empty /\ writeopen = 1 /\ killed[p] = 1 /\ Return(p, pc)
    <2>1. /\ n' = [n EXCEPT ![p] = 0] /\ i' = [i EXCEPT ![p] = 0] /\ lock' = Nobody
          /\ pc' = [pc EXCEPT ![p] = "user"]
      BY <1>7 DEF Return
    <2>2. InsideStep(p) /\ pc'[p] = "user" /\ OthersStay(p)
      BY <1>1, <1>3, <2>1, ReturnLocals, QuietStep DEF pipe, Locked, Writing, Reading, InsideStep
    <2>3. TypeOK'
      BY <1>1, <1>3, <2>1, <2>2, ReturnLocals DEF TypeOK, InsideStep, PCs, pipe
    <2>4. OwnWait(p)
      BY <2>2 DEF OwnWait, Reading
    <2>5. \A q \in Procs \ {p} : pc'[q] = "wsleep" => Full'
      BY <1>4, <1>5, <2>2 DEF OthersStay
    <2>6. QED BY <1>5, <2>2, <2>3, <2>4, <2>5, InsideWait, InsideAll
  <1>8. writeopen = 0 \/ writeopen = 1
    BY <1>1 DEF TypeOK
  <1>9. QED BY <1>6, <1>7, <1>8 DEF read_test

\* sleep() in piperead().
LEMMA Read_sleepInv == ASSUME IInv, NEW p \in Procs, read_sleep(p) PROVE IInv'
  <1>1. TypeOK /\ LockInv /\ UsedInv /\ WaitInv /\ lock = p /\ lock # Nobody
    BY Parts, PipeAssumption DEF LockInv, Locked, read_sleep
  <1>2. \A q \in Procs \ {p} : pc[q] \notin Locked
    BY <1>1 DEF LockInv
  <1>3. /\ pc[p] = "rblock" /\ UNCHANGED <<alloc, pipe, ends, killed, ch, n, i>>
        /\ pc' = [pc EXCEPT ![p] = "rsleep"] /\ lock' = Nobody
    BY DEF read_sleep, Sleep
  <1>4. /\ \A q \in Procs \ {p} : pc[q] = "wsleep" => Full
        /\ n[p] # 0 /\ Empty /\ writeopen = 1
    BY <1>1, <1>2, <1>3 DEF WaitInv, Locked, Reading
  <1>5. UsedInv' /\ (Full' <=> Full) /\ (Empty' <=> Empty) /\ writeopen' = writeopen
    BY <1>1, <1>3 DEF pipe, UsedInv, Full, Empty
  <1>6. InsideStep(p) /\ pc'[p] = "rsleep" /\ \A q \in Procs \ {p} : pc'[q] = pc[q]
    BY <1>1, <1>3, QuietStep DEF pipe, Locked, Writing, Reading
  <1>7. TypeOK'
    BY <1>1, <1>3, <1>6 DEF TypeOK, InsideStep, PCs, pipe
  <1>8. OwnWait(p)
    BY <1>3, <1>4, <1>5, <1>6 DEF OwnWait
  <1>9. \A q \in Procs \ {p} : pc'[q] = "wsleep" => Full'
    BY <1>4, <1>5, <1>6
  <1>10. QED BY <1>5, <1>6, <1>7, <1>8, <1>9, InsideWait, InsideAll

\* The copy loop of piperead(): a byte leaves the ring, and before the lock is
\* given up the writers are woken.
LEMMA Read_copyInv == ASSUME IInv, NEW p \in Procs, read_copy(p) PROVE IInv'
  <1>1. TypeOK /\ LockInv /\ UsedInv /\ WaitInv /\ lock = p /\ lock # Nobody
    BY Parts, PipeAssumption DEF LockInv, Locked, read_copy
  <1>2. /\ pc[p] = "rcopy"
        /\ UNCHANGED <<alloc, data, nwrite, readopen, writeopen, ends, killed>>
    BY DEF read_copy
  <1>3. ASSUME ReadDone(p), ch' \in Bytes, nread' \in 0..(WRAP - 1), UsedInv'
        PROVE  IInv'
    <2>1. /\ n' = [n EXCEPT ![p] = 0] /\ i' = [i EXCEPT ![p] = 0] /\ lock' = Nobody
          /\ pc' = [Wake("wsleep") EXCEPT ![p] = "user"]
      BY <1>3 DEF ReadDone, Return
    <2>2. InsideStep(p) /\ pc'[p] = "user" /\ \A q \in Procs \ {p} : pc'[q] # "wsleep"
      BY <1>1, <1>2, <2>1, ReturnLocals, LeaveStep DEF Locked, Writing, Reading
    <2>3. TypeOK'
      BY <1>1, <1>2, <1>3, <2>1, <2>2, ReturnLocals DEF TypeOK, InsideStep, PCs
    <2>4. OwnWait(p)
      BY <2>2 DEF OwnWait, Reading
    <2>5. QED BY <1>3, <2>2, <2>3, <2>4, InsideWait, InsideAll
  <1>4. CASE (i[p] = n[p] \/ Empty) /\ ReadDone(p) /\ UNCHANGED <<nread, ch>>
    <2>1. ch' \in Bytes /\ nread' \in 0..(WRAP - 1) /\ UsedInv'
      BY <1>1, <1>2, <1>4 DEF TypeOK, UsedInv
    <2>2. QED BY <1>3, <1>4, <2>1
  <1>5. CASE /\ i[p] < n[p] /\ ~Empty
             /\ ch' = data[nread % PIPESIZE] /\ nread' = (nread + 1) % WRAP
             /\ \/ i' = [i EXCEPT ![p] = @ + 1] /\ UNCHANGED <<pc, lock, n>>
                \/ ReadDone(p)
    <2>1. /\ nread \in Nat /\ nread \in 0..(WRAP - 1) /\ nwrite \in Nat
          /\ data \in [0..(PIPESIZE - 1) -> Bytes]
      BY <1>1, PipeAssumption DEF TypeOK
    <2>2. nread % PIPESIZE \in 0..(PIPESIZE - 1)
      BY <2>1, PipeAssumption
    <2>3. ch' \in Bytes /\ nread' \in 0..(WRAP - 1)
      BY <1>5, <2>1, <2>2, SuccMod
    <2>4. UsedInv'
      <3>1. (nwrite' - nread') % WRAP = ((nwrite - nread) % WRAP) - 1
        <4>1. nwrite' = nwrite /\ nread' = (nread + 1) % WRAP
          BY <1>2, <1>5
        <4>2. (nwrite - nread') % WRAP = ((nwrite - nread) % WRAP) - 1
          BY <1>1, <1>5, <2>3, <4>1, GetUsed
        <4>3. QED BY <4>1, <4>2
      <3>2. (nwrite - nread) % WRAP \in Nat
        BY <1>1, FullEmpty
      <3>3. QED BY <1>1, <3>1, <3>2, PipeAssumption DEF UsedInv
    <2>5. CASE i' = [i EXCEPT ![p] = @ + 1] /\ UNCHANGED <<pc, lock, n>>
      <3>1. i' \in [Procs -> Nat] /\ i'[p] # 0 /\ \A q \in Procs \ {p} : i'[q] = i[q]
        BY <1>1, <2>5 DEF TypeOK
      <3>2. TypeOK'
        BY <1>1, <1>2, <2>3, <2>5, <3>1 DEF TypeOK
      <3>3. InsideStep(p) /\ pc'[p] = "rcopy"
        BY <1>1, <1>2, <2>5, <3>1 DEF InsideStep, OthersStay, PCs, TypeOK, Locked, Writing, Reading
      <3>4. n'[p] # 0
        BY <1>1, <1>2, <2>5 DEF WaitInv, Reading
      <3>5. OwnWait(p)
        BY <3>1, <3>3, <3>4 DEF OwnWait
      <3>6. QED BY <2>4, <3>2, <3>3, <3>5, InsideWait, InsideAll
    <2>6. CASE ReadDone(p)
      BY <1>3, <2>3, <2>4, <2>6
    <2>7. QED BY <1>5, <2>5, <2>6
  <1>6. QED BY <1>4, <1>5 DEF read_copy

-----------------------------------------------------------------------------
(* The theorems.                                                           *)

\* The invariant holds in the boot state, ...
LEMMA InitInv == Init => IInv
  <1> SUFFICES ASSUME Init PROVE IInv
    OBVIOUS
  <1>1. (CHOOSE x \in Bytes : TRUE) \in Bytes
    BY PipeAssumption
  <1>2. TypeOK
    BY <1>1, PipeAssumption DEF Init, TypeOK, Writing, Reading
  <1>3. UsedInv
    BY PipeAssumption DEF Init, UsedInv
  <1>4. \A p \in Procs : pc[p] = "user" /\ ends[p] = {} /\ lock # p
    BY PipeAssumption DEF Init
  <1>5. LockInv /\ EndsInv /\ OpenInv /\ AllocInv /\ CloseInv /\ WaitInv
    BY <1>4 DEF Init, LockInv, EndsInv, OpenInv, AllocInv, CloseInv, WaitInv,
                Writing, Reading, Locked
  <1>6. QED BY <1>2, <1>3, <1>5, Parts

\* ... and every step of every process keeps it.
LEMMA StepInv == IInv /\ [Next]_vars => IInv'
  <1> SUFFICES ASSUME IInv, [Next]_vars PROVE IInv'
    OBVIOUS
  <1>1. CASE UNCHANGED vars
    BY <1>1 DEF vars, pipe, IInv, PipeInv, TypeOK, CloseInv, WaitInv, Empty, Full
  <1>2. CASE Next
    <2>1. PICK p \in Procs :
            \/ Kernel(p) \/ pipealloc(p) \/ kill(p)
            \/ \E q \in Procs : fork(p, q)
            \/ \E e \in {"r", "w"} : fileclose(p, e)
            \/ \E k \in Sizes : write(p, k) \/ read(p, k)
      BY <1>2 DEF Next
    <2>2. CASE Kernel(p)
      BY <2>2, PipecloseInv, Write_acquireInv, Write_testInv, Write_putInv, Read_acquireInv,
         Read_testInv, Read_sleepInv, Read_copyInv DEF Kernel
    <2>3. QED BY <2>1, <2>2, PipeallocInv, KillInv, ForkInv, FilecloseInv, WriteInv, ReadInv
  <1>3. QED BY <1>1, <1>2

\* A pipe is freed once, by whoever closes the last of its descriptors, with
\* nobody inside piperead() or pipewrite(); its flags say which ends are open, and
\* it never holds more than PIPESIZE bytes.
THEOREM PipeSafety == Spec => []PipeInv
  <1>1. IInv => PipeInv
    BY DEF IInv
  <1>2. QED BY <1>1, InitInv, StepInv, PTL DEF Spec

\* The process that makes a step is the only one that can leave the loops of
\* piperead() and pipewrite(), and the only one that can move the counters.
LEMMA EofStep ==
  ASSUME IInv, [Next]_vars, NEW p \in Procs,
         pc[p] = "rcopy", pc'[p] = "user", i[p] = 0, nread' = nread
  PROVE  writeopen = 0
  <1>1. TypeOK /\ LockInv /\ WaitInv
    BY Parts
  <1>2. lock = p /\ lock # Nobody
    BY <1>1, PipeAssumption DEF LockInv, Locked
  <1>3. pc' # pc
    OBVIOUS
  <1>4. ~ UNCHANGED vars
    BY <1>3 DEF vars
  <1>5. PICK s \in Procs :
          \/ Kernel(s) \/ pipealloc(s) \/ kill(s)
          \/ \E q \in Procs : fork(s, q)
          \/ \E e \in {"r", "w"} : fileclose(s, e)
          \/ \E k \in Sizes : write(s, k) \/ read(s, k)
    BY <1>4 DEF Next
  <1>6. s = p
    <2>1. ASSUME s # p PROVE FALSE
      <3>1. pc[s] \notin Locked
        BY <1>1, <1>2, <2>1 DEF LockInv
      <3>2. pc'[p] = pc[p]
        BY <1>1, <1>2, <1>5, <2>1, <3>1
           DEF Kernel, pipeclose, write_acquire, write_test, write_put, read_acquire, read_test,
               read_sleep, read_copy, pipealloc, kill, fork, fileclose, write, read, Goto, Locked,
               TypeOK
      <3>3. QED BY <3>2
    <2>2. QED BY <2>1
  <1>7. read_copy(p) \/ kill(p)
    BY <1>5, <1>6 DEF Kernel, pipeclose, write_acquire, write_test, write_put, read_acquire,
         read_test, read_sleep, pipealloc, fork, fileclose, write, read
  <1>8. read_copy(p)
    BY <1>1, <1>7 DEF kill, TypeOK
  <1>9. nread \in 0..(WRAP - 1) /\ (nread + 1) % WRAP # nread
    BY <1>1, SuccMod DEF TypeOK
  <1>10. i[p] = n[p] \/ Empty
    BY <1>8, <1>9 DEF read_copy
  <1>11. Empty
    BY <1>1, <1>10 DEF WaitInv, Reading
  <1>12. QED BY <1>1, <1>11 DEF WaitInv

\* A read that found nothing to read returns 0 only when every writer is gone.
THEOREM PipeEof == Spec => EofOnlyAtEnd
  <1>1. IInv /\ [Next]_vars =>
          [\A p \in Procs : pc[p] = "rcopy" /\ pc'[p] = "user" /\ i[p] = 0 /\ nread' = nread
                            => writeopen = 0]_vars
    BY EofStep
  <1>2. QED BY <1>1, InitInv, StepInv, PTL DEF Spec, EofOnlyAtEnd

\* When the lock is free, everyone asleep has a reason.
LEMMA SleepersWait ==
  ASSUME IInv', lock' = Nobody
  PROVE  /\ \A w \in Procs : pc'[w] = "wsleep" => Full' /\ readopen' = 1
         /\ \A r \in Procs : pc'[r] = "rsleep" => writeopen' = 1
  <1>1. LockInv' /\ WaitInv'
    BY DEF IInv, PipeInv, LockInv
  <1>2. \A r \in Procs : pc'[r] # "rcopy"
    BY <1>1, PipeAssumption DEF LockInv, Locked
  <1>3. QED BY <1>1, <1>2 DEF WaitInv

\* A writer that was not killed leaves no reader asleep in front of its bytes.
LEMMA WriterLeaves ==
  ASSUME IInv, IInv', [Next]_vars, NEW r \in Procs, NEW w \in Procs,
         lock' = Nobody, pc'[r] = "rsleep", lock = w, pc[w] \in Writing, killed[w] = 0
  PROVE  Empty'
  <1>1. TypeOK /\ LockInv /\ EndsInv /\ OpenInv
    BY Parts
  <1>2. lock # Nobody /\ pc[w] \in {"wtest", "wput"}
    BY <1>1, PipeAssumption DEF LockInv, Locked, Writing
  <1>3. PICK s \in Procs :
          \/ Kernel(s) \/ pipealloc(s) \/ kill(s)
          \/ \E q \in Procs : fork(s, q)
          \/ \E e \in {"r", "w"} : fileclose(s, e)
          \/ \E k \in Sizes : write(s, k) \/ read(s, k)
    BY <1>2 DEF Next, vars
  <1>4. s = w
    <2>1. ASSUME s # w PROVE FALSE
      <3>1. pc[s] \notin Locked
        BY <1>1, <1>2, <2>1 DEF LockInv
      <3>2. lock' = lock
        BY <1>2, <1>3, <3>1
           DEF Kernel, pipeclose, write_acquire, write_test, write_put, read_acquire, read_test,
               read_sleep, read_copy, pipealloc, kill, fork, fileclose, write, read, Locked
      <3>3. QED BY <1>2, <3>2
    <2>2. QED BY <2>1
  <1>5. write_test(w) \/ write_put(w)
    BY <1>2, <1>3, <1>4
       DEF Kernel, pipeclose, write_acquire, read_acquire, read_test,
           read_sleep, read_copy, pipealloc, kill, fork, fileclose, write, read
  <1>6. r # w
    BY <1>1, <1>2, <1>5 DEF write_test, write_put, WriteDone, Return, Sleep, Goto, Wake, TypeOK
  <1>7. pc[r] = "rsleep"
    BY <1>1, <1>2, <1>5, <1>6
       DEF write_test, write_put, WriteDone, Return, Sleep, Goto, Wake, TypeOK
  <1>8. readopen = 1
    BY <1>1, <1>7 DEF EndsInv, OpenInv, Reading
  <1>9. ~ WriteDone(w) /\ ~ Sleep(w, Wake("rsleep"), "wsleep")
    BY <1>1, <1>6, <1>7 DEF WriteDone, Return, Sleep, Wake, TypeOK
  <1>10. QED BY <1>2, <1>5, <1>8, <1>9 DEF write_test, write_put, Goto

\* Whenever pi->lock is given up, nobody is left asleep who could go on.
THEOREM PipeNoStuckSleeper == Spec => NoStuckSleeper
  <1>1. IInv /\ IInv' /\ [Next]_vars =>
          [lock' = Nobody =>
             /\ \A w \in Procs : pc'[w] = "wsleep" => Full' /\ readopen' = 1
             /\ \A r \in Procs : pc'[r] = "rsleep" =>
                  /\ writeopen' = 1
                  /\ \A w \in Procs : lock = w /\ pc[w] \in Writing /\ killed[w] = 0 => Empty']_vars
    <2>1. IInv' /\ lock' = Nobody =>
             /\ \A w \in Procs : pc'[w] = "wsleep" => Full' /\ readopen' = 1
             /\ \A r \in Procs : pc'[r] = "rsleep" => writeopen' = 1
      BY SleepersWait
    <2>2. QED BY <2>1, WriterLeaves
  <1>2. QED BY <1>1, InitInv, StepInv, PTL DEF Spec, NoStuckSleeper

-----------------------------------------------------------------------------
(* The ring buffer as a sequence.                                          *)

\* The place in data[] that a counter stands for.
Slot(x) == x % PIPESIZE

\* u bytes of the array d, from the place that counter r stands for.
Ring(d, r, u) == [k \in 1..u |-> d[Slot(r + k - 1)]]

\* A counter that wraps around at WRAP goes on at the next place, ...
LEMMA SlotWrap == ASSUME NEW x \in Int PROVE Slot(x + WRAP) = Slot(x)
  <1>1. PIPESIZE \in Nat /\ PIPESIZE > 0 /\ WRAP \in Nat /\ WRAP % PIPESIZE = 0
    BY PipeAssumption
  <1>2. (x + WRAP) % PIPESIZE = x % PIPESIZE
    BY <1>1, ModAdd
  <1>3. QED BY <1>2 DEF Slot

\* ... and less than PIPESIZE further is another place.
LEMMA SlotsDiffer ==
  ASSUME NEW x \in Int, NEW y \in Int, y > x, y - x < PIPESIZE
  PROVE  Slot(x) # Slot(y)
  <1>1. PICK d \in Int : d = y - x
    OBVIOUS
  <1>2. d \in 1..(PIPESIZE - 1) /\ PIPESIZE \in Nat /\ PIPESIZE > 0 /\ y = x + d
    BY <1>1, PipeAssumption
  <1>3. x % PIPESIZE # (x + d) % PIPESIZE
    BY <1>2, ModDiffer
  <1>4. QED BY <1>2, <1>3 DEF Slot

\* Every counter stands for a place in data[].
LEMMA SlotType == ASSUME NEW x \in Int PROVE Slot(x) \in 0..(PIPESIZE - 1)
  BY PipeAssumption DEF Slot

\* The ring is a sequence of u bytes.
LEMMA RingType ==
  ASSUME NEW d \in [0..(PIPESIZE - 1) -> Bytes], NEW r \in Nat, NEW u \in Nat
  PROVE  /\ Ring(d, r, u) \in Seq(Bytes) /\ Len(Ring(d, r, u)) = u
         /\ \A k \in 1..u : Ring(d, r, u)[k] = d[Slot(r + k - 1)]
  <1>1. ASSUME NEW k \in 1..u PROVE d[Slot(r + k - 1)] \in Bytes
    <2>0. r + k - 1 \in Int
      OBVIOUS
    <2>1. Slot(r + k - 1) \in 0..(PIPESIZE - 1)
      BY <2>0, SlotType
    <2>2. QED BY <2>1
  <1>2. Ring(d, r, u) \in [1..u -> Bytes]
    BY <1>1 DEF Ring
  <1>3. Ring(d, r, u) \in Seq(Bytes) /\ Len(Ring(d, r, u)) = u
    BY <1>2
  <1>4. QED BY <1>3 DEF Ring

\* A byte stored behind the others appends to the sequence.
LEMMA RingPut ==
  ASSUME NEW d \in [0..(PIPESIZE - 1) -> Bytes], NEW r \in Nat, NEW u \in 0..(PIPESIZE - 1),
         NEW x \in Bytes, NEW s \in 0..(PIPESIZE - 1), s = Slot(r + u)
  PROVE  Ring([d EXCEPT ![s] = x], r, u + 1) = Append(Ring(d, r, u), x)
  <1> DEFINE e == [d EXCEPT ![s] = x]
             old == Ring(d, r, u)
             new == Ring(e, r, u + 1)
             app == Append(old, x)
  <1>1. e \in [0..(PIPESIZE - 1) -> Bytes] /\ e[s] = x /\ u \in Nat /\ u + 1 \in Nat
    BY PipeAssumption
  <1>2. \A t \in 0..(PIPESIZE - 1) : t # s => e[t] = d[t]
    OBVIOUS
  <1> HIDE DEF e
  <1>3. /\ old \in Seq(Bytes) /\ Len(old) = u
        /\ \A k \in 1..u : old[k] = d[Slot(r + k - 1)]
    BY <1>1, RingType
  <1>4. /\ new \in Seq(Bytes) /\ Len(new) = u + 1
        /\ \A k \in 1..(u + 1) : new[k] = e[Slot(r + k - 1)]
    BY <1>1, RingType
  <1>5. /\ app \in Seq(Bytes) /\ Len(app) = u + 1 /\ app[u + 1] = x
        /\ \A k \in 1..u : app[k] = old[k]
    BY <1>3, AppendProperties
  <1> HIDE DEF e, old, new, app
  <1>6. ASSUME NEW k \in 1..u PROVE new[k] = app[k]
    <2>0. r + k - 1 \in Int
      OBVIOUS
    <2>1. Slot(r + k - 1) \in 0..(PIPESIZE - 1)
      BY <2>0, SlotType
    <2>2. /\ r + k - 1 \in Int /\ r + u \in Int
          /\ r + u > r + k - 1 /\ (r + u) - (r + k - 1) < PIPESIZE
      BY PipeAssumption
    <2>3. Slot(r + k - 1) # s
      BY <2>2, SlotsDiffer
    <2>4. k \in 1..(u + 1)
      BY <1>1
    <2>5. new[k] = e[Slot(r + k - 1)] /\ app[k] = d[Slot(r + k - 1)]
      BY <1>3, <1>4, <1>5, <2>4
    <2>6. QED BY <1>2, <2>1, <2>3, <2>5
  <1>7. new[u + 1] = x
    <2>1. u + 1 \in 1..(u + 1) /\ r + (u + 1) - 1 = r + u
      BY <1>1
    <2>2. QED BY <1>1, <1>4, <2>1
  <1>8. \A k \in 1..(u + 1) : new[k] = app[k]
    <2>1. \A k \in 1..(u + 1) : k \in 1..u \/ k = u + 1
      BY <1>1
    <2>2. QED BY <1>5, <1>6, <1>7, <2>1
  <1>9. new = app
    <2>1. Len(new) = Len(app) /\ \A k \in 1..Len(new) : new[k] = app[k]
      BY <1>4, <1>5, <1>8
    <2>2. QED BY <1>4, <1>5, <2>1, SeqEqual
  <1>10. QED BY <1>9 DEF new, app, old, e

\* The places from counter t on are those behind counter r.
Follows(t, r) == \A j \in Nat : Slot(t + j) = Slot(r + 1 + j)

\* A byte taken from the front leaves the tail of the sequence.
LEMMA RingGet ==
  ASSUME NEW d \in [0..(PIPESIZE - 1) -> Bytes], NEW r \in Nat, NEW u \in Nat, u > 0,
         NEW t \in Nat, Follows(t, r)
  PROVE  /\ Ring(d, r, u) # <<>>
         /\ Head(Ring(d, r, u)) = d[Slot(r)]
         /\ Tail(Ring(d, r, u)) = Ring(d, t, u - 1)
  <1> DEFINE old == Ring(d, r, u)
             new == Ring(d, t, u - 1)
  <1>0. u - 1 \in Nat
    OBVIOUS
  <1>1. /\ old \in Seq(Bytes) /\ Len(old) = u
        /\ \A k \in 1..u : old[k] = d[Slot(r + k - 1)]
    BY RingType
  <1>2. /\ new \in Seq(Bytes) /\ Len(new) = u - 1
        /\ \A k \in 1..(u - 1) : new[k] = d[Slot(t + k - 1)]
    BY <1>0, RingType
  <1> HIDE DEF old, new
  <1>3. old # <<>> /\ Head(old) = old[1]
    BY <1>1
  <1>4. old[1] = d[Slot(r)]
    <2>1. 1 \in 1..u /\ r + 1 - 1 = r
      OBVIOUS
    <2>2. QED BY <1>1, <2>1
  <1>5. /\ Tail(old) \in Seq(Bytes) /\ Len(Tail(old)) = u - 1
        /\ \A k \in 1..(u - 1) : Tail(old)[k] = old[k + 1]
    BY <1>1, <1>3, HeadTailProperties
  <1>6. ASSUME NEW k \in 1..(u - 1) PROVE Tail(old)[k] = new[k]
    <2>1. k - 1 \in Nat /\ k + 1 \in 1..u /\ t + k - 1 = t + (k - 1)
          /\ r + (k + 1) - 1 = r + 1 + (k - 1)
      OBVIOUS
    <2>2. Slot(t + k - 1) = Slot(r + (k + 1) - 1)
      BY <2>1 DEF Follows
    <2>3. QED BY <1>1, <1>2, <1>5, <2>1, <2>2
  <1>7. Tail(old) = new
    <2>1. Len(Tail(old)) = Len(new) /\ \A k \in 1..Len(Tail(old)) : Tail(old)[k] = new[k]
      BY <1>2, <1>5, <1>6
    <2>2. QED BY <1>2, <1>5, <2>1, SeqEqual
  <1>8. QED BY <1>3, <1>4, <1>7 DEF old, new

-----------------------------------------------------------------------------
(* The pipe implements the stream.                                         *)

\* The stream that BS is instantiated with.
Bar == IF alloc = 1 THEN Stream ELSE <<>>

\* The stream is the ring between nread and nwrite, before and after a step.
LEMMA BarIsRing ==
  ASSUME TypeOK
  PROVE  /\ (nwrite - nread) % WRAP \in Nat /\ nread \in Nat
         /\ alloc = 1 => Bar = Ring(data, nread, (nwrite - nread) % WRAP)
         /\ alloc # 1 => Bar = <<>>
  BY FullEmpty DEF Bar, Stream, Ring, Slot, TypeOK

LEMMA BarIsRingPrime ==
  ASSUME TypeOK'
  PROVE  /\ alloc' = 1 => Bar' = Ring(data', nread', (nwrite' - nread') % WRAP)
         /\ alloc' # 1 => Bar' = <<>>
  BY DEF Bar, Stream, Ring, Slot

\* An empty ring is an empty stream.
LEMMA RingEmpty ==
  ASSUME NEW d \in [0..(PIPESIZE - 1) -> Bytes], NEW r \in Nat
  PROVE  Ring(d, r, 0) = <<>>
  <1>1. Ring(d, r, 0) \in Seq(Bytes) /\ Len(Ring(d, r, 0)) = 0
    BY RingType
  <1>2. QED BY <1>1, EmptySeq

\* Nothing happens to the stream in a step that leaves the ring alone.
LEMMA BarUnchanged ==
  ASSUME UNCHANGED <<alloc, data, nread, nwrite>>
  PROVE  Bar' = Bar
  BY DEF Bar, Stream

\* Where the next byte goes is behind the last one, also when nwrite has wrapped
\* around and nread has not.
LEMMA NextSlot ==
  ASSUME TypeOK, NEW u \in Int, u = (nwrite - nread) % WRAP
  PROVE  Slot(nwrite) = Slot(nread + u)
  <1>1. nread \in 0..(WRAP - 1) /\ nwrite \in 0..(WRAP - 1)
    BY DEF TypeOK
  <1>2. u = IF nread <= nwrite THEN nwrite - nread ELSE nwrite - nread + WRAP
    BY <1>1, UsedMod
  <1>3. CASE nread <= nwrite
    <2>1. nread + u = nwrite
      BY <1>1, <1>2, <1>3
    <2>2. QED BY <2>1
  <1>4. CASE ~(nread <= nwrite)
    <2>1. nread + u = nwrite + WRAP
      BY <1>1, <1>2, <1>4, PipeAssumption
    <2>2. QED BY <1>1, <2>1, SlotWrap
  <1>5. QED BY <1>3, <1>4

\* The places behind nread are the same before and after it wraps around.
LEMMA NextRead ==
  ASSUME TypeOK, NEW t \in 0..(WRAP - 1), t = (nread + 1) % WRAP, NEW j \in Nat
  PROVE  Slot(t + j) = Slot(nread + 1 + j)
  <1>1. nread \in 0..(WRAP - 1)
    BY DEF TypeOK
  <1>2. t = IF nread = WRAP - 1 THEN 0 ELSE nread + 1
    BY <1>1, SuccMod
  <1>3. CASE nread = WRAP - 1
    <2>1. t + j = j /\ nread + 1 + j = j + WRAP
      BY <1>1, <1>2, <1>3, PipeAssumption
    <2>2. QED BY <2>1, SlotWrap
  <1>4. CASE nread # WRAP - 1
    BY <1>2, <1>4
  <1>5. QED BY <1>3, <1>4

\* A byte put into the ring.
LEMMA PutStep ==
  ASSUME IInv, IInv', alloc = 1, alloc' = 1, ~Full, nread' = nread, ch' = ch,
         nwrite' = (nwrite + 1) % WRAP, NEW x \in Bytes,
         data' = [data EXCEPT ![Slot(nwrite)] = x]
  PROVE  Len(Bar) < PIPESIZE /\ Bar' = Append(Bar, x)
  <1>1. TypeOK /\ UsedInv /\ TypeOK'
    BY DEF IInv, PipeInv, UsedInv
  <1>2. PICK u \in Nat : u = (nwrite - nread) % WRAP
    BY <1>1, BarIsRing
  <1>3. u < PIPESIZE /\ u \in 0..(PIPESIZE - 1)
    BY <1>1, <1>2, FullEmpty, PipeAssumption DEF UsedInv
  <1>4. (nwrite' - nread') % WRAP = u + 1
    BY <1>1, <1>2, PutUsed
  <1>5. data \in [0..(PIPESIZE - 1) -> Bytes] /\ nread \in Nat
    BY <1>1, BarIsRing DEF TypeOK
  <1>6. Bar = Ring(data, nread, u) /\ Len(Bar) = u
    BY <1>1, <1>2, <1>5, BarIsRing, RingType
  <1>7. Bar' = Ring(data', nread, u + 1)
    BY <1>1, <1>4, BarIsRingPrime
  <1>8. PICK s \in 0..(PIPESIZE - 1) : s = Slot(nwrite) /\ s = Slot(nread + u)
    <2>1. nwrite \in Int
      BY <1>1 DEF TypeOK
    <2>2. QED BY <1>1, <1>2, <2>1, NextSlot, SlotType
  <1>9. data' = [data EXCEPT ![s] = x]
    BY <1>8
  <1>10. Ring([data EXCEPT ![s] = x], nread, u + 1) = Append(Ring(data, nread, u), x)
    BY <1>3, <1>5, <1>8, RingPut
  <1>11. QED BY <1>3, <1>6, <1>7, <1>9, <1>10

\* A byte taken out of it.
LEMMA GetStep ==
  ASSUME IInv, IInv', alloc = 1, alloc' = 1, ~Empty, nwrite' = nwrite, data' = data,
         nread' = (nread + 1) % WRAP
  PROVE  Bar # <<>> /\ Head(Bar) = data[Slot(nread)] /\ Bar' = Tail(Bar)
  <1>1. TypeOK /\ TypeOK'
    BY DEF IInv, PipeInv
  <1>2. PICK u \in Nat : u = (nwrite - nread) % WRAP
    BY <1>1, BarIsRing
  <1>3. u > 0
    BY <1>1, <1>2, FullEmpty
  <1>4. PICK t \in 0..(WRAP - 1) : t = nread' /\ t = (nread + 1) % WRAP
    BY <1>1 DEF TypeOK
  <1>5. (nwrite - t) % WRAP = u - 1
    BY <1>1, <1>2, <1>4, GetUsed
  <1>6. data \in [0..(PIPESIZE - 1) -> Bytes] /\ nread \in Nat /\ t \in Nat
    BY <1>1, BarIsRing, PipeAssumption DEF TypeOK
  <1>7. Bar = Ring(data, nread, u)
    BY <1>1, <1>2, BarIsRing
  <1>8. Bar' = Ring(data, t, u - 1)
    BY <1>1, <1>4, <1>5, BarIsRingPrime
  <1>9. Follows(t, nread)
    BY <1>1, <1>4, NextRead DEF Follows
  <1>10. /\ Ring(data, nread, u) # <<>>
         /\ Head(Ring(data, nread, u)) = data[Slot(nread)]
         /\ Tail(Ring(data, nread, u)) = Ring(data, t, u - 1)
    BY <1>3, <1>6, <1>9, RingGet, ZenonT(30)
  <1>11. QED BY <1>7, <1>8, <1>10

\* Every step of the pipe is one of the stream, or leaves the stream alone.
LEMMA RefStep ==
  ASSUME IInv, IInv', [Next]_vars
  PROVE  [BS!SNext]_<<Bar, ch>>
  <1>1. TypeOK /\ TypeOK' /\ AllocInv /\ OpenInv /\ EndsInv
    BY DEF IInv, PipeInv, AllocInv, OpenInv, EndsInv
  <1>2. CASE UNCHANGED <<alloc, data, nread, nwrite, ch>>
    BY <1>2, BarUnchanged
  <1>3. ASSUME NEW p \in Procs, pipealloc(p) PROVE UNCHANGED <<Bar, ch>>
    <2>1. alloc = 0 /\ alloc' = 1 /\ nread' = 0 /\ nwrite' = 0 /\ data' = data /\ ch' = ch
      BY <1>3 DEF pipealloc
    <2>2. (nwrite' - nread') % WRAP = 0
      BY <2>1, PipeAssumption
    <2>3. Bar' = Ring(data, 0, 0) /\ Bar = <<>>
      BY <1>1, <2>1, <2>2, BarIsRing, BarIsRingPrime
    <2>4. QED BY <1>1, <2>1, <2>3, RingEmpty DEF TypeOK
  <1>4. ASSUME NEW p \in Procs, pipeclose(p) PROVE [BS!SNext]_<<Bar, ch>>
    <2>1. UNCHANGED <<data, nread, nwrite, ch>> /\ alloc' = IF BothClosed THEN 0 ELSE alloc
      BY <1>4 DEF pipeclose
    <2>2. CASE alloc' = alloc
      BY <2>1, <2>2, BarUnchanged
    <2>3. CASE alloc' = 0
      <3>1. Bar' = <<>>
        BY <1>1, <2>3, BarIsRingPrime
      <3>2. BS!Close
        BY <2>1, <3>1 DEF BS!Close, Bar
      <3>3. QED BY <3>2 DEF BS!SNext
    <2>4. QED BY <2>1, <2>2, <2>3
  <1>5. ASSUME NEW p \in Procs, write_put(p), ~ UNCHANGED <<data, nwrite>>
        PROVE  BS!SNext
    <2>1. /\ pc[p] = "wput" /\ ~Full /\ nwrite' = (nwrite + 1) % WRAP
          /\ \E x \in Bytes : data' = [data EXCEPT ![Slot(nwrite)] = x]
          /\ alloc' = alloc /\ nread' = nread /\ ch' = ch
      BY <1>5 DEF write_put, Slot
    <2>2. alloc = 1
      BY <1>1, <2>1 DEF EndsInv, OpenInv, AllocInv, Writing
    <2>3. PICK x \in Bytes : data' = [data EXCEPT ![Slot(nwrite)] = x]
      BY <2>1
    <2>4. Len(Bar) < PIPESIZE /\ Bar' = Append(Bar, x)
      BY <2>1, <2>2, <2>3, PutStep
    <2>5. BS!Put(x)
      BY <2>1, <2>4 DEF BS!Put, Bar
    <2>6. QED BY <2>5 DEF BS!SNext
  <1>6. ASSUME NEW p \in Procs, read_copy(p), ~ UNCHANGED <<nread, ch>>
        PROVE  BS!SNext
    <2>1. /\ pc[p] = "rcopy" /\ ~Empty /\ nread' = (nread + 1) % WRAP
          /\ ch' = data[Slot(nread)] /\ alloc' = alloc /\ nwrite' = nwrite /\ data' = data
      BY <1>6 DEF read_copy, Slot
    <2>2. alloc = 1
      BY <1>1, <2>1 DEF EndsInv, OpenInv, AllocInv, Reading
    <2>3. Bar # <<>> /\ Head(Bar) = data[Slot(nread)] /\ Bar' = Tail(Bar)
      BY <2>1, <2>2, GetStep
    <2>4. BS!Get
      BY <2>1, <2>3 DEF BS!Get, Bar
    <2>5. QED BY <2>4 DEF BS!SNext
  <1>7. \/ UNCHANGED <<alloc, data, nread, nwrite, ch>>
        \/ \E p \in Procs : pipealloc(p) \/ pipeclose(p)
        \/ \E p \in Procs : write_put(p) /\ ~ UNCHANGED <<data, nwrite>>
        \/ \E p \in Procs : read_copy(p) /\ ~ UNCHANGED <<nread, ch>>
    BY DEF Next, Kernel, vars, pipe, write_acquire, write_test, write_put, read_acquire, read_test,
           read_sleep, read_copy, kill, fork, fileclose, write, read
  <1>8. QED BY <1>2, <1>3, <1>4, <1>5, <1>6, <1>7

\* The pipe is a bounded first-in first-out stream, for every PIPESIZE and every
\* width of the counters that PIPESIZE divides.
THEOREM PipeIsFifo == Spec => Fifo
  <1>1. Init => BS!SInit
    <2>1. Init => ch \in Bytes
      BY PipeAssumption DEF Init
    <2>2. QED BY <2>1 DEF Init, BS!SInit
  <1>2. IInv /\ IInv' /\ [Next]_vars =>
          [BS!SNext]_<<IF alloc = 1 THEN Stream ELSE <<>>, ch>>
    BY RefStep DEF Bar
  <1>3. QED BY <1>1, <1>2, InitInv, StepInv, PTL DEF Spec, Fifo, BS!SSpec
=============================================================================
