-------------------------------- MODULE Pipe --------------------------------
(***************************************************************************)
(* A pipe of kernel/pipe.c: pipealloc, pipeclose, pipewrite, piperead, the *)
(* descriptors of its two ends that fork() duplicates and close() drops    *)
(* (fileclose() in file.c), and kill().                                    *)
(*                                                                         *)
(* pi->lock is held over the loops and given up in sleep(); killed() is    *)
(* asked under the process's own lock, so a kill() may come between any    *)
(* two steps.  A loop is one step per byte.                                *)
(***************************************************************************)
EXTENDS Integers, FiniteSets

CONSTANTS Procs,     \* processes
          Bytes,     \* values of a byte
          PIPESIZE,
          WRAP,      \* 2^32: nread and nwrite are unsigned 32-bit counters
          Sizes,     \* values of n, the bytes a read or write asks for
          Killable,  \* processes kill() is called for
          Nobody     \* holder of a free lock

ASSUME PipeAssumption ==
  /\ PIPESIZE \in Nat \ {0} /\ WRAP \in Nat /\ WRAP > PIPESIZE /\ WRAP % PIPESIZE = 0
  /\ Sizes \subseteq Nat \ {0} /\ Killable \subseteq Procs /\ Nobody \notin Procs /\ Bytes # {}

VARIABLES
  alloc,               \* the pipe exists: its page has not been freed
  data, nread, nwrite, readopen, writeopen, lock,   \* struct pipe
  ends,                \* per process: the ends it has a descriptor of
  killed, pc, n, i,    \* per process: p->killed, control point, locals
  ch                   \* the byte last taken out of data[]

pipe == <<data, nread, nwrite, readopen, writeopen>>
vars == <<alloc, pipe, lock, ends, killed, pc, n, i, ch>>

Goto(p, l) == pc' = [pc EXCEPT ![p] = l]

Init ==
  /\ alloc = 0 /\ data \in [0..(PIPESIZE - 1) -> {CHOOSE x \in Bytes : TRUE}]
  /\ nread = 0 /\ nwrite = 0 /\ readopen = 0 /\ writeopen = 0 /\ lock = Nobody
  /\ ends = [p \in Procs |-> {}] /\ killed = [p \in Procs |-> 0]
  /\ pc = [p \in Procs |-> "user"] /\ n = [p \in Procs |-> 0] /\ i = [p \in Procs |-> 0]
  /\ ch = CHOOSE x \in Bytes : TRUE

Empty == nread = nwrite
\* Fault: the ring is taken to be one byte larger.
FullLate == nwrite = (nread + PIPESIZE + 1) % WRAP
Full  == nwrite = (nread + PIPESIZE) % WRAP

\* wakeup(): the processes that sleep at control point l take the lock again.
\* (sleep() on &pi->nread is "rsleep", on &pi->nwrite "wsleep".)
Wake(l) == [q \in Procs |-> IF pc[q] = l THEN (IF l = "rsleep" THEN "rwoken" ELSE "write")
                                         ELSE pc[q]]
\* release() of pi->lock, to sleep, or back to user space, where the locals are gone.
Sleep(p, f, l) == lock' = Nobody /\ pc' = [f EXCEPT ![p] = l] /\ UNCHANGED <<n, i>>
Return(p, f) == /\ lock' = Nobody /\ pc' = [f EXCEPT ![p] = "user"]
                /\ n' = [n EXCEPT ![p] = 0] /\ i' = [i EXCEPT ![p] = 0]

-----------------------------------------------------------------------------
(* Descriptors.                                                            *)

pipealloc(p) ==
  /\ pc[p] = "user" /\ killed[p] = 0 /\ alloc = 0
  /\ alloc' = 1 /\ readopen' = 1 /\ writeopen' = 1 /\ nread' = 0 /\ nwrite' = 0
  /\ ends' = [ends EXCEPT ![p] = {"r", "w"}]
  /\ UNCHANGED <<data, lock, killed, pc, n, i, ch>>

\* fork(): a new process q, with a reference to each file of p (filedup()).
fork(p, q) ==
  /\ pc[p] = "user" /\ killed[p] = 0 /\ ends[p] # {}
  /\ pc[q] = "user" /\ ends[q] = {} /\ q # p
  /\ ends' = [ends EXCEPT ![q] = ends[p]] /\ killed' = [killed EXCEPT ![q] = 0]
  /\ UNCHANGED <<alloc, pipe, lock, pc, n, i, ch>>

\* close(), or exit() closing everything: fileclose() drops a reference, and goes
\* on to pipeclose() with the last one.
fileclose(p, e) ==
  /\ pc[p] = "user" /\ e \in ends[p]
  /\ ends' = [ends EXCEPT ![p] = @ \ {e}]
  /\ IF \E q \in Procs \ {p} : e \in ends[q] THEN UNCHANGED pc
     ELSE Goto(p, IF e = "w" THEN "close_w" ELSE "close_r")
  /\ UNCHANGED <<alloc, pipe, lock, killed, n, i, ch>>

\* Fault: the pipe is freed when the first of its ends is closed.
EitherClosed == readopen' = 0 \/ writeopen' = 0
BothClosed == readopen' = 0 /\ writeopen' = 0

pipeclose(p) ==
  /\ lock = Nobody
  /\ \/ /\ pc[p] = "close_w" /\ writeopen' = 0 /\ UNCHANGED readopen
        /\ pc' = [Wake("rsleep") EXCEPT ![p] = "user"]
     \/ /\ pc[p] = "close_r" /\ readopen' = 0 /\ UNCHANGED writeopen
        /\ pc' = [Wake("wsleep") EXCEPT ![p] = "user"]
  /\ alloc' = IF BothClosed THEN 0 ELSE alloc
  /\ UNCHANGED <<data, nread, nwrite, lock, ends, killed, n, i, ch>>

-----------------------------------------------------------------------------
(* pipewrite().                                                            *)

write(p, k) ==
  /\ pc[p] = "user" /\ killed[p] = 0 /\ "w" \in ends[p]
  /\ n' = [n EXCEPT ![p] = k] /\ i' = [i EXCEPT ![p] = 0] /\ Goto(p, "write")
  /\ UNCHANGED <<alloc, pipe, lock, ends, killed, ch>>

write_acquire(p) ==
  /\ pc[p] = "write" /\ lock = Nobody /\ lock' = p /\ Goto(p, "wtest")
  /\ UNCHANGED <<alloc, pipe, ends, killed, n, i, ch>>

\* wakeup(&pi->nread) and return i.
WriteDone(p) == Return(p, Wake("rsleep"))

write_test(p) ==
  /\ pc[p] = "wtest"
  /\ \/ i[p] = n[p] /\ WriteDone(p)
     \/ i[p] < n[p] /\ (readopen = 0 \/ killed[p] = 1) /\ Return(p, pc)
     \/ /\ i[p] < n[p] /\ readopen = 1 /\ killed[p] = 0
        /\ Goto(p, "wput") /\ UNCHANGED <<lock, n, i>>
  /\ UNCHANGED <<alloc, pipe, ends, killed, ch>>

\* One byte, unless copyin() fails; or sleep until there is room.
write_put(p) ==
  /\ pc[p] = "wput"
  /\ \/ Full /\ Sleep(p, Wake("rsleep"), "wsleep") /\ UNCHANGED <<data, nwrite>>
     \/ /\ ~Full /\ Goto(p, "wtest") /\ UNCHANGED <<lock, n>>
        /\ \E x \in Bytes : data' = [data EXCEPT ![nwrite % PIPESIZE] = x]
        /\ nwrite' = (nwrite + 1) % WRAP /\ i' = [i EXCEPT ![p] = @ + 1]
     \/ ~Full /\ WriteDone(p) /\ UNCHANGED <<data, nwrite>>
  /\ UNCHANGED <<alloc, nread, readopen, writeopen, ends, killed, ch>>

-----------------------------------------------------------------------------
(* piperead().                                                             *)

read(p, k) ==
  /\ pc[p] = "user" /\ killed[p] = 0 /\ "r" \in ends[p]
  /\ n' = [n EXCEPT ![p] = k] /\ i' = [i EXCEPT ![p] = 0] /\ Goto(p, "read")
  /\ UNCHANGED <<alloc, pipe, lock, ends, killed, ch>>

\* Fault: a reader that was woken does not ask again whether there is something.
TestedOnce(p) == IF pc[p] = "rwoken" THEN "rcopy" ELSE "rtest"
Retest(p) == "rtest"

read_acquire(p) ==
  /\ pc[p] \in {"read", "rwoken"} /\ lock = Nobody /\ lock' = p /\ Goto(p, Retest(p))
  /\ UNCHANGED <<alloc, pipe, ends, killed, n, i, ch>>

read_test(p) ==
  /\ pc[p] = "rtest"
  /\ \/ ~(Empty /\ writeopen = 1) /\ Goto(p, "rcopy") /\ UNCHANGED <<lock, n, i>>
     \/ Empty /\ writeopen = 1 /\ killed[p] = 1 /\ Return(p, pc)
     \/ Empty /\ writeopen = 1 /\ killed[p] = 0 /\ Goto(p, "rblock") /\ UNCHANGED <<lock, n, i>>
  /\ UNCHANGED <<alloc, pipe, ends, killed, ch>>

read_sleep(p) ==
  /\ pc[p] = "rblock" /\ Sleep(p, pc, "rsleep")
  /\ UNCHANGED <<alloc, pipe, ends, killed, ch>>

\* Fault: the writer is not told that there is room.
ReadSilent(p) == Return(p, pc)
\* wakeup(&pi->nwrite) and return i.
ReadDone(p) == Return(p, Wake("wsleep"))

\* One byte; when copyout() fails, the byte is gone all the same.
read_copy(p) ==
  /\ pc[p] = "rcopy"
  /\ \/ (i[p] = n[p] \/ Empty) /\ ReadDone(p) /\ UNCHANGED <<nread, ch>>
     \/ /\ i[p] < n[p] /\ ~Empty
        /\ ch' = data[nread % PIPESIZE] /\ nread' = (nread + 1) % WRAP
        /\ \/ i' = [i EXCEPT ![p] = @ + 1] /\ UNCHANGED <<pc, lock, n>>
           \/ ReadDone(p)
  /\ UNCHANGED <<alloc, data, nwrite, readopen, writeopen, ends, killed>>

-----------------------------------------------------------------------------
\* kill(): the victim leaves sleep(), and looks at the flag where the code does.
kill(p) ==
  /\ p \in Killable /\ killed[p] = 0 /\ ends[p] # {}
  /\ killed' = [killed EXCEPT ![p] = 1]
  /\ pc' = [pc EXCEPT ![p] = CASE @ = "rsleep" -> "rwoken" [] @ = "wsleep" -> "write"
                               [] OTHER -> @]
  /\ UNCHANGED <<alloc, pipe, lock, ends, n, i, ch>>

Kernel(p) == \/ pipeclose(p) \/ write_acquire(p) \/ write_test(p) \/ write_put(p)
             \/ read_acquire(p) \/ read_test(p) \/ read_sleep(p) \/ read_copy(p)

Next == \E p \in Procs :
          \/ Kernel(p) \/ pipealloc(p) \/ kill(p)
          \/ \E q \in Procs : fork(p, q)
          \/ \E e \in {"r", "w"} : fileclose(p, e)
          \/ \E k \in Sizes : write(p, k) \/ read(p, k)

Spec == Init /\ [][Next]_vars

-----------------------------------------------------------------------------
(* Properties.                                                             *)

Writing == {"write", "wtest", "wput", "wsleep"}
Reading == {"read", "rwoken", "rtest", "rblock", "rcopy", "rsleep"}
Locked == {"wtest", "wput", "rtest", "rblock", "rcopy"}

TypeOK ==
  /\ alloc \in {0, 1} /\ data \in [0..(PIPESIZE - 1) -> Bytes]
  /\ nread \in 0..(WRAP - 1) /\ nwrite \in 0..(WRAP - 1)
  /\ readopen \in {0, 1} /\ writeopen \in {0, 1} /\ lock \in Procs \cup {Nobody}
  /\ ends \in [Procs -> SUBSET {"r", "w"}] /\ killed \in [Procs -> {0, 1}]
  /\ pc \in [Procs -> Writing \cup Reading \cup {"user", "close_r", "close_w"}]
  /\ n \in [Procs -> Sizes \cup {0}] /\ i \in [Procs -> Nat] /\ ch \in Bytes

\* A pipe lives as long as it has a descriptor: it is freed once, by the last
\* pipeclose(), with nobody inside piperead() or pipewrite(), and its flags say
\* which of its ends are open.
PipeInv ==
  /\ TypeOK
  /\ \A p \in Procs : lock = p <=> pc[p] \in Locked
  /\ \A p \in Procs : /\ pc[p] \in Writing => "w" \in ends[p]
                      /\ pc[p] \in Reading => "r" \in ends[p]
  /\ (nwrite - nread) % WRAP <= PIPESIZE
  /\ writeopen = 1 <=> \E p \in Procs : "w" \in ends[p] \/ pc[p] = "close_w"
  /\ readopen = 1 <=> \E p \in Procs : "r" \in ends[p] \/ pc[p] = "close_r"
  /\ alloc = 1 <=> readopen = 1 \/ writeopen = 1

\* The ring buffer is a FIFO stream, also when the counters wrap around.
Stream == [k \in 1..((nwrite - nread) % WRAP) |-> data[(nread + k - 1) % PIPESIZE]]
BS == INSTANCE ByteStream WITH stream <- IF alloc = 1 THEN Stream ELSE <<>>
Fifo == BS!SSpec

\* A read returns without a byte only when no writer is left, or because
\* copyout() failed.
EofOnlyAtEnd ==
  [][\A p \in Procs : pc[p] = "rcopy" /\ pc'[p] = "user" /\ i[p] = 0 /\ nread' = nread
                      => writeopen = 0]_vars

\* Whenever pi->lock is given up, nobody is left asleep who could go on: a writer
\* sleeps only in front of a full pipe with a reader, a reader only while there is
\* a writer; and whoever leaves pipewrite(), to sleep or to return, leaves no
\* reader asleep in front of a pipe with bytes in it (unless he was killed, when
\* the code returns without the wakeup).
NoStuckSleeper ==
  [][lock' = Nobody =>
       /\ \A w \in Procs : pc'[w] = "wsleep" => Full' /\ readopen' = 1
       /\ \A r \in Procs : pc'[r] = "rsleep" =>
            /\ writeopen' = 1
            /\ \A w \in Procs : lock = w /\ pc[w] \in Writing /\ killed[w] = 0 => Empty']_vars

=============================================================================
