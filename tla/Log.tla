-------------------------------- MODULE Log ---------------------------------
(***************************************************************************)
(* The redo log of kernel/log.c: begin_op/end_op transactions shared by    *)
(* several processes, log_write with absorption and pinning, the commit    *)
(* sequence write_log, write_head, install_trans, write_head, and recovery *)
(* after a crash at any point, also in the middle of a block write.        *)
(*                                                                         *)
(* A step is what runs under log.lock, or one disk write; the buffer cache *)
(* (bio.c) appears as the cached copy, the lock and the pin count of each  *)
(* home block.  sleep()/wakeup() are atomic with respect to the lock they  *)
(* are given, as module Proc shows of wait().  A panic stops the process   *)
(* inside log.lock, and with it everything that needs the lock.            *)
(***************************************************************************)
EXTENDS Integers, Sequences, FiniteSets, Functions

CONSTANTS Procs,        \* processes
          InitProc,     \* the process whose forkret() calls fsinit()
          Blocks,       \* home block numbers
          Vals,         \* contents of a block
          Torn,         \* content of a block whose write a crash cut short
          NotCached,    \* marks a block with no buffer in the cache
          Nobody,       \* holder of an unlocked buffer
          MAXOPBLOCKS,  \* param.h: log blocks reserved for each operation
          OPBLOCKS,     \* distinct blocks an operation in fact writes, at most
          LOGSIZE,      \* param.h: data blocks admitted to the log
          NLOG,         \* superblock's nlog: blocks of the on-disk log, header included
          MaxOps,       \* bound on the file system calls made
          MaxCrashes    \* bound on the crashes

ASSUME LogAssumption ==
  /\ InitProc \in Procs /\ Nobody \notin Procs
  /\ IsFiniteSet(Procs) /\ Vals # {}
  /\ Torn \notin Vals /\ NotCached \notin Vals \cup {Torn}
  /\ MAXOPBLOCKS \in Nat \ {0} /\ OPBLOCKS \in Nat \ {0}
  /\ LOGSIZE \in Nat \ {0} /\ NLOG \in Nat \ {0} /\ MAXOPBLOCKS <= LOGSIZE
  /\ MaxOps \in Nat /\ MaxCrashes \in Nat

VARIABLES
  home,         \* disk: the home location of each block
  logData,      \* disk: data block i of the log
  logHead,      \* disk: the header block, the logged block numbers in order
  buf,          \* memory: cached data of each block
  pins,         \* memory: bpin() references to each buffer
  holder,       \* memory: process holding each buffer's sleep-lock
  outstanding,  \* log.outstanding
  committing,   \* log.committing, an int used as a flag
  lh,           \* log.lh.block[0..n-1]
  panicked,     \* the message of the panic() that stopped the kernel, or "no"
  pc, tail, wrote,        \* per process: control point, loop index, and
                          \* the blocks written by its operation
  ops, crashes            \* calls made and crashes so far (bounds)

disk == <<home, logData, logHead>>
mem  == <<buf, pins, holder>>
log  == <<outstanding, committing, lh, panicked>>
loc  == <<pc, tail, wrote>>
vars == <<disk, mem, log, loc, ops, crashes>>

Goto(p, l) == pc' = [pc EXCEPT ![p] = l]
Running == panicked = "no"

BootPc   == {"read_head", "recover_install", "recover_erase"}
OpPc     == {"op", "held", "dirty", "logged"}
CommitPc == {"commit", "write_log", "commit_head", "install", "erase", "finish"}
OtherPc  == {"down", "idle", "begin", "asleep", "reading"}
BufPc    == {"held", "dirty", "logged", "reading"}

-----------------------------------------------------------------------------
(* Boot.  Before fsinit() has run there is one process, and the cache is   *)
(* empty.                                                                  *)

Reset == /\ buf' = [b \in Blocks |-> NotCached]
         /\ pins' = [b \in Blocks |-> 0]
         /\ holder' = [b \in Blocks |-> Nobody]
         /\ outstanding' = 0 /\ committing' = 0
         /\ lh' = <<>> /\ panicked' = "no"
         /\ pc' = [p \in Procs |-> IF p = InitProc THEN "read_head" ELSE "down"]
         /\ tail' = [p \in Procs |-> 1]
         /\ wrote' = [p \in Procs |-> {}]

\* mkfs leaves an empty log in front of home blocks of some content.
Init == /\ home \in [Blocks -> Vals]
        /\ logData = [i \in 1..LOGSIZE |-> CHOOSE v \in Vals : TRUE]
        /\ logHead = <<>>
        /\ buf = [b \in Blocks |-> NotCached]
        /\ pins = [b \in Blocks |-> 0]
        /\ holder = [b \in Blocks |-> Nobody]
        /\ outstanding = 0 /\ committing = 0
        /\ lh = <<>> /\ panicked = "no"
        /\ pc = [p \in Procs |-> IF p = InitProc THEN "read_head" ELSE "down"]
        /\ tail = [p \in Procs |-> 1]
        /\ wrote = [p \in Procs |-> {}]
        /\ ops = 0 /\ crashes = 0

read_head(p) == /\ pc[p] = "read_head"
                /\ lh' = logHead
                /\ tail' = [tail EXCEPT ![p] = 1]
                /\ Goto(p, "recover_install")
                /\ UNCHANGED <<disk, mem, outstanding, committing, panicked,
                               wrote, ops, crashes>>

\* Fault: recovery unpins buffers that nobody has pinned.
InstallUnpins(p, b, recovering) ==
  /\ home' = [home EXCEPT ![b] = logData[tail[p]]]
  /\ buf' = [buf EXCEPT ![b] = logData[tail[p]]]
  /\ pins' = [pins EXCEPT ![b] = @ - 1]
\* One iteration of install_trans(): the log block's content goes to the home
\* block, in the cache and on disk; a commit, but not recovery, unpins it.
InstallBlock(p, b, recovering) ==
  /\ home' = [home EXCEPT ![b] = logData[tail[p]]]
  /\ buf' = [buf EXCEPT ![b] = logData[tail[p]]]
  /\ pins' = IF recovering THEN pins ELSE [pins EXCEPT ![b] = @ - 1]

\* Fault: the loop does not advance.
InstallAgain(p, from, to) ==
  /\ pc[p] = from
  /\ IF tail[p] <= Len(lh)
       THEN /\ holder[lh[tail[p]]] = Nobody
            /\ InstallBlock(p, lh[tail[p]], from = "recover_install")
            /\ UNCHANGED <<tail, pc>>
       ELSE /\ Goto(p, to)
            /\ UNCHANGED <<home, buf, pins, tail>>
  /\ UNCHANGED <<logData, logHead, holder, log, wrote, ops, crashes>>
install_trans(p, from, to) ==
  /\ pc[p] = from
  /\ IF tail[p] <= Len(lh)
       THEN /\ holder[lh[tail[p]]] = Nobody
            /\ InstallBlock(p, lh[tail[p]], from = "recover_install")
            /\ tail' = [tail EXCEPT ![p] = @ + 1]
            /\ UNCHANGED pc
       ELSE /\ Goto(p, to)
            /\ UNCHANGED <<home, buf, pins, tail>>
  /\ UNCHANGED <<logData, logHead, holder, log, wrote, ops, crashes>>

\* Recovery ends by clearing the log; then the system call layer is open.
recover_erase(p) ==
  /\ pc[p] = "recover_erase"
  /\ lh' = <<>> /\ logHead' = <<>>
  /\ pc' = [q \in Procs |-> "idle"]
  /\ UNCHANGED <<home, logData, mem, outstanding, committing, panicked,
                 tail, wrote, ops, crashes>>

recover_from_log(p) == \/ read_head(p)
                       \/ install_trans(p, "recover_install", "recover_erase")
                       \/ recover_erase(p)

-----------------------------------------------------------------------------
(* begin_op() and end_op().                                                *)

\* A file system call calls begin_op().
FsCall(p) == /\ pc[p] = "idle" /\ ops < MaxOps
             /\ ops' = ops + 1
             /\ wrote' = [wrote EXCEPT ![p] = {}]
             /\ Goto(p, "begin")
             /\ UNCHANGED <<disk, mem, log, tail, crashes>>

LogHasRoom == Len(lh) + (outstanding + 1) * MAXOPBLOCKS <= LOGSIZE

\* Fault: an operation is let in while the log is being committed.
BeginDuringCommit(p) ==
  /\ pc[p] = "begin"
  /\ IF LogHasRoom
       THEN outstanding' = outstanding + 1 /\ Goto(p, "op")
       ELSE UNCHANGED outstanding /\ Goto(p, "asleep")
  /\ UNCHANGED <<disk, mem, committing, lh, panicked, tail, wrote, ops, crashes>>
begin_op(p) ==
  /\ pc[p] = "begin"
  /\ IF committing = 0 /\ LogHasRoom
       THEN outstanding' = outstanding + 1 /\ Goto(p, "op")
       ELSE UNCHANGED outstanding /\ Goto(p, "asleep")
  /\ UNCHANGED <<disk, mem, committing, lh, panicked, tail, wrote, ops, crashes>>

\* wakeup(&log): every process sleeping on &log runs its while(1) again.
\* Fault: the wakeup is forgotten.
WokenNone(f) == f
Woken(f) == [q \in Procs |-> IF f[q] = "asleep" THEN "begin" ELSE f[q]]

LastOut == outstanding = 1

\* end_op() up to the commit; the last operation out starts it.
end_op(p) ==
  /\ pc[p] = "op"
  /\ outstanding' = outstanding - 1
  /\ IF committing = 1
       THEN panicked' = "log_committing" /\ UNCHANGED <<committing, pc>>
       ELSE /\ UNCHANGED panicked
            /\ IF LastOut
                 THEN committing' = 1 /\ Goto(p, "commit")
                 ELSE UNCHANGED committing
                      /\ pc' = Woken([pc EXCEPT ![p] = "idle"])
  /\ UNCHANGED <<disk, mem, lh, tail, wrote, ops, crashes>>

-----------------------------------------------------------------------------
(* A block update: bread, change b->data, log_write, brelse; and a read,   *)
(* which fileread() does outside any transaction.                          *)

bread(p, b) == /\ \/ pc[p] = "op" /\ Goto(p, "held") /\ UNCHANGED ops
                  \/ /\ pc[p] = "idle" /\ Goto(p, "reading")
                     /\ ops < MaxOps /\ ops' = ops + 1
               /\ holder[b] = Nobody
               /\ holder' = [holder EXCEPT ![b] = p]
               /\ buf' = [buf EXCEPT ![b] = IF @ = NotCached THEN home[b] ELSE @]
               /\ UNCHANGED <<disk, pins, log, tail, wrote, crashes>>

\* An operation stays within its OPBLOCKS distinct blocks.
Modify(p, b, v) ==
  /\ pc[p] = "held" /\ holder[b] = p
  /\ Cardinality(wrote[p] \cup {b}) <= OPBLOCKS
  /\ buf' = [buf EXCEPT ![b] = v]
  /\ wrote' = [wrote EXCEPT ![p] = @ \cup {b}]
  /\ Goto(p, "dirty")
  /\ UNCHANGED <<disk, pins, holder, log, tail, ops, crashes>>

LogFull == Len(lh) >= LOGSIZE \/ Len(lh) >= NLOG - 1

\* Fault: the block is recorded in the log but its buffer is not pinned.
NoPin(b) == UNCHANGED pins
bpin(b) == pins' = [pins EXCEPT ![b] = @ + 1]

log_write(p, b) ==
  /\ pc[p] = "dirty" /\ holder[b] = p
  /\ IF LogFull \/ outstanding < 1
       THEN /\ panicked' = IF LogFull THEN "too_big_a_transaction"
                                      ELSE "log_write_outside_of_trans"
            /\ UNCHANGED <<lh, pins, pc>>
       ELSE /\ UNCHANGED panicked
            /\ IF b \in Range(lh)       \* log absorption
                 THEN UNCHANGED <<lh, pins>>
                 ELSE lh' = Append(lh, b) /\ bpin(b)
            /\ Goto(p, "logged")
  /\ UNCHANGED <<disk, buf, holder, outstanding, committing, tail, wrote,
                 ops, crashes>>

brelse(p, b) == /\ holder[b] = p
                /\ \/ pc[p] \in {"held", "logged"} /\ Goto(p, "op")
                   \/ pc[p] = "reading" /\ Goto(p, "idle")
                /\ holder' = [holder EXCEPT ![b] = Nobody]
                /\ UNCHANGED <<disk, buf, pins, log, tail, wrote, ops, crashes>>

\* bget() recycles a buffer nobody references for some other block.
Evict(b) == /\ buf[b] # NotCached /\ pins[b] = 0 /\ holder[b] = Nobody
            /\ buf' = [buf EXCEPT ![b] = NotCached]
            /\ UNCHANGED <<disk, pins, holder, log, loc, ops, crashes>>

-----------------------------------------------------------------------------
(* commit().                                                               *)

CommitOrSkip(p) == /\ pc[p] = "commit"
                   /\ tail' = [tail EXCEPT ![p] = 1]
                   /\ Goto(p, IF Len(lh) > 0 THEN "write_log" ELSE "finish")
                   /\ UNCHANGED <<disk, mem, log, wrote, ops, crashes>>

\* One iteration of write_log(): bread() of the home block finds the cached
\* copy, or reads the disk when there is none.
write_log(p) ==
  /\ pc[p] = "write_log"
  /\ IF tail[p] <= Len(lh)
       THEN LET b == lh[tail[p]]
                from == IF buf[b] = NotCached THEN home[b] ELSE buf[b]
            IN /\ holder[b] = Nobody
               /\ logData' = [logData EXCEPT ![tail[p]] = from]
               /\ buf' = [buf EXCEPT ![b] = from]
               /\ tail' = [tail EXCEPT ![p] = @ + 1]
               /\ UNCHANGED pc
       ELSE Goto(p, "commit_head") /\ UNCHANGED <<logData, buf, tail>>
  /\ UNCHANGED <<home, logHead, pins, holder, log, wrote, ops, crashes>>

\* Fault: the log is erased before the blocks are installed.
EraseFirst(p) == /\ pc[p] = "commit_head"
                 /\ logHead' = lh
                 /\ Goto(p, "erase")
                 /\ UNCHANGED <<home, logData, mem, log, tail, wrote, ops, crashes>>
\* The first write_head(), the point at which the transaction commits.
write_head(p) == /\ pc[p] = "commit_head"
                 /\ logHead' = lh
                 /\ tail' = [tail EXCEPT ![p] = 1]
                 /\ Goto(p, "install")
                 /\ UNCHANGED <<home, logData, mem, log, wrote, ops, crashes>>

\* log.lh.n = 0 and the second write_head().
erase(p) == /\ pc[p] = "erase"
            /\ lh' = <<>> /\ logHead' = <<>>
            /\ Goto(p, "finish")
            /\ UNCHANGED <<home, logData, mem, outstanding, committing, panicked,
                           tail, wrote, ops, crashes>>

\* The tail of end_op().
finish(p) == /\ pc[p] = "finish"
             /\ committing' = 0
             /\ pc' = Woken([pc EXCEPT ![p] = "idle"])
             /\ UNCHANGED <<disk, mem, outstanding, lh, panicked, tail, wrote,
                            ops, crashes>>

commit(p) == \/ CommitOrSkip(p) \/ write_log(p) \/ write_head(p)
             \/ install_trans(p, "install", "erase") \/ erase(p) \/ finish(p)

-----------------------------------------------------------------------------
(* A crash (or a reboot after a panic) loses everything in memory.  The    *)
(* data block being written may be left torn; the header is shorter than a *)
(* sector and is either written or not.                                    *)

TornWrite ==
  \/ UNCHANGED disk
  \/ \E p \in Procs :
       /\ tail[p] <= Len(lh)
       /\ \/ /\ pc[p] = "write_log"
             /\ logData' = [logData EXCEPT ![tail[p]] = Torn]
             /\ UNCHANGED <<home, logHead>>
          \/ /\ pc[p] \in {"install", "recover_install"}
             /\ home' = [home EXCEPT ![lh[tail[p]]] = Torn]
             /\ UNCHANGED <<logData, logHead>>

Crash == /\ crashes < MaxCrashes
         /\ crashes' = crashes + 1
         /\ TornWrite
         /\ Reset
         /\ UNCHANGED ops

Step(p) == Running /\ (\/ recover_from_log(p)
                       \/ begin_op(p) \/ end_op(p) \/ commit(p)
                       \/ \E b \in Blocks : log_write(p, b) \/ brelse(p, b))

Next == \/ \E p \in Procs : Step(p)
        \/ \E p \in Procs : Running /\ FsCall(p)
        \/ \E p \in Procs, b \in Blocks : Running /\ bread(p, b)
        \/ \E p \in Procs, b \in Blocks, v \in Vals : Running /\ Modify(p, b, v)
        \/ \E b \in Blocks : Running /\ Evict(b)
        \/ Crash

Spec == Init /\ [][Next]_vars

\* Every process that can run does (the scheduler is a round robin), and an
\* operation makes finitely many block accesses before its end_op().
LiveSpec == Spec /\ \A p \in Procs : WF_vars(Step(p)) /\ SF_vars(Running /\ end_op(p))
-----------------------------------------------------------------------------
(* Properties.                                                             *)

Booting == pc[InitProc] \in BootPc

\* The content recovery would give each block from the disk as it is now.
Durable == [b \in Blocks |->
              IF b \in Range(logHead)
                THEN logData[CHOOSE i \in 1..Len(logHead) : logHead[i] = b]
                ELSE home[b]]
\* The content bread() returns; until recovery is over, what it restores.
Current == [b \in Blocks |-> IF Booting THEN Durable[b]
                             ELSE IF buf[b] = NotCached THEN home[b] ELSE buf[b]]
Active == {p \in Procs : pc[p] \in OpPc}

TypeOK ==
  /\ home \in [Blocks -> Vals \cup {Torn}]
  /\ logData \in [1..LOGSIZE -> Vals \cup {Torn}]
  /\ logHead \in Seq(Blocks) /\ lh \in Seq(Blocks)
  /\ Len(logHead) <= LOGSIZE /\ Len(lh) <= LOGSIZE
  /\ buf \in [Blocks -> Vals \cup {Torn, NotCached}]
  /\ pins \in [Blocks -> Nat]
  /\ holder \in [Blocks -> Procs \cup {Nobody}]
  /\ outstanding \in Nat /\ committing \in {0, 1}
  /\ panicked \in {"no", "log_committing", "too_big_a_transaction",
                   "log_write_outside_of_trans"}
  /\ pc \in [Procs -> BootPc \cup OpPc \cup CommitPc \cup OtherPc]
  /\ tail \in [Procs -> 1..(LOGSIZE + 1)]
  /\ wrote \in [Procs -> SUBSET Blocks]
  /\ ops \in 0..MaxOps /\ crashes \in 0..MaxCrashes

\* log.c refines the atomic disk: every step of the log, the cache and the
\* crash is a step of AtomicDisk, so the blocks written by a group of
\* operations survive a crash all together or not at all, and a commit never
\* contains part of an operation that is still running.
AD == INSTANCE AtomicDisk WITH durable <- Durable, current <- Current, active <- Active
AtomicAcrossCrashes == AD!ASpec

\* When the committing end_op() reopens the log, everything that was written is
\* on disk: the operation that committed returns with its updates durable.
DurableAtReturn == \A p \in Procs : pc[p] = "finish" => Durable = Current

\* No sleeper of begin_op() is forgotten: while a process sleeps on &log some
\* operation is active or committing, whose end_op() will call wakeup(&log).
SleeperHasWaker ==
  \A p \in Procs : pc[p] = "asleep" /\ Running => committing = 1 \/ outstanding > 0

\* Between transactions the in-memory log is empty.
QuietLogEmpty ==
  ~Booting /\ committing = 0 /\ outstanding = 0 => lh = <<>>

\* begin_op()'s reservation is enough: no interleaving of operations that keep
\* to their block budget drives log_write() into "too_big_a_transaction", nor
\* end_op() into its panic.
NoPanic == Running

\* A process that waits in begin_op() gets in, unless the machine crashes first.
BeginOpReturns ==
  \A p \in Procs : pc[p] \in {"begin", "asleep"} ~> pc[p] = "op" \/ Booting

\* After a crash, even one that hits recovery itself, the file system comes up.
RecoveryCompletes == Booting ~> ~Booting

-----------------------------------------------------------------------------
(* The inductive invariant behind AtomicAcrossCrashes.                     *)

Dirty(b) == holder[b] \in Procs /\ pc[holder[b]] = "dirty"
Committer(p) == pc[p] \in CommitPc
Installing(p) == pc[p] \in {"install", "erase"}
\* Block b is in the log and its buffer is still the only up-to-date copy.
Pending(b) == \E i \in 1..Len(lh) :
                lh[i] = b /\ \A p \in Procs : Installing(p) => i >= tail[p]

\* During recovery InitProc runs alone on what is on the disk.
BootInv ==
  Booting =>
    /\ \A p \in Procs : p # InitProc => pc[p] = "down"
    /\ outstanding = 0 /\ committing = 0 /\ Running
    /\ \A b \in Blocks : holder[b] = Nobody /\ pins[b] = 0
    /\ \A b \in Blocks : buf[b] # NotCached => buf[b] = home[b] /\ buf[b] \in Vals
    /\ pc[InitProc] = "read_head" => lh = <<>> /\ \A b \in Blocks : buf[b] = NotCached
    /\ pc[InitProc] # "read_head" => lh = logHead
    /\ \A i \in 1..Len(lh) : i < tail[InitProc] => home[lh[i]] = logData[i]
    /\ pc[InitProc] = "recover_erase" => tail[InitProc] > Len(lh)

\* Who may be where once the system is up.
ControlInv ==
  ~Booting =>
    /\ \A p \in Procs : pc[p] \notin BootPc \cup {"down"}
    /\ \A p, q \in Procs : Committer(p) /\ Committer(q) => p = q
    /\ committing = 1 <=> \E p \in Procs : Committer(p)
    /\ committing = 1 => Active = {}
    /\ outstanding = Cardinality(Active)
    /\ \A b \in Blocks : holder[b] \in Procs => pc[holder[b]] \in BufPc
    /\ \A b, c \in Blocks : holder[b] \in Procs /\ holder[b] = holder[c] => b = c

\* A block in the log is pinned, once, until it is installed; any other clean
\* buffer agrees with the disk.
CacheInv ==
  ~Booting => \A b \in Blocks :
    /\ buf[b] \in Vals \cup {NotCached}
    /\ pins[b] = IF Pending(b) THEN 1 ELSE 0
    /\ Pending(b) \/ Dirty(b) => buf[b] # NotCached
    /\ ~Pending(b) /\ ~Dirty(b) /\ buf[b] # NotCached => buf[b] = home[b]

\* How far the committing process has got, and what is on disk by then.
CommitInv ==
  ~Booting =>
    /\ \A p \in Procs : pc[p] = "finish" => lh = <<>>
    /\ \A p \in Procs, i \in 1..Len(lh) :
         /\ pc[p] = "write_log" /\ i < tail[p] => logData[i] = buf[lh[i]]
         /\ pc[p] = "commit_head" => logData[i] = buf[lh[i]]
         /\ Installing(p) /\ i >= tail[p] => logData[i] = buf[lh[i]]
         /\ Installing(p) /\ i < tail[p] => logData[i] = home[lh[i]]
         /\ pc[p] = "erase" => i < tail[p]
    /\ logHead = IF \E p \in Procs : Installing(p) THEN lh ELSE <<>>

\* Nothing torn is ever the copy that counts.
TornInv == /\ \A b \in Blocks : b \notin Range(logHead) => home[b] \in Vals
           /\ \A i \in 1..Len(logHead) : logData[i] \in Vals

\* The invariant that carries the log through every step: at each point of
\* operations, commit, crash and recovery, where the committed copy of each
\* block is and where the current one is.
LogInv == /\ TypeOK /\ IsInjective(lh) /\ IsInjective(logHead)
          /\ BootInv /\ ControlInv /\ CacheInv /\ CommitInv /\ TornInv
=============================================================================
