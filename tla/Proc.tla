-------------------------------- MODULE Proc --------------------------------
(***************************************************************************)
(* The process table of kernel/proc.c: allocproc/freeproc, fork, exit,     *)
(* wait, kill, sleep/wakeup, threads, and the per-CPU scheduler with swtch.*)
(*                                                                         *)
(* A step is a critical section of one lock, or the part of one between    *)
(* two acquires: p->lock is held across swtch() and wait_lock across the   *)
(* loops of exit() and wait(), and both appear with the CPU that holds     *)
(* them, as in struct spinlock.  A loop over the table goes from one slot  *)
(* that concerns it to the next; a slot it only looks at takes no step.    *)
(* Files, directories and user memory are left out; a page table appears   *)
(* as the identity of the one in use.                                      *)
(***************************************************************************)
EXTENDS Integers, FiniteSets

CONSTANTS NPROC,      \* slots of the process table
          CPUs,       \* the CPUs
          MaxPid,     \* bound on the process ids handed out
          MaxThreads, \* bound on the threads alive at once
          KillPids    \* arguments kill() is called with

ASSUME ProcAssumption ==
  /\ NPROC \in Nat \ {0} /\ MaxPid \in Nat \ {0} /\ MaxThreads \in Nat
  /\ KillPids \subseteq Nat /\ IsFiniteSet(CPUs) /\ CPUs # {}

None == 0               \* a null pointer, no process
Slots == 1..NPROC
initproc == 1
Free == "free"          \* an unlocked spinlock
Live == {"SLEEPING", "RUNNABLE", "RUNNING"}

ASSUME FreeAssumption == Free \notin CPUs

VARIABLES
  state, chan, killed, pid, parent, thread_parent, pagetable, \* struct proc
  tables,       \* page tables in use, by the pid they were made for
  nextpid,
  lock,         \* p->lock of each slot: the CPU holding it, or Free
  wait_lock,    \* likewise
  run,          \* the kernel stack each CPU is on: a slot, or None for scheduler()
  pc, ret,      \* per slot: control point of its kernel thread, and the one
                \* sched() returns to
  pp, havekids  \* per slot: the local variables of fork(), exit(), wait()

table == <<state, chan, killed, pid, parent, thread_parent, pagetable, tables, nextpid>>
locks == <<lock, wait_lock>>
local == <<pp, havekids>>
vars  == <<table, locks, run, pc, ret, local>>

\* userinit() has run; the first process is about to be scheduled.
Init ==
  /\ state = [s \in Slots |-> IF s = initproc THEN "RUNNABLE" ELSE "UNUSED"]
  /\ chan = [s \in Slots |-> None]
  /\ killed = [s \in Slots |-> 0]
  /\ pid = [s \in Slots |-> IF s = initproc THEN 1 ELSE 0]
  /\ parent = [s \in Slots |-> None]
  /\ thread_parent = [s \in Slots |-> None]
  /\ pagetable = [s \in Slots |-> IF s = initproc THEN 1 ELSE 0]
  /\ tables = {1} /\ nextpid = 2
  /\ lock = [s \in Slots |-> Free] /\ wait_lock = Free
  /\ run = [c \in CPUs |-> None]
  /\ pc = [s \in Slots |-> "off"] /\ ret = [s \in Slots |-> "user"]
  /\ pp = [s \in Slots |-> None] /\ havekids = [s \in Slots |-> 0]

\* Process s runs in the kernel on CPU c at control point l.
At(c, s, l) == run[c] = s /\ pc[s] = l
Goto(s, l) == pc' = [pc EXCEPT ![s] = l]
Set(f, s, v) == f' = [f EXCEPT ![s] = v]
\* Back to user space: the locals are gone.
Return(s) == Goto(s, "user") /\ Set(pp, s, None) /\ Set(havekids, s, 0)

\* A loop over the table: the first slot of S after pp; no slot at the end.
NextIn(s, S) == {i \in S : i > pp[s] /\ \A j \in S : j > pp[s] => i <= j}
\* Fault: the loop stops one slot short.
ChildrenShort(s) == {i \in Slots : i < NPROC /\ parent[i] = s}
Children(s) == {i \in Slots : parent[i] = s}
Threads(s) == {i \in Slots : thread_parent[i] = s /\ state[i] # "UNUSED"}

-----------------------------------------------------------------------------
(* scheduler(), sched() and swtch().                                       *)

\* The scheduler finds a runnable process, under its lock, and switches to it;
\* the lock stays held.
scheduler(c, s) ==
  /\ run[c] = None /\ lock[s] = Free /\ state[s] = "RUNNABLE"
  /\ Set(lock, s, c) /\ Set(state, s, "RUNNING") /\ Set(run, c, s)
  /\ Goto(s, "resume")
  /\ UNCHANGED <<chan, killed, pid, parent, thread_parent, pagetable, tables,
                 nextpid, wait_lock, ret, local>>

\* The process comes back from sched(), or starts in forkret(): sleep() clears
\* p->chan; every one of them releases p->lock.
resume(c, s) ==
  /\ At(c, s, "resume")
  /\ chan' = IF ret[s] = "wait" THEN [chan EXCEPT ![s] = None] ELSE chan
  /\ Set(lock, s, Free) /\ Goto(s, ret[s]) /\ Set(ret, s, "user")
  /\ UNCHANGED <<state, killed, pid, parent, thread_parent, pagetable, tables,
                 nextpid, wait_lock, run, local>>

\* sched(): swtch() leaves the process's stack, then the scheduler releases the
\* lock the process took.
sched(c, s) ==
  /\ At(c, s, "sched")
  /\ Set(run, c, None) /\ Set(lock, s, Free) /\ Goto(s, "off")
  /\ UNCHANGED <<table, wait_lock, ret, local>>

\* acquire() turns interrupts off, before it spins for a lock that is taken.
Acquiring == {"fork_parent", "exit", "wait"}
Interruptible(c, s) ==
  /\ wait_lock # c /\ \A t \in Slots : lock[t] # c
  /\ pc[s] \in Acquiring => wait_lock = Free
  /\ pc[s] = "join_lock" => lock[pp[s]] = Free

\* Fault: the process becomes runnable before it holds its lock.
YieldUnlocked(c, s) ==
  /\ run[c] = s /\ pc[s] \notin {"sched", "resume"} /\ Interruptible(c, s)
  /\ Set(state, s, "RUNNABLE")
  /\ Set(ret, s, pc[s]) /\ Goto(s, "sched")
  /\ UNCHANGED <<chan, killed, pid, parent, thread_parent, pagetable, tables,
                 nextpid, locks, run, local>>
\* A timer interrupt, in user space or in the kernel, calls yield().
yield(c, s) ==
  /\ run[c] = s /\ pc[s] \notin {"sched", "resume"} /\ Interruptible(c, s)
  /\ lock[s] = Free
  /\ Set(lock, s, c) /\ Set(state, s, "RUNNABLE")
  /\ Set(ret, s, pc[s]) /\ Goto(s, "sched")
  /\ UNCHANGED <<chan, killed, pid, parent, thread_parent, pagetable, tables,
                 nextpid, wait_lock, run, local>>

-----------------------------------------------------------------------------
(* fork() and thread_create().                                             *)

\* A system call starts only in a process that has not been killed.
Syscall(c, s) == At(c, s, "user") /\ killed[s] = 0

\* The page table of the child, one of its own: proc_pagetable() and uvmcopy().
proc_pagetable(s) == nextpid

\* allocproc() and the copying of the parent, one critical section of np->lock;
\* any step of it may run out of memory, and then freeproc() undoes it.
fork(c, s, n) ==
  /\ Syscall(c, s) /\ nextpid <= MaxPid
  /\ lock[n] = Free /\ state[n] = "UNUSED"
  /\ nextpid' = nextpid + 1
  /\ \/ /\ Set(state, n, "USED") /\ Set(pid, n, nextpid)
        /\ Set(pagetable, n, proc_pagetable(s))
        /\ tables' = tables \cup {proc_pagetable(s)}
        /\ Set(pp, s, n) /\ Goto(s, "fork_parent")
        /\ UNCHANGED killed
     \/ Set(killed, n, 0) /\ UNCHANGED <<state, pid, pagetable, tables, pp, pc>>
  /\ UNCHANGED <<chan, parent, thread_parent, locks, run, ret, havekids>>

fork_parent(c, s) ==
  /\ At(c, s, "fork_parent") /\ wait_lock = Free
  /\ Set(parent, pp[s], s) /\ Goto(s, "fork_run")
  /\ UNCHANGED <<state, chan, killed, pid, thread_parent, pagetable, tables, nextpid,
                 locks, run, ret, local>>

fork_run(c, s) ==
  /\ At(c, s, "fork_run") /\ lock[pp[s]] = Free
  /\ Set(state, pp[s], "RUNNABLE") /\ Return(s)
  /\ UNCHANGED <<chan, killed, pid, parent, thread_parent, pagetable, tables, nextpid,
                 locks, run, ret>>

\* thread_create() and allocthread(): one critical section of np->lock; the
\* parent is set without wait_lock, the page table is the creator's.
thread_create(c, s, n) ==
  /\ Syscall(c, s) /\ nextpid <= MaxPid
  /\ Cardinality({t \in Slots : thread_parent[t] # None}) < MaxThreads
  /\ lock[n] = Free /\ state[n] = "UNUSED"
  /\ nextpid' = nextpid + 1 /\ Set(killed, n, 0)
  /\ \/ /\ Set(state, n, "RUNNABLE") /\ Set(pid, n, nextpid) /\ Set(parent, n, s)
        /\ Set(thread_parent, n, s) /\ Set(pagetable, n, pagetable[s])
     \/ UNCHANGED <<state, pid, parent, thread_parent, pagetable>>   \* no memory
  /\ UNCHANGED <<chan, tables, locks, run, pc, ret, local>>

-----------------------------------------------------------------------------
(* exit().  Closing files comes first and is not modelled; initproc, whose *)
(* exit() panics, never calls it.                                          *)

\* Fault: a waker that finds the slot's lock taken goes on without waiting for it.
TryWakeup(s, ch) ==
  state' = IF ch # s /\ lock[ch] = Free /\ state[ch] = "SLEEPING" /\ chan[ch] = ch
             THEN [state EXCEPT ![ch] = "RUNNABLE"] ELSE state
\* wakeup(): process ch is made runnable if it sleeps.  The channel is a process
\* that sleeps in wait(), and no other process sleeps on it, so the loop comes to
\* the visit of that slot, under its lock; the caller's own slot is passed over.
wakeup(s, ch) ==
  /\ ch # s => lock[ch] = Free
  /\ state' = IF ch # s /\ state[ch] = "SLEEPING" /\ chan[ch] = ch
                THEN [state EXCEPT ![ch] = "RUNNABLE"] ELSE state

\* By a call, or in usertrap() because the process has been killed.
exit(c, s) ==
  /\ At(c, s, "user") /\ s # initproc /\ Goto(s, "exit")
  /\ UNCHANGED <<table, locks, run, ret, local>>

exit_acquire(c, s) ==
  /\ At(c, s, "exit") /\ wait_lock = Free
  /\ wait_lock' = c /\ Goto(s, "reparent")
  /\ UNCHANGED <<table, lock, run, ret, local>>

\* reparent(): each abandoned child goes to initproc, which is woken for it.
reparent(c, s) ==
  /\ At(c, s, "reparent")
  /\ \/ /\ NextIn(s, Children(s)) = {}
        /\ Goto(s, "wakeup_parent") /\ UNCHANGED <<state, parent, pp>>
     \/ \E i \in NextIn(s, Children(s)) :
          /\ Set(parent, i, initproc) /\ wakeup(s, initproc)
          /\ Set(pp, s, i) /\ UNCHANGED pc
  /\ UNCHANGED <<chan, killed, pid, thread_parent, pagetable, tables, nextpid,
                 locks, run, ret, havekids>>

exit_wakeup(c, s) ==
  /\ At(c, s, "wakeup_parent") /\ wakeup(s, parent[s])
  /\ Goto(s, "zombie") /\ Set(pp, s, None)
  /\ UNCHANGED <<chan, killed, pid, parent, thread_parent, pagetable, tables, nextpid,
                 locks, run, ret, havekids>>

\* The process becomes a zombie holding its lock until it is off its stack.
exit_zombie(c, s) ==
  /\ At(c, s, "zombie") /\ lock[s] = Free
  /\ Set(lock, s, c) /\ Set(state, s, "ZOMBIE") /\ wait_lock' = Free
  /\ Goto(s, "sched")
  /\ UNCHANGED <<chan, killed, pid, parent, thread_parent, pagetable, tables, nextpid,
                 run, ret, local>>

-----------------------------------------------------------------------------
(* wait() and thread_join().                                               *)

\* Fault: the kill flag stays.
FreeprocKeepsKill(i) ==
  /\ Set(state, i, "UNUSED") /\ Set(pid, i, 0) /\ Set(parent, i, None)
  /\ Set(chan, i, None) /\ Set(thread_parent, i, None)
  /\ tables' = tables \ {pagetable[i]} /\ Set(pagetable, i, 0)
  /\ UNCHANGED <<nextpid, killed>>
\* freeproc(): the slot, and the user memory its page table maps.
freeproc(i) ==
  /\ Set(state, i, "UNUSED") /\ Set(pid, i, 0) /\ Set(parent, i, None)
  /\ Set(chan, i, None) /\ Set(killed, i, 0) /\ Set(thread_parent, i, None)
  /\ tables' = tables \ {pagetable[i]} /\ Set(pagetable, i, 0)
  /\ UNCHANGED nextpid

wait(c, s) ==
  /\ Syscall(c, s) /\ Goto(s, "wait")
  /\ UNCHANGED <<table, locks, run, ret, local>>

\* Also at the end of sleep().
wait_acquire(c, s) ==
  /\ At(c, s, "wait") /\ wait_lock = Free
  /\ wait_lock' = c /\ Goto(s, "scan")
  /\ UNCHANGED <<table, lock, run, ret, local>>

\* Fault: the child's lock is not taken before its state is looked at.
ChildSeen(i) == TRUE
\* acquire(&pp->lock): the child is not still in exit() or swtch().
ChildLocked(i) == lock[i] = Free

\* The next child of wait()'s scan.  A zombie is freed, unless its exit status
\* cannot be copied out (init passes no address).
wait_scan(c, s) ==
  /\ At(c, s, "scan")
  /\ \E i \in NextIn(s, Children(s)) :
     /\ ChildLocked(i)
     /\ \/ /\ state[i] # "ZOMBIE"
           /\ Set(havekids, s, 1) /\ Set(pp, s, i)
           /\ UNCHANGED <<table, wait_lock, pc>>
        \/ /\ state[i] = "ZOMBIE"
           /\ freeproc(i) \/ (s # initproc /\ UNCHANGED table)
           /\ wait_lock' = Free /\ Return(s)
  /\ UNCHANGED <<lock, run, ret>>

\* Fault: the end of the scan does not ask whether the process was killed.
WaitGoesOn(s) == havekids[s] = 1
\* havekids, and killed() under p->lock.
MustSleep(s) == havekids[s] = 1 /\ killed[s] = 0

wait_end(c, s) ==
  /\ At(c, s, "scan") /\ NextIn(s, Children(s)) = {}
  /\ havekids[s] = 1 => lock[s] = Free
  /\ \/ /\ ~MustSleep(s) /\ wait_lock' = Free /\ Return(s)
     \/ /\ MustSleep(s) /\ Goto(s, "sleep") /\ UNCHANGED <<wait_lock, local>>
  /\ UNCHANGED <<table, lock, run, ret>>

\* sleep(p, &wait_lock): take p->lock, and only then release wait_lock.
sleep(c, s) ==
  /\ At(c, s, "sleep") /\ lock[s] = Free
  /\ Set(lock, s, c) /\ wait_lock' = Free
  /\ Set(chan, s, s) /\ Set(state, s, "SLEEPING")
  /\ Set(ret, s, "wait") /\ Goto(s, "sched")
  /\ Set(pp, s, None) /\ Set(havekids, s, 0)
  /\ UNCHANGED <<killed, pid, parent, thread_parent, pagetable, tables, nextpid, run>>

\* thread_join(): a scan without wait_lock that never waits.
thread_join(c, s) ==
  /\ Syscall(c, s) /\ MaxThreads > 0
  /\ Goto(s, "join")
  /\ UNCHANGED <<table, locks, run, ret, local>>

\* The thread_parent field is read before the slot's lock is taken.
join_scan(c, s) ==
  /\ At(c, s, "join")
  /\ \/ NextIn(s, Threads(s)) = {} /\ Return(s)
     \/ \E i \in NextIn(s, Threads(s)) :
          Set(pp, s, i) /\ Goto(s, "join_lock") /\ UNCHANGED havekids
  /\ UNCHANGED <<table, locks, run, ret>>

\* With the lock only the state is looked at again; copyout() may fail.
join_lock(c, s) == \E i \in Slots :
  /\ At(c, s, "join_lock") /\ pp[s] = i /\ lock[i] = Free
  /\ \/ /\ state[i] = "ZOMBIE" /\ Return(s)
        /\ freeproc(i) \/ UNCHANGED table
     \/ state[i] # "ZOMBIE" /\ Goto(s, "join") /\ UNCHANGED <<table, local>>
  /\ UNCHANGED <<locks, run, ret>>

-----------------------------------------------------------------------------
(* kill().  Nothing changes before the slot whose pid matches is reached,  *)
(* and the call returns from there.                                        *)

kill(c, s, i) ==
  /\ Syscall(c, s) /\ pid[i] \in KillPids
  /\ lock[i] = Free
  /\ Set(killed, i, 1)
  /\ state' = IF state[i] = "SLEEPING" THEN [state EXCEPT ![i] = "RUNNABLE"] ELSE state
  /\ UNCHANGED <<chan, pid, parent, thread_parent, pagetable, tables, nextpid,
                 locks, run, pc, ret, local>>

-----------------------------------------------------------------------------
\* What the kernel does by itself once a call or a trap has begun.
Switch(c, s) == resume(c, s) \/ sched(c, s)
Kernel(c, s) == \/ fork_parent(c, s) \/ fork_run(c, s)
                \/ exit_acquire(c, s) \/ reparent(c, s) \/ exit_wakeup(c, s) \/ exit_zombie(c, s)
                \/ wait_acquire(c, s) \/ wait_scan(c, s) \/ wait_end(c, s)
                \/ sleep(c, s) \/ join_scan(c, s) \/ join_lock(c, s)

Next == \E c \in CPUs, s \in Slots :
          \/ scheduler(c, s) \/ Switch(c, s) \/ Kernel(c, s) \/ yield(c, s)
          \/ exit(c, s) \/ wait(c, s) \/ thread_join(c, s)
          \/ \E n \in Slots : fork(c, s, n) \/ thread_create(c, s, n) \/ kill(c, s, n)

Spec == Init /\ [][Next]_vars

\* What follows without a choice of user code: the kernel goes on with a call, a
\* killed process exits, and user/init.c calls wait() for ever.
Progress(c, s) ==
  \/ Kernel(c, s)
  \/ killed[s] = 1 /\ exit(c, s)
  \/ s = initproc /\ wait(c, s)

\* Scheduling: swtch() completes; the scheduler's loop comes back to every
\* runnable slot; a spinlock that is free again and again is granted, and timer
\* interrupts do not keep a process from ever going on; some CPU takes timer
\* interrupts in user space again and again.
LiveSpec ==
  /\ Spec
  /\ \A s \in Slots : /\ WF_vars(\E c \in CPUs : Switch(c, s))
                      /\ SF_vars(\E c \in CPUs : scheduler(c, s))
                      /\ SF_vars(\E c \in CPUs : Progress(c, s))
  /\ SF_vars(\E c \in CPUs, s \in Slots : pc[s] = "user" /\ yield(c, s))

-----------------------------------------------------------------------------
(* Properties.                                                             *)

Pcs == {"user", "off", "resume", "sched", "fork_parent", "fork_run", "reparent",
        "exit", "wakeup_parent", "zombie", "wait", "scan", "sleep", "join",
        "join_lock"}

\* Types: the process table, and the control state.
TableOK ==
  /\ state \in [Slots -> Live \cup {"UNUSED", "USED", "ZOMBIE"}]
  /\ chan \in [Slots -> Slots \cup {None}]
  /\ killed \in [Slots -> {0, 1}]
  /\ pid \in [Slots -> 0..MaxPid] /\ nextpid \in 2..(MaxPid + 1)
  /\ parent \in [Slots -> Slots \cup {None}]
  /\ thread_parent \in [Slots -> Slots \cup {None}]
  /\ pagetable \in [Slots -> 0..MaxPid] /\ tables \subseteq 1..MaxPid
TypeOK ==
  /\ TableOK
  /\ lock \in [Slots -> CPUs \cup {Free}] /\ wait_lock \in CPUs \cup {Free}
  /\ run \in [CPUs -> Slots \cup {None}]
  /\ pc \in [Slots -> Pcs] /\ ret \in [Slots -> Pcs]
  /\ pp \in [Slots -> Slots \cup {None}] /\ havekids \in [Slots -> {0, 1}]

Switching == {"off", "resume", "sched"}
HoldsWaitLock == {"reparent", "wakeup_parent", "zombie", "scan", "sleep"}
Forking == {"fork_parent", "fork_run"}
\* Where a process is in the kernel, also while it is off the CPU.
Control(s) == IF pc[s] \in Switching THEN ret[s] ELSE pc[s]

\* Locks and stacks: one CPU on a stack; p->lock is held exactly across swtch(),
\* wait_lock exactly in the loops of exit() and wait().
LockInv ==
  /\ \A c, d \in CPUs : run[c] = run[d] /\ run[c] # None => c = d
  /\ \A s \in Slots : pc[s] = "off" <=> \A c \in CPUs : run[c] # s
  /\ \A s \in Slots, c \in CPUs :
       lock[s] = c <=> run[c] = s /\ pc[s] \in {"resume", "sched"}
  /\ \A c \in CPUs : wait_lock = c <=> run[c] # None /\ pc[run[c]] \in HoldsWaitLock

\* RUNNING on a CPU until sched(), and never off it.
RunState(s) ==
  \/ pc[s] = "off" /\ state[s] # "RUNNING"
  \/ pc[s] = "sched" /\ state[s] \in {"RUNNABLE", "SLEEPING", "ZOMBIE"}
  \/ pc[s] \notin {"off", "sched"} /\ state[s] = "RUNNING"

\* Where sched() returns to; a slot without a running thread starts afresh.
RetState(s) ==
  /\ ret[s] \in {"user", "exit", "wait", "join", "join_lock"} \cup Forking
  /\ state[s] \in {"UNUSED", "USED", "ZOMBIE"} => ret[s] = "user"
  /\ pc[s] \notin Switching => ret[s] = "user"

\* A slot that fork() is filling is USED, and no two calls fill the same one.
ForkInv ==
  /\ \A s \in Slots : Control(s) \in Forking => pp[s] \in Slots /\ state[pp[s]] = "USED"
  /\ \A s, t \in Slots :
       Control(s) \in Forking /\ Control(t) \in Forking /\ pp[s] = pp[t] => s = t

StateInv == (\A s \in Slots : RunState(s) /\ RetState(s)) /\ ForkInv

\* The locking discipline of proc.c as an inductive invariant.
ProcInv == TypeOK /\ LockInv /\ StateInv

\* A kernel stack is used by one CPU at a time, and the slot it belongs to is
\* not given back while a CPU is still on it: p->lock, held from before the
\* state changes until after swtch(), keeps other schedulers and wait() away.
StackSafe ==
  \A c \in CPUs : run[c] # None =>
    /\ state[run[c]] \notin {"UNUSED", "USED"}
    /\ \A d \in CPUs : run[d] = run[c] => c = d

\* Whenever wait_lock is free, no process sleeps in wait() while it has a zombie
\* to collect: neither its own child nor one it inherited.
NoLostWakeup ==
  wait_lock = Free =>
    \A s, t \in Slots : state[s] = "SLEEPING" /\ parent[t] = s => state[t] # "ZOMBIE"

\* Whenever wait_lock is free, the parent of every process is a process that can
\* still wait for it: exit() has handed all its children to initproc.
ParentAlive ==
  wait_lock = Free =>
    \A s \in Slots : parent[s] # None => state[parent[s]] \in Live

\* An unused slot carries nothing over from the process that had it.
CleanSlot ==
  \A s \in Slots : state[s] = "UNUSED" =>
    /\ pid[s] = 0 /\ parent[s] = None /\ thread_parent[s] = None
    /\ chan[s] = None /\ killed[s] = 0 /\ pagetable[s] = 0

\* A process killed while it sleeps in wait() exits: kill() makes it runnable, and
\* wait() asks killed() again before it sleeps again.
KilledSleeperExits ==
  \A s \in Slots : killed[s] = 1 /\ chan[s] = s /\ state[s] = "RUNNABLE"
                   ~> state[s] \notin Live

\* A zombie whose parent has gone is collected by initproc.
OrphansReaped ==
  \A s \in Slots : state[s] = "ZOMBIE" /\ parent[s] = initproc ~> state[s] = "UNUSED"
=============================================================================
