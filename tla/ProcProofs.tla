----------------------------- MODULE ProcProofs -----------------------------
(***************************************************************************)
(* Proofs about Proc.                                                      *)
(*                                                                         *)
(* First the locking discipline of a switch: which CPU holds which         *)
(* process's lock at which of its control points, so that no two CPUs run  *)
(* on one kernel stack.  On top of it the family invariant: what a scan of *)
(* the table in wait() or exit() has established about the slots it has    *)
(* passed, so that a child's exit is never slept through and no parent is  *)
(* a freed slot.  Last, what is left in a slot that has been freed.        *)
(***************************************************************************)
EXTENDS Proc, WellFoundedInduction, TLAPS

-----------------------------------------------------------------------------
(* What a step does to the locks and the stacks: a process goes on on its  *)
(* CPU, or it passes one of the four points of a switch.                   *)

\* A slot whose lock is free and that does not run is on no CPU.
LEMMA FreeIsOff ==
  ASSUME TypeOK, LockInv, StateInv, NEW t \in Slots, lock[t] = Free, state[t] # "RUNNING"
  PROVE  pc[t] = "off"
<1>1. CASE pc[t] = "sched"
  <2>1. PICK c \in CPUs : run[c] = t
    BY <1>1 DEF LockInv
  <2>2. lock[t] = c
    BY <1>1, <2>1 DEF LockInv
  <2> QED BY <2>2, FreeAssumption
<1> QED BY <1>1 DEF StateInv, RunState

\* The process goes on at l, taking or giving back wait_lock as l demands.
LEMMA LockStay ==
  ASSUME TypeOK, LockInv, NEW c \in CPUs, NEW s \in Slots, run[c] = s,
         pc[s] \notin Switching, NEW l \in Pcs \ Switching,
         pc' = [pc EXCEPT ![s] = l], run' = run, lock' = lock,
         l \in HoldsWaitLock => wait_lock \in {c, Free} /\ wait_lock' = c,
         l \notin HoldsWaitLock => wait_lock' = IF wait_lock = c THEN Free ELSE wait_lock
  PROVE  LockInv'
<1>1. s # None BY DEF Slots, None
<1>2. \A t \in Slots : pc'[t] = IF t = s THEN l ELSE pc[t]
  BY DEF TypeOK, TableOK
<1>3. \A d \in CPUs : run[d] = s => d = c
  BY <1>1 DEF LockInv
<1>4. \A t \in Slots : pc'[t] = "off" <=> pc[t] = "off"
  BY <1>2 DEF Switching
<1>5. \A t \in Slots, d \in CPUs :
        lock'[t] = d <=> run'[d] = t /\ pc'[t] \in {"resume", "sched"}
  BY <1>2 DEF LockInv, Switching
<1>6. \A d \in CPUs : wait_lock' = d <=> run'[d] # None /\ pc'[run'[d]] \in HoldsWaitLock
  <2> SUFFICES ASSUME NEW d \in CPUs
               PROVE  wait_lock' = d <=> run[d] # None /\ pc'[run[d]] \in HoldsWaitLock
    OBVIOUS
  <2>1. wait_lock = d <=> run[d] # None /\ pc[run[d]] \in HoldsWaitLock
    BY DEF LockInv
  <2>2. run[d] # None => run[d] \in Slots
    BY DEF TypeOK, TableOK
  <2>3. CASE d = c
    BY <1>1, <1>2, <2>3, FreeAssumption
  <2>4. CASE d # c
    <3>1. run[d] # None => pc'[run[d]] = pc[run[d]]
      BY <1>2, <1>3, <2>2, <2>4
    <3>2. wait_lock' = d <=> wait_lock = d
      BY <2>4, FreeAssumption
    <3> QED BY <2>1, <3>1, <3>2
  <2> QED BY <2>3, <2>4
<1> QED BY <1>4, <1>5, <1>6 DEF LockInv

\* scheduler(): CPU c goes to the stack of s.
LEMMA LockEnter ==
  ASSUME TypeOK, LockInv, NEW c \in CPUs, NEW s \in Slots, run[c] = None, pc[s] = "off",
         lock' = [lock EXCEPT ![s] = c], run' = [run EXCEPT ![c] = s],
         pc' = [pc EXCEPT ![s] = "resume"], wait_lock' = wait_lock
  PROVE  LockInv'
<1>1. s # None BY DEF Slots, None
<1>2. /\ \A t \in Slots : pc'[t] = IF t = s THEN "resume" ELSE pc[t]
      /\ \A t \in Slots : lock'[t] = IF t = s THEN c ELSE lock[t]
      /\ \A d \in CPUs : run'[d] = IF d = c THEN s ELSE run[d]
  BY DEF TypeOK, TableOK
<1>3. \A d \in CPUs : run[d] # s
  BY DEF LockInv
<1>4. \A d, e \in CPUs : run'[d] = run'[e] /\ run'[d] # None => d = e
  BY <1>2, <1>3 DEF LockInv
<1>5. \A t \in Slots : pc'[t] = "off" <=> \A d \in CPUs : run'[d] # t
  <2> SUFFICES ASSUME NEW t \in Slots
               PROVE  pc'[t] = "off" <=> \A d \in CPUs : run'[d] # t
    OBVIOUS
  <2>1. pc[t] = "off" <=> \A d \in CPUs : run[d] # t
    BY DEF LockInv
  <2>2. t # None BY DEF Slots, None
  <2> QED BY <1>2, <1>3, <2>1, <2>2
<1>6. \A t \in Slots, d \in CPUs :
        lock'[t] = d <=> run'[d] = t /\ pc'[t] \in {"resume", "sched"}
  BY <1>1, <1>2, <1>3 DEF LockInv, Slots, None
<1>7. \A d \in CPUs : wait_lock' = d <=> run'[d] # None /\ pc'[run'[d]] \in HoldsWaitLock
  BY <1>2, <1>3, <1>1 DEF LockInv, HoldsWaitLock, TypeOK, TableOK
<1> QED BY <1>4, <1>5, <1>6, <1>7 DEF LockInv

\* The process releases its lock and goes on at l.
LEMMA LockResume ==
  ASSUME TypeOK, LockInv, NEW c \in CPUs, NEW s \in Slots, run[c] = s, pc[s] = "resume",
         NEW l \in Pcs \ (Switching \cup HoldsWaitLock),
         lock' = [lock EXCEPT ![s] = Free], pc' = [pc EXCEPT ![s] = l],
         run' = run, wait_lock' = wait_lock
  PROVE  LockInv'
<1>1. s # None BY DEF Slots, None
<1>2. /\ \A t \in Slots : pc'[t] = IF t = s THEN l ELSE pc[t]
      /\ \A t \in Slots : lock'[t] = IF t = s THEN Free ELSE lock[t]
  BY DEF TypeOK, TableOK
<1>4. \A t \in Slots : pc'[t] = "off" <=> pc[t] = "off"
  BY <1>2 DEF Switching
<1>5. \A t \in Slots, d \in CPUs :
        lock'[t] = d <=> run'[d] = t /\ pc'[t] \in {"resume", "sched"}
  BY <1>2, FreeAssumption DEF LockInv, Switching
<1>6. \A d \in CPUs : wait_lock' = d <=> run'[d] # None /\ pc'[run'[d]] \in HoldsWaitLock
  BY <1>2 DEF LockInv, HoldsWaitLock, TypeOK, TableOK
<1> QED BY <1>4, <1>5, <1>6 DEF LockInv

\* The process takes its lock and enters sched(), giving wait_lock back.
LEMMA LockToSched ==
  ASSUME TypeOK, LockInv, NEW c \in CPUs, NEW s \in Slots, run[c] = s,
         pc[s] \notin Switching,
         lock' = [lock EXCEPT ![s] = c], pc' = [pc EXCEPT ![s] = "sched"],
         run' = run, wait_lock' = IF wait_lock = c THEN Free ELSE wait_lock
  PROVE  LockInv'
<1>1. s # None BY DEF Slots, None
<1>2. /\ \A t \in Slots : pc'[t] = IF t = s THEN "sched" ELSE pc[t]
      /\ \A t \in Slots : lock'[t] = IF t = s THEN c ELSE lock[t]
  BY DEF TypeOK, TableOK
<1>3. \A d \in CPUs : run[d] = s => d = c
  BY <1>1 DEF LockInv
<1>4. \A t \in Slots : pc'[t] = "off" <=> pc[t] = "off"
  BY <1>2 DEF Switching
<1>5. \A t \in Slots, d \in CPUs :
        lock'[t] = d <=> run'[d] = t /\ pc'[t] \in {"resume", "sched"}
  BY <1>2, <1>3 DEF LockInv, Switching
<1>6. \A d \in CPUs : wait_lock' = d <=> run'[d] # None /\ pc'[run'[d]] \in HoldsWaitLock
  BY <1>1, <1>2, <1>3, FreeAssumption DEF LockInv, HoldsWaitLock, TypeOK, TableOK
<1> QED BY <1>4, <1>5, <1>6 DEF LockInv

\* swtch() is over: the scheduler's stack again, and the lock released.
LEMMA LockLeave ==
  ASSUME TypeOK, LockInv, NEW c \in CPUs, NEW s \in Slots, run[c] = s, pc[s] = "sched",
         lock' = [lock EXCEPT ![s] = Free], pc' = [pc EXCEPT ![s] = "off"],
         run' = [run EXCEPT ![c] = None], wait_lock' = wait_lock
  PROVE  LockInv'
<1>1. s # None BY DEF Slots, None
<1>2. /\ \A t \in Slots : pc'[t] = IF t = s THEN "off" ELSE pc[t]
      /\ \A t \in Slots : lock'[t] = IF t = s THEN Free ELSE lock[t]
      /\ \A d \in CPUs : run'[d] = IF d = c THEN None ELSE run[d]
  BY DEF TypeOK, TableOK
<1>3. \A d \in CPUs : run[d] = s => d = c
  BY <1>1 DEF LockInv
<1>4. \A d, e \in CPUs : run'[d] = run'[e] /\ run'[d] # None => d = e
  BY <1>2 DEF LockInv
<1>5. \A t \in Slots : pc'[t] = "off" <=> \A d \in CPUs : run'[d] # t
  <2> SUFFICES ASSUME NEW t \in Slots
               PROVE  pc'[t] = "off" <=> \A d \in CPUs : run'[d] # t
    OBVIOUS
  <2>1. pc[t] = "off" <=> \A d \in CPUs : run[d] # t
    BY DEF LockInv
  <2>2. t # None BY DEF Slots, None
  <2> QED BY <1>2, <1>3, <2>1, <2>2
<1>6. \A t \in Slots, d \in CPUs :
        lock'[t] = d <=> run'[d] = t /\ pc'[t] \in {"resume", "sched"}
  BY <1>1, <1>2, <1>3, FreeAssumption DEF LockInv, Slots, None
<1>7. \A d \in CPUs : wait_lock' = d <=> run'[d] # None /\ pc'[run'[d]] \in HoldsWaitLock
  BY <1>2, <1>3, <1>1 DEF LockInv, HoldsWaitLock, TypeOK, TableOK
<1> QED BY <1>4, <1>5, <1>6, <1>7 DEF LockInv

-----------------------------------------------------------------------------
(* What a step does to the states: the process that takes it, and slots    *)
(* that are on no CPU.                                                     *)

\* A step of s keeps StateInv if it keeps it for s and changes only slots off the CPU.
LEMMA StateStep ==
  ASSUME ProcInv, TypeOK', NEW s \in Slots,
         \A t \in Slots : t # s => pc'[t] = pc[t] /\ ret'[t] = ret[t] /\ pp'[t] = pp[t],
         \A t \in Slots : t # s /\ state'[t] # state[t] =>
           /\ pc[t] = "off" /\ state'[t] \in {"RUNNABLE", "USED", "UNUSED"}
           /\ state'[t] # "RUNNABLE" => state[t] \in {"ZOMBIE", "UNUSED"}
           /\ state[t] = "USED" => Control(s) \in Forking /\ pp[s] = t,
         state[s] # "USED", RunState(s)', RetState(s)',
         Control(s)' \in Forking =>
           /\ pp'[s] \in Slots /\ state'[pp'[s]] = "USED"
           /\ \/ Control(s) \in Forking /\ pp'[s] = pp[s]
              \/ state[pp'[s]] # "USED"
  PROVE  StateInv'
<1>1. \A t \in Slots : RunState(t)'
  BY DEF ProcInv, StateInv, RunState
<1>2. \A t \in Slots : RetState(t)'
  BY DEF ProcInv, StateInv, RetState
<1>3. \A t \in Slots : t # s => Control(t)' = Control(t)
  BY DEF Control
<1>4. \A t \in Slots : t # s /\ Control(t) \in Forking =>
                         pp'[t] \in Slots /\ state'[pp'[t]] = "USED"
  <2> SUFFICES ASSUME NEW t \in Slots, t # s, Control(t) \in Forking
               PROVE  pp'[t] \in Slots /\ state'[pp'[t]] = "USED"
    OBVIOUS
  <2>1. pp[t] \in Slots /\ state[pp[t]] = "USED" /\ pp'[t] = pp[t]
    BY DEF ProcInv, StateInv, ForkInv
  <2>2. ~(Control(s) \in Forking /\ pp[s] = pp[t])
    BY DEF ProcInv, StateInv, ForkInv
  <2> QED BY <2>1, <2>2
<1>5. \A t, u \in Slots :
        Control(t)' \in Forking /\ Control(u)' \in Forking /\ pp'[t] = pp'[u] => t = u
  BY <1>3 DEF ProcInv, StateInv, ForkInv
<1> QED BY <1>1, <1>2, <1>3, <1>4, <1>5 DEF StateInv, ForkInv
-----------------------------------------------------------------------------
(* The steps.                                                              *)

\* scheduler(): s was on no CPU.
LEMMA SchedulerInv ==
  ASSUME ProcInv, NEW c \in CPUs, NEW s \in Slots, scheduler(c, s)
  PROVE  ProcInv'
<1>1. TypeOK'
  BY ProcAssumption DEF ProcInv, TypeOK, TableOK, Pcs, Live, None, Slots, Free, initproc, scheduler, At, Goto, Set, Return, table, locks, local
<1>2. pc[s] = "off"
  BY FreeIsOff DEF ProcInv, scheduler
<1>3. LockInv'
  BY <1>2, LockEnter DEF ProcInv, scheduler, Set, Goto
<1>4. StateInv'
  <2>1. \A t \in Slots : t # s => /\ pc'[t] = pc[t] /\ ret'[t] = ret[t] /\ pp'[t] = pp[t]
                                  /\ state'[t] = state[t]
    BY DEF scheduler, Set, Goto, local, ProcInv, TypeOK, TableOK
  <2>2. state[s] = "RUNNABLE" /\ state'[s] = "RUNNING" /\ pc'[s] = "resume"
    BY DEF scheduler, Set, Goto, ProcInv, TypeOK, TableOK
  <2>3. ret' = ret /\ pp' = pp /\ Control(s)' = Control(s)
    BY <1>2, <2>2 DEF scheduler, local, Control, Switching
  <2>4. RunState(s)' /\ RetState(s)'
    BY <2>2, <2>3 DEF ProcInv, StateInv, RunState, RetState, Switching
  <2>5. Control(s)' \in Forking => pp'[s] \in Slots /\ state'[pp'[s]] = "USED"
    BY <2>1, <2>2, <2>3 DEF ProcInv, StateInv, ForkInv
  <2> QED BY <1>1, <2>1, <2>2, <2>3, <2>4, <2>5, StateStep
<1> QED BY <1>1, <1>3, <1>4 DEF ProcInv

\* The process goes on where sched() was called.
LEMMA ResumeInv ==
  ASSUME ProcInv, NEW c \in CPUs, NEW s \in Slots, resume(c, s)
  PROVE  ProcInv'
<1>1. TypeOK'
  BY ProcAssumption DEF ProcInv, TypeOK, TableOK, Pcs, Live, None, Slots, Free, initproc, resume, At, Goto, Set, Return, table, locks, local
<1>2. ret[s] \in Pcs \ (Switching \cup HoldsWaitLock)
  BY DEF ProcInv, StateInv, RetState, Forking, Pcs, Switching, HoldsWaitLock
<1>3. LockInv'
  BY <1>2, LockResume DEF ProcInv, resume, At, Set, Goto
<1>4. StateInv'
  <2>1. \A t \in Slots : t # s => pc'[t] = pc[t] /\ ret'[t] = ret[t] /\ pp'[t] = pp[t]
    BY DEF resume, Set, Goto, local, ProcInv, TypeOK, TableOK
  <2>2. /\ state' = state /\ pp' = pp /\ pc[s] = "resume" /\ pc'[s] = ret[s]
        /\ ret'[s] = "user"
    BY DEF resume, At, Set, Goto, local, ProcInv, TypeOK, TableOK
  <2>3. Control(s)' = Control(s)
    BY <1>2, <2>2 DEF Control, Switching
  <2>4. RunState(s)' /\ RetState(s)'
    BY <1>2, <2>2 DEF ProcInv, StateInv, RunState, RetState, Switching
  <2>5. state[s] = "RUNNING"
    BY <2>2 DEF ProcInv, StateInv, RunState
  <2>6. Control(s)' \in Forking => pp'[s] \in Slots /\ state'[pp'[s]] = "USED"
    BY <2>2, <2>3 DEF ProcInv, StateInv, ForkInv
  <2> QED BY <1>1, <2>1, <2>2, <2>3, <2>4, <2>5, <2>6, StateStep
<1> QED BY <1>1, <1>3, <1>4 DEF ProcInv

\* The end of swtch(): the state was changed before it.
LEMMA SchedInv ==
  ASSUME ProcInv, NEW c \in CPUs, NEW s \in Slots, sched(c, s)
  PROVE  ProcInv'
<1>1. TypeOK'
  BY ProcAssumption DEF ProcInv, TypeOK, TableOK, Pcs, Live, None, Slots, Free, initproc, sched, At, Goto, Set, Return, table, locks, local
<1>2. run[c] = s /\ pc[s] = "sched"
  BY DEF sched, At
<1>3. LockInv'
  BY <1>2, LockLeave DEF ProcInv, sched, Set, Goto
<1>4. StateInv'
  <2>1. \A t \in Slots : t # s => pc'[t] = pc[t] /\ ret'[t] = ret[t] /\ pp'[t] = pp[t]
    BY DEF sched, Set, Goto, local, ProcInv, TypeOK, TableOK
  <2>2. state' = state /\ pp' = pp /\ ret' = ret /\ pc'[s] = "off"
    BY DEF sched, table, Set, Goto, local, ProcInv, TypeOK, TableOK
  <2>3. Control(s)' = Control(s)
    BY <1>2, <2>2 DEF Control, Switching
  <2>4. RunState(s)' /\ RetState(s)' /\ state[s] # "USED"
    BY <1>2, <2>2 DEF ProcInv, StateInv, RunState, RetState, Switching
  <2>5. Control(s)' \in Forking => pp'[s] \in Slots /\ state'[pp'[s]] = "USED"
    BY <2>2, <2>3 DEF ProcInv, StateInv, ForkInv
  <2> QED BY <1>1, <2>1, <2>2, <2>3, <2>4, <2>5, StateStep
<1> QED BY <1>1, <1>3, <1>4 DEF ProcInv

\* yield(): an interrupt finds no spinlock held.
LEMMA YieldInv ==
  ASSUME ProcInv, NEW c \in CPUs, NEW s \in Slots, yield(c, s)
  PROVE  ProcInv'
<1>1. TypeOK'
  BY ProcAssumption DEF ProcInv, TypeOK, TableOK, Pcs, Live, None, Slots, Free, initproc, yield, At, Goto, Set, Return, table, locks, local, Interruptible, Switching
<1>2. run[c] = s /\ pc[s] \notin Switching /\ wait_lock # c
  BY FreeAssumption DEF yield, Interruptible, Switching, ProcInv, LockInv, Slots, None
<1>3. LockInv'
  BY <1>2, LockToSched DEF ProcInv, yield, Set, Goto
<1>4. StateInv'
  <2>1. \A t \in Slots : t # s => /\ pc'[t] = pc[t] /\ ret'[t] = ret[t] /\ pp'[t] = pp[t]
                                  /\ state'[t] = state[t]
    BY DEF yield, Set, Goto, local, ProcInv, TypeOK, TableOK
  <2>2. state'[s] = "RUNNABLE" /\ pp' = pp /\ ret'[s] = pc[s] /\ pc'[s] = "sched"
    BY DEF yield, Set, Goto, local, ProcInv, TypeOK, TableOK
  <2>3. Control(s)' = Control(s)
    BY <1>2, <2>2 DEF Control, Switching
  <2>4. state[s] = "RUNNING"
    BY <1>2 DEF ProcInv, StateInv, RunState, Switching
  <2>5. pc[s] \notin HoldsWaitLock
    BY <1>2 DEF ProcInv, LockInv, Slots, None
  <2>6. RunState(s)' /\ RetState(s)'
    BY <1>2, <2>2, <2>5 DEF ProcInv, TypeOK, TableOK, Pcs, Switching, Forking, HoldsWaitLock,
                           RunState, RetState
  <2>7. Control(s)' \in Forking => pp'[s] \in Slots /\ state'[pp'[s]] = "USED"
    BY <2>1, <2>2, <2>3, <2>4 DEF ProcInv, StateInv, ForkInv
  <2> QED BY <1>1, <2>1, <2>2, <2>3, <2>4, <2>6, <2>7, StateStep
<1> QED BY <1>1, <1>3, <1>4 DEF ProcInv

-----------------------------------------------------------------------------
(* Steps of a process that stays on its CPU.                               *)

\* freeproc() keeps the table's types.
LEMMA FreeprocType ==
  ASSUME TableOK, NEW i \in Slots, freeproc(i)
  PROVE  TableOK'
<1> USE ProcAssumption DEF TableOK, freeproc, Set, None
<1>1. state' \in [Slots -> Live \cup {"UNUSED", "USED", "ZOMBIE"}]
  OBVIOUS
<1>2. /\ chan' \in [Slots -> Slots \cup {None}]
      /\ parent' \in [Slots -> Slots \cup {None}]
      /\ thread_parent' \in [Slots -> Slots \cup {None}]
  OBVIOUS
<1>3. killed' \in [Slots -> {0, 1}] /\ pid' \in [Slots -> 0..MaxPid]
  OBVIOUS
<1>4. pagetable' \in [Slots -> 0..MaxPid]
  OBVIOUS
<1>5. tables' \subseteq 1..MaxPid
  BY Zenon
<1> QED BY <1>1, <1>2, <1>3, <1>4, <1>5

\* A step of s changes the state of no slot but one that is free or that s is filling.
StateMoves(s) ==
  \A t \in Slots : state'[t] # state[t] =>
    /\ lock[t] = Free /\ state[t] # "RUNNING"
    /\ state'[t] \in {"RUNNABLE", "USED", "UNUSED"}
    /\ state'[t] # "RUNNABLE" => state[t] \in {"ZOMBIE", "UNUSED"}
    /\ state[t] = "USED" => pc[s] \in Forking /\ pp[s] = t
OthersKeepPp(s) == \A t \in Slots : t # s => pp'[t] = pp[t]

\* The process goes on at l; it may change the state of slots whose lock it holds,
\* none of which runs.
LEMMA StayState ==
  ASSUME ProcInv, TypeOK', NEW c \in CPUs, NEW s \in Slots, run[c] = s,
         pc[s] \notin Switching, NEW l \in Pcs \ Switching,
         pc' = [pc EXCEPT ![s] = l], ret' = ret,
         OthersKeepPp(s), StateMoves(s),
         l \in Forking =>
           /\ pp'[s] \in Slots /\ state'[pp'[s]] = "USED"
           /\ \/ pc[s] \in Forking /\ pp'[s] = pp[s]
              \/ state[pp'[s]] # "USED"
  PROVE  StateInv'
<1> USE DEF OthersKeepPp, StateMoves
<1>1. state[s] = "RUNNING" /\ state'[s] = "RUNNING"
  BY DEF ProcInv, StateInv, RunState, Switching
<1>2. \A t \in Slots : pc'[t] = IF t = s THEN l ELSE pc[t]
  BY DEF ProcInv, TypeOK, TableOK
<1>3. \A t \in Slots : state'[t] # state[t] => pc[t] = "off"
  BY FreeIsOff DEF ProcInv
<1>4. Control(s) = pc[s] /\ Control(s)' = l
  BY <1>2 DEF Control
<1>5. RunState(s)' /\ RetState(s)'
  BY <1>1, <1>2 DEF ProcInv, StateInv, RunState, RetState, Switching
<1> QED BY <1>1, <1>2, <1>3, <1>4, <1>5, StateStep

\* exit() before wait_lock.
LEMMA ExitInv ==
  ASSUME ProcInv, NEW c \in CPUs, NEW s \in Slots, exit(c, s)
  PROVE  ProcInv'
<1>1. TypeOK'
  BY ProcAssumption DEF ProcInv, TypeOK, TableOK, Pcs, Live, None, Slots, Free, initproc, exit, At, Goto, Set, Return, table, locks, local
<1>2. run[c] = s /\ pc[s] \notin Switching
  BY DEF exit, At, Switching
<1>3. LockInv'
  BY <1>2, LockStay DEF ProcInv, LockInv, None, Slots, HoldsWaitLock, Switching, Pcs, exit, At, Goto, Set, Return, table, locks, local
<1>4. StateInv'
  BY <1>1, <1>2, StayState DEF StateMoves, OthersKeepPp, ProcInv, StateInv, ForkInv, Control, TypeOK, TableOK, Forking, Switching, Pcs, exit, At, Goto, Set, Return, table, locks, local
<1> QED BY <1>1, <1>3, <1>4 DEF ProcInv

\* exit() takes wait_lock.
LEMMA ExitAcquireInv ==
  ASSUME ProcInv, NEW c \in CPUs, NEW s \in Slots, exit_acquire(c, s)
  PROVE  ProcInv'
<1>1. TypeOK'
  BY ProcAssumption DEF ProcInv, TypeOK, TableOK, Pcs, Live, None, Slots, Free, initproc, exit_acquire, At, Goto, Set, Return, table, locks, local
<1>2. run[c] = s /\ pc[s] \notin Switching
  BY DEF exit_acquire, At, Switching
<1>3. LockInv'
  BY <1>2, LockStay DEF ProcInv, LockInv, None, Slots, HoldsWaitLock, Switching, Pcs, exit_acquire, At, Goto, Set, Return, table, locks, local
<1>4. StateInv'
  BY <1>1, <1>2, StayState DEF StateMoves, OthersKeepPp, ProcInv, StateInv, ForkInv, Control, TypeOK, TableOK, Forking, Switching, Pcs, exit_acquire, At, Goto, Set, Return, table, locks, local
<1> QED BY <1>1, <1>3, <1>4 DEF ProcInv

\* wait() before wait_lock.
LEMMA WaitInv ==
  ASSUME ProcInv, NEW c \in CPUs, NEW s \in Slots, wait(c, s)
  PROVE  ProcInv'
<1>1. TypeOK'
  BY ProcAssumption DEF ProcInv, TypeOK, TableOK, Pcs, Live, None, Slots, Free, initproc, wait, At, Goto, Set, Return, table, locks, local, Syscall
<1>2. run[c] = s /\ pc[s] \notin Switching
  BY DEF wait, At, Switching, Syscall
<1>3. LockInv'
  BY <1>2, LockStay DEF ProcInv, LockInv, None, Slots, HoldsWaitLock, Switching, Pcs, wait, At, Goto, Set, Return, table, locks, local, Syscall
<1>4. StateInv'
  BY <1>1, <1>2, StayState DEF StateMoves, OthersKeepPp, ProcInv, StateInv, ForkInv, Control, TypeOK, TableOK, Forking, Switching, Pcs, wait, At, Goto, Set, Return, table, locks, local, Syscall
<1> QED BY <1>1, <1>3, <1>4 DEF ProcInv

\* wait() takes wait_lock.
LEMMA WaitAcquireInv ==
  ASSUME ProcInv, NEW c \in CPUs, NEW s \in Slots, wait_acquire(c, s)
  PROVE  ProcInv'
<1>1. TypeOK'
  BY ProcAssumption DEF ProcInv, TypeOK, TableOK, Pcs, Live, None, Slots, Free, initproc, wait_acquire, At, Goto, Set, Return, table, locks, local
<1>2. run[c] = s /\ pc[s] \notin Switching
  BY DEF wait_acquire, At, Switching
<1>3. LockInv'
  BY <1>2, LockStay DEF ProcInv, LockInv, None, Slots, HoldsWaitLock, Switching, Pcs, wait_acquire, At, Goto, Set, Return, table, locks, local
<1>4. StateInv'
  BY <1>1, <1>2, StayState DEF StateMoves, OthersKeepPp, ProcInv, StateInv, ForkInv, Control, TypeOK, TableOK, Forking, Switching, Pcs, wait_acquire, At, Goto, Set, Return, table, locks, local
<1> QED BY <1>1, <1>3, <1>4 DEF ProcInv

\* thread_join() takes no lock.
LEMMA ThreadJoinInv ==
  ASSUME ProcInv, NEW c \in CPUs, NEW s \in Slots, thread_join(c, s)
  PROVE  ProcInv'
<1>1. TypeOK'
  BY ProcAssumption DEF ProcInv, TypeOK, TableOK, Pcs, Live, None, Slots, Free, initproc, thread_join, At, Goto, Set, Return, table, locks, local, Syscall
<1>2. run[c] = s /\ pc[s] \notin Switching
  BY DEF thread_join, At, Switching, Syscall
<1>3. LockInv'
  BY <1>2, LockStay DEF ProcInv, LockInv, None, Slots, HoldsWaitLock, Switching, Pcs, thread_join, At, Goto, Set, Return, table, locks, local, Syscall
<1>4. StateInv'
  BY <1>1, <1>2, StayState DEF StateMoves, OthersKeepPp, ProcInv, StateInv, ForkInv, Control, TypeOK, TableOK, Forking, Switching, Pcs, thread_join, At, Goto, Set, Return, table, locks, local, Syscall
<1> QED BY <1>1, <1>3, <1>4 DEF ProcInv

\* wait() keeps wait_lock to sleep, or returns.
LEMMA WaitEndInv ==
  ASSUME ProcInv, NEW c \in CPUs, NEW s \in Slots, wait_end(c, s)
  PROVE  ProcInv'
<1>1. /\ run[c] = s /\ pc[s] = "scan" /\ UNCHANGED <<table, lock, run, ret>>
      /\ \/ pc' = [pc EXCEPT ![s] = "user"] /\ wait_lock' = Free
         \/ pc' = [pc EXCEPT ![s] = "sleep"] /\ wait_lock' = wait_lock
  BY DEF wait_end, At, Goto, Return
<1>2. /\ pp' \in [Slots -> Slots \cup {None}] /\ havekids' \in [Slots -> {0, 1}]
      /\ OthersKeepPp(s)
  BY DEF wait_end, Goto, Return, Set, local, ProcInv, TypeOK, OthersKeepPp
<1>3. TypeOK'
  <2>1. TableOK'
    BY <1>1 DEF ProcInv, TypeOK, TableOK, table
  <2>2. pc' \in [Slots -> Pcs] /\ wait_lock' \in CPUs \cup {Free}
    BY <1>1 DEF ProcInv, TypeOK, Pcs
  <2> QED BY <1>1, <1>2, <2>1, <2>2 DEF ProcInv, TypeOK
<1>4. wait_lock = c
  BY <1>1 DEF ProcInv, LockInv, HoldsWaitLock, None, Slots, TypeOK
<1>5. PICK l \in {"user", "sleep"} : /\ pc' = [pc EXCEPT ![s] = l]
                                     /\ wait_lock' = IF l = "sleep" THEN c ELSE Free
  BY <1>1, <1>4
<1>6. /\ pc[s] \notin Switching /\ l \in Pcs \ Switching /\ l \notin Forking
      /\ l \in HoldsWaitLock <=> l = "sleep"
  BY <1>1 DEF Pcs, Switching, Forking, HoldsWaitLock
<1>7. LockInv'
  BY <1>1, <1>4, <1>5, <1>6, LockStay DEF ProcInv
<1>8. StateMoves(s)
  BY <1>1 DEF StateMoves, table
<1>9. StateInv'
  BY <1>1, <1>2, <1>3, <1>5, <1>6, <1>8, StayState
<1> QED BY <1>3, <1>7, <1>9 DEF ProcInv

\* exit() wakes the parent, under its lock.
LEMMA ExitWakeupInv ==
  ASSUME ProcInv, NEW c \in CPUs, NEW s \in Slots, exit_wakeup(c, s)
  PROVE  ProcInv'
<1>1. TypeOK'
  BY ProcAssumption DEF ProcInv, TypeOK, TableOK, Pcs, Live, None, Slots, Free, initproc,
                        exit_wakeup, At, Goto, Set, locks, wakeup
<1>2. run[c] = s /\ pc[s] \notin Switching
  BY DEF exit_wakeup, At, Switching
<1>3. LockInv'
  BY <1>2, LockStay DEF ProcInv, LockInv, None, Slots, HoldsWaitLock, Switching, Pcs,
                        exit_wakeup, At, Goto, locks
<1>4. StateInv'
  <2>1. \A t \in Slots : state'[t] # state[t] =>
          lock[t] = Free /\ state[t] = "SLEEPING" /\ state'[t] = "RUNNABLE"
    BY DEF exit_wakeup, wakeup, ProcInv, TypeOK, TableOK
  <2>2. /\ pc' = [pc EXCEPT ![s] = "zombie"] /\ ret' = ret
        /\ \A t \in Slots : t # s => pp'[t] = pp[t]
    BY DEF exit_wakeup, Goto, Set, ProcInv, TypeOK
  <2> QED BY <1>1, <1>2, <2>1, <2>2, StayState DEF StateMoves, OthersKeepPp, Forking, Switching, Pcs
<1> QED BY <1>1, <1>3, <1>4 DEF ProcInv

\* fork() links the child to the parent.
LEMMA ForkParentInv ==
  ASSUME ProcInv, NEW c \in CPUs, NEW s \in Slots, fork_parent(c, s)
  PROVE  ProcInv'
<1>1. TypeOK'
  BY ProcAssumption DEF ProcInv, TypeOK, TableOK, Pcs, Live, None, Slots, Free, initproc, fork_parent, At, Goto, Set, Return, table, locks, local
<1>2. run[c] = s /\ pc[s] \notin Switching
  BY DEF fork_parent, At, Switching
<1>3. LockInv'
  BY <1>2, LockStay DEF ProcInv, LockInv, None, Slots, HoldsWaitLock, Switching, Pcs, fork_parent, At, Goto, Set, Return, table, locks, local
<1>4. StateInv'
  BY <1>1, <1>2, StayState DEF StateMoves, OthersKeepPp, ProcInv, StateInv, ForkInv, Control, TypeOK, TableOK, Forking, Switching, Pcs, fork_parent, At, Goto, Set, Return, table, locks, local
<1> QED BY <1>1, <1>3, <1>4 DEF ProcInv

\* fork() makes its own child runnable.
LEMMA ForkRunInv ==
  ASSUME ProcInv, NEW c \in CPUs, NEW s \in Slots, fork_run(c, s)
  PROVE  ProcInv'
<1>1. TypeOK'
  BY ProcAssumption DEF ProcInv, TypeOK, TableOK, Pcs, Live, None, Slots, Free, initproc,
                        fork_run, At, Goto, Set, Return, locks
<1>2. run[c] = s /\ pc[s] = "fork_run" /\ pc[s] \notin Switching
  BY DEF fork_run, At, Switching
<1>3. LockInv'
  BY <1>2, LockStay DEF ProcInv, LockInv, None, Slots, HoldsWaitLock, Switching, Pcs,
                        fork_run, At, Goto, Return, locks
<1>4. StateInv'
  <2>1. pp[s] \in Slots /\ state[pp[s]] = "USED" /\ pc[s] \in Forking
    BY <1>2 DEF ProcInv, StateInv, ForkInv, Control, Forking, Switching
  <2>2. \A t \in Slots : state'[t] = IF t = pp[s] THEN "RUNNABLE" ELSE state[t]
    BY <2>1 DEF fork_run, Set, ProcInv, TypeOK, TableOK
  <2>3. lock[pp[s]] = Free
    BY DEF fork_run
  <2>4. /\ pc' = [pc EXCEPT ![s] = "user"] /\ ret' = ret
        /\ \A t \in Slots : t # s => pp'[t] = pp[t]
    BY DEF fork_run, Goto, Set, Return, ProcInv, TypeOK
  <2> QED BY <1>1, <1>2, <2>1, <2>2, <2>3, <2>4, StayState DEF StateMoves, OthersKeepPp, Forking, Switching, Pcs
<1> QED BY <1>1, <1>3, <1>4 DEF ProcInv

\* exit() hands over one child, or goes on.
LEMMA ReparentInv ==
  ASSUME ProcInv, NEW c \in CPUs, NEW s \in Slots, reparent(c, s)
  PROVE  ProcInv'
<1>1. TypeOK'
  <2> USE ProcAssumption DEF ProcInv, TypeOK, TableOK, None, Slots, initproc, reparent, locks
  <2>1. CASE NextIn(s, Children(s)) = {} /\ Goto(s, "wakeup_parent")
             /\ UNCHANGED <<state, parent, pp>>
    BY <2>1 DEF Goto, Pcs
  <2>2. CASE \E i \in NextIn(s, Children(s)) :
               /\ Set(parent, i, initproc) /\ wakeup(s, initproc)
               /\ Set(pp, s, i) /\ UNCHANGED pc
    <3>1. PICK i \in Slots : /\ parent' = [parent EXCEPT ![i] = initproc]
                             /\ pp' = [pp EXCEPT ![s] = i]
                             /\ wakeup(s, initproc) /\ pc' = pc
      BY <2>2 DEF NextIn, Children, Set
    <3>2. parent' \in [Slots -> Slots \cup {None}] /\ pp' \in [Slots -> Slots \cup {None}]
      BY <3>1
    <3>3. state' \in [Slots -> Live \cup {"UNUSED", "USED", "ZOMBIE"}]
      BY <3>1 DEF wakeup, Live
    <3> QED BY <3>1, <3>2, <3>3
  <2> QED BY <2>1, <2>2
<1>2. run[c] = s /\ pc[s] = "reparent" /\ pc[s] \notin Switching
  BY DEF reparent, At, Switching
<1>3. LockInv'
  BY <1>2, LockStay DEF ProcInv, LockInv, TypeOK, None, Slots, HoldsWaitLock, Switching,
                        Pcs, reparent, Goto, locks
<1>4. StateInv'
  <2>1. \A t \in Slots : state'[t] # state[t] =>
          lock[t] = Free /\ state[t] = "SLEEPING" /\ state'[t] = "RUNNABLE"
    BY DEF reparent, wakeup, ProcInv, TypeOK, TableOK
  <2>2. PICK l \in {"reparent", "wakeup_parent"} : pc' = [pc EXCEPT ![s] = l]
    BY <1>2 DEF reparent, Goto, ProcInv, TypeOK
  <2>3. ret' = ret /\ \A t \in Slots : t # s => pp'[t] = pp[t]
    BY DEF reparent, Set, ProcInv, TypeOK
  <2> QED BY <1>1, <1>2, <2>1, <2>2, <2>3, StayState DEF StateMoves, OthersKeepPp, Forking, Switching, Pcs
<1> QED BY <1>1, <1>3, <1>4 DEF ProcInv

\* wait() looks at one child, and frees a zombie.
LEMMA WaitScanInv ==
  ASSUME ProcInv, NEW c \in CPUs, NEW s \in Slots, wait_scan(c, s)
  PROVE  ProcInv'
<1>1. /\ \/ UNCHANGED table
         \/ \E i \in Slots : lock[i] = Free /\ state[i] = "ZOMBIE" /\ freeproc(i)
      /\ ret' = ret /\ run' = run /\ lock' = lock
  BY DEF wait_scan, NextIn, Children, ChildLocked
<1>2. /\ pp' \in [Slots -> Slots \cup {None}] /\ havekids' \in [Slots -> {0, 1}]
      /\ \A t \in Slots : t # s => pp'[t] = pp[t]
  BY DEF wait_scan, NextIn, Children, ChildLocked, Return, Set, ProcInv, TypeOK
<1>3. /\ run[c] = s /\ pc[s] = "scan"
      /\ \/ pc' = [pc EXCEPT ![s] = "user"] /\ wait_lock' = Free
         \/ pc' = [pc EXCEPT ![s] = "scan"] /\ wait_lock' = wait_lock
  BY DEF wait_scan, At, Goto, Return, locks, ProcInv, TypeOK
<1>4. TypeOK'
  <2>1. TableOK'
    BY <1>1, FreeprocType DEF ProcInv, TypeOK, TableOK, table
  <2> QED BY <1>1, <1>2, <1>3, <2>1 DEF ProcInv, TypeOK, Pcs
<1>5. LockInv'
  BY <1>1, <1>3, LockStay DEF ProcInv, LockInv, None, Slots, HoldsWaitLock, Switching, Pcs
<1>6. StateInv'
  <2>1. \A t \in Slots : state'[t] # state[t] =>
          lock[t] = Free /\ state[t] = "ZOMBIE" /\ state'[t] = "UNUSED"
    BY <1>1 DEF freeproc, Set, table, ProcInv, TypeOK, TableOK
  <2>2. PICK l \in {"user", "scan"} : pc' = [pc EXCEPT ![s] = l]
    BY <1>3
  <2>3. pc[s] \notin Switching /\ l \in Pcs \ Switching /\ l \notin Forking
    BY <1>3 DEF Pcs, Switching, Forking
  <2>4. StateMoves(s)
    BY <2>1 DEF StateMoves
  <2>5. run[c] = s /\ ret' = ret /\ OthersKeepPp(s)
    BY <1>1, <1>2, <1>3 DEF OthersKeepPp
  <2> QED BY <1>4, <2>2, <2>3, <2>4, <2>5, StayState
<1> QED BY <1>4, <1>5, <1>6 DEF ProcInv

\* thread_join() looks at one slot, before and after it has the slot's lock.
LEMMA JoinScanInv ==
  ASSUME ProcInv, NEW c \in CPUs, NEW s \in Slots,
         join_scan(c, s) \/ join_lock(c, s)
  PROVE  ProcInv'
<1>1. /\ \/ UNCHANGED table
         \/ \E i \in Slots : lock[i] = Free /\ state[i] = "ZOMBIE" /\ freeproc(i)
      /\ ret' = ret /\ run' = run /\ lock' = lock
  BY DEF join_scan, join_lock, NextIn, Threads, locks
<1>2. /\ pp' \in [Slots -> Slots \cup {None}] /\ havekids' \in [Slots -> {0, 1}]
      /\ \A t \in Slots : t # s => pp'[t] = pp[t]
  BY DEF join_scan, join_lock, local, NextIn, Threads, Return, Set, ProcInv, TypeOK
<1>3. /\ run[c] = s /\ pc[s] \in {"join", "join_lock"}
      /\ \/ pc' = [pc EXCEPT ![s] = "user"] /\ wait_lock' = wait_lock
         \/ pc' = [pc EXCEPT ![s] = "join"] /\ wait_lock' = wait_lock
         \/ pc' = [pc EXCEPT ![s] = "join_lock"] /\ wait_lock' = wait_lock
  BY DEF join_scan, join_lock, local, At, Goto, Return, locks, ProcInv, TypeOK
<1>4. TypeOK'
  <2>1. TableOK'
    BY <1>1, FreeprocType DEF ProcInv, TypeOK, TableOK, table
  <2> QED BY <1>1, <1>2, <1>3, <2>1 DEF ProcInv, TypeOK, Pcs
<1>5. LockInv'
  BY <1>1, <1>3, LockStay DEF ProcInv, LockInv, None, Slots, HoldsWaitLock, Switching, Pcs
<1>6. StateInv'
  <2>1. \A t \in Slots : state'[t] # state[t] =>
          lock[t] = Free /\ state[t] = "ZOMBIE" /\ state'[t] = "UNUSED"
    BY <1>1 DEF freeproc, Set, table, ProcInv, TypeOK, TableOK
  <2>2. PICK l \in {"user", "join", "join_lock"} : pc' = [pc EXCEPT ![s] = l]
    BY <1>3
  <2>3. pc[s] \notin Switching /\ l \in Pcs \ Switching /\ l \notin Forking
    BY <1>3 DEF Pcs, Switching, Forking
  <2>4. StateMoves(s)
    BY <2>1 DEF StateMoves
  <2>5. run[c] = s /\ ret' = ret /\ OthersKeepPp(s)
    BY <1>1, <1>2, <1>3 DEF OthersKeepPp
  <2> QED BY <1>4, <2>2, <2>3, <2>4, <2>5, StayState
<1> QED BY <1>4, <1>5, <1>6 DEF ProcInv

\* fork() fills an unused slot, or fails.
LEMMA ForkInvStep ==
  ASSUME ProcInv, NEW c \in CPUs, NEW s \in Slots, NEW n \in Slots, fork(c, s, n)
  PROVE  ProcInv'
<1>1. TypeOK'
  <2> USE ProcAssumption DEF ProcInv, TypeOK, TableOK
  <2>1. nextpid \in 1..MaxPid /\ nextpid' = nextpid + 1
    BY DEF fork
  <2>2. nextpid' \in 2..(MaxPid + 1) /\ nextpid \in 0..MaxPid
    BY <2>1
  <2>3. tables' \subseteq 1..MaxPid
    BY <2>1 DEF fork, proc_pagetable
  <2>4. /\ state' \in [Slots -> Live \cup {"UNUSED", "USED", "ZOMBIE"}]
        /\ killed' \in [Slots -> {0, 1}]
    BY DEF fork, Set
  <2>5. pid' \in [Slots -> 0..MaxPid] /\ pagetable' \in [Slots -> 0..MaxPid]
    BY <2>2 DEF fork, Set, proc_pagetable
  <2>6. pp' \in [Slots -> Slots \cup {None}] /\ pc' \in [Slots -> Pcs]
    BY DEF fork, Set, Goto, Pcs
  <2>7. UNCHANGED <<chan, parent, thread_parent, lock, wait_lock, run, ret, havekids>>
    BY DEF fork, locks
  <2> QED BY <2>2, <2>3, <2>4, <2>5, <2>6, <2>7
<1>2. run[c] = s /\ pc[s] \notin Switching
  BY DEF fork, At, Switching, Syscall, proc_pagetable
<1>3. LockInv'
  BY <1>2, LockStay DEF ProcInv, LockInv, None, Slots, HoldsWaitLock, Switching, Pcs, fork, At, Goto, Set, Return, table, locks, local, Syscall, proc_pagetable
<1>4. StateInv'
  BY <1>1, <1>2, StayState DEF StateMoves, OthersKeepPp, ProcInv, StateInv, ForkInv, Control, TypeOK, TableOK, Forking, Switching, Pcs, fork, At, Goto, Set, Return, table, locks, local, Syscall, proc_pagetable
<1> QED BY <1>1, <1>3, <1>4 DEF ProcInv

\* thread_create() fills an unused slot, or fails.
LEMMA ThreadCreateInv ==
  ASSUME ProcInv, NEW c \in CPUs, NEW s \in Slots, NEW n \in Slots, thread_create(c, s, n)
  PROVE  ProcInv'
<1>1. TypeOK'
  <2> USE ProcAssumption DEF ProcInv, TypeOK, TableOK
  <2>1. nextpid \in 1..MaxPid /\ nextpid' = nextpid + 1
    BY DEF thread_create
  <2>2. nextpid' \in 2..(MaxPid + 1) /\ nextpid \in 0..MaxPid
    BY <2>1
  <2>3. /\ state' \in [Slots -> Live \cup {"UNUSED", "USED", "ZOMBIE"}]
        /\ killed' \in [Slots -> {0, 1}]
    BY DEF thread_create, Set, Live
  <2>4. pid' \in [Slots -> 0..MaxPid] /\ pagetable' \in [Slots -> 0..MaxPid]
    BY <2>2 DEF thread_create, Set
  <2>5. /\ parent' \in [Slots -> Slots \cup {None}]
        /\ thread_parent' \in [Slots -> Slots \cup {None}]
    BY DEF thread_create, Set
  <2>6. UNCHANGED <<chan, tables, lock, wait_lock, run, pc, ret, pp, havekids>>
    BY DEF thread_create, locks, local
  <2> QED BY <2>2, <2>3, <2>4, <2>5, <2>6
<1>2. run[c] = s /\ pc[s] \notin Switching
  BY DEF thread_create, At, Switching, Syscall
<1>3. LockInv'
  BY <1>2, LockStay DEF ProcInv, LockInv, None, Slots, HoldsWaitLock, Switching, Pcs, thread_create, At, Goto, Set, Return, table, locks, local, Syscall
<1>4. StateInv'
  BY <1>1, <1>2, StayState DEF StateMoves, OthersKeepPp, ProcInv, StateInv, ForkInv, Control, TypeOK, TableOK, Forking, Switching, Pcs, thread_create, At, Goto, Set, Return, table, locks, local, Syscall
<1> QED BY <1>1, <1>3, <1>4 DEF ProcInv

\* kill() wakes a sleeper, under its lock.
LEMMA KillInv ==
  ASSUME ProcInv, NEW c \in CPUs, NEW s \in Slots, NEW n \in Slots, kill(c, s, n)
  PROVE  ProcInv'
<1>1. TypeOK'
  BY ProcAssumption DEF ProcInv, TypeOK, TableOK, Pcs, Live, None, Slots, Free, initproc, kill, At, Goto, Set, Return, table, locks, local, Syscall
<1>2. run[c] = s /\ pc[s] \notin Switching
  BY DEF kill, At, Switching, Syscall
<1>3. LockInv'
  BY <1>2, LockStay DEF ProcInv, LockInv, None, Slots, HoldsWaitLock, Switching, Pcs, kill, At, Goto, Set, Return, table, locks, local, Syscall
<1>4. StateInv'
  BY <1>1, <1>2, StayState DEF StateMoves, OthersKeepPp, ProcInv, StateInv, ForkInv, Control, TypeOK, TableOK, Forking, Switching, Pcs, kill, At, Goto, Set, Return, table, locks, local, Syscall
<1> QED BY <1>1, <1>3, <1>4 DEF ProcInv

\* sleep() and the last part of exit() enter sched() with p->lock alone.
LEMMA ToSchedInv ==
  ASSUME ProcInv, NEW c \in CPUs, NEW s \in Slots, sleep(c, s) \/ exit_zombie(c, s)
  PROVE  ProcInv'
<1>1. /\ run[c] = s /\ pc[s] \in HoldsWaitLock /\ pc[s] \notin Switching
      /\ state[s] = "RUNNING" /\ wait_lock = c
  BY DEF sleep, exit_zombie, At, HoldsWaitLock, Switching, ProcInv, LockInv, StateInv,
         RunState, Slots, None
<1>2. /\ lock' = [lock EXCEPT ![s] = c] /\ wait_lock' = Free /\ run' = run
      /\ pc' = [pc EXCEPT ![s] = "sched"]
  BY DEF sleep, exit_zombie, Set, Goto
<1>3. PICK x \in {"SLEEPING", "ZOMBIE"}, r \in {"user", "wait"} :
        /\ state' = [state EXCEPT ![s] = x] /\ ret' = [ret EXCEPT ![s] = r]
        /\ x = "ZOMBIE" => r = "user"
  <2>1. CASE sleep(c, s)
    BY <2>1 DEF sleep, Set
  <2>2. CASE exit_zombie(c, s)
    <3>1. ret' = ret /\ state' = [state EXCEPT ![s] = "ZOMBIE"]
      BY <2>2 DEF exit_zombie, Set
    <3>2. ret[s] = "user"
      BY <1>1 DEF ProcInv, StateInv, RetState
    <3> QED BY <3>1, <3>2 DEF ProcInv, TypeOK
  <2> QED BY <2>1, <2>2
<1>4. pp' \in [Slots -> Slots \cup {None}] /\ havekids' \in [Slots -> {0, 1}]
      /\ \A t \in Slots : t # s => pp'[t] = pp[t]
  BY DEF sleep, exit_zombie, Set, local, ProcInv, TypeOK
<1>5. chan' \in [Slots -> Slots \cup {None}]
      /\ UNCHANGED <<killed, pid, parent, thread_parent, pagetable, tables, nextpid>>
  BY DEF sleep, exit_zombie, Set, ProcInv, TypeOK, TableOK
<1>6. TypeOK'
  BY <1>2, <1>3, <1>4, <1>5 DEF ProcInv, TypeOK, TableOK, Pcs, Live
<1>7. LockInv'
  BY <1>1, <1>2, LockToSched DEF ProcInv
<1>8. StateInv'
  <2>1. \A t \in Slots : t # s => /\ pc'[t] = pc[t] /\ ret'[t] = ret[t] /\ pp'[t] = pp[t]
                                  /\ state'[t] = state[t]
    BY <1>2, <1>3, <1>4 DEF ProcInv, TypeOK, TableOK
  <2>2. pc'[s] = "sched" /\ ret'[s] = r /\ state'[s] = x
    BY <1>2, <1>3 DEF ProcInv, TypeOK, TableOK
  <2>3. RunState(s)' /\ RetState(s)' /\ Control(s)' \notin Forking
    BY <1>3, <2>2 DEF RunState, RetState, Control, Switching, Forking
  <2> QED BY <1>1, <1>6, <2>1, <2>3, StateStep
<1> QED BY <1>6, <1>7, <1>8 DEF ProcInv

-----------------------------------------------------------------------------

\* After userinit() the invariant holds.
LEMMA InitInv == Init => ProcInv
<1> SUFFICES ASSUME Init PROVE ProcInv
  OBVIOUS
<1> USE ProcAssumption DEF Init, None, initproc
<1>1. TypeOK
  BY DEF TypeOK, TableOK, Slots, Pcs, Live
<1>2. LockInv
  BY FreeAssumption DEF LockInv, Slots, HoldsWaitLock
<1>3. StateInv
  BY DEF StateInv, RunState, RetState, ForkInv, Control, Switching, Forking
<1> QED BY <1>1, <1>2, <1>3 DEF ProcInv

\* Every step of every CPU keeps it.
LEMMA NextInv == ProcInv /\ [Next]_vars => ProcInv'
<1> SUFFICES ASSUME ProcInv, [Next]_vars PROVE ProcInv'
  OBVIOUS
<1>1. CASE UNCHANGED vars
  BY <1>1 DEF vars, table, locks, local, ProcInv, TypeOK, TableOK, LockInv, StateInv,
              RunState, RetState, ForkInv, Control
<1>2. CASE Next
  <2>1. PICK c \in CPUs, s \in Slots :
          \/ scheduler(c, s) \/ Switch(c, s) \/ Kernel(c, s) \/ yield(c, s)
          \/ exit(c, s) \/ wait(c, s) \/ thread_join(c, s)
          \/ \E n \in Slots : fork(c, s, n) \/ thread_create(c, s, n) \/ kill(c, s, n)
    BY <1>2 DEF Next
  <2>2. CASE scheduler(c, s) \/ Switch(c, s) \/ yield(c, s)
    BY <2>2, SchedulerInv, ResumeInv, SchedInv, YieldInv DEF Switch
  <2>3. CASE Kernel(c, s)
    BY <2>3, ForkParentInv, ForkRunInv, ExitAcquireInv, ReparentInv, ExitWakeupInv,
       WaitAcquireInv, WaitScanInv, WaitEndInv, JoinScanInv, ToSchedInv DEF Kernel
  <2>4. CASE exit(c, s) \/ wait(c, s) \/ thread_join(c, s)
    BY <2>4, ExitInv, WaitInv, ThreadJoinInv
  <2>5. CASE \E n \in Slots : fork(c, s, n) \/ thread_create(c, s, n) \/ kill(c, s, n)
    BY <2>5, ForkInvStep, ThreadCreateInv, KillInv
  <2> QED BY <2>1, <2>2, <2>3, <2>4, <2>5
<1> QED BY <1>1, <1>2

\* The locking discipline holds in every state, for any number of slots and CPUs.
THEOREM ProcSafety == Spec => []ProcInv
<1> QED BY InitInv, NextInv, PTL DEF Spec

\* No kernel stack is ever used by two CPUs, and none is given back while a CPU
\* is still on it: scheduler(), sched(), exit() and wait() with p->lock.
THEOREM KernelStacksSafe == Spec => []StackSafe
<1>1. ProcInv => StackSafe
  BY DEF ProcInv, TypeOK, LockInv, StateInv, RunState, StackSafe
<1> QED BY <1>1, ProcSafety, PTL
-----------------------------------------------------------------------------
(* Parents, children and the sleep in wait().                              *)

Exiting == {"exit", "reparent", "wakeup_parent", "zombie"}

\* Only wait() sleeps, on the process's own address.
ChanInv == \A s \in Slots : state[s] = "SLEEPING" => chan[s] = s
\* initproc does not exit.
InitLives == state[initproc] \in Live /\ Control(initproc) \notin Exiting
\* The loops over the table start at its first slot.
FreshScan == \A s \in Slots : Control(s) \in {"user", "wait", "exit", "zombie"} => pp[s] = None
\* A parent is alive; in exit(), the children that reparent() has passed are gone.
ChildInv == \A t \in Slots : parent[t] # None =>
              /\ state[parent[t]] \in Live
              /\ pc[parent[t]] = "reparent" => t > pp[parent[t]]
              /\ pc[parent[t]] \notin {"wakeup_parent", "zombie"}
\* A parent that has a zombie is awake; in wait(), the zombie is still to come.
ZombieInv == \A t \in Slots : parent[t] # None /\ state[t] = "ZOMBIE" =>
               /\ state[parent[t]] # "SLEEPING" /\ pc[parent[t]] # "sleep"
               /\ pc[parent[t]] = "scan" => t > pp[parent[t]]
\* exit() has woken the parent.
WokenInv == \A t \in Slots : pc[t] = "zombie" /\ parent[t] # None =>
              state[parent[t]] # "SLEEPING"

FamilyInv == ChanInv /\ InitLives /\ FreshScan /\ ChildInv /\ ZombieInv /\ WokenInv

\* wait_lock has one holder, and none when it is free.
LEMMA OneHolder ==
  ASSUME ProcInv, NEW s \in Slots, pc[s] \in HoldsWaitLock
  PROVE  wait_lock # Free /\ \A t \in Slots : pc[t] \in HoldsWaitLock => t = s
<1>1. \A t \in Slots : pc[t] \in HoldsWaitLock => \E d \in CPUs : run[d] = t
  BY DEF ProcInv, LockInv, HoldsWaitLock
<1>2. \A t \in Slots, d \in CPUs : pc[t] \in HoldsWaitLock /\ run[d] = t => wait_lock = d
  BY DEF ProcInv, LockInv, Slots, None
<1> QED BY <1>1, <1>2, FreeAssumption

\* What a step of s leaves alone.
OthersStay(s) == \A t \in Slots : t # s => pc'[t] = pc[t] /\ ret'[t] = ret[t] /\ pp'[t] = pp[t]
OthersCalm(s) == \A t \in Slots : t # s =>
                   /\ state'[t] = "SLEEPING" => state[t] = "SLEEPING" /\ chan'[t] = chan[t]
                   /\ state'[t] = "ZOMBIE" => state[t] = "ZOMBIE"
                   /\ state[t] \in Live => state'[t] \in Live
ParentsStay(s) == \A t \in Slots : parent'[t] \in {parent[t], None, s}

\* What it has to see to: its own state, its children and its parent.
OwnState(s) == /\ state'[s] = "SLEEPING" => chan'[s] = s
               /\ s = initproc => state'[s] \in Live /\ Control(s)' \notin Exiting
               /\ Control(s)' \in {"user", "wait", "exit", "zombie"} => pp'[s] = None
OwnChildren(s) == \A t \in Slots : parent'[t] = s =>
                    /\ state'[s] \in Live
                    /\ pc'[s] = "reparent" => t > pp'[s]
                    /\ pc'[s] \notin {"wakeup_parent", "zombie"}
                    /\ pc'[t] = "zombie" => state'[s] # "SLEEPING"
                    /\ state'[t] = "ZOMBIE" =>
                         /\ state'[s] # "SLEEPING" /\ pc'[s] # "sleep"
                         /\ pc'[s] = "scan" => t > pp'[s]
OwnParent(s) == parent'[s] # None =>
                  /\ pc'[s] = "zombie" => state'[parent'[s]] # "SLEEPING"
                  /\ state'[s] = "ZOMBIE" =>
                       /\ state'[parent'[s]] # "SLEEPING" /\ pc'[parent'[s]] # "sleep"
                       /\ pc'[parent'[s]] = "scan" => s > pp'[parent'[s]]

LEMMA FamilyStep ==
  ASSUME ProcInv, FamilyInv, TypeOK', NEW s \in Slots, OthersStay(s), OthersCalm(s),
         ParentsStay(s), OwnState(s), OwnChildren(s), OwnParent(s)
  PROVE  FamilyInv'
<1>1. ChanInv'
  BY DEF FamilyInv, ChanInv, OthersCalm, OwnState
<1>2. \A t \in Slots : t # s => Control(t)' = Control(t)
  BY DEF OthersStay, Control
<1>3. InitLives'
  <2>1. initproc \in Slots
    BY ProcAssumption DEF initproc, Slots
  <2> QED BY <1>2, <2>1 DEF FamilyInv, InitLives, OthersCalm, OwnState
<1>4. FreshScan'
  BY <1>2 DEF FamilyInv, FreshScan, OthersStay, OwnState
<1>5. ASSUME NEW t \in Slots, parent'[t] # None
      PROVE  \/ parent'[t] = s
             \/ /\ parent'[t] # s /\ parent'[t] \in Slots /\ parent[t] = parent'[t]
                /\ pc'[parent'[t]] = pc[parent'[t]] /\ pp'[parent'[t]] = pp[parent'[t]]
  <2>1. parent'[t] \in Slots /\ parent'[t] \in {parent[t], s}
    BY <1>5 DEF TypeOK, TableOK, ParentsStay
  <2> QED BY <2>1 DEF OthersStay
<1>6. ChildInv'
  <2> SUFFICES ASSUME NEW t \in Slots, NEW p, p = parent'[t], p # None
               PROVE  /\ state'[p] \in Live
                      /\ pc'[p] = "reparent" => t > pp'[p]
                      /\ pc'[p] \notin {"wakeup_parent", "zombie"}
    BY DEF ChildInv
  <2>1. CASE p = s
    BY <2>1 DEF OwnChildren
  <2>2. CASE p # s
    <3>1. p \in Slots /\ parent[t] = p /\ pc'[p] = pc[p] /\ pp'[p] = pp[p]
      BY <1>5, <2>2
    <3>2. /\ state[p] \in Live
          /\ pc[p] = "reparent" => t > pp[p]
          /\ pc[p] \notin {"wakeup_parent", "zombie"}
      BY <3>1 DEF FamilyInv, ChildInv
    <3> QED BY <2>2, <3>1, <3>2 DEF OthersCalm
  <2> QED BY <2>1, <2>2
<1>7. ZombieInv'
  <2> SUFFICES ASSUME NEW t \in Slots, NEW p, p = parent'[t], p # None, state'[t] = "ZOMBIE"
               PROVE  /\ state'[p] # "SLEEPING" /\ pc'[p] # "sleep"
                      /\ pc'[p] = "scan" => t > pp'[p]
    BY DEF ZombieInv
  <2>1. CASE p = s
    BY <2>1 DEF OwnChildren
  <2>2. CASE p # s /\ t = s
    BY <2>2 DEF OwnParent
  <2>3. CASE p # s /\ t # s
    <3>1. p \in Slots /\ parent[t] = p /\ pc'[p] = pc[p] /\ pp'[p] = pp[p]
      BY <1>5, <2>3
    <3>2. state[t] = "ZOMBIE"
      BY <2>3 DEF OthersCalm
    <3>3. /\ state[p] # "SLEEPING" /\ pc[p] # "sleep"
          /\ pc[p] = "scan" => t > pp[p]
      BY <3>1, <3>2 DEF FamilyInv, ZombieInv
    <3> QED BY <2>3, <3>1, <3>3 DEF OthersCalm
  <2> QED BY <2>1, <2>2, <2>3
<1>8. WokenInv'
  <2> SUFFICES ASSUME NEW t \in Slots, NEW p, p = parent'[t], p # None, pc'[t] = "zombie"
               PROVE  state'[p] # "SLEEPING"
    BY DEF WokenInv
  <2>1. CASE p = s
    BY <2>1 DEF OwnChildren
  <2>2. CASE p # s /\ t = s
    BY <2>2 DEF OwnParent
  <2>3. CASE p # s /\ t # s
    <3>1. p \in Slots /\ parent[t] = p /\ pc[t] = "zombie"
      BY <1>5, <2>3 DEF OthersStay
    <3>2. state[p] # "SLEEPING"
      BY <3>1 DEF FamilyInv, WokenInv
    <3> QED BY <2>3, <3>1, <3>2 DEF OthersCalm
  <2> QED BY <2>1, <2>2, <2>3
<1> QED BY <1>1, <1>3, <1>4, <1>6, <1>7, <1>8 DEF FamilyInv

\* A step after which s does not hold wait_lock and has not gone to sleep, and that
\* makes nobody a parent.
LEMMA QuietFamily ==
  ASSUME ProcInv, ProcInv', FamilyInv, NEW s \in Slots, OthersStay(s), OthersCalm(s),
         OwnState(s), \A t \in Slots : parent'[t] \in {parent[t], None},
         pc'[s] \notin HoldsWaitLock,
         \/ state'[s] = state[s]
         \/ state[s] \in Live /\ state'[s] \in {"RUNNABLE", "RUNNING"}
  PROVE  FamilyInv'
<1>1. OwnChildren(s)
  <2> SUFFICES ASSUME NEW t \in Slots, parent'[t] = s
               PROVE  /\ state'[s] \in Live
                      /\ pc'[t] = "zombie" => state'[s] # "SLEEPING"
                      /\ state'[t] = "ZOMBIE" => state'[s] # "SLEEPING"
    BY DEF OwnChildren, HoldsWaitLock
  <2>1. parent[t] = s /\ s # None
    BY DEF Slots, None
  <2>2. state[s] \in Live
    BY <2>1 DEF FamilyInv, ChildInv
  <2>3. state'[s] \in Live /\ state'[s] # "ZOMBIE"
    BY <2>2 DEF Live
  <2>4. ASSUME pc'[t] = "zombie" PROVE state'[s] # "SLEEPING"
    <3>1. pc[t] = "zombie"
      BY <2>4 DEF HoldsWaitLock, OthersStay
    <3> QED BY <2>1, <3>1 DEF FamilyInv, WokenInv
  <2>5. ASSUME state'[t] = "ZOMBIE" PROVE state'[s] # "SLEEPING"
    <3>1. state[t] = "ZOMBIE"
      BY <2>3, <2>5 DEF OthersCalm
    <3> QED BY <2>1, <3>1 DEF FamilyInv, ZombieInv
  <2> QED BY <2>3, <2>4, <2>5
<1>2. OwnParent(s)
  <2> SUFFICES ASSUME NEW p, p = parent'[s], p # None, state'[s] = "ZOMBIE"
               PROVE  /\ state'[p] # "SLEEPING" /\ pc'[p] # "sleep"
                      /\ pc'[p] = "scan" => s > pp'[p]
    BY DEF OwnParent, HoldsWaitLock
  <2>1. state[s] = "ZOMBIE" /\ parent[s] = p /\ p \in Slots
    BY DEF ProcInv, TypeOK, TableOK
  <2>2. p # s
    BY <2>1 DEF FamilyInv, ChildInv, Live
  <2>3. /\ state[p] # "SLEEPING" /\ pc[p] # "sleep"
        /\ pc[p] = "scan" => s > pp[p]
    BY <2>1 DEF FamilyInv, ZombieInv
  <2> QED BY <2>1, <2>2, <2>3 DEF OthersStay, OthersCalm
<1>3. ParentsStay(s) /\ TypeOK'
  BY DEF ParentsStay, ProcInv
<1> QED BY <1>1, <1>2, <1>3, FamilyStep

\* What FamilyInv says of the process that takes the step.
LEMMA FamilyInvAt ==
  ASSUME FamilyInv, NEW s \in Slots
  PROVE  /\ state[s] = "SLEEPING" => chan[s] = s
         /\ s = initproc => state[s] \in Live /\ Control(s) \notin Exiting
         /\ Control(s) \in {"user", "wait", "exit", "zombie"} => pp[s] = None
  BY DEF FamilyInv, ChanInv, InitLives, FreshScan

\* A process is scheduled.
LEMMA SchedulerFamily ==
  ASSUME ProcInv, ProcInv', FamilyInv, NEW c \in CPUs, NEW s \in Slots, scheduler(c, s)
  PROVE  FamilyInv'
<1>1. /\ state[s] = "RUNNABLE" /\ state'[s] = "RUNNING" /\ pc'[s] = "resume" /\ ret' = ret /\ pp' = pp
      /\ chan' = chan /\ \A t \in Slots : t # s => state'[t] = state[t]
  BY DEF scheduler, Set, Goto, Return, At, table, local, locks, Syscall, ProcInv, TypeOK, TableOK
<1>2. \A t \in Slots : /\ t # s => pc'[t] = pc[t] /\ ret'[t] = ret[t] /\ pp'[t] = pp[t]
                       /\ parent'[t] = parent[t]
  BY DEF scheduler, Set, Goto, Return, At, table, local, locks, Syscall, ProcInv, TypeOK, TableOK
<1>6. pc[s] = "off"
  BY FreeIsOff DEF ProcInv, scheduler
<1>3. OthersStay(s) /\ OthersCalm(s)
  BY <1>1, <1>2 DEF OthersStay, OthersCalm, Live
<1>4. OwnState(s)
  BY <1>1, <1>6, FamilyInvAt DEF OwnState, Control, Switching, Exiting, Live, None
<1>5. pc'[s] \notin HoldsWaitLock
  BY <1>1 DEF HoldsWaitLock
<1> QED BY <1>1, <1>2, <1>3, <1>4, <1>5, QuietFamily DEF Live

\* A process leaves the CPU; its state has changed before.
LEMMA SchedFamily ==
  ASSUME ProcInv, ProcInv', FamilyInv, NEW c \in CPUs, NEW s \in Slots, sched(c, s)
  PROVE  FamilyInv'
<1>1. pc[s] = "sched" /\ pc'[s] = "off" /\ ret' = ret /\ pp' = pp /\ chan' = chan /\ state' = state
  BY DEF sched, Set, Goto, Return, At, table, local, locks, Syscall, ProcInv, TypeOK, TableOK
<1>2. \A t \in Slots : /\ t # s => pc'[t] = pc[t] /\ ret'[t] = ret[t] /\ pp'[t] = pp[t]
                       /\ parent'[t] = parent[t]
  BY DEF sched, Set, Goto, Return, At, table, local, locks, Syscall, ProcInv, TypeOK, TableOK
<1>3. OthersStay(s) /\ OthersCalm(s)
  BY <1>1, <1>2 DEF OthersStay, OthersCalm, Live
<1>4. OwnState(s)
  BY <1>1, FamilyInvAt DEF OwnState, Control, Switching, Exiting, Live, None
<1>5. pc'[s] \notin HoldsWaitLock
  BY <1>1 DEF HoldsWaitLock
<1> QED BY <1>1, <1>2, <1>3, <1>4, <1>5, QuietFamily DEF Live

\* A process goes on after sched().
LEMMA ResumeFamily ==
  ASSUME ProcInv, ProcInv', FamilyInv, NEW c \in CPUs, NEW s \in Slots, resume(c, s)
  PROVE  FamilyInv'
<1>1. /\ pc[s] = "resume" /\ pc'[s] = ret[s] /\ pp' = pp /\ state' = state
      /\ \A t \in Slots : t # s => chan'[t] = chan[t]
  BY DEF resume, Set, Goto, Return, At, table, local, locks, Syscall, ProcInv, TypeOK, TableOK
<1>2. \A t \in Slots : /\ t # s => pc'[t] = pc[t] /\ ret'[t] = ret[t] /\ pp'[t] = pp[t]
                       /\ parent'[t] = parent[t]
  BY DEF resume, Set, Goto, Return, At, table, local, locks, Syscall, ProcInv, TypeOK, TableOK
<1>6. state[s] = "RUNNING" /\ Control(s)' = Control(s)
  <2>1. ret[s] \notin Switching
    BY DEF ProcInv, StateInv, RetState, Forking, Switching
  <2> QED BY <1>1, <2>1 DEF ProcInv, StateInv, RunState, Control, Switching
<1>3. OthersStay(s) /\ OthersCalm(s)
  BY <1>1, <1>2 DEF OthersStay, OthersCalm, Live
<1>4. OwnState(s)
  BY <1>1, <1>6, FamilyInvAt DEF OwnState
<1>5. pc'[s] \notin HoldsWaitLock
  BY <1>1 DEF HoldsWaitLock, RetState, ProcInv, StateInv, Forking
<1> QED BY <1>1, <1>2, <1>3, <1>4, <1>5, QuietFamily DEF Live

\* A process is preempted, at a point where it does not hold wait_lock.
LEMMA YieldFamily ==
  ASSUME ProcInv, ProcInv', FamilyInv, NEW c \in CPUs, NEW s \in Slots, yield(c, s)
  PROVE  FamilyInv'
<1>1. /\ run[c] = s /\ pc[s] \notin Switching /\ pc'[s] = "sched" /\ ret'[s] = pc[s]
      /\ UNCHANGED <<chan, pp, parent>> /\ state'[s] = "RUNNABLE"
      /\ \A t \in Slots : t # s => pc'[t] = pc[t] /\ ret'[t] = ret[t] /\ state'[t] = state[t]
  <2>1. pc[s] # "off"
    BY DEF yield, ProcInv, LockInv
  <2> QED BY <2>1 DEF yield, Goto, Set, local, Switching, ProcInv, TypeOK, TableOK
<1>2. state[s] = "RUNNING" /\ Control(s)' = Control(s)
  BY <1>1 DEF ProcInv, StateInv, RunState, Control, Switching
<1>3. OthersStay(s) /\ OthersCalm(s)
  BY <1>1 DEF OthersStay, OthersCalm
<1>4. OwnState(s) /\ pc'[s] \notin HoldsWaitLock
  BY <1>1, <1>2, FamilyInvAt DEF OwnState, Live, HoldsWaitLock
<1> QED BY <1>1, <1>2, <1>3, <1>4, QuietFamily DEF Live

\* A process other than initproc begins to exit.
LEMMA ExitFamily ==
  ASSUME ProcInv, ProcInv', FamilyInv, NEW c \in CPUs, NEW s \in Slots, exit(c, s)
  PROVE  FamilyInv'
<1>1. s # initproc /\ pc[s] = "user" /\ pc'[s] = "exit" /\ pp' = pp /\ chan' = chan /\ state' = state
  BY DEF exit, Set, Goto, Return, At, table, local, locks, Syscall, ProcInv, TypeOK, TableOK
<1>2. \A t \in Slots : /\ t # s => pc'[t] = pc[t] /\ ret'[t] = ret[t] /\ pp'[t] = pp[t]
                       /\ parent'[t] = parent[t]
  BY DEF exit, Set, Goto, Return, At, table, local, locks, Syscall, ProcInv, TypeOK, TableOK
<1>3. state[s] = "RUNNING" /\ Control(s) = pc[s]
  BY <1>1 DEF ProcInv, StateInv, RunState, Control, Switching, Forking
<1>4. OthersStay(s) /\ OthersCalm(s)
  BY <1>1, <1>2, <1>3 DEF OthersStay, OthersCalm, Live
<1>5. OwnState(s)
  BY <1>1, <1>3, FamilyInvAt DEF OwnState, Control, Switching, Exiting, Live, None
<1>6. pc'[s] \notin HoldsWaitLock
  BY <1>1 DEF HoldsWaitLock
<1> QED BY <1>1, <1>2, <1>3, <1>4, <1>5, <1>6, QuietFamily DEF Live

\* A process begins to wait.
LEMMA WaitFamily ==
  ASSUME ProcInv, ProcInv', FamilyInv, NEW c \in CPUs, NEW s \in Slots, wait(c, s)
  PROVE  FamilyInv'
<1>1. pc[s] = "user" /\ pc'[s] = "wait" /\ pp' = pp /\ chan' = chan /\ state' = state
  BY DEF wait, Set, Goto, Return, At, table, local, locks, Syscall, ProcInv, TypeOK, TableOK
<1>2. \A t \in Slots : /\ t # s => pc'[t] = pc[t] /\ ret'[t] = ret[t] /\ pp'[t] = pp[t]
                       /\ parent'[t] = parent[t]
  BY DEF wait, Set, Goto, Return, At, table, local, locks, Syscall, ProcInv, TypeOK, TableOK
<1>3. state[s] = "RUNNING" /\ Control(s) = pc[s]
  BY <1>1 DEF ProcInv, StateInv, RunState, Control, Switching, Forking
<1>4. OthersStay(s) /\ OthersCalm(s)
  BY <1>1, <1>2, <1>3 DEF OthersStay, OthersCalm, Live
<1>5. OwnState(s)
  BY <1>1, <1>3, FamilyInvAt DEF OwnState, Control, Switching, Exiting, Live, None
<1>6. pc'[s] \notin HoldsWaitLock
  BY <1>1 DEF HoldsWaitLock
<1> QED BY <1>1, <1>2, <1>3, <1>4, <1>5, <1>6, QuietFamily DEF Live

\* A process looks for a thread to join.
LEMMA ThreadJoinFamily ==
  ASSUME ProcInv, ProcInv', FamilyInv, NEW c \in CPUs, NEW s \in Slots, thread_join(c, s)
  PROVE  FamilyInv'
<1>1. pc[s] = "user" /\ pc'[s] = "join" /\ pp' = pp /\ chan' = chan /\ state' = state
  BY DEF thread_join, Set, Goto, Return, At, table, local, locks, Syscall, ProcInv, TypeOK, TableOK
<1>2. \A t \in Slots : /\ t # s => pc'[t] = pc[t] /\ ret'[t] = ret[t] /\ pp'[t] = pp[t]
                       /\ parent'[t] = parent[t]
  BY DEF thread_join, Set, Goto, Return, At, table, local, locks, Syscall, ProcInv, TypeOK, TableOK
<1>3. state[s] = "RUNNING" /\ Control(s) = pc[s]
  BY <1>1 DEF ProcInv, StateInv, RunState, Control, Switching, Forking
<1>4. OthersStay(s) /\ OthersCalm(s)
  BY <1>1, <1>2, <1>3 DEF OthersStay, OthersCalm, Live
<1>5. OwnState(s)
  BY <1>1, <1>3, FamilyInvAt DEF OwnState, Control, Switching, Exiting, Live, None
<1>6. pc'[s] \notin HoldsWaitLock
  BY <1>1 DEF HoldsWaitLock
<1> QED BY <1>1, <1>2, <1>3, <1>4, <1>5, <1>6, QuietFamily DEF Live

\* The scan of thread_join().
LEMMA JoinScanFamily ==
  ASSUME ProcInv, ProcInv', FamilyInv, NEW c \in CPUs, NEW s \in Slots, join_scan(c, s)
  PROVE  FamilyInv'
<1>1. /\ pc[s] = "join" /\ chan' = chan /\ state' = state
      /\ pc'[s] = "join_lock" \/ (pc'[s] = "user" /\ pp'[s] = None)
  BY DEF join_scan, Set, Goto, Return, At, table, local, locks, Syscall, NextIn, Threads, ProcInv, TypeOK, TableOK
<1>2. \A t \in Slots : /\ t # s => pc'[t] = pc[t] /\ ret'[t] = ret[t] /\ pp'[t] = pp[t]
                       /\ parent'[t] = parent[t]
  BY DEF join_scan, Set, Goto, Return, At, table, local, locks, Syscall, NextIn, Threads, ProcInv, TypeOK, TableOK
<1>3. state[s] = "RUNNING" /\ Control(s) = pc[s]
  BY <1>1 DEF ProcInv, StateInv, RunState, Control, Switching, Forking
<1>4. OthersStay(s) /\ OthersCalm(s)
  BY <1>1, <1>2, <1>3 DEF OthersStay, OthersCalm, Live
<1>5. OwnState(s)
  BY <1>1, <1>3, FamilyInvAt DEF OwnState, Control, Switching, Exiting, Live, None
<1>6. pc'[s] \notin HoldsWaitLock
  BY <1>1 DEF HoldsWaitLock
<1> QED BY <1>1, <1>2, <1>3, <1>4, <1>5, <1>6, QuietFamily DEF Live

\* fork() takes an unused slot.
LEMMA ForkFamily ==
  ASSUME ProcInv, ProcInv', FamilyInv, NEW c \in CPUs, NEW s \in Slots, NEW n \in Slots, fork(c, s, n)
  PROVE  FamilyInv'
<1>1. /\ pc[s] = "user" /\ chan' = chan /\ state[n] = "UNUSED"
      /\ \A t \in Slots : state'[t] # state[t] => t = n /\ state'[t] = "USED"
      /\ pc'[s] = "fork_parent" \/ (pc'[s] = "user" /\ pp'[s] = pp[s])
  BY DEF fork, Set, Goto, Return, At, table, local, locks, Syscall, ProcInv, TypeOK, TableOK
<1>2. \A t \in Slots : /\ t # s => pc'[t] = pc[t] /\ ret'[t] = ret[t] /\ pp'[t] = pp[t]
                       /\ parent'[t] = parent[t]
  BY DEF fork, Set, Goto, Return, At, table, local, locks, Syscall, ProcInv, TypeOK, TableOK
<1>3. state[s] = "RUNNING" /\ Control(s) = pc[s]
  BY <1>1 DEF ProcInv, StateInv, RunState, Control, Switching, Forking
<1>4. OthersStay(s) /\ OthersCalm(s)
  BY <1>1, <1>2, <1>3 DEF OthersStay, OthersCalm, Live
<1>5. OwnState(s)
  BY <1>1, <1>3, FamilyInvAt DEF OwnState, Control, Switching, Exiting, Live, None
<1>6. pc'[s] \notin HoldsWaitLock
  BY <1>1 DEF HoldsWaitLock
<1> QED BY <1>1, <1>2, <1>3, <1>4, <1>5, <1>6, QuietFamily DEF Live

\* A sleeper is woken to die.
LEMMA KillFamily ==
  ASSUME ProcInv, ProcInv', FamilyInv, NEW c \in CPUs, NEW s \in Slots, NEW n \in Slots, kill(c, s, n)
  PROVE  FamilyInv'
<1>1. /\ pc[s] = "user" /\ pc'[s] = "user" /\ chan' = chan /\ pp' = pp
      /\ \A t \in Slots : state'[t] # state[t] => state[t] = "SLEEPING" /\ state'[t] = "RUNNABLE"
  BY DEF kill, Set, Goto, Return, At, table, local, locks, Syscall, ProcInv, TypeOK, TableOK
<1>2. \A t \in Slots : /\ t # s => pc'[t] = pc[t] /\ ret'[t] = ret[t] /\ pp'[t] = pp[t]
                       /\ parent'[t] = parent[t]
  BY DEF kill, Set, Goto, Return, At, table, local, locks, Syscall, ProcInv, TypeOK, TableOK
<1>3. state[s] = "RUNNING" /\ Control(s) = pc[s]
  BY <1>1 DEF ProcInv, StateInv, RunState, Control, Switching, Forking
<1>4. OthersStay(s) /\ OthersCalm(s)
  BY <1>1, <1>2, <1>3 DEF OthersStay, OthersCalm, Live
<1>5. OwnState(s)
  BY <1>1, <1>3, FamilyInvAt DEF OwnState, Control, Switching, Exiting, Live, None
<1>6. pc'[s] \notin HoldsWaitLock
  BY <1>1 DEF HoldsWaitLock
<1> QED BY <1>1, <1>2, <1>3, <1>4, <1>5, <1>6, QuietFamily DEF Live

\* fork() makes the child runnable.
LEMMA ForkRunFamily ==
  ASSUME ProcInv, ProcInv', FamilyInv, NEW c \in CPUs, NEW s \in Slots, fork_run(c, s)
  PROVE  FamilyInv'
<1>1. /\ pc[s] = "fork_run" /\ pc'[s] = "user" /\ pp'[s] = None /\ chan' = chan /\ parent' = parent
      /\ state' = [state EXCEPT ![pp[s]] = "RUNNABLE"]
      /\ \A t \in Slots : t # s => pc'[t] = pc[t] /\ ret'[t] = ret[t] /\ pp'[t] = pp[t]
  BY DEF fork_run, Set, Goto, Return, At, locks, ProcInv, TypeOK, TableOK
<1>2. state[s] = "RUNNING" /\ pp[s] \in Slots /\ state[pp[s]] = "USED"
  BY <1>1 DEF ProcInv, StateInv, RunState, ForkInv, Control, Switching, Forking
<1>3. \A t \in Slots : state'[t] # state[t] => state[t] = "USED" /\ state'[t] = "RUNNABLE"
  BY <1>1, <1>2 DEF ProcInv, TypeOK, TableOK
<1>4. OthersStay(s) /\ OthersCalm(s)
  BY <1>1, <1>3 DEF OthersStay, OthersCalm, Live
<1>5. OwnState(s) /\ pc'[s] \notin HoldsWaitLock
  BY <1>1, <1>2, <1>3 DEF OwnState, Control, Switching, Exiting, Live, HoldsWaitLock
<1> QED BY <1>1, <1>2, <1>3, <1>4, <1>5, QuietFamily

\* A zombie whose slot is freed is nobody's parent; s goes on without wait_lock.
LEMMA FreeFamily ==
  ASSUME ProcInv, ProcInv', FamilyInv, NEW c \in CPUs, NEW s \in Slots, run[c] = s,
         pc[s] \notin Switching, pc'[s] \in {"user", "join"}, pc'[s] = "user" => pp'[s] = None,
         OthersStay(s),
         \/ UNCHANGED table
         \/ \E i \in Slots : state[i] = "ZOMBIE" /\ freeproc(i)
  PROVE  FamilyInv'
<1>1. state[s] = "RUNNING"
  BY DEF ProcInv, StateInv, RunState, Switching
<1>2. \A t \in Slots : /\ state'[t] # state[t] => state[t] = "ZOMBIE" /\ state'[t] = "UNUSED"
                       /\ parent'[t] \in {parent[t], None}
                       /\ state'[t] = "SLEEPING" => chan'[t] = chan[t]
  BY DEF freeproc, Set, table, ProcInv, TypeOK, TableOK
<1>3. OthersCalm(s)
  BY <1>2 DEF OthersCalm, Live
<1>4. state'[s] = state[s]
  BY <1>1, <1>2
<1>5. OwnState(s) /\ pc'[s] \notin HoldsWaitLock
  BY <1>1, <1>4 DEF OwnState, Control, Switching, Exiting, Live, HoldsWaitLock
<1> QED BY <1>2, <1>3, <1>4, <1>5, QuietFamily

LEMMA JoinLockFamily ==
  ASSUME ProcInv, ProcInv', FamilyInv, NEW c \in CPUs, NEW s \in Slots, join_lock(c, s)
  PROVE  FamilyInv'
<1>1. run[c] = s /\ pc[s] \notin Switching
  BY DEF join_lock, At, Switching
<1>2. pc'[s] \in {"user", "join"} /\ (pc'[s] = "user" => pp'[s] = None) /\ OthersStay(s)
  BY DEF join_lock, Return, Goto, Set, local, OthersStay, ProcInv, TypeOK, TableOK
<1>3. UNCHANGED table \/ \E i \in Slots : state[i] = "ZOMBIE" /\ freeproc(i)
  BY DEF join_lock
<1> QED BY <1>1, <1>2, <1>3, FreeFamily

\* A set of natural numbers has a least one.
LEMMA NatMin ==
  ASSUME NEW T \in SUBSET Nat, T # {}
  PROVE  \E x \in T : \A y \in T : x <= y
<1>1. PICK R : R = OpToRel(<, Nat)
  OBVIOUS
<1>2. IsWellFoundedOn(R, Nat)
  BY <1>1, NatLessThanWellFounded
<1>3. PICK x \in T : \A y \in T : ~ (<<y, x>> \in R)
  BY <1>2, WFMin
<1>4. \A y \in T : ~ (y < x)
  BY <1>1, <1>3 DEF OpToRel
<1>5. \A y \in T : x <= y
  BY <1>4
<1> QED BY <1>5

\* A loop over the table that has no slot to go to has passed all of them.
LEMMA NextInEmpty ==
  ASSUME NEW s, NEW S \in SUBSET Slots, NextIn(s, S) = {}
  PROVE  \A i \in S : ~(i > pp[s])
<1> SUFFICES ASSUME NEW i \in S, i > pp[s] PROVE FALSE
  OBVIOUS
<1>1. PICK T : T = {j \in S : j > pp[s]}
  OBVIOUS
<1>2. Slots \subseteq Nat
  BY ProcAssumption DEF Slots
<1>3. T \in SUBSET Nat /\ i \in T
  BY <1>1, <1>2
<1>4. PICK m \in T : \A j \in T : m <= j
  BY <1>3, NatMin
<1>5. m \in S /\ m > pp[s] /\ \A j \in S : j > pp[s] => m <= j
  BY <1>1, <1>4
<1> QED BY <1>5 DEF NextIn

\* A process that takes wait_lock starts its loop at the first slot.
LEMMA AcquireFamily ==
  ASSUME ProcInv, ProcInv', FamilyInv, NEW c \in CPUs, NEW s \in Slots,
         exit_acquire(c, s) \/ wait_acquire(c, s)
  PROVE  FamilyInv'
<1>1. /\ UNCHANGED <<state, chan, parent, pp, ret>>
      /\ \/ pc[s] = "exit" /\ pc'[s] = "reparent"
         \/ pc[s] = "wait" /\ pc'[s] = "scan"
      /\ \A t \in Slots : t # s => pc'[t] = pc[t]
  BY DEF exit_acquire, wait_acquire, At, Goto, table, local, ProcInv, TypeOK
<1>2. state[s] = "RUNNING" /\ Control(s) = pc[s] /\ pp[s] = None
  <2>1. state[s] = "RUNNING" /\ Control(s) = pc[s]
    BY <1>1 DEF ProcInv, StateInv, RunState, Control, Switching
  <2> QED BY <1>1, <2>1, FamilyInvAt
<1>3. OthersStay(s) /\ OthersCalm(s) /\ ParentsStay(s)
  BY <1>1 DEF OthersStay, OthersCalm, ParentsStay
<1>4. OwnState(s)
  BY <1>1, <1>2, FamilyInvAt DEF OwnState, Control, Switching, Exiting
<1>5. OwnChildren(s)
  BY <1>1, <1>2 DEF OwnChildren, Live, Slots, None
<1>6. OwnParent(s)
  BY <1>1, <1>2 DEF OwnParent
<1> QED BY <1>3, <1>4, <1>5, <1>6, FamilyStep DEF ProcInv

\* Whoever becomes a parent is running, and not at the end of exit() or wait().
LEMMA BecomeParent ==
  ASSUME ProcInv, ProcInv', FamilyInv, NEW s \in Slots, NEW n \in Slots,
         state[s] = "RUNNING", pc'[s] \notin Switching \cup HoldsWaitLock \cup Exiting,
         pc'[s] \in {"user", "wait"} => pp'[s] = None,
         OthersStay(s), parent' = [parent EXCEPT ![n] = s], chan' = chan,
         state[n] \in {"UNUSED", "USED"}, state'[n] \in {"USED", "RUNNABLE"},
         \A t \in Slots : t # n => state'[t] = state[t]
  PROVE  FamilyInv'
<1>1. n # s /\ state'[s] = "RUNNING"
  BY DEF ProcInv
<1>2. OthersCalm(s) /\ ParentsStay(s)
  BY <1>1 DEF OthersCalm, ParentsStay, Live, ProcInv, TypeOK, TableOK
<1>3. OwnState(s)
  BY <1>1 DEF OwnState, Control, Live, Exiting
<1>4. OwnChildren(s)
  BY <1>1 DEF OwnChildren, HoldsWaitLock, Live
<1>5. OwnParent(s)
  BY <1>1 DEF OwnParent, HoldsWaitLock
<1> QED BY <1>2, <1>3, <1>4, <1>5, FamilyStep DEF ProcInv

LEMMA ForkParentFamily ==
  ASSUME ProcInv, ProcInv', FamilyInv, NEW c \in CPUs, NEW s \in Slots, fork_parent(c, s)
  PROVE  FamilyInv'
<1>1. /\ pc[s] = "fork_parent" /\ pc'[s] = "fork_run" /\ OthersStay(s) /\ UNCHANGED <<chan, state>>
      /\ parent' = [parent EXCEPT ![pp[s]] = s]
  BY DEF fork_parent, At, Goto, Set, local, OthersStay, ProcInv, TypeOK
<1>2. state[s] = "RUNNING" /\ pp[s] \in Slots /\ state[pp[s]] = "USED"
  BY <1>1 DEF ProcInv, StateInv, RunState, ForkInv, Control, Switching, Forking
<1>3. pc'[s] \notin Switching \cup HoldsWaitLock \cup Exiting
  BY <1>1 DEF Switching, HoldsWaitLock, Exiting
<1> QED BY <1>1, <1>2, <1>3, BecomeParent

LEMMA ThreadCreateFamily ==
  ASSUME ProcInv, ProcInv', FamilyInv, NEW c \in CPUs, NEW s \in Slots, NEW n \in Slots,
         thread_create(c, s, n)
  PROVE  FamilyInv'
<1>1. /\ pc[s] = "user" /\ pc' = pc /\ ret' = ret /\ pp' = pp /\ chan' = chan /\ state[n] = "UNUSED"
      /\ \/ parent' = [parent EXCEPT ![n] = s] /\ state' = [state EXCEPT ![n] = "RUNNABLE"]
         \/ UNCHANGED <<parent, state>>
  BY DEF thread_create, Syscall, At, Set, local
<1>2. state[s] = "RUNNING" /\ pp[s] = None
  <2>1. state[s] = "RUNNING" /\ Control(s) = "user"
    BY <1>1 DEF ProcInv, StateInv, RunState, Control, Switching
  <2> QED BY <2>1, FamilyInvAt
<1>3. pc'[s] \notin Switching \cup HoldsWaitLock \cup Exiting
  BY <1>1 DEF Switching, HoldsWaitLock, Exiting
<1>4. OthersStay(s)
  BY <1>1 DEF OthersStay
<1>5. CASE parent' = [parent EXCEPT ![n] = s] /\ state' = [state EXCEPT ![n] = "RUNNABLE"]
  <2>1. state'[n] = "RUNNABLE" /\ \A t \in Slots : t # n => state'[t] = state[t]
    BY <1>5 DEF ProcInv, TypeOK, TableOK
  <2> QED BY <1>1, <1>2, <1>3, <1>4, <1>5, <2>1, BecomeParent
<1>6. CASE UNCHANGED <<parent, state>>
  <2>1. OthersCalm(s) /\ OwnState(s)
    BY <1>1, <1>2, <1>3, <1>6 DEF OthersCalm, OwnState, Control, Live, Exiting
  <2> QED BY <1>3, <1>4, <1>6, <2>1, QuietFamily
<1> QED BY <1>1, <1>5, <1>6

\* wakeup() changes no state but that of a sleeper, and leaves the one it is for awake.
LEMMA WakeupAt ==
  ASSUME ProcInv, FamilyInv, NEW s \in Slots, NEW ch, ch \in Slots \cup {None}, wakeup(s, ch),
         state[s] # "SLEEPING"
  PROVE  /\ \A t \in Slots : state'[t] # state[t] => state[t] = "SLEEPING" /\ state'[t] = "RUNNABLE"
         /\ ch \in Slots => state'[ch] # "SLEEPING"
<1>1. \A t \in Slots : state'[t] # state[t] => state[t] = "SLEEPING" /\ state'[t] = "RUNNABLE"
  BY DEF wakeup, ProcInv, TypeOK, TableOK
<1>2. ASSUME ch \in Slots PROVE state'[ch] # "SLEEPING"
  BY <1>2, FamilyInvAt DEF wakeup, ProcInv, TypeOK, TableOK
<1> QED BY <1>1, <1>2

\* reparent() has no child left.
LEMMA ReparentEndFamily ==
  ASSUME ProcInv, ProcInv', FamilyInv, NEW c \in CPUs, NEW s \in Slots, reparent(c, s),
         NextIn(s, Children(s)) = {}, Goto(s, "wakeup_parent"), UNCHANGED <<state, parent, pp>>
  PROVE  FamilyInv'
<1>1. /\ pc[s] = "reparent" /\ pc'[s] = "wakeup_parent" /\ chan' = chan /\ ret' = ret
      /\ \A t \in Slots : t # s => pc'[t] = pc[t]
  BY DEF reparent, At, Goto, ProcInv, TypeOK
<1>2. state[s] = "RUNNING" /\ Control(s) = pc[s] /\ s # None /\ s # initproc
  <2>1. state[s] = "RUNNING" /\ Control(s) = pc[s] /\ s # None
    BY <1>1 DEF ProcInv, StateInv, RunState, Control, Switching, Slots, None
  <2> QED BY <1>1, <2>1, FamilyInvAt DEF Exiting
<1>3. \A t \in Slots : parent[t] # s
  <2>1. \A t \in Children(s) : ~(t > pp[s])
    BY NextInEmpty DEF Children
  <2>2. \A t \in Slots : parent[t] = s => t > pp[s]
    BY <1>1, <1>2 DEF FamilyInv, ChildInv
  <2> QED BY <2>1, <2>2 DEF Children
<1>4. OthersStay(s) /\ OthersCalm(s) /\ ParentsStay(s) /\ OwnChildren(s) /\ OwnParent(s)
  BY <1>1, <1>2, <1>3 DEF OthersStay, OthersCalm, ParentsStay, OwnChildren, OwnParent
<1>5. OwnState(s)
  BY <1>1, <1>2 DEF OwnState, Control, Switching
<1> QED BY <1>4, <1>5, FamilyStep DEF ProcInv

\* reparent() hands one child over, and initproc is awake.
LEMMA ReparentOneFamily ==
  ASSUME ProcInv, ProcInv', FamilyInv, NEW c \in CPUs, NEW s \in Slots, reparent(c, s),
         NEW i \in NextIn(s, Children(s)), Set(parent, i, initproc), wakeup(s, initproc),
         Set(pp, s, i), UNCHANGED pc
  PROVE  FamilyInv'
<1>1. /\ pc[s] = "reparent" /\ chan' = chan /\ ret' = ret
      /\ i \in Slots /\ parent[i] = s /\ \A t \in Slots : parent[t] = s /\ t > pp[s] => i <= t
      /\ pp'[s] = i /\ \A t \in Slots : t # s => pp'[t] = pp[t]
      /\ parent'[i] = initproc /\ \A t \in Slots : t # i => parent'[t] = parent[t]
  BY DEF reparent, At, Set, NextIn, Children, ProcInv, TypeOK, TableOK
<1>2. state[s] = "RUNNING" /\ Control(s) = pc[s] /\ s # None /\ s # initproc
  <2>1. state[s] = "RUNNING" /\ Control(s) = pc[s] /\ s # None
    BY <1>1 DEF ProcInv, StateInv, RunState, Control, Switching, Slots, None
  <2> QED BY <1>1, <2>1, FamilyInvAt DEF Exiting
<1>3. initproc \in Slots /\ initproc # None
  BY ProcAssumption DEF initproc, Slots, None
<1>4. /\ \A t \in Slots : state'[t] # state[t] => state[t] = "SLEEPING" /\ state'[t] = "RUNNABLE"
      /\ state'[initproc] # "SLEEPING"
  BY <1>2, <1>3, WakeupAt
<1>5. \A t \in Slots : pc[t] \in HoldsWaitLock => t = s
  BY <1>1, OneHolder DEF HoldsWaitLock
<1>6. pc[initproc] \notin HoldsWaitLock
  BY <1>2, <1>3, <1>5
<1>7. \A t \in Slots : Control(t)' = Control(t)
  BY <1>1 DEF Control
<1>8. ChanInv' /\ InitLives'
  BY <1>1, <1>3, <1>4, <1>7 DEF FamilyInv, ChanInv, InitLives, Live
<1>9. FreshScan'
  BY <1>1, <1>2, <1>7 DEF FamilyInv, FreshScan
<1>10. \A t \in Slots : state[t] \in Live => state'[t] \in Live
  BY <1>4 DEF Live
<1>11. ChildInv'
  <2> SUFFICES ASSUME NEW t \in Slots, NEW p, p = parent'[t], p # None
               PROVE  /\ state'[p] \in Live
                      /\ pc[p] = "reparent" => t > pp'[p]
                      /\ pc[p] \notin {"wakeup_parent", "zombie"}
    BY DEF ChildInv
  <2>1. CASE t = i
    BY <1>1, <1>3, <1>6, <1>8, <2>1 DEF InitLives, HoldsWaitLock
  <2>2. CASE t # i
    <3>1. p = parent[t] /\ p \in Slots
      BY <1>1, <2>2 DEF ProcInv, TypeOK, TableOK
    <3>2. /\ state[p] \in Live
          /\ pc[p] = "reparent" => t > pp[p]
          /\ pc[p] \notin {"wakeup_parent", "zombie"}
      BY <3>1 DEF FamilyInv, ChildInv
    <3>3. ASSUME pc[p] = "reparent" PROVE t > pp'[p]
      <4>1. p = s
        BY <1>5, <3>1, <3>3 DEF HoldsWaitLock
      <4>2. i <= t /\ t # i /\ pp'[p] = i
        BY <1>1, <2>2, <3>1, <3>2, <3>3, <4>1
      <4>3. i \in Int /\ t \in Int
        BY <1>1, ProcAssumption DEF Slots
      <4> QED BY <4>2, <4>3
    <3> QED BY <1>10, <3>1, <3>2, <3>3
  <2> QED BY <2>1, <2>2
<1>12. ZombieInv'
  <2> SUFFICES ASSUME NEW t \in Slots, NEW p, p = parent'[t], p # None, state'[t] = "ZOMBIE"
               PROVE  /\ state'[p] # "SLEEPING" /\ pc[p] # "sleep" /\ pc[p] # "scan"
    BY DEF ZombieInv
  <2>1. state[t] = "ZOMBIE"
    BY <1>4
  <2>2. pc[p] # "sleep" /\ pc[p] # "scan"
    <3>1. p \in Slots
      BY DEF ProcInv, TypeOK, TableOK
    <3> QED BY <1>1, <1>5, <3>1 DEF HoldsWaitLock
  <2>3. CASE t = i
    BY <1>1, <1>4, <2>2, <2>3
  <2>4. CASE t # i
    <3>1. p = parent[t] /\ p \in Slots
      BY <1>1, <2>4 DEF ProcInv, TypeOK, TableOK
    <3>2. state[p] # "SLEEPING"
      BY <2>1, <3>1 DEF FamilyInv, ZombieInv
    <3> QED BY <1>4, <2>2, <3>1, <3>2
  <2> QED BY <2>3, <2>4
<1>13. WokenInv'
  BY <1>1, <1>5 DEF WokenInv, HoldsWaitLock
<1> QED BY <1>8, <1>9, <1>11, <1>12, <1>13 DEF FamilyInv

LEMMA ReparentFamily ==
  ASSUME ProcInv, ProcInv', FamilyInv, NEW c \in CPUs, NEW s \in Slots, reparent(c, s)
  PROVE  FamilyInv'
<1>1. CASE /\ NextIn(s, Children(s)) = {}
           /\ Goto(s, "wakeup_parent") /\ UNCHANGED <<state, parent, pp>>
  BY <1>1, ReparentEndFamily
<1>2. CASE \E i \in NextIn(s, Children(s)) :
             /\ Set(parent, i, initproc) /\ wakeup(s, initproc)
             /\ Set(pp, s, i) /\ UNCHANGED pc
  BY <1>2, ReparentOneFamily
<1> QED BY <1>1, <1>2 DEF reparent

\* exit() wakes the parent while it holds wait_lock.
LEMMA ExitWakeupFamily ==
  ASSUME ProcInv, ProcInv', FamilyInv, NEW c \in CPUs, NEW s \in Slots, exit_wakeup(c, s)
  PROVE  FamilyInv'
<1>1. /\ pc[s] = "wakeup_parent" /\ pc'[s] = "zombie" /\ pp'[s] = None
      /\ UNCHANGED <<chan, parent, ret>> /\ OthersStay(s) /\ wakeup(s, parent[s])
  BY DEF exit_wakeup, At, Goto, Set, OthersStay, ProcInv, TypeOK
<1>2. state[s] = "RUNNING" /\ Control(s) = pc[s] /\ s # initproc /\ s # None
  <2>1. state[s] = "RUNNING" /\ Control(s) = pc[s] /\ s # None
    BY <1>1 DEF ProcInv, StateInv, RunState, Control, Switching, Slots, None
  <2> QED BY <1>1, <2>1, FamilyInvAt DEF Exiting
<1>3. parent[s] \in Slots \cup {None}
  BY DEF ProcInv, TypeOK, TableOK
<1>4. /\ \A t \in Slots : state'[t] # state[t] => state[t] = "SLEEPING" /\ state'[t] = "RUNNABLE"
      /\ parent[s] \in Slots => state'[parent[s]] # "SLEEPING"
  BY <1>1, <1>2, <1>3, WakeupAt
<1>5. OthersCalm(s) /\ ParentsStay(s)
  BY <1>1, <1>4 DEF OthersCalm, ParentsStay, Live
<1>6. OwnChildren(s)
  <2>1. \A t \in Slots : parent[t] # s
    BY <1>1, <1>2 DEF FamilyInv, ChildInv
  <2> QED BY <1>1, <2>1 DEF OwnChildren
<1>7. OwnState(s) /\ OwnParent(s)
  BY <1>1, <1>2, <1>3, <1>4 DEF OwnState, OwnParent
<1> QED BY <1>1, <1>5, <1>6, <1>7, FamilyStep DEF ProcInv

\* exit() releases wait_lock with the parent awake.
LEMMA ExitZombieFamily ==
  ASSUME ProcInv, ProcInv', FamilyInv, NEW c \in CPUs, NEW s \in Slots, exit_zombie(c, s)
  PROVE  FamilyInv'
<1>1. /\ pc[s] = "zombie" /\ pc'[s] = "sched" /\ state'[s] = "ZOMBIE"
      /\ UNCHANGED <<chan, parent, ret, pp>> /\ OthersStay(s)
      /\ \A t \in Slots : t # s => state'[t] = state[t]
  BY DEF exit_zombie, At, Goto, Set, local, OthersStay, ProcInv, TypeOK, TableOK
<1>2. Control(s) = pc[s] /\ s # initproc /\ s # None /\ pp[s] = None
  <2>1. Control(s) = pc[s] /\ s # None
    BY <1>1 DEF Control, Switching, Slots, None
  <2> QED BY <1>1, <2>1, FamilyInvAt DEF Exiting
<1>3. \A t \in Slots : parent[t] # s
  BY <1>1, <1>2 DEF FamilyInv, ChildInv
<1>4. OthersCalm(s) /\ ParentsStay(s) /\ OwnChildren(s) /\ OwnState(s)
  BY <1>1, <1>2, <1>3 DEF OthersCalm, ParentsStay, OwnChildren, OwnState
<1>5. OwnParent(s)
  <2> SUFFICES ASSUME NEW p, p = parent[s], p # None
               PROVE  state'[p] # "SLEEPING" /\ pc'[p] \notin {"sleep", "scan"}
    BY <1>1 DEF OwnParent
  <2>1. p \in Slots /\ p # s
    BY <1>3 DEF ProcInv, TypeOK, TableOK
  <2>2. state[p] # "SLEEPING"
    BY <1>1 DEF FamilyInv, WokenInv
  <2>3. pc[p] \notin HoldsWaitLock
    BY <1>1, <2>1, OneHolder DEF HoldsWaitLock
  <2> QED BY <1>1, <2>1, <2>2, <2>3 DEF HoldsWaitLock, OthersStay
<1> QED BY <1>1, <1>4, <1>5, FamilyStep DEF ProcInv

\* wait() passes a child that is no zombie.
LEMMA WaitPassFamily ==
  ASSUME ProcInv, ProcInv', FamilyInv, NEW c \in CPUs, NEW s \in Slots, wait_scan(c, s),
         NEW i \in NextIn(s, Children(s)), state[i] # "ZOMBIE", Set(pp, s, i),
         UNCHANGED <<table, wait_lock, pc>>
  PROVE  FamilyInv'
<1>1. /\ pc[s] = "scan" /\ UNCHANGED <<state, chan, parent, pc, ret>>
      /\ i \in Slots /\ parent[i] = s /\ \A t \in Slots : parent[t] = s /\ t > pp[s] => i <= t
      /\ pp'[s] = i /\ \A t \in Slots : t # s => pp'[t] = pp[t]
  BY DEF wait_scan, At, Set, table, NextIn, Children, ProcInv, TypeOK, TableOK
<1>2. state[s] = "RUNNING" /\ Control(s) = pc[s] /\ s # None
  BY <1>1 DEF ProcInv, StateInv, RunState, Control, Switching, Slots, None
<1>3. OthersStay(s) /\ OthersCalm(s) /\ ParentsStay(s)
  BY <1>1 DEF OthersStay, OthersCalm, ParentsStay
<1>4. OwnState(s)
  BY <1>1, <1>2, FamilyInvAt DEF OwnState, Control, Live
<1>5. OwnChildren(s)
  <2>1. \A t \in Slots : parent[t] = s /\ state[t] = "ZOMBIE" => t > pp[s] /\ t # i
    BY <1>1, <1>2 DEF FamilyInv, ZombieInv
  <2>2. \A t \in Slots : parent[t] = s /\ state[t] = "ZOMBIE" => t > pp'[s]
    <3>1. Slots \subseteq Int
      BY ProcAssumption DEF Slots
    <3> QED BY <1>1, <2>1, <3>1
  <2> QED BY <1>1, <1>2, <2>2 DEF OwnChildren, Live
<1>6. OwnParent(s)
  BY <1>1, <1>2 DEF OwnParent
<1> QED BY <1>3, <1>4, <1>5, <1>6, FamilyStep DEF ProcInv

LEMMA WaitScanFamily ==
  ASSUME ProcInv, ProcInv', FamilyInv, NEW c \in CPUs, NEW s \in Slots, wait_scan(c, s)
  PROVE  FamilyInv'
<1>1. PICK i \in NextIn(s, Children(s)) :
        \/ /\ state[i] # "ZOMBIE" /\ Set(pp, s, i)
           /\ UNCHANGED <<table, wait_lock, pc>>
        \/ /\ state[i] = "ZOMBIE"
           /\ freeproc(i) \/ UNCHANGED table
           /\ Return(s)
  BY DEF wait_scan
<1>2. CASE /\ state[i] # "ZOMBIE" /\ Set(pp, s, i)
           /\ UNCHANGED <<table, wait_lock, pc>>
  BY <1>2, WaitPassFamily
<1>3. CASE /\ state[i] = "ZOMBIE"
           /\ freeproc(i) \/ UNCHANGED table
           /\ Return(s)
  <2>1. run[c] = s /\ pc[s] \notin Switching /\ i \in Slots
    BY DEF wait_scan, At, Switching, NextIn, Children
  <2>2. pc'[s] = "user" /\ pp'[s] = None /\ OthersStay(s)
    BY <1>3 DEF wait_scan, Return, Goto, Set, OthersStay, ProcInv, TypeOK
  <2> QED BY <1>3, <2>1, <2>2, FreeFamily
<1> QED BY <1>1, <1>2, <1>3

\* At the end of the scan no child is a zombie.
LEMMA WaitEndFamily ==
  ASSUME ProcInv, ProcInv', FamilyInv, NEW c \in CPUs, NEW s \in Slots, wait_end(c, s)
  PROVE  FamilyInv'
<1>1. /\ run[c] = s /\ pc[s] = "scan" /\ NextIn(s, Children(s)) = {} /\ UNCHANGED <<table, ret>>
      /\ \A t \in Slots : t # s => pc'[t] = pc[t] /\ ret'[t] = ret[t] /\ pp'[t] = pp[t]
      /\ \/ pc'[s] = "user" /\ pp'[s] = None
         \/ pc'[s] = "sleep" /\ pp' = pp
  BY DEF wait_end, At, Return, Goto, Set, local, ProcInv, TypeOK
<1>2. OthersStay(s) /\ pc[s] \notin Switching
  BY <1>1 DEF OthersStay, Switching
<1>3. CASE pc'[s] = "user" /\ pp'[s] = None
  BY <1>1, <1>2, <1>3, FreeFamily
<1>4. CASE pc'[s] = "sleep" /\ pp' = pp
  <2>1. state[s] = "RUNNING" /\ s # None /\ UNCHANGED <<state, chan, parent>>
    BY <1>1 DEF ProcInv, StateInv, RunState, Switching, Slots, None, table
  <2>2. \A t \in Slots : parent[t] = s => state[t] # "ZOMBIE"
    <3>1. \A t \in Children(s) : ~(t > pp[s])
      BY <1>1, NextInEmpty DEF Children
    <3>2. \A t \in Slots : parent[t] = s /\ state[t] = "ZOMBIE" => t > pp[s]
      BY <1>1, <2>1 DEF FamilyInv, ZombieInv
    <3> QED BY <3>1, <3>2 DEF Children
  <2>3. OthersCalm(s) /\ ParentsStay(s) /\ OwnParent(s)
    BY <1>1, <1>4, <2>1 DEF OthersCalm, ParentsStay, OwnParent
  <2>4. OwnState(s)
    BY <1>4, <2>1 DEF OwnState, Control, Switching, Exiting, Live
  <2>5. OwnChildren(s)
    BY <1>4, <2>1, <2>2 DEF OwnChildren, Live
  <2> QED BY <1>2, <2>3, <2>4, <2>5, FamilyStep DEF ProcInv
<1> QED BY <1>1, <1>3, <1>4

\* sleep() has wait_lock until the process sleeps.
LEMMA SleepFamily ==
  ASSUME ProcInv, ProcInv', FamilyInv, NEW c \in CPUs, NEW s \in Slots, sleep(c, s)
  PROVE  FamilyInv'
<1>1. /\ pc[s] = "sleep" /\ pc'[s] = "sched" /\ ret'[s] = "wait" /\ pp'[s] = None
      /\ state'[s] = "SLEEPING" /\ chan'[s] = s /\ parent' = parent /\ OthersStay(s)
      /\ \A t \in Slots : t # s => state'[t] = state[t] /\ chan'[t] = chan[t]
  BY DEF sleep, At, Goto, Set, OthersStay, ProcInv, TypeOK, TableOK
<1>2. s # None
  BY DEF Slots, None
<1>3. \A t \in Slots : parent[t] = s => state[t] # "ZOMBIE"
  BY <1>1, <1>2 DEF FamilyInv, ZombieInv
<1>4. \A t \in Slots : pc[t] # "zombie"
  BY <1>1, OneHolder DEF HoldsWaitLock
<1>5. OthersCalm(s) /\ ParentsStay(s) /\ OwnParent(s)
  BY <1>1 DEF OthersCalm, ParentsStay, OwnParent
<1>6. OwnState(s)
  BY <1>1 DEF OwnState, Control, Switching, Exiting, Live
<1>7. OwnChildren(s)
  BY <1>1, <1>3, <1>4 DEF OwnChildren, Live, OthersStay
<1> QED BY <1>1, <1>5, <1>6, <1>7, FamilyStep DEF ProcInv

LEMMA InitFamily == Init => FamilyInv
<1> SUFFICES ASSUME Init PROVE FamilyInv
  OBVIOUS
<1> USE ProcAssumption DEF Init, initproc, None
<1>1. ChanInv /\ FreshScan /\ ChildInv /\ ZombieInv /\ WokenInv
  BY DEF ChanInv, FreshScan, ChildInv, ZombieInv, WokenInv
<1>2. InitLives
  BY DEF InitLives, Live, Control, Switching, Exiting, Slots
<1> QED BY <1>1, <1>2 DEF FamilyInv

LEMMA NextFamily == ProcInv /\ FamilyInv /\ [Next]_vars => FamilyInv'
<1> SUFFICES ASSUME ProcInv, FamilyInv, [Next]_vars PROVE FamilyInv'
  OBVIOUS
<1>1. ProcInv'
  BY NextInv
<1>2. CASE UNCHANGED vars
  BY <1>2 DEF vars, table, locks, local, FamilyInv, ChanInv, InitLives, FreshScan, ChildInv,
              ZombieInv, WokenInv, Control
<1>3. CASE Next
  <2>1. PICK c \in CPUs, s \in Slots :
          \/ scheduler(c, s) \/ Switch(c, s) \/ Kernel(c, s) \/ yield(c, s)
          \/ exit(c, s) \/ wait(c, s) \/ thread_join(c, s)
          \/ \E n \in Slots : fork(c, s, n) \/ thread_create(c, s, n) \/ kill(c, s, n)
    BY <1>3 DEF Next
  <2>2. CASE scheduler(c, s) \/ Switch(c, s) \/ yield(c, s)
    BY <1>1, <2>2, SchedulerFamily, ResumeFamily, SchedFamily, YieldFamily DEF Switch
  <2>3. CASE Kernel(c, s)
    BY <1>1, <2>3, ForkParentFamily, ForkRunFamily, AcquireFamily, ReparentFamily,
       ExitWakeupFamily, ExitZombieFamily, WaitScanFamily, WaitEndFamily, SleepFamily,
       JoinScanFamily, JoinLockFamily DEF Kernel
  <2>4. CASE exit(c, s) \/ wait(c, s) \/ thread_join(c, s)
    BY <1>1, <2>4, ExitFamily, WaitFamily, ThreadJoinFamily
  <2>5. CASE \E n \in Slots : fork(c, s, n) \/ thread_create(c, s, n) \/ kill(c, s, n)
    BY <1>1, <2>5, ForkFamily, ThreadCreateFamily, KillFamily
  <2> QED BY <2>1, <2>2, <2>3, <2>4, <2>5
<1> QED BY <1>2, <1>3

LEMMA FamilySafety == Spec => []FamilyInv
<1>1. Init => ProcInv /\ FamilyInv
  BY InitInv, InitFamily
<1>2. (ProcInv /\ FamilyInv) /\ [Next]_vars => (ProcInv /\ FamilyInv)'
  BY NextInv, NextFamily
<1> QED BY <1>1, <1>2, PTL DEF Spec

\* No process sleeps in wait() while a child of its own, or one it inherited, is a
\* zombie: exit() wakes the parent, and reparent() initproc, before wait_lock is free.
THEOREM NoExitSleptThrough == Spec => []NoLostWakeup
<1>1. ProcInv /\ FamilyInv => NoLostWakeup
  BY DEF ProcInv, TypeOK, TableOK, FamilyInv, ZombieInv, NoLostWakeup, Slots, None
<1> QED BY <1>1, ProcSafety, FamilySafety, PTL

\* The parent of every process is one that can still wait for it: exit() hands every
\* child to initproc, whichever slots they have, and initproc never exits.
THEOREM ParentsAlive == Spec => []ParentAlive
<1>1. FamilyInv => ParentAlive
  BY DEF FamilyInv, ChildInv, ParentAlive
<1> QED BY <1>1, FamilySafety, PTL

-----------------------------------------------------------------------------
(* Slots that are given back.                                              *)

\* A slot is unused already and nothing is written into it, or freeproc() clears it.
SlotStays(t) == /\ state[t] = "UNUSED"
                /\ pid'[t] \in {pid[t], 0} /\ parent'[t] \in {parent[t], None}
                /\ thread_parent'[t] \in {thread_parent[t], None} /\ chan'[t] \in {chan[t], None}
                /\ killed'[t] \in {killed[t], 0} /\ pagetable'[t] \in {pagetable[t], 0}
SlotFreed(t) == /\ pid'[t] = 0 /\ parent'[t] = None /\ thread_parent'[t] = None
                /\ chan'[t] = None /\ killed'[t] = 0 /\ pagetable'[t] = 0
SlotsKept == \A t \in Slots : state'[t] = "UNUSED" => SlotStays(t) \/ SlotFreed(t)

LEMMA CleanStep == ASSUME CleanSlot, SlotsKept PROVE CleanSlot'
  BY DEF CleanSlot, SlotsKept, SlotStays, SlotFreed

LEMMA NextClean ==
  ASSUME 0 \notin KillPids, ProcInv, CleanSlot, [Next]_vars
  PROVE  CleanSlot'
<1> USE DEF SlotsKept, SlotStays
<1>1. CASE UNCHANGED vars
  <2>1. SlotsKept
    BY <1>1 DEF vars, table
  <2> QED BY <2>1, CleanStep
<1>2. CASE Next
  <2> USE DEF Set
  <2>0. PICK c \in CPUs, s \in Slots :
          \/ scheduler(c, s) \/ Switch(c, s) \/ Kernel(c, s) \/ yield(c, s)
          \/ exit(c, s) \/ wait(c, s) \/ thread_join(c, s)
          \/ \E n \in Slots : fork(c, s, n) \/ thread_create(c, s, n) \/ kill(c, s, n)
    BY <1>2 DEF Next
  <2> SUFFICES SlotsKept
    BY CleanStep
  <2>1. CASE \/ sched(c, s) \/ exit(c, s) \/ wait(c, s) \/ thread_join(c, s) \/ join_scan(c, s)
             \/ exit_acquire(c, s) \/ wait_acquire(c, s) \/ wait_end(c, s)
    BY <2>1 DEF sched, exit, wait, thread_join, join_scan, exit_acquire, wait_acquire, wait_end,
                table
  <2>2. CASE scheduler(c, s) \/ yield(c, s) \/ fork_run(c, s) \/ exit_zombie(c, s)
    BY <2>2 DEF scheduler, yield, fork_run, exit_zombie, ProcInv, TypeOK, TableOK
  <2>3. CASE exit_wakeup(c, s)
    BY <2>3 DEF exit_wakeup, wakeup, ProcInv, TypeOK, TableOK
  <2>4. CASE resume(c, s)
    BY <2>4 DEF resume, ProcInv, TypeOK, TableOK
  <2>5. CASE sleep(c, s)
    BY <2>5 DEF sleep, ProcInv, TypeOK, TableOK
  <2>6. CASE fork_parent(c, s)
    <3>1. pp[s] \in Slots /\ state[pp[s]] = "USED"
      BY <2>6 DEF fork_parent, At, ProcInv, StateInv, ForkInv, Control, Switching, Forking
    <3> QED BY <2>6, <3>1 DEF fork_parent, ProcInv, TypeOK, TableOK
  <2>7. CASE reparent(c, s)
    <3>1. \A i \in Children(s) : state[i] # "UNUSED"
      BY DEF Children, CleanSlot, Slots, None
    <3>2. /\ UNCHANGED <<chan, killed, pid, thread_parent, pagetable>>
          /\ \A t \in Slots : state'[t] = "UNUSED" => state[t] = "UNUSED"
      BY <2>7 DEF reparent, wakeup, ProcInv, TypeOK, TableOK
    <3>3. parent' = parent \/ \E i \in Children(s) : parent' = [parent EXCEPT ![i] = initproc]
      BY <2>7 DEF reparent, NextIn
    <3>4. \A t \in Slots : state[t] = "UNUSED" => parent'[t] = parent[t]
      BY <3>1, <3>3 DEF ProcInv, TypeOK, TableOK, Children
    <3> QED BY <3>2, <3>4
  <2>8. CASE wait_scan(c, s) \/ join_lock(c, s)
    <3>1. UNCHANGED table \/ \E i \in Slots : freeproc(i)
      BY <2>8 DEF wait_scan, join_lock, NextIn, Children
    <3>2. CASE UNCHANGED table
      BY <3>2 DEF table
    <3>3. CASE \E i \in Slots : freeproc(i)
      <4>1. PICK i \in Slots : freeproc(i)
        BY <3>3
      <4>2. SlotFreed(i)
        BY <4>1 DEF freeproc, SlotFreed, ProcInv, TypeOK, TableOK
      <4>3. \A t \in Slots : t # i /\ state'[t] = "UNUSED" => SlotStays(t)
        BY <4>1 DEF freeproc, ProcInv, TypeOK, TableOK
      <4> QED BY <4>2, <4>3
    <3> QED BY <3>1, <3>2, <3>3
  <2>9. CASE \E n \in Slots : fork(c, s, n) \/ thread_create(c, s, n)
    BY <2>9 DEF fork, thread_create, ProcInv, TypeOK, TableOK
  <2>10. CASE \E n \in Slots : kill(c, s, n)
    <3>1. PICK n \in Slots : kill(c, s, n)
      BY <2>10
    <3>2. state[n] # "UNUSED"
      BY <3>1 DEF kill, CleanSlot
    <3> QED BY <3>1, <3>2 DEF kill, ProcInv, TypeOK, TableOK
  <2> QED BY <2>0, <2>1, <2>2, <2>3, <2>4, <2>5, <2>6, <2>7, <2>8, <2>9, <2>10
             DEF Switch, Kernel
<1> QED BY <1>1, <1>2

\* An unused slot carries nothing over from the process that had it, as long as
\* nobody calls kill(0), which would match every unused slot.
THEOREM SlotsClean == ASSUME 0 \notin KillPids PROVE Spec => []CleanSlot
<1>1. Init => ProcInv /\ CleanSlot
  BY InitInv DEF Init, CleanSlot, None, initproc
<1>2. (ProcInv /\ CleanSlot) /\ [Next]_vars => (ProcInv /\ CleanSlot)'
  BY NextInv, NextClean
<1> QED BY <1>1, <1>2, PTL DEF Spec
=============================================================================
