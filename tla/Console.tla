------------------------------ MODULE Console ------------------------------
(***************************************************************************)
(* Interrupts and the code they meet: spin locks with their nesting of     *)
(* disabled interrupts (kernel/spinlock.c), traps from the timer and the   *)
(* UART (kernel/trap.c, kernel/plic.c), the console and the UART driver    *)
(* (kernel/console.c, kernel/uart.c), kernel printf, and sys_sleep().      *)
(*                                                                         *)
(* A hart runs a process, or its scheduler; an interrupt handler runs on   *)
(* top of either, when interrupts are on.  A step is what happens between  *)
(* two changes of a lock, or of the hart's interrupt flag.  sleep(),       *)
(* wakeup() and the switch to the scheduler are single steps (module Proc  *)
(* has them in detail), but for what they do to the hart's flag.           *)
(*                                                                         *)
(* The UART is external: the character being sent, those received, and a   *)
(* flag for the interrupt "transmitter empty".                             *)
(***************************************************************************)
EXTENDS Integers, Sequences, FiniteSets

CONSTANTS Harts, timer,      \* timer: the hart whose timer interrupts count, cpuid() = 0
          Procs, Calls,      \* Calls: the system calls of each process
          INPUT_BUF_SIZE, UART_TX_BUF_SIZE,
          UINT,              \* 2^32: r, w and e wrap here
          Starts,            \* characters that were typed and read before
          Scripts,           \* what is typed: sequences of characters
          MaxWrites,         \* bound on the characters written
          ReadSizes,         \* arguments of read()
          None

Locks == {"cons", "uart_tx", "pr", "tickslock"}

ASSUME ConsoleAssumption ==
  /\ timer \in Harts /\ None \notin Harts \cup Procs
  /\ {INPUT_BUF_SIZE, UART_TX_BUF_SIZE} \subseteq Nat \ {0}
  /\ UINT \in Nat /\ UINT > INPUT_BUF_SIZE /\ UINT % INPUT_BUF_SIZE = 0
  /\ MaxWrites \in Nat /\ Scripts \subseteq Seq(STRING)
  /\ Starts \subseteq 0..(UINT - 1) /\ ReadSizes \subseteq Nat \ {0}

VARIABLES cpu,    \* per hart: the interrupt flag, struct cpu, the lock it spins on, its handler
          proc,   \* per process: state, channel, control point and locals of its call
          lk,     \* per lock: the hart that holds it
          cons, tx,
          uart,   \* the device
          plic,   \* the hart that serves the UART's interrupt
          panic
vars == <<cpu, proc, lk, cons, tx, uart, plic, panic>>

Cpu == [intr |-> TRUE, noff |-> 0, intena |-> FALSE, want |-> "none", proc |-> None, at |-> "none", c |-> ""]
Ready == [state |-> "RUNNABLE", chan |-> "none", pc |-> "user", killed |-> FALSE,
          intena |-> TRUE, trapped |-> FALSE, n |-> 0, got |-> 0]

initlock == None
\* The input ring after k characters that have been read; line and typed are what is being edited,
\* and what a reader may take, as sequences.
Ring(k) == [buf |-> [i \in 0..(INPUT_BUF_SIZE - 1) |-> ""], r |-> k, w |-> k, e |-> k,
            line |-> <<>>, typed |-> <<>>]
\* The UART with both its interrupts enabled; s will be typed.
uartinit(s) == [keys |-> s, rx |-> <<>>, thr |-> 0, empty |-> FALSE, sent |-> 0]

Init ==
  /\ cpu = [h \in Harts |-> Cpu] /\ proc = [p \in Procs |-> Ready] /\ lk = [l \in Locks |-> initlock]
  /\ \E k \in Starts : cons = Ring(k)
  /\ tx = [buf |-> [i \in 0..(UART_TX_BUF_SIZE - 1) |-> 0], r |-> 0, w |-> 0]
  /\ \E s \in Scripts : uart = uartinit(s)
  /\ plic = None /\ panic = FALSE

-----------------------------------------------------------------------------
(* spinlock.c, as changes of a hart                                        *)

\* Fault: the flag is saved by the inner push_off() too.
SaveAlways(x) == [x EXCEPT !.intr = FALSE, !.intena = x.intr, !.noff = @ + 1]
push_off(x) ==
  [x EXCEPT !.intr = FALSE, !.intena = IF x.noff = 0 THEN x.intr ELSE @, !.noff = @ + 1]
\* intena is not looked at before the next push_off() at depth 0 has set it, and forgotten.
pop_off(x) ==
  IF x.noff > 1 THEN [x EXCEPT !.noff = @ - 1]
  ELSE [x EXCEPT !.noff = @ - 1, !.intr = @ \/ x.intena, !.intena = FALSE]

\* Hart x goes for lock l: interrupts are off before it spins.  A hart that holds l panics.
acquire(x, l) == [push_off(x) EXCEPT !.want = l]
spin(h) ==
  LET l == cpu[h].want IN
  /\ l # "none" /\ lk[l] = None
  /\ lk' = [lk EXCEPT ![l] = h] /\ cpu' = [cpu EXCEPT ![h].want = "none"]
  /\ UNCHANGED <<proc, cons, tx, uart, plic, panic>>

Released(l) == [lk EXCEPT ![l] = None]

-----------------------------------------------------------------------------
(* Processes: sleep(), wakeup() and the switch                             *)

\* The process whose code hart h executes: no handler is on top of it.
Executes(h, p, l) ==
  cpu[h].proc = p /\ cpu[h].at = "none" /\ cpu[h].want = "none" /\ proc[p].pc = l

Wakeup(chan) ==
  [p \in Procs |-> IF proc[p].chan = chan THEN [proc[p] EXCEPT !.state = "RUNNABLE", !.chan = "none"]
                   ELSE proc[p]]

\* A hart in its scheduler, after sched() from x.
ToScheduler(x) == [x EXCEPT !.noff = 0, !.intr = TRUE, !.intena = FALSE, !.proc = None, !.at = "none"]

\* sleep(chan, l): l is given up under p->lock, the only lock held when sched() is called.
sleep(h, p, chan, l, pc) ==
  LET x == pop_off(push_off(cpu[h]))
  IN /\ cpu' = [cpu EXCEPT ![h] = ToScheduler(x)]
     /\ proc' = [proc EXCEPT ![p] = [@ EXCEPT !.state = "SLEEPING", !.chan = chan, !.pc = pc,
                                              !.intena = x.intena]]
     /\ lk' = Released(l) /\ panic' = (panic \/ x.noff # 1 \/ x.intr)
     /\ UNCHANGED <<cons, tx, uart, plic>>

\* The scheduler runs p, which goes on where it gave up the hart and releases p->lock.
scheduler(h, p) ==
  /\ cpu[h].proc = None /\ cpu[h].at = "none" /\ cpu[h].want = "none" /\ proc[p].state = "RUNNABLE"
  /\ cpu' = [cpu EXCEPT ![h] = pop_off([push_off(@) EXCEPT !.intena = proc[p].intena, !.proc = p,
                                         !.at = IF proc[p].trapped THEN "iret" ELSE "none"])]
  /\ proc' = [proc EXCEPT ![p] = [@ EXCEPT !.state = "RUNNING", !.trapped = FALSE, !.intena = TRUE]]
  /\ UNCHANGED <<lk, cons, tx, uart, plic, panic>>

\* p, on hart h, acquires l and goes on at pc; q has its locals.
AcquireIn(h, p, l, pc, q) ==
  /\ cpu' = [cpu EXCEPT ![h] = acquire(@, l)] /\ proc' = [proc EXCEPT ![p] = [q EXCEPT !.pc = pc]]
  /\ panic' = (panic \/ lk[l] = h) /\ UNCHANGED <<lk, cons, tx, uart, plic>>
\* p releases l and returns from its call.
ReturnFrom(h, p, l) ==
  /\ lk' = Released(l) /\ cpu' = [cpu EXCEPT ![h] = pop_off(@)]
  /\ proc' = [proc EXCEPT ![p] = [@ EXCEPT !.pc = "user", !.n = 0, !.got = 0]]

\* usertrap() before a system call and after it: a killed process exits.
exit(h, p) ==
  /\ Executes(h, p, "user") /\ proc[p].killed
  /\ cpu' = [cpu EXCEPT ![h] = ToScheduler(@)] /\ proc' = [proc EXCEPT ![p].state = "ZOMBIE"]
  /\ UNCHANGED <<lk, cons, tx, uart, plic, panic>>

Syscall(h, p, what) == Executes(h, p, "user") /\ ~ proc[p].killed /\ what \in Calls[p]

-----------------------------------------------------------------------------
(* console.c                                                               *)

At(i) == cons.buf[i % INPUT_BUF_SIZE]
Plus(i, k) == (i + k) % UINT
Used == (cons.e - cons.r) % UINT

read(h, p, n) ==
  /\ Syscall(h, p, "read")
  /\ AcquireIn(h, p, "cons", "read_loop", [proc[p] EXCEPT !.n = n, !.got = 0])
\* sleep() returns: the lock is acquired again.
read_again(h, p) == Executes(h, p, "read") /\ AcquireIn(h, p, "cons", "read_loop", proc[p])

\* consoleread(): one turn of its loop, and the return.  The copy to the process may fail.
consoleread(h, p) ==
  LET q == proc[p]
      k == At(cons.r)
      saved == k = "^D" /\ q.got > 0
  IN /\ Executes(h, p, "read_loop")
     /\ IF cons.r = cons.w /\ ~ q.killed THEN sleep(h, p, "cons.r", "cons", "read")
        ELSE /\ cons' = IF cons.r = cons.w \/ saved THEN cons
                        ELSE [cons EXCEPT !.r = Plus(@, 1), !.typed = Tail(@)]
             /\ \E copied \in BOOLEAN :
                  IF cons.r = cons.w \/ k \in {"^D", "nl"} \/ ~ copied \/ q.got + 1 = q.n
                    THEN ReturnFrom(h, p, "cons")
                    ELSE UNCHANGED <<lk, cpu>> /\ proc' = [proc EXCEPT ![p].got = @ + 1]
             /\ UNCHANGED <<tx, uart, plic, panic>>

\* Fault: one character too many.
AcceptedFull(k) == k # "nul" /\ Used <= INPUT_BUF_SIZE
Accepted(k) == k # "nul" /\ Used < INPUT_BUF_SIZE

\* consoleintr() stores k.
Key(k) == IF k = "cr" THEN "nl" ELSE k
\* Fault: a full ring does not end the line.
WholeLine(k) == Key(k) \in {"nl", "^D"}
Whole(k) == Key(k) \in {"nl", "^D"} \/ Plus(Used, 1) = INPUT_BUF_SIZE
Store(k) ==
  LET x == [cons EXCEPT !.buf[cons.e % INPUT_BUF_SIZE] = Key(k), !.e = Plus(@, 1)]
  IN IF Whole(k) THEN [x EXCEPT !.w = x.e, !.line = <<>>, !.typed = @ \o Append(cons.line, Key(k))]
     ELSE [x EXCEPT !.line = Append(@, Key(k))]

\* The characters that an editing key takes back: ^U, to the newline before, or to w.
Pending == (cons.e - cons.w) % UINT
Erased(k) ==
  IF k # "^U" THEN IF cons.e = cons.w THEN 0 ELSE 1
  ELSE CHOOSE n \in 0..Pending :
         /\ \A i \in 1..n : At((cons.e - i) % UINT) # "nl"
         /\ n = Pending \/ At((cons.e - n - 1) % UINT) = "nl"
Erase(k) == [cons EXCEPT !.e = (@ - Erased(k)) % UINT,
                         !.line = SubSeq(@, 1, Len(@) - Erased(k))]

-----------------------------------------------------------------------------
(* uart.c                                                                  *)

\* uartputc_sync(): with interrupts off, it waits for the UART and sends.  thr is the character
\* being sent: 0 if there is none, -1 for one that does not come from write().
Idle == uart.thr = 0
Sync == [uart EXCEPT !.thr = -1, !.empty = FALSE]

write(h, p) ==
  /\ Syscall(h, p, "write") /\ tx.w < MaxWrites
  /\ AcquireIn(h, p, "uart_tx", "uartputc", proc[p])
write_again(h, p) == Executes(h, p, "write") /\ AcquireIn(h, p, "uart_tx", "uartputc", proc[p])

\* Fault: one character too many.
FullLate == tx.w = tx.r + UART_TX_BUF_SIZE + 1
Full == tx.w = tx.r + UART_TX_BUF_SIZE
\* One character of consolewrite(): characters are numbered as they are stored.
uartputc(h, p) ==
  /\ Executes(h, p, "uartputc")
  /\ IF Full THEN sleep(h, p, "uart_tx_r", "uart_tx", "write")
     ELSE /\ tx' = [tx EXCEPT !.buf[tx.w % UART_TX_BUF_SIZE] = tx.w + 1, !.w = @ + 1]
          /\ proc' = [proc EXCEPT ![p].pc = "uartstart"]
          /\ UNCHANGED <<cpu, lk, cons, uart, plic, panic>>

\* uartstart(): one turn of its loop.
Sends == tx.r # tx.w /\ Idle
SendOne ==
  /\ tx' = [tx EXCEPT !.r = @ + 1]
  /\ uart' = [uart EXCEPT !.thr = tx.buf[tx.r % UART_TX_BUF_SIZE], !.empty = FALSE]
  /\ proc' = Wakeup("uart_tx_r")
  /\ UNCHANGED <<cpu, lk, cons, plic, panic>>
\* Its return: with nothing to send, reading ISR clears the interrupt.
Stopped == IF tx.r = tx.w THEN [uart EXCEPT !.empty = FALSE] ELSE uart

uartstart(h, p) ==
  /\ Executes(h, p, "uartstart")
  /\ IF Sends THEN SendOne
     ELSE /\ uart' = Stopped /\ ReturnFrom(h, p, "uart_tx")
          /\ UNCHANGED <<cons, tx, plic, panic>>

\* A system call that prints, such as sys_cps(): printf() sends its characters one by one, under pr.lock.
print(h, p) == Syscall(h, p, "print") /\ AcquireIn(h, p, "pr", "printf", proc[p])
printf(h, p) ==
  /\ Executes(h, p, "printf") /\ Idle /\ uart' = Sync /\ ReturnFrom(h, p, "pr")
  /\ UNCHANGED <<cons, tx, plic, panic>>

-----------------------------------------------------------------------------
(* sys_sleep()                                                             *)

\* Whether the time has come is left open: ticks are not counted.  sys_uptime() acquires the lock
\* and returns.
nap(h, p) == Syscall(h, p, "sleep") /\ AcquireIn(h, p, "tickslock", "sys_sleep", proc[p])
nap_again(h, p) == Executes(h, p, "nap") /\ AcquireIn(h, p, "tickslock", "sys_sleep", proc[p])
sys_sleep(h, p) ==
  /\ Executes(h, p, "sys_sleep")
  /\ \/ ReturnFrom(h, p, "tickslock") /\ UNCHANGED <<cons, tx, uart, plic, panic>>
     \/ ~ proc[p].killed /\ sleep(h, p, "ticks", "tickslock", "nap")

-----------------------------------------------------------------------------
(* trap.c: interrupts                                                      *)

\* The UART asserts its interrupt, and no hart serves it.
Raised == (uart.rx # <<>> \/ uart.empty) /\ plic = None

Interruptible(h) == cpu[h].intr /\ cpu[h].at = "none" /\ cpu[h].want = "none"
Handles(h, l) == cpu[h].at = l /\ cpu[h].want = "none"

\* The trap through kernelvec or uservec turns interrupts off, the return turns them on.
Trapped(x, l) == [x EXCEPT !.intr = FALSE, !.at = l]
Return(x) == [x EXCEPT !.intr = TRUE, !.at = "none"]

\* The handler on h acquires k, or releases it, and goes on at l.
HandlerAcquires(h, k, l, c) ==
  cpu' = [cpu EXCEPT ![h] = [acquire(@, k) EXCEPT !.at = l, !.c = c]] /\ panic' = (panic \/ lk[k] = h)
HandlerReleases(h, k, l) ==
  lk' = Released(k) /\ cpu' = [cpu EXCEPT ![h] = [pop_off(@) EXCEPT !.at = l, !.c = ""]]

\* devintr(): plic_claim() gives the interrupt to one hart; one that comes too late returns at
\* once, and is left out.
devintr(h) ==
  /\ Interruptible(h) /\ Raised
  /\ plic' = h /\ cpu' = [cpu EXCEPT ![h] = Trapped(@, "uartintr")]
  /\ UNCHANGED <<proc, lk, cons, tx, uart, panic>>

\* uartintr(): the next character, or on to the output.
uartintr(h) ==
  /\ Handles(h, "uartintr")
  /\ IF uart.rx = <<>> THEN HandlerAcquires(h, "uart_tx", "uartstart", "") /\ UNCHANGED uart
     ELSE HandlerAcquires(h, "cons", "consoleintr", Head(uart.rx)) /\ uart' = [uart EXCEPT !.rx = Tail(@)]
  /\ UNCHANGED <<proc, lk, cons, tx, plic>>

\* The keys that edit the line, and characters that are stored: both are echoed.
consoleintr(h) ==
  LET k == cpu[h].c
      edits == k \in {"^U", "^H"} /\ Erased(k) > 0
      stores == k \notin {"^U", "^H", "^C", "^P"} /\ Accepted(k)
  IN /\ Handles(h, "consoleintr") /\ k \notin {"^C", "^P"}
     /\ IF edits \/ stores THEN Idle /\ uart' = Sync ELSE UNCHANGED uart
     /\ cons' = IF edits THEN Erase(k) ELSE IF stores THEN Store(k) ELSE cons
     /\ proc' = IF stores /\ Whole(k) THEN Wakeup("cons.r") ELSE proc
     /\ HandlerReleases(h, "cons", "uartintr")
     /\ UNCHANGED <<tx, plic, panic>>

sigint_default_handler(p) == [proc EXCEPT ![p].killed = TRUE]
\* ^C kills the process that the hart happens to run; it and ^P print.
consoleintr_print(h) ==
  LET k == cpu[h].c
      p == cpu[h].proc
  IN /\ Handles(h, "consoleintr") /\ k \in {"^C", "^P"}
     /\ IF k = "^C" /\ p = None THEN HandlerReleases(h, "cons", "uartintr") /\ UNCHANGED <<proc, panic>>
        ELSE /\ HandlerAcquires(h, "pr", "printf", k) /\ UNCHANGED lk
             /\ proc' = IF k = "^C" THEN sigint_default_handler(p) ELSE proc
     /\ UNCHANGED <<cons, tx, uart, plic>>
\* procdump(), or the messages of ^C, and the end of consoleintr().
handler_printf(h) ==
  /\ Handles(h, "printf") /\ Idle /\ uart' = Sync
  /\ lk' = [Released("pr") EXCEPT !["cons"] = None]
  /\ cpu' = [cpu EXCEPT ![h] = [pop_off(pop_off(@)) EXCEPT !.at = "uartintr", !.c = ""]]
  /\ UNCHANGED <<proc, cons, tx, plic, panic>>

\* The end of uartintr(), plic_complete(), and the return.
handler_uartstart(h) ==
  /\ Handles(h, "uartstart")
  /\ IF Sends THEN SendOne
     ELSE /\ uart' = Stopped /\ plic' = None
          /\ lk' = Released("uart_tx") /\ cpu' = [cpu EXCEPT ![h] = Return(pop_off(@))]
          /\ UNCHANGED <<proc, cons, tx, panic>>

\* The end of a timer interrupt on hart x, with the processes P: yield() puts the process back in
\* the queue, inside the handler; with no process, the handler returns.
Yield(h, x, P) ==
  LET p == x.proc
      y == push_off(x)
  IN IF p = None THEN cpu' = [cpu EXCEPT ![h] = Return(x)] /\ proc' = P
     ELSE /\ cpu' = [cpu EXCEPT ![h] = ToScheduler(y)]
          /\ proc' = [P EXCEPT ![p] = [@ EXCEPT !.state = "RUNNABLE", !.trapped = TRUE, !.intena = y.intena]]

\* clockintr(): one hart keeps the time.
clockintr(h) ==
  /\ Interruptible(h)
  /\ IF h = timer
       THEN /\ cpu' = [cpu EXCEPT ![h] = acquire(Trapped(@, "clockintr"), "tickslock")]
            /\ panic' = (panic \/ lk["tickslock"] = h) /\ UNCHANGED proc
       ELSE Yield(h, Trapped(cpu[h], "clockintr"), proc) /\ UNCHANGED panic
  /\ UNCHANGED <<lk, cons, tx, uart, plic>>
tick(h) ==
  /\ Handles(h, "clockintr")
  /\ lk' = Released("tickslock") /\ Yield(h, pop_off(cpu[h]), Wakeup("ticks"))
  /\ UNCHANGED <<cons, tx, uart, plic, panic>>

\* A process that was preempted in the kernel or in user space returns to what it did.
kerneltrap_end(h) ==
  /\ Handles(h, "iret") /\ cpu' = [cpu EXCEPT ![h] = Return(@)]
  /\ UNCHANGED <<proc, lk, cons, tx, uart, plic, panic>>

-----------------------------------------------------------------------------
(* The UART (external)                                                     *)

type ==
  /\ uart.keys # <<>> /\ uart.rx = <<>>
  /\ uart' = [uart EXCEPT !.rx = <<Head(uart.keys)>>, !.keys = Tail(@)]
  /\ UNCHANGED <<cpu, proc, lk, cons, tx, plic, panic>>
transmit ==
  /\ ~ Idle
  /\ uart' = [uart EXCEPT !.thr = 0, !.empty = TRUE, !.sent = IF uart.thr > 0 THEN uart.thr ELSE @]
  /\ UNCHANGED <<cpu, proc, lk, cons, tx, plic, panic>>

Next ==
  \/ \E h \in Harts :
       \/ spin(h) \/ devintr(h) \/ uartintr(h) \/ consoleintr(h) \/ consoleintr_print(h)
       \/ handler_printf(h) \/ handler_uartstart(h) \/ clockintr(h) \/ tick(h) \/ kerneltrap_end(h)
       \/ \E p \in Procs :
            \/ scheduler(h, p) \/ exit(h, p) \/ \E n \in ReadSizes : read(h, p, n)
            \/ read_again(h, p) \/ consoleread(h, p) \/ write(h, p) \/ write_again(h, p)
            \/ uartputc(h, p) \/ uartstart(h, p) \/ print(h, p) \/ printf(h, p)
            \/ nap(h, p) \/ nap_again(h, p) \/ sys_sleep(h, p)
  \/ type \/ transmit

Spec == Init /\ [][Next]_vars

-----------------------------------------------------------------------------
(* Properties                                                              *)

Held(h) == {l \in Locks : lk[l] = h}

\* Interrupts are off exactly where they must be: a hart that holds a spin lock, goes for one or
\* runs a handler takes no interrupt, so no handler waits for a lock its own hart holds; and all
\* other code runs with interrupts on, whatever harts it has been moved between.  The nesting
\* depth counts the locks, sleep() is called with one lock, and no check of acquire() or sched()
\* fails (spinlock.c push_off()/pop_off(), proc.c sched()).
IntrInv ==
  /\ \A h \in Harts :
       /\ cpu[h].noff = Cardinality(Held(h)) + (IF cpu[h].want = "none" THEN 0 ELSE 1)
       /\ cpu[h].intr <=> cpu[h].noff = 0 /\ cpu[h].at = "none"
  /\ ~ panic

\* The ring holds what was typed, edited and not yet read, in order: r, w and e agree with the
\* sequences, when they wrap and when the ring is full (console.c consoleintr(), consoleread()).
InputInv ==
  LET Chars(i, n) == [j \in 1..n |-> At((i + j - 1) % UINT)]
  IN /\ cons.typed = Chars(cons.r, (cons.w - cons.r) % UINT)
     /\ cons.line = Chars(cons.w, Pending)
     /\ Len(cons.typed) + Len(cons.line) <= INPUT_BUF_SIZE

\* The characters of write() leave the UART in the order they were stored, each of them once:
\* those on their way and in the ring are the ones that follow the last one sent, although echo
\* and printf() send without the lock (uart.c uartputc(), uartstart(), uartputc_sync()).
OutputInv ==
  (IF uart.thr > 0 THEN <<uart.thr>> ELSE <<>>)
    \o [j \in 1..(tx.w - tx.r) |-> tx.buf[(tx.r + j - 1) % UART_TX_BUF_SIZE]]
  = [j \in 1..(tx.w - uart.sent) |-> uart.sent + j]

\* Nobody sleeps on what has already happened: a reader only while there is no whole line, a
\* writer only while the ring is full; a full input ring, which takes no more, has something to
\* read.  And what is in the output ring will be sent: the UART is busy, or its interrupt is
\* pending or being served, or the ring is locked by who will look at it (console.c:96, uart.c:98).
NoLostWakeup ==
  /\ \A p \in Procs :
       /\ proc[p].chan = "cons.r" => cons.r = cons.w
       /\ proc[p].chan = "uart_tx_r" => tx.w = tx.r + UART_TX_BUF_SIZE
  /\ Used = INPUT_BUF_SIZE => cons.r # cons.w
  /\ tx.r # tx.w => ~ Idle \/ uart.empty \/ plic # None \/ lk["uart_tx"] # None
=============================================================================
