---------------------------- MODULE AddressSpace ----------------------------
(***************************************************************************)
(* What the virtual memory system promises a process: a private array of   *)
(* pages below its size and a private set of registers, which only its own *)
(* instructions and its own system calls change.  A system call may fail,  *)
(* for want of memory or because of its arguments; then it changes nothing *)
(* but the register that holds its result.                                 *)
(***************************************************************************)
EXTENDS Integers, Sequences

CONSTANTS Procs,        \* processes: positive integers
          PGSIZE,
          Images,       \* programs exec() can load
          Layout(_),    \* their memory once they are loaded: a sequence of pages
          NoRegs

VARIABLES st,    \* "unused", "live" or "zombie"
          mem,   \* the pages below the size: sequence of [perm, val]
          sz,    \* the size in bytes
          regs   \* registers: [pc, a, s], a for arguments and results, s for all others

vars == <<st, mem, sz, regs>>

PagesOf(n) == (n + PGSIZE - 1) \div PGSIZE
ZeroPage == [perm |-> {"V", "R", "W", "U"}, val |-> 0]
Unused(p) == st[p] = "unused" /\ sz[p] = 0 /\ regs[p] = NoRegs /\ mem[p] = <<>>

Init == \E p \in Procs :
          /\ st[p] = "live" /\ sz[p] = PGSIZE /\ Len(mem[p]) = 1
          /\ \A q \in Procs \ {p} : Unused(q)

Calling(p, num) == st[p] = "live" /\ regs[p].a.num = num
Result(r, n) == [r EXCEPT !.a = [num |-> "ret", n |-> n]]

\* Instructions of p: a store to a writable page of its own, or to a register.
Store(p) ==
  /\ st[p] = "live" /\ UNCHANGED <<st, sz, regs>>
  /\ \E k \in DOMAIN mem[p] : /\ {"U", "W"} \subseteq mem[p][k].perm
                              /\ mem' = [mem EXCEPT ![p][k].val = p]

Compute(p) ==
  /\ st[p] = "live" /\ \A q \in Procs \ {p} : regs'[q] = regs[q]
  /\ regs'[p].s = p /\ regs'[p].pc = regs[p].pc /\ UNCHANGED <<st, sz, mem>>

\* fork(): the child is a copy in everything, except the result.
Fork(p, q) ==
  /\ Calling(p, "fork") /\ Unused(q)
  /\ st' = [st EXCEPT ![q] = "live"]
  /\ regs' = [regs EXCEPT ![p] = Result(@, q), ![q] = Result(regs[p], 0)]
  /\ sz' = [sz EXCEPT ![q] = sz[p]] /\ mem' = [mem EXCEPT ![q] = mem[p]]

\* sbrk(): zeroed pages are added or the last ones taken away; a size below zero
\* leaves everything as it is.
Sbrk(p) ==
  LET n == sz[p] + regs[p].a.n
      new == IF n < 0 THEN sz[p] ELSE n
  IN /\ Calling(p, "sbrk")
     /\ sz' = [sz EXCEPT ![p] = new]
     /\ regs' = [regs EXCEPT ![p] = Result(@, sz[p])] /\ UNCHANGED st
     /\ mem' = [mem EXCEPT ![p] = [k \in 1..PagesOf(new) |->
                                     IF k <= Len(mem[p]) THEN mem[p][k] ELSE ZeroPage]]

\* exec(): the whole image is replaced.
Exec(p) ==
  LET i == regs[p].a.n
  IN /\ Calling(p, "exec") /\ i \in Images
     /\ sz' = [sz EXCEPT ![p] = Len(Layout(i)) * PGSIZE]
     /\ regs' = [regs EXCEPT ![p] = [Result(@, regs'[p].a.n) EXCEPT !.pc = i]]
     /\ UNCHANGED st /\ mem' = [mem EXCEPT ![p] = Layout(i)]

\* The exit status of q is stored in pages of p, or nowhere; the memory of all others is
\* rest.
Status(p, q, rest) ==
  /\ \A r \in Procs \ {p} : mem'[r] = rest[r]
  /\ Len(mem'[p]) = Len(mem[p])
  /\ \A k \in 1..Len(mem[p]) :
       \/ mem'[p][k] = mem[p][k]
       \/ {"U", "W"} \subseteq mem[p][k].perm /\ mem'[p][k] = [mem[p][k] EXCEPT !.val = q]

\* Any of them may fail.  A wait() whose status does not fit at its address may have
\* written the part that does.
Fail(p) ==
  /\ st[p] = "live" /\ regs' = [regs EXCEPT ![p] = Result(@, -1)] /\ UNCHANGED <<st, sz>>
  /\ \/ UNCHANGED mem
     \/ Calling(p, "wait") /\ \E q \in Procs : st[q] = "zombie" /\ Status(p, q, mem)

Exit(p) == st[p] = "live" /\ st' = [st EXCEPT ![p] = "zombie"] /\ UNCHANGED <<sz, regs, mem>>

\* wait(): the exited child is gone; its status may go to a page of the caller.
Wait(p, q) ==
  /\ Calling(p, "wait") /\ st[q] = "zombie"
  /\ st' = [st EXCEPT ![q] = "unused"] /\ sz' = [sz EXCEPT ![q] = 0]
  /\ regs' = [regs EXCEPT ![p] = Result(@, q), ![q] = NoRegs]
  /\ Status(p, q, [mem EXCEPT ![q] = <<>>])

Next == \E p \in Procs : \/ Store(p) \/ Compute(p) \/ Sbrk(p) \/ Exec(p) \/ Fail(p) \/ Exit(p)
                         \/ \E q \in Procs : Fork(p, q) \/ Wait(p, q)

Spec == Init /\ [][Next]_vars
=============================================================================
