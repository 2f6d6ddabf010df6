--------------------------------- MODULE Vm ---------------------------------
(***************************************************************************)
(* Memory: the page allocator (kernel/kalloc.c), page tables and user      *)
(* memory (kernel/vm.c), what fork, sbrk, exec, exit and wait do with them *)
(* (kernel/proc.c, kernel/exec.c), and the way into and out of the kernel, *)
(* with the registers in the trapframe page (kernel/trap.c, trampoline.S,  *)
(* kernel/syscall.c).                                                      *)
(*                                                                         *)
(* A system call is one step: kmem.lock makes each kalloc() and kfree()    *)
(* atomic, a process's page table is used by that process only, and the    *)
(* allocations of others in between could only make one of this call fail, *)
(* which also happens when they come first.  The trap into the kernel and  *)
(* the return are steps of their own.                                      *)
(*                                                                         *)
(* A machine record m holds the pages and the process table; an operator   *)
(* named after a C function maps the record before the call to the one     *)
(* after it, with the result in m.ret (0 for failure).  A page is a page   *)
(* table, a trapframe, or data, whose content is one value.                *)
(***************************************************************************)
EXTENDS Integers, Sequences, FiniteSets, FiniteSetsExt, SequencesExt

CONSTANTS NPROC,
          NPAGES,     \* pages of physical memory, at most
          MemSizes,   \* how many of them the kernel may find at boot
          FAN,        \* entries of a page table; page tables have three levels
          PGSIZE, UINT64,
          Calls,      \* per process: system calls that its program makes, [num, n]
          Programs,   \* executables: [magic, segs], segs a sequence of
                      \* [vaddr, memsz, filesz, flags, ok], ok if the file is long enough
          MAXARG, USERSTACK,
          Addrs       \* user addresses that are passed to the kernel

Procs == 1..NPROC
Pages == 1..NPAGES
VPAGES == FAN * FAN * FAN
TRAMPOLINE == VPAGES - 1
TRAPFRAME == VPAGES - 2
Text == NPAGES + 1           \* the page of the kernel that holds the trampoline
initproc == 1

ASSUME VmAssumption ==
  /\ {NPROC, NPAGES, FAN, PGSIZE, MAXARG, USERSTACK} \subseteq Nat \ {0}
  /\ MemSizes \subseteq 1..NPAGES
  /\ NPAGES < TRAPFRAME      \* memory ends before the address space does
  /\ UINT64 > VPAGES * PGSIZE

VARIABLES m,      \* the machine
          mode,   \* per process: "user", "call" (a system call to do) or "return"
          parent, \* per process, 0 if none
          regs,   \* per process: the user registers, while it is in user mode
          kstk    \* per process: whose kernel stack it is on, while it is in the kernel
vars == <<m, mode, parent, regs, kstk>>

\* Contents of a data page: 0, junk, a process that stored there, or part of a file.
junk == -1
File(i) == 100 + i
Args == 200

NoPTE == [pa |-> 0, perm |-> {}]
ZeroTbl == [k \in 0..(FAN - 1) |-> NoPTE]
\* Bytes of 5 read as page table entries: valid, and not pointing to a table.
JunkTbl == [k \in 0..(FAN - 1) |-> [pa |-> 0, perm |-> {"V", "W"}]]
NoRegs == [pc |-> 0, a |-> [num |-> "none", n |-> 0], s |-> 0]
NoFrame == [regs |-> NoRegs, ksp |-> 0]
NoProc == [st |-> "unused", tf |-> 0, pt |-> 0, sz |-> 0]

Panic(x) == [x EXCEPT !.panic = TRUE, !.ret = 0]
Ret(x, r) == [x EXCEPT !.ret = r]
\* A call that has made x of the machine may have failed: what its caller does then, and if not.
Try(x, Failed(_), Ok(_)) == IF x.ret = 0 THEN Failed(x) ELSE Ok(x)
Then(x, Ok(_)) == IF x.ret = 0 THEN x ELSE Ok(x)

-----------------------------------------------------------------------------
(* kalloc.c                                                                *)

kfree(x, a) ==
  IF a \notin Pages \ x.free THEN Panic(x)
  ELSE [x EXCEPT !.free = @ \cup {a}, !.dat[a] = junk, !.tbl[a] = JunkTbl, !.frame[a] = NoFrame]

kalloc(x) ==
  IF x.free = {} THEN Ret(x, 0)
  ELSE [x EXCEPT !.free = @ \ {Min(x.free)}, !.ret = Min(x.free)]

\* memset(a, 0, PGSIZE)
Clear(x, a) == [x EXCEPT !.dat[a] = 0, !.tbl[a] = ZeroTbl]

-----------------------------------------------------------------------------
(* vm.c                                                                    *)

PX(level, va) == (va \div (FAN ^ level)) % FAN
PGROUNDUP(n) == (n + PGSIZE - 1) \div PGSIZE   \* as a number of pages
Leaf(e) == e.perm \cap {"R", "W", "X"} # {}

\* walk() without alloc: the table that holds the entry of va, 0 if there is none.
Table(x, t, va) ==
  LET e2 == x.tbl[t][PX(2, va)]
      e1 == x.tbl[e2.pa][PX(1, va)]
  IN IF "V" \in e2.perm /\ "V" \in e1.perm THEN e1.pa ELSE 0

\* One level of walk() with alloc: the table below entry va of table t.
Descend(x, t, level, va) ==
  LET e == x.tbl[t][PX(level, va)]
      Link(y) == [Clear(y, y.ret) EXCEPT !.tbl[t][PX(level, va)] = [pa |-> y.ret, perm |-> {"V"}]]
  IN IF "V" \in e.perm THEN Ret(x, e.pa) ELSE Then(kalloc(x), Link)

walk(x, t, va) ==
  IF va >= VPAGES THEN Panic(x)
  ELSE Then(Descend(x, t, 2, va), LAMBDA y : Descend(y, y.ret, 1, va))

PTE(x, t, va) == LET b == Table(x, t, va) IN IF b = 0 THEN NoPTE ELSE x.tbl[b][PX(0, va)]
SetPTE(x, t, va, e) == [x EXCEPT !.tbl[Table(x, t, va)][PX(0, va)] = e]

\* walkaddr(): 0 unless the user may use the page.
walkaddr(x, t, va) == IF va < VPAGES /\ {"V", "U"} \subseteq PTE(x, t, va).perm
                        THEN PTE(x, t, va).pa ELSE 0

\* mappages(), of one page.
mappages(x, t, va, pa, perm) ==
  LET Map(y) == IF "V" \in PTE(y, t, va).perm THEN Panic(y)
                ELSE Ret(SetPTE(y, t, va, [pa |-> pa, perm |-> perm \cup {"V"}]), 1)
  IN Then(walk(x, t, va), Map)

\* uvmunmap(): the mappings must exist.
Unmap(x, t, va, do_free) ==
  LET e == PTE(x, t, va)
  IN IF "V" \notin e.perm \/ ~Leaf(e) THEN Panic(x)
     ELSE SetPTE(IF do_free THEN kfree(x, e.pa) ELSE x, t, va, NoPTE)
uvmunmap(x, t, va, npages, do_free) ==
  FoldLeft(LAMBDA y, k : Unmap(y, t, va + k - 1, do_free), x, [k \in 1..npages |-> k])

uvmcreate(x) == Then(kalloc(x), LAMBDA y : Clear(y, y.ret))

\* uvmfirst(): the first process's only page.
uvmfirst(x, t) ==
  Then(kalloc(x), LAMBDA y : mappages([Clear(y, y.ret) EXCEPT !.dat[y.ret] = File(0)],
                                      t, 0, y.ret, {"R", "W", "X", "U"}))

\* Fault: shrinking rounds the new end down.
DeallocDown(x, t, oldsz, newsz) ==
  IF newsz >= oldsz THEN Ret(x, oldsz)
  ELSE Ret(uvmunmap(x, t, newsz \div PGSIZE, PGROUNDUP(oldsz) - newsz \div PGSIZE, TRUE), newsz)
uvmdealloc(x, t, oldsz, newsz) ==
  IF newsz >= oldsz THEN Ret(x, oldsz)
  ELSE Ret(uvmunmap(x, t, PGROUNDUP(newsz), PGROUNDUP(oldsz) - PGROUNDUP(newsz), TRUE), newsz)

\* The loop of uvmalloc(), from page a on; first is where it began.
RECURSIVE Grow(_, _, _, _, _, _)
\* Fault: the new page is not freed when it cannot be mapped.
GrowLeaks(x, t, a, first, newsz, xperm) ==
  LET Undo(u) == Ret(uvmdealloc(u, t, a * PGSIZE, first * PGSIZE), 0)
      Map(y) == Try(mappages(Clear(y, y.ret), t, a, y.ret, {"R", "U"} \cup xperm), Undo,
                    LAMBDA z : Grow(z, t, a + 1, first, newsz, xperm))
  IN IF a * PGSIZE >= newsz THEN Ret(x, newsz) ELSE Try(kalloc(x), Undo, Map)
Grow(x, t, a, first, newsz, xperm) ==
  LET Undo(u) == Ret(uvmdealloc(u, t, a * PGSIZE, first * PGSIZE), 0)
      Map(y) == Try(mappages(Clear(y, y.ret), t, a, y.ret, {"R", "U"} \cup xperm),
                    LAMBDA z : Undo(kfree(z, y.ret)),
                    LAMBDA z : Grow(z, t, a + 1, first, newsz, xperm))
  IN IF a * PGSIZE >= newsz THEN Ret(x, newsz) ELSE Try(kalloc(x), Undo, Map)
uvmalloc(x, t, oldsz, newsz, xperm) ==
  IF newsz < oldsz THEN Ret(x, oldsz)
  ELSE Grow(x, t, PGROUNDUP(oldsz), PGROUNDUP(oldsz), newsz, xperm)

\* freewalk(): all leaf mappings must be gone.
RECURSIVE freewalk(_, _)
freewalk(x, t) ==
  LET Sub(y, k) == LET e == x.tbl[t][k - 1]
                   IN IF "V" \notin e.perm THEN y
                      ELSE IF Leaf(e) THEN Panic(y) ELSE freewalk(y, e.pa)
  IN kfree(FoldLeft(Sub, x, [k \in 1..FAN |-> k]), t)

uvmfree(x, t, sz) == freewalk(uvmunmap(x, t, 0, PGROUNDUP(sz), TRUE), t)

\* The loop of uvmcopy(), from page i on.
RECURSIVE CopyFrom(_, _, _, _, _)
CopyFrom(x, old, new, i, npages) ==
  LET e == PTE(x, old, i)
      Undo(u) == Ret(uvmunmap(u, new, 0, i, TRUE), 0)
      Copy(y) == Try(mappages([y EXCEPT !.dat[y.ret] = x.dat[e.pa]], new, i, y.ret, e.perm),
                     LAMBDA z : Undo(kfree(z, y.ret)),
                     LAMBDA z : CopyFrom(z, old, new, i + 1, npages))
  IN IF i >= npages THEN Ret(x, 1)
     ELSE IF "V" \notin e.perm THEN Panic(x)
     ELSE Try(kalloc(x), Undo, Copy)
uvmcopy(x, old, new, sz) == CopyFrom(x, old, new, 0, PGROUNDUP(sz))

uvmclear(x, t, va) ==
  SetPTE(x, t, va, [PTE(x, t, va) EXCEPT !.perm = @ \ {"U"}])

\* Pages that hold the len bytes at va.
Span(va, len) == [k \in 1..((va + len - 1) \div PGSIZE - va \div PGSIZE + 1) |->
                    va \div PGSIZE + k - 1]

\* copyout(): stops at the first page that is not the user's to write.
copyout(x, t, dstva, len, val) ==
  LET Copy(y, va) ==
        IF y.ret = 0 THEN y
        ELSE IF va >= VPAGES \/ ~({"V", "U", "W"} \subseteq PTE(y, t, va).perm) THEN Ret(y, 0)
        ELSE [y EXCEPT !.dat[PTE(y, t, va).pa] = val]
  IN FoldLeft(Copy, Ret(x, 1), Span(dstva, len))

\* copyin() and copyinstr() (of a string that ends after len bytes) succeed.
copyin(x, t, srcva, len) == \A k \in DOMAIN Span(srcva, len) : walkaddr(x, t, Span(srcva, len)[k]) # 0

-----------------------------------------------------------------------------
(* The memory of a process: proc.c                                         *)

proc_pagetable(x, tf) ==
  LET MapFrame(a, t) ==
        Try(mappages(a, t, TRAPFRAME, tf, {"R", "W"}),
            LAMBDA b : Ret(uvmfree(uvmunmap(b, t, TRAMPOLINE, 1, FALSE), t, 0), 0),
            LAMBDA b : Ret(b, t))
      Fill(y, t) == Try(mappages(y, t, TRAMPOLINE, Text, {"R", "X"}),
                        LAMBDA a : Ret(uvmfree(a, t, 0), 0), LAMBDA a : MapFrame(a, t))
  IN Then(uvmcreate(x), LAMBDA y : Fill(y, y.ret))

proc_freepagetable(x, t, sz) ==
  uvmfree(uvmunmap(uvmunmap(x, t, TRAMPOLINE, 1, FALSE), t, TRAPFRAME, 1, FALSE), t, sz)

freeproc(x, q) ==
  LET y == IF x.proc[q].tf # 0 THEN kfree(x, x.proc[q].tf) ELSE x
      z == IF x.proc[q].pt # 0 THEN proc_freepagetable(y, x.proc[q].pt, x.proc[q].sz) ELSE y
  IN [z EXCEPT !.proc[q] = NoProc]

\* allocproc(), for the unused slot q: a trapframe page and an empty page table.
allocproc(x, q) ==
  LET Free(u) == Ret(freeproc(u, q), 0)
      Fill(y, tf) == Try(proc_pagetable(y, tf),
                         LAMBDA z : Free([z EXCEPT !.proc[q].tf = tf]),
                         LAMBDA z : [z EXCEPT !.proc[q].tf = tf, !.proc[q].pt = z.ret, !.ret = 1])
  IN Try(kalloc(x), Free, LAMBDA y : Fill(y, y.ret))

\* Setting the registers that a process's trapframe holds.
SetRegs(x, p, r) == [x EXCEPT !.frame[x.proc[p].tf].regs = r]
Regs(x, p) == x.frame[x.proc[p].tf].regs
Result(r, n) == [r EXCEPT !.a = [num |-> "ret", n |-> n]]

\* fork(), into the slot q that allocproc() finds; ret is the child, 0 for failure.
fork(x, p, q) ==
  LET Child(z) == SetRegs([z EXCEPT !.proc[q].sz = x.proc[p].sz, !.proc[q].st = "live", !.ret = q],
                          q, Result(Regs(x, p), 0))
      Copy(y) == Try(uvmcopy(y, x.proc[p].pt, y.proc[q].pt, x.proc[p].sz),
                     LAMBDA z : Ret(freeproc(z, q), 0), Child)
  IN Then(allocproc(x, q), Copy)

\* growproc(): ret is 0 for failure and 1 for success.
growproc(x, p, n) ==
  LET pr == x.proc[p]
      new == (pr.sz + n) % UINT64
      Set(y) == [y EXCEPT !.proc[p].sz = y.ret, !.ret = 1]
  IN IF n > 0 THEN Then(uvmalloc(x, pr.pt, pr.sz, new, {"W"}), Set)
     ELSE Set(uvmdealloc(x, pr.pt, pr.sz, new))

-----------------------------------------------------------------------------
(* exec.c, and sys_exec of sysfile.c                                       *)

\* Flags of a segment, as a set: 1 to execute, 2 to write.
flags2perm(flags) == (IF 1 \in flags THEN {"X"} ELSE {}) \cup (IF 2 \in flags THEN {"W"} ELSE {})

\* loadseg(): the file's bytes, into pages that must be there.
loadseg(x, t, va, i, filesz) ==
  FoldLeft(LAMBDA y, k : IF walkaddr(y, t, va + k - 1) = 0 THEN Panic(y)
                         ELSE [y EXCEPT !.dat[walkaddr(y, t, va + k - 1)] = File(i)],
           x, [k \in 1..PGROUNDUP(filesz) |-> k])

\* exec()'s loop over the program headers; ret is the size so far plus 1, 0 for failure.
RECURSIVE LoadSegs(_, _, _, _, _)
LoadSegs(x, t, i, k, sz) ==
  LET segs == Programs[i].segs
      ph == segs[k]
      Bad(u, size) == Ret(proc_freepagetable(u, t, size), 0)
      Load(y, size) == LET z == loadseg(y, t, ph.vaddr \div PGSIZE, i, ph.filesz)
                       IN IF ph.ok THEN LoadSegs(z, t, i, k + 1, size) ELSE Bad(z, size)
  IN IF k > Len(segs) THEN Ret(x, sz + 1)
     ELSE IF \/ ph.memsz < ph.filesz \/ (ph.vaddr + ph.memsz) % UINT64 < ph.vaddr
             \/ ph.vaddr % PGSIZE # 0 THEN Bad(x, sz)
     ELSE Try(uvmalloc(x, t, sz, (ph.vaddr + ph.memsz) % UINT64, flags2perm(ph.flags)),
              LAMBDA y : Bad(y, sz), LAMBDA y : Load(y, y.ret))

\* The stack above the program: a page the user cannot use, then the pages with the
\* arguments, if they fit.
Stack(x, t, sz0, fits) ==
  LET sz == PGROUNDUP(sz0) * PGSIZE
      Bad(u, size) == Ret(proc_freepagetable(u, t, size), 0)
      Push(y, top) == Try(copyout(uvmclear(y, t, sz \div PGSIZE), t, top - 1, 1, Args),
                          LAMBDA z : Bad(z, top),
                          LAMBDA z : IF fits THEN Ret(z, top) ELSE Bad(z, top))
  IN Try(uvmalloc(x, t, sz, sz + (USERSTACK + 1) * PGSIZE, {"W"}),
         LAMBDA y : Bad(y, sz), LAMBDA y : Push(y, y.ret))

\* exec() of program i; ret is 0 for failure.
exec(x, p, i, fits) ==
  LET pr == x.proc[p]
      Commit(w, t) ==
        LET c == [w EXCEPT !.proc[p].pt = t, !.proc[p].sz = w.ret]
        IN Ret(proc_freepagetable(SetRegs(c, p, [Regs(x, p) EXCEPT !.pc = i]), pr.pt, pr.sz), 1)
      Load(y, t) == Then(Then(LoadSegs(y, t, i, 1, 0), LAMBDA z : Stack(z, t, z.ret - 1, fits)),
                         LAMBDA w : Commit(w, t))
  IN IF ~Programs[i].magic THEN Ret(x, 0)
     ELSE Then(proc_pagetable(x, pr.tf), LAMBDA y : Load(y, y.ret))

\* fetchaddr(), of one byte.
fetchaddr(x, p, addr) == addr < x.proc[p].sz /\ addr + 1 <= x.proc[p].sz /\ copyin(x, x.proc[p].pt, addr, 1)

\* fetchstr(), of a string of one byte.
fetchstr(x, p, addr) == copyin(x, x.proc[p].pt, addr, 1)

\* sys_exec()'s loop: a page for each of the argc arguments whose pointers are at uargv and
\* whose strings are at ustr.  x.argv are the pages; ret is 0 for failure.
RECURSIVE FetchArgs(_, _, _, _, _)
FetchArgs(x, p, uargv, ustr, argc) ==
  LET k == Len(x.argv)
      Fetch(z) == IF fetchstr(z, p, ustr) THEN FetchArgs(z, p, uargv, ustr, argc) ELSE Ret(z, 0)
  IN IF k >= MAXARG \/ ~fetchaddr(x, p, uargv + k) THEN Ret(x, 0)
     ELSE IF k = argc THEN Ret(x, 1)
     ELSE Then(kalloc(x), LAMBDA y : Fetch([y EXCEPT !.argv = Append(@, y.ret)]))

sys_exec(x, p, i, uargv, ustr, argc, fits) ==
  LET FreeArgs(z) == [FoldLeft(kfree, z, z.argv) EXCEPT !.argv = <<>>, !.ret = z.ret]
  IN FreeArgs(Then(FetchArgs(x, p, uargv, ustr, argc), LAMBDA y : exec(y, p, i, fits)))

-----------------------------------------------------------------------------
(* Traps, and the system calls.                                            *)

\* The page that the user page table of p has at TRAPFRAME: all the trampoline knows.
Frame(p) == PTE(m, m.proc[p].pt, TRAPFRAME).pa
Live(p) == m.proc[p].st = "live"
InUser(p) == Live(p) /\ mode[p] = "user"

\* Boot: kinit() frees the n pages there are, and userinit() makes the first process, which
\* will return to user space.
Boot(n) ==
  LET none == [free |-> 1..n, ret |-> 0, panic |-> FALSE, argv |-> <<>>, total |-> n,
               dat |-> [a \in Pages |-> junk], tbl |-> [a \in Pages |-> JunkTbl],
               frame |-> [a \in Pages |-> NoFrame], proc |-> [p \in Procs |-> NoProc]]
      First(x) == uvmfirst(x, x.proc[initproc].pt)
  IN [First(allocproc(none, initproc))
        EXCEPT !.proc[initproc].sz = PGSIZE, !.proc[initproc].st = "live", !.ret = 0]

Init == /\ \E n \in MemSizes : m = Boot(n)
        /\ mode = [p \in Procs |-> IF p = initproc THEN "return" ELSE "user"]
        /\ parent = [p \in Procs |-> 0]
        /\ regs = [p \in Procs |-> NoRegs] /\ kstk = [p \in Procs |-> p]

\* uservec and the start of usertrap(), with the registers r: they go to the page at
\* TRAPFRAME, where the kernel stack is found; the pc goes to p->trapframe.
Enter(p, r, why) ==
  LET f == Frame(p)
  IN /\ InUser(p)
     /\ m' = [m EXCEPT !.frame[f].regs = [r EXCEPT !.pc = m.frame[f].regs.pc],
                       !.frame[m.proc[p].tf].regs.pc = r.pc]
     /\ kstk' = [kstk EXCEPT ![p] = m.frame[f].ksp]
     /\ mode' = [mode EXCEPT ![p] = why] /\ regs' = [regs EXCEPT ![p] = NoRegs]
     /\ UNCHANGED parent

\* An ecall, after the program has computed its arguments; a timer interrupt.
ecall(p, c) == Enter(p, [regs[p] EXCEPT !.a = c, !.s = p], "call")
timer(p) == Enter(p, regs[p], "return")

\* A store instruction of the program.
store(p, va) ==
  LET e == PTE(m, m.proc[p].pt, va)
  IN /\ InUser(p) /\ {"V", "U", "W"} \subseteq e.perm
     /\ m' = [m EXCEPT !.dat[e.pa] = p] /\ UNCHANGED <<mode, parent, regs, kstk>>

\* usertrapret() and userret.
userret(p) ==
  /\ Live(p) /\ mode[p] = "return"
  /\ m' = [m EXCEPT !.frame[m.proc[p].tf].ksp = p]
  /\ regs' = [regs EXCEPT ![p] = [m.frame[Frame(p)].regs EXCEPT !.pc = Regs(m, p).pc]]
  /\ mode' = [mode EXCEPT ![p] = "user"] /\ UNCHANGED <<parent, kstk>>

\* syscall(): the call that p->trapframe asks for, and its result, in p->trapframe.
Arg(p) == Regs(m, p).a
Called(p, num) == Live(p) /\ mode[p] = "call" /\ Arg(p).num = num
Finish(x, p, n) == [SetRegs(x, p, Result(Regs(x, p), n)) EXCEPT !.ret = 0]
Done(p, x, n) == /\ m' = Finish(x, p, n)
                 /\ mode' = [mode EXCEPT ![p] = "return"] /\ UNCHANGED <<parent, regs, kstk>>

sys_fork(p) ==
  LET slots == {q \in Procs : m.proc[q].st = "unused"}
      q == Min(slots)
  IN /\ Called(p, "fork")
     /\ \E x \in {IF slots = {} THEN m ELSE fork(m, p, q)} :
        IF x.ret = 0 THEN Done(p, x, -1)
        ELSE /\ m' = Finish(x, p, q)
             /\ mode' = [mode EXCEPT ![p] = "return", ![q] = "return"]
             /\ parent' = [parent EXCEPT ![q] = p] /\ UNCHANGED <<regs, kstk>>

sys_sbrk(p) ==
  /\ Called(p, "sbrk")
  /\ \E x \in {growproc(m, p, Arg(p).n)} : Done(p, x, IF x.ret = 0 THEN -1 ELSE m.proc[p].sz)

exec_call(p) ==
  \E uargv \in Addrs, ustr \in Addrs, argc \in 0..MAXARG, fits \in BOOLEAN :
    /\ Called(p, "exec")
    /\ \E x \in {sys_exec(m, p, Arg(p).n, uargv, ustr, argc, fits)} :
         Done(p, x, IF x.ret = 0 THEN -1 ELSE argc)

\* exit(), called, or because the process was killed: usertrap() looks before and after
\* the system call.
exit(p) ==
  /\ Live(p) /\ p # initproc /\ mode[p] # "user"
  /\ m' = [m EXCEPT !.proc[p].st = "zombie"]
  /\ parent' = [q \in Procs |-> IF parent[q] = p THEN initproc ELSE parent[q]]
  /\ UNCHANGED <<mode, regs, kstk>>

\* wait(): an exited child is freed, unless its status cannot be stored.
sys_wait(p) ==
  LET kids == {q \in Procs : parent[q] = p}
      dead == {q \in kids : m.proc[q].st = "zombie"}
      q == Min(dead)
      Status == IF Arg(p).n = 0 THEN Ret(m, 1)
                ELSE copyout(m, m.proc[p].pt, Arg(p).n, PGSIZE, q)
  IN /\ Called(p, "wait") /\ (kids = {} \/ dead # {})
     /\ \E x \in {IF kids = {} THEN m ELSE Status} :
        IF x.ret = 0 THEN Done(p, x, -1)
        ELSE /\ m' = [freeproc(Finish(x, p, q), q) EXCEPT !.ret = 0]
             /\ mode' = [mode EXCEPT ![p] = "return", ![q] = "user"]
             /\ parent' = [parent EXCEPT ![q] = 0] /\ kstk' = [kstk EXCEPT ![q] = q]
             /\ UNCHANGED regs

Next == \E p \in Procs :
          \/ timer(p) \/ userret(p) \/ sys_fork(p) \/ sys_sbrk(p) \/ exec_call(p) \/ exit(p)
          \/ sys_wait(p)
          \/ \E c \in Calls[p] : ecall(p, c)
          \/ \E va \in Addrs : store(p, va \div PGSIZE)

Spec == Init /\ [][Next]_vars

\* thread_create(): a slot that shares the page table of p.  Its trapframe and its kernel
\* stack are pages of its own.
thread_create(p) ==
  LET slots == {q \in Procs : m.proc[q].st = "unused"}
      q == Min(slots)
      x == kalloc(m)
      y == kalloc(x)
      z == [y EXCEPT !.proc[q] = [m.proc[p] EXCEPT !.tf = y.ret]]
  IN /\ Called(p, "thread_create") /\ slots # {} /\ x.ret # 0 /\ y.ret # 0
     /\ m' = [SetRegs(SetRegs(z, p, Result(Regs(m, p), q)), q, Regs(m, p)) EXCEPT !.ret = 0]
     /\ mode' = [mode EXCEPT ![p] = "return", ![q] = "return"]
     /\ parent' = [parent EXCEPT ![q] = p] /\ UNCHANGED <<regs, kstk>>

SpecThreads == Init /\ [][Next \/ \E p \in Procs : thread_create(p)]_vars

-----------------------------------------------------------------------------
(* Properties.                                                             *)

Idx == 0..(FAN - 1)
Used == {p \in Procs : m.proc[p].st # "unused"}

\* Every use of a page: as a trapframe, as a page table of one of the three levels, as user
\* memory.  The last component is the page.
Uses ==
  LET e2(p, i) == m.tbl[m.proc[p].pt][i]
      e1(p, i, j) == IF "V" \in e2(p, i).perm THEN m.tbl[e2(p, i).pa][j] ELSE NoPTE
      claims == {<<"tf", p, 0, 0, m.proc[p].tf>> : p \in Used}
                \cup {<<"root", p, 0, 0, m.proc[p].pt>> : p \in Used}
                \cup {<<"2", p, i, 0, e2(p, i).pa>> : p \in Used, i \in Idx}
                \cup {<<"1", p, i, j, e1(p, i, j).pa>> : p \in Used, i \in Idx, j \in Idx}
                \cup {<<"mem", p, va, 0, PTE(m, m.proc[p].pt, va).pa>> :
                        p \in Used, va \in 0..(TRAPFRAME - 1)}
  IN {c \in claims : c[5] # 0}

\* Memory is neither lost nor shared, whatever allocation of whatever call failed: every
\* page is on the free list or has one owner; a process has the pages below its size, the
\* trampoline and its own trapframe mapped, and nothing else; and none of the panics of
\* vm.c (a remap, an unmap of what is not mapped, a leaf in freewalk, a page freed twice)
\* is reached.
PageInv ==
  /\ ~m.panic /\ m.argv = <<>>
  /\ {c[5] : c \in Uses} = 1..m.total \ m.free
  /\ Cardinality(Uses) + Cardinality(m.free) = m.total
  /\ \A p \in Used :
       /\ {va \in 0..(VPAGES - 1) : "V" \in PTE(m, m.proc[p].pt, va).perm}
            = 0..(PGROUNDUP(m.proc[p].sz) - 1) \cup {TRAPFRAME, TRAMPOLINE}
       /\ Frame(p) = m.proc[p].tf

\* The memory and the registers as the program sees them.
UserPage(p, va) == LET e == PTE(m, m.proc[p].pt, va)
                   IN [perm |-> e.perm, val |-> IF "V" \in e.perm THEN m.dat[e.pa] ELSE junk]
UserMem(p) == [k \in 1..PGROUNDUP(m.proc[p].sz) |-> UserPage(p, k - 1)]
UserRegs(p) == IF m.proc[p].st = "unused" THEN NoRegs
               ELSE IF mode[p] = "user" THEN regs[p] ELSE m.frame[Frame(p)].regs

\* A process in the kernel is on its own kernel stack.
OwnStack == \A p \in Procs : Live(p) /\ mode[p] # "user" => kstk[p] = p
=============================================================================
