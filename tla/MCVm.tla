-------------------------------- MODULE MCVm --------------------------------
EXTENDS Vm

Seg(v, memsz, filesz, flags, ok) ==
  [vaddr |-> v, memsz |-> memsz, filesz |-> filesz, flags |-> flags, ok |-> ok]

\* 1 is a program with an initialised page and one that is not; the others are no programs:
\* a second segment that the file is too short for, and one that wraps around.
MCPrograms ==
  << [magic |-> TRUE, segs |-> <<Seg(0, 2, 2, {1}, TRUE), Seg(2, 1, 0, {2}, TRUE)>>],
     [magic |-> TRUE, segs |-> <<Seg(0, 2, 2, {1}, TRUE), Seg(2, 2, 1, {2}, FALSE)>>],
     [magic |-> TRUE, segs |-> <<Seg(0, 2, 2, {1}, TRUE), Seg(2, UINT64 - 1, 1, {2}, TRUE)>>] >>

\* The memory of program 1: text, zeroed data, the guard page, the stack.
MCLayout(i) ==
  << [perm |-> {"V", "R", "U", "X"}, val |-> File(1)],
     [perm |-> {"V", "R", "U", "W"}, val |-> 0],
     [perm |-> {"V", "R", "W"}, val |-> 0],
     [perm |-> {"V", "R", "U", "W"}, val |-> Args] >>

Call(num, n) == [num |-> num, n |-> n]
\* The first process creates the other one, which runs programs.
MCCalls ==
  << {Call("fork", 0), Call("wait", 0), Call("wait", 1)},
     {Call("sbrk", 3), Call("sbrk", -3)} \cup {Call("exec", i) : i \in DOMAIN MCPrograms} >>
\* From barely enough for the first process on.
MCMemSizes == 7..NPAGES

MCThreadCalls == << {Call("thread_create", 0)}, {Call("sbrk", 3)} >>

AS == INSTANCE AddressSpace WITH
        Images <- {1}, Layout <- MCLayout,
        st <- [p \in Procs |-> m.proc[p].st],
        mem <- [p \in Procs |-> UserMem(p)],
        sz <- [p \in Procs |-> m.proc[p].sz],
        regs <- [p \in Procs |-> UserRegs(p)]

\* Every process has the memory and the registers AddressSpace promises it.
PrivateMemory == AS!Spec

=============================================================================
