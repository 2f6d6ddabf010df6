SPECIFICATION Spec
CONSTANTS
  NPROC = 2
  NPAGES = 24
  MemSizes <- MCMemSizes
  FAN = 3
  PGSIZE = 2
  UINT64 = 128
  Calls <- MCCalls
  Programs <- MCPrograms
  MAXARG = 2
  USERSTACK = 1
  Addrs = {1}
INVARIANT PageInv
PROPERTY PrivateMemory
