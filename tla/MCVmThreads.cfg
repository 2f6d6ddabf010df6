SPECIFICATION SpecThreads
CONSTANTS
  NPROC = 2
  NPAGES = 12
  MemSizes = {12}
  FAN = 3
  PGSIZE = 2
  UINT64 = 128
  Calls <- MCThreadCalls
  Programs <- MCPrograms
  MAXARG = 2
  USERSTACK = 1
  Addrs = {1}
INVARIANT OwnStack
