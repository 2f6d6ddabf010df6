SPECIFICATION Spec
CONSTANTS
  NPROC = 3
  c1 = c1
  c2 = c2
  CPUs = {c1, c2}
  MaxPid = 4
  MaxThreads = 2
  KillPids = {2}
SYMMETRY Symmetric
INVARIANTS NoLostWakeup 
