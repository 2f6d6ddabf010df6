SPECIFICATION LiveSpec
CONSTANTS
  NPROC = 3
  c1 = c1
  c2 = c2
  CPUs = {c1, c2}
  MaxPid = 3
  MaxThreads = 0
  KillPids = {2}
INVARIANTS ProcInv StackSafe ParentAlive
PROPERTIES KilledSleeperExits OrphansReaped
