SPECIFICATION Spec
CONSTANTS
  p1 = p1
  p2 = p2
  Nobody = Nobody
  Procs <- MCProcs
  initproc = p1
  NINODES = 3
  Names = {"a", "b"}
  Paths <- MCPaths
  MaxNlink = 2
  NFILE = 2
  NOFILE = 2
  Calls <- MCCalls
INVARIANTS RefInv LinkInv NoDeadlock 
