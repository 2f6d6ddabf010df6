SPECIFICATION LiveSpec
CONSTANTS
  Procs = {p0, p1}
  InitProc = p0
  Blocks = {b1, b2}
  Vals = {x, y}
  Torn = Torn
  NotCached = NotCached
  Nobody = Nobody
  MAXOPBLOCKS = 3
  OPBLOCKS = 2
  LOGSIZE = 6
  NLOG = 6
  MaxOps = 2
  MaxCrashes = 2
INVARIANTS LogInv DurableAtReturn SleeperHasWaker 
PROPERTIES AtomicAcrossCrashes  RecoveryCompletes
CHECK_DEADLOCK FALSE
