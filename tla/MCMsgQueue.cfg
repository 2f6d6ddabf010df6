SPECIFICATION Spec
CONSTANTS
  Procs = {p1, p2, p3}
  MSG_MAX_QUEUES = 1
  MSG_MAX_SIZE = 6
  SLOTS = 4
  Msgs = {x, y}
  Zero = Zero
  Sizes = {1, 2}
  MaxSends = 4
SYMMETRY Perms
INVARIANTS CountInv 
CHECK_DEADLOCK FALSE
