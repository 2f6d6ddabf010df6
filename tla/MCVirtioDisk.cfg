SPECIFICATION Spec
CONSTANTS
  Procs = {p1, p2, p3}
  Blocks = {n1, n2, n3}
  Vals = {x, y}
  NUM = 7
  IDX = 7
  NoBlock = NoBlock
  Nobody = Nobody
  Handler = Handler
SYMMETRY Perms
VIEW Current
INVARIANTS ChainInv NoLostCompletion
PROPERTY MovesOnce
CHECK_DEADLOCK FALSE
