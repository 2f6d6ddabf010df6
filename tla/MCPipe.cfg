SPECIFICATION Spec
CONSTANTS
  Procs = {p1, p2, p3}
  Bytes = {x, y}
  PIPESIZE = 2
  WRAP = 4
  Sizes = {1, 3}
  Killable = {p1}
  Nobody = Nobody
SYMMETRY Perms
INVARIANT PipeInv
PROPERTIES NoStuckSleeper Fifo EofOnlyAtEnd
CHECK_DEADLOCK FALSE
