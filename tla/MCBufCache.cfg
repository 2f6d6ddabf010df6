SPECIFICATION Spec
CONSTANTS
  Users = {u1, u2, u3}
  x1 = x1
  x2 = x2
  Bufs = {x1, x2}
  binitOrder <- Order2
  head = head
  Blocks = {n1, n2, n3}
  Vals = {v, w}
  NoBlock = NoBlock
  Nobody = Nobody
SYMMETRY Perms
INVARIANTS CacheInv NoLostWakeup
PROPERTIES OneContent 
CHECK_DEADLOCK FALSE
