SPECIFICATION Spec
CONSTANTS
  p1 = p1
  p2 = p2
  i1 = i1
  i2 = i2
  Nobody = Nobody
  Procs = {p1, p2}
  Inodes = {i1, i2}
  OPENS = 1
  NBLOCKS = 5
  BSIZE = 2
  NDIRECT = 2
  MAXOPBLOCKS = 6
  UINT = 32
  ReadSizes = {3, 31}
  WriteSizes = {7}
SYMMETRY Symmetry
VIEW View
INVARIANTS BlockInv  OpFits
