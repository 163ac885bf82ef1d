SPECIFICATION Spec
CONSTANTS
  Proc = {p1, p2}
  Block = {b1, b2, b3, b4}
  Val = {0}
  V0 = 0
  MAXOPBLOCKS = 2
  OpBlocks = 2
  LOGSIZE = 4
  NLOG = 4
SYMMETRY ProcBlockSymmetry
INVARIANT LogFits
