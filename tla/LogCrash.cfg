SPECIFICATION Spec
CONSTANTS
  Proc = {p1, p2}
  Block = {b1, b2, b3}
  Val = {0, 1}
  V0 = 0
  MAXOPBLOCKS = 3
  OpBlocks = 2
  LOGSIZE = 6
  NLOG = 6
SYMMETRY ProcBlockSymmetry
INVARIANTS NoPanic SleeperOwed
PROPERTY CrashAtomic
