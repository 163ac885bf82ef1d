SPECIFICATION Spec
CONSTANTS
  Process = {p1, p2}
  NoUse = NoUse
  outer = outer
  b1 = b1
  b2 = b2
  b3 = b3
  Block = {outer, b1, b2, b3}
  NoBlock = NoBlock
  Nested <- MCNested
  Val = {0, 1}
  V0 = 0
  NBUF = 2
  MaxPinned = 2
SYMMETRY ProcessBlockSymmetry
INVARIANTS OwnerHasBlock Owed PanicsOnlyFull
PROPERTY CacheTransparent
