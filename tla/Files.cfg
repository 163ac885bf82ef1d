\* The contents of files, and their names.
SPECIFICATION Spec
CONSTANTS
  BSIZE = 2
  NDIRECT = 2
  nmeta = 5
  FSSIZE = 17
  NINODES = 4
  Proc = {1, 2}
  File = {1, 2}
  MAXOPBLOCKS = 6
  Requests <- MCRequests
  ReadSizes <- MCReadSizes
  Contents <- MCContents
  Opens <- MCOpens
  MaxCalls = 3
  p1 = p1
  p2 = p2
SYMMETRY Symmetry
INVARIANTS BlocksOwned OpFits CacheCoherent NamesLive InodesMove
PROPERTY FilesKeepBytes
\* A bounded number of calls is made.
CHECK_DEADLOCK FALSE
