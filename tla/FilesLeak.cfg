\* Two processes that open, close, link and unlink, without a crash.
SPECIFICATION NamesSpec
CONSTANTS
  BSIZE = 2
  NDIRECT = 2
  nmeta = 5
  FSSIZE = 17
  NINODES = 4
  Proc = {1, 2}
  File = {1, 2}
  MAXOPBLOCKS = 6
  Requests <- MCRequests
  ReadSizes <- MCReadSizes
  Contents <- MCContents
  Opens <- MCOpens
  MaxCalls = 3
  p1 = p1
  p2 = p2
INVARIANT FreedWhenUnused
\* A bounded number of calls is made.
CHECK_DEADLOCK FALSE
