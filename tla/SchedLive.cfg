\* Three processes that are killed wherever they are.
SPECIFICATION KernelFairSpec
CONSTANTS
  NPROC = 3
  NCPU = 1
  QUANTUM = 1
  AGING_THRESHOLD = 1
  MaxPid = 3
  MaxAge = 2
  MaxDrift = 1
  NCHAN = 0
  Deadlines = {}
  Calls = {"fork", "exit", "wait", "kill"}
  Corners = {}

PROPERTIES KilledExits AgingPromotes RunnableRuns
