\* A process calls sleep() and the clock ticks.
SPECIFICATION Spec
CONSTANTS
  NPROC = 2
  NCPU = 1
  QUANTUM = 1
  AGING_THRESHOLD = 1
  MaxPid = 2
  MaxAge = 2
  MaxDrift = 1
  NCHAN = 0
  Deadlines = {}
  Calls = {"fork", "sleep"}
  Corners = {}
INVARIANT NoAcquirePanic
