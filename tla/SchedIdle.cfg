\* change_sched_level() moves an EDF process.
SPECIFICATION Spec
CONSTANTS
  NPROC = 2
  NCPU = 1
  QUANTUM = 1
  AGING_THRESHOLD = 1
  MaxPid = 2
  MaxAge = 2
  MaxDrift = 1
  NCHAN = 0
  Deadlines = {5}
  Calls = {"fork", "set_deadline_for_process", "change_sched_level"}
  Corners = {"edf_level"}
INVARIANT WorkConserving
