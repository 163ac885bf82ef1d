\* The three queues on one CPU, with processes moved between them.
SPECIFICATION Spec
CONSTANTS
  NPROC = 2
  NCPU = 1
  QUANTUM = 1
  AGING_THRESHOLD = 1
  MaxPid = 3
  MaxAge = 2
  MaxDrift = 1
  NCHAN = 0
  Deadlines <- GoodAndBadDeadlines
  Calls = {"fork", "exit", "wait", "exec", "set_deadline_for_process", "change_sched_level",
           "sleep", "fault", "is_higher_waiting"}
  Corners = {"unused_pid", "same_level"}
INVARIANTS OneCpuInv WorkConserving
PROPERTY PriorityRespected
