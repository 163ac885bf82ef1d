\* Pipes, console, memory, keyboard, heap, spinlocks, pure functions.
\* Processes exit, CPUs wait in circles, inputs make no steps: a behaviour may end.
SPECIFICATION Spec
CONSTANTS
  Process = {p1, p2}
  NFILE = 2
  NOFILE = 2
  PIPESIZE = 1
  Uint = 2
  Requests <- OneRequest
  MaxRead = 1
  Reader = {1, 2}
  Letter = "a"
  NL = "nl"
  CR = "cr"
  EOT = "^D"
  BS = "^H"
  KILL = "^U"
  INPUT_BUF = 2
  CUint = 4
  MaxWant = 3
SYMMETRY Symmetry
INVARIANTS FilesHeld ConsoleSleepers MemorySound KbdModifiers InterruptsMasked CircularWaits AlgorithmsRight
PROPERTIES PipeSleepers ConsoleLines HeapSound
CHECK_DEADLOCK FALSE
