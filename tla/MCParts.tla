------------------------------ MODULE MCParts -------------------------------
(***************************************************************************)
(* The parts of the system that need no other, checked together: `part'    *)
(* says which of them a behaviour is one of.  The part "input" makes no    *)
(* steps: its initial states are the inputs of the pure functions.         *)
(***************************************************************************)
EXTENDS Pipe, Console, SequencesExt, TLC

VARIABLES
  part, arg,
  free, state, kstack, pgdir, sz, mpc, new, mem, old, loaded, oops,
  shift, wire, down,
  h, used, foreign,
  if, ncli, intena, locked, thread, stack, saved, kept, panicked

memoryVars == <<free, state, kstack, pgdir, sz, mpc, new, mem, old, loaded, oops>>
kbdVars == <<shift, wire, down>>
heapVars == <<h, used, foreign>>
lockVars == <<if, ncli, intena, locked, thread, stack, saved, kept, panicked>>
mcvars == <<part, arg, pipeVars, consoleVars, memoryVars, kbdVars, heapVars, lockVars>>

-----------------------------------------------------------------------------
(* Two processes that share what fork() and dup() make them share; fewer   *)
(* files and descriptors than they ask for, and a ring of one byte.        *)
OneRequest == {<<0, 1>>}
Symmetry == Permutations(Process)

(* Memory for one process and its exec(), or for two processes             *)
M == INSTANCE Memory WITH
  Proc <- {1, 2}, init <- 1, NPAGE <- 12, KTABS <- 1, NPTE <- 2, KERNBASE <- 5, MaxImage <- 2

(* CPUs 0 and 1, and process 2 in the calls that nest locks                *)
L == INSTANCE Locks WITH
  CPU <- {0, 1}, Process <- {2}, oops <- panicked,
  Calls <- {"wait", "sleep", "change_sched_level", "print_sched_info", "iderw", "consoleread"}

(* Both control keys, a shift key, Home and Caps Lock                      *)
K == INSTANCE Kbd WITH
  Key <- {<<FALSE, 29>>, <<TRUE, 29>>, <<FALSE, 42>>, <<TRUE, 71>>, <<FALSE, 58>>}, MaxWire <- 4

H == INSTANCE Umalloc WITH Top <- 12, MinCore <- 3, Sizes <- {1, 16, 17}

G == INSTANCE Grep WITH NL <- "nl", BUF <- 4
S == INSTANCE Shell WITH MAXARGS <- 3
B == INSTANCE Klib WITH Uint <- 16, DIRSIZ <- 2

-----------------------------------------------------------------------------
Strings(A, n) == UNION {[1..k -> A] : k \in 0..n}
CStrings == {s \in [1..3 -> 0..2] : 0 \in ToSet(s)}

(* What the pure functions are given                                       *)
Inputs ==
  { <<"match", re, t>> : re \in Strings({"a", "b", ".", "*", "^", "$"}, 3), t \in Strings({"a", "b"}, 3)}
  \union {<<"grep", t>> : t \in Strings({"a", "b", "nl"}, 6)}
  \union {<<"parse", t>> : t \in Strings({"a", "|", "(", ")", ";", "&", "<"}, 5)}
  \union {<<"memmove", d, s, n>> : d \in 1..3, s \in 1..3, n \in 0..3}
  \union {<<"strings", p, q, n>> : p \in CStrings, q \in CStrings, n \in 0..3}
  \union {<<"path", t>> : t \in Strings({"/", "a", "b"}, 6)}
  \union {<<"arg", a, n, size>> : a \in 0..15, n \in 0..15, size \in 0..8}
  \union {<<"str", mem4, a>> : mem4 \in [1..4 -> 0..1], a \in 0..3}

NoInput == <<"none">>

Init ==
  /\ part \in {"input", "pipe", "console", "memory", "kbd", "heap", "locks"}
  /\ IF part = "input" THEN arg \in Inputs ELSE arg = NoInput
  /\ (\E p \in Process : PipeStart(p, 1)) /\ ConsoleInit
  /\ M!MemoryInit /\ K!KbdInit /\ H!HeapInit /\ L!LockInit

PipePart ==
  part = "pipe" /\ PipeNext
    /\ UNCHANGED <<part, arg, consoleVars, memoryVars, kbdVars, heapVars, lockVars>>
ConsolePart ==
  part = "console" /\ ConsoleNext
    /\ UNCHANGED <<part, arg, pipeVars, memoryVars, kbdVars, heapVars, lockVars>>
MemoryPart ==
  part = "memory" /\ M!MemoryNext
    /\ UNCHANGED <<part, arg, pipeVars, consoleVars, kbdVars, heapVars, lockVars>>
KbdPart ==
  part = "kbd" /\ K!KbdNext
    /\ UNCHANGED <<part, arg, pipeVars, consoleVars, memoryVars, heapVars, lockVars>>
HeapPart ==
  part = "heap" /\ H!HeapNext
    /\ UNCHANGED <<part, arg, pipeVars, consoleVars, memoryVars, kbdVars, lockVars>>
LocksPart ==
  part = "locks" /\ L!LockNext
    /\ UNCHANGED <<part, arg, pipeVars, consoleVars, memoryVars, kbdVars, heapVars>>

Next == PipePart \/ ConsolePart \/ MemoryPart \/ KbdPart \/ HeapPart \/ LocksPart

Spec == Init /\ [][Next]_mcvars

-----------------------------------------------------------------------------
(* Interrupts stay off while a spinlock is held, and come back as they     *)
(* were when the last is released, also across sched(); acquire() panics   *)
(* only when a tick wakes a process from sleep() or ptable.lock was kept   *)
(* by change_sched_level() (spinlock.c:24-125, proc.c:507-523, 637, 799).  *)
InterruptsMasked == part = "locks" => L!InterruptsMasked

(* CPUs wait for each other's spinlocks in a circle only over ptable.lock, *)
(* tickslock and cons.lock, which this kernel takes in different orders,   *)
(* or after change_sched_level() has kept ptable.lock (proc.c:799).        *)
CircularWaits == part = "locks" => L!CircularWaits

(* No page is leaked, freed twice or used after it was freed, wherever the *)
(* memory runs out (kalloc.c, vm.c, exec.c:9-131, proc.c:189-270).         *)
MemorySound == part = "memory" => M!MemorySound

(* No modifier key gets stuck (kbd.c:6-44).                                *)
KbdModifiers == part = "kbd" => K!KbdModifiers

(* malloc() and free() keep the heap a partition into blocks in use and a  *)
(* sorted list of free ones that do not touch (umalloc.c:24-90).           *)
HeapSound == [][part = "heap" => H!HeapStep]_mcvars

(* The pure functions do what they are for: grep's matcher and its lines,  *)
(* the shell's parser, and string, path, number, argument and tick         *)
(* arithmetic of the kernel (grep.c:10-106, sh.c:331-450, string.c:31-94,  *)
(* fs.c:594-617, console.c:27-50, syscall.c:17-70, sysproc.c:69).          *)
AlgorithmsRight ==
  CASE arg[1] = "match"   -> G!MatchRight(arg[2], arg[3])
    [] arg[1] = "grep"    -> G!GrepRight(<<"a">>, arg[2])
    [] arg[1] = "parse"   -> S!ParseRight(arg[2])
    [] arg[1] = "memmove" -> B!MemmoveRight(<<1, 2, 3, 4, 5, 6>>, arg[2], arg[3], arg[4])
    [] arg[1] = "strings" -> B!StringsRight(arg[2], arg[3], arg[4])
    [] arg[1] = "path"    -> B!ElementsRight(arg[2])
    [] arg[1] = "arg"     -> /\ B!ArgsRight(arg[2], arg[3], arg[4])
                               /\ B!SleepRight(arg[2], arg[3])
                               /\ B!PrintRight(arg[2], 10) /\ B!PrintRight(arg[2], 16)
    [] arg[1] = "str"     -> B!StrRight(arg[2], arg[3])
    [] OTHER                -> TRUE
=============================================================================
