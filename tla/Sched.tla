------------------------------- MODULE Sched -------------------------------
(***************************************************************************)
(* The process table and the three-queue scheduler: proc.c, the timer and  *)
(* exit paths of trap.c, and the scheduling calls of sysproc.c.            *)
(*                                                                         *)
(* A critical section of ptable.lock is one action; where the lock is      *)
(* handed through swtch() from a process to the scheduler or back, it is   *)
(* held (ptlock = c) in the state between two actions.  Code that touches  *)
(* the table without the lock has steps of its own.  tickslock is not a    *)
(* variable here: it is held by one CPU for a few instructions inside each *)
(* action, except across wakeup(&ticks) in the timer interrupt, which is   *)
(* why that wakeup can panic.  The order of the locks is not modelled.     *)
(*                                                                         *)
(* Time is relative: age[p] stands for ticks - p->arrival_time and is kept *)
(* only while p is RUNNABLE, the one state in which the code reads it.     *)
(***************************************************************************)
EXTENDS Integers, FiniteSets

CONSTANTS
  NPROC,            \* slots of ptable
  NCPU,             \* processors; only CPU 0 counts ticks
  QUANTUM,          \* Time_Quantum / Unit_Quantum_length_ms
  AGING_THRESHOLD,  \* ticks after which an FCFS process is promoted
  MaxPid,           \* bound: the last pid that is handed out
  MaxAge,           \* bound: ages saturate here
  MaxDrift,         \* bound: how far a counter may leave 0..NPROC
  NCHAN,            \* wait channels of the other kernel subsystems
  Deadlines,        \* deadlines given to set_deadline_for_process
  Calls,            \* system calls the user programs make
  Corners           \* corner cases their arguments and timing reach

ASSUME SizeAssumption ==
  /\ NPROC \in Nat \ {0}
  /\ NCPU \in Nat \ {0}
  /\ QUANTUM \in Nat \ {0}
  /\ AGING_THRESHOLD \in Nat \ {0}
  /\ MaxPid \in Nat \ {0}
  /\ NCHAN \in Nat
  /\ MaxDrift \in Nat
ASSUME AgeAssumption == MaxAge \in Nat /\ MaxAge > AGING_THRESHOLD
ASSUME DeadlineAssumption == Deadlines \subseteq Int

VARIABLES
  state, pid, parent, chan, killed,   \* struct proc
  sched_class, sched_level, deadline, age, rr_ticks,
  context,   \* where swtch() resumes p; "run" while p executes
  pc,        \* where p is in the kernel
  child,     \* the slot fork() is filling (np), or 0
  yields,    \* yield() calls the timer handler still owes p
  cproc,     \* cpu->proc, 0 in the scheduler
  nextrrp,   \* the round-robin cursor, a local variable of scheduler()
  intr,      \* progress of the timer handler on a CPU
  ptlock,    \* the CPU that holds ptable.lock, or NoCpu
  count,     \* count_edf, count_rr and count_fcfs
  nextpid,
  panic      \* the message of the panic() that stopped the machine, or ""

fields == <<state, pid, parent, chan, killed>>
schedFields == <<sched_class, sched_level, deadline>>
vars == <<fields, schedFields, age, rr_ticks, context, pc, child, yields,
          cproc, nextrrp, intr, ptlock, count, nextpid, panic>>

Proc == 1..NPROC
Cpu == 0..(NCPU - 1)
NoCpu == -1
initproc == 1
Queue == {"edf", "rr", "fcfs"}

\* A wait channel is an address: that of a proc, of ticks, or of some other
\* kernel object; 0 is the null pointer.
TicksChan == NPROC + 1
OtherChan == (NPROC + 2)..(NPROC + 1 + NCHAN)
Chan == 0..(NPROC + 1 + NCHAN)

ProcState == {"UNUSED", "EMBRYO", "SLEEPING", "RUNNABLE", "RUNNING", "ZOMBIE"}
Context == {"forkret", "yield", "sleep", "wait", "run", "zombie"}
Place == {"user", "sys", "io", "fork", "wait", "exec", "exit", "yield"}
Message == {"", "acquire", "init exiting"}
Bit == 0..1
Level == 0..2
Age == 0..MaxAge
HandlerState ==
  [at : {"none", "scan", "account"}, p : Proc \cup {0}, pid : Nat]
    \cup [at : {"read", "change"}, p : Proc, pid : Nat]

NoDeadline == 1000000000
Idle == [at |-> "none", p |-> 0, pid |-> 0]

First(S) == CHOOSE i \in S : \A j \in S : i <= j

-----------------------------------------------------------------------------
\* The state main() leaves when the CPUs enter scheduler(): userinit() has
\* made slot 1 a RUNNABLE round-robin process.
Init ==
  /\ state = [p \in Proc |-> IF p = initproc THEN "RUNNABLE" ELSE "UNUSED"]
  /\ pid = [p \in Proc |-> IF p = initproc THEN 1 ELSE 0]
  /\ parent = [p \in Proc |-> 0]
  /\ chan = [p \in Proc |-> 0]
  /\ killed = [p \in Proc |-> 0]
  /\ sched_class = [p \in Proc |-> IF p = initproc THEN 2 ELSE 0]
  /\ sched_level = [p \in Proc |-> IF p = initproc THEN 1 ELSE 0]
  /\ deadline = [p \in Proc |-> IF p = initproc THEN NoDeadline ELSE 0]
  /\ age = [p \in Proc |-> 0]
  /\ rr_ticks = [p \in Proc |-> 0]
  /\ context = [p \in Proc |-> "forkret"]
  /\ pc = [p \in Proc |-> "user"]
  /\ child = [p \in Proc |-> 0]
  /\ yields = [p \in Proc |-> 0]
  /\ cproc = [c \in Cpu |-> 0]
  /\ nextrrp = [c \in Cpu |-> 1]
  /\ intr = [c \in Cpu |-> Idle]
  /\ ptlock = NoCpu
  /\ count = [k \in Queue |-> IF k = "rr" THEN 1 ELSE 0]
  /\ nextpid = 2
  /\ panic = ""

-----------------------------------------------------------------------------
\* Helpers on the table and on the counters.

Runnable == {p \in Proc : state[p] = "RUNNABLE"}

\* The counter that stands for p when p is RUNNABLE.  Every place that
\* enters or leaves RUNNABLE repeats this test on class and level; a process
\* of class 2 at level 0 is in no counter.
QueueOf(p) ==
  IF sched_class[p] = 1 THEN "edf"
  ELSE IF sched_class[p] = 2 /\ sched_level[p] = 1 THEN "rr"
  ELSE IF sched_class[p] = 2 /\ sched_level[p] = 2 THEN "fcfs"
  ELSE "none"

Enqueue(W) ==
  [k \in Queue |-> count[k] + Cardinality({q \in W : QueueOf(q) = k})]

Dequeue(p) == [k \in Queue |-> IF k = QueueOf(p) THEN count[k] - 1 ELSE count[k]]

Move(from, to) ==
  [k \in Queue |-> IF k = from THEN count[k] - 1
                   ELSE IF k = to THEN count[k] + 1 ELSE count[k]]

\* Calls on processes with mixed class and level move the counters without
\* end; the bound stops them.
InBounds(cnt) == \A k \in Queue : cnt[k] \in (-MaxDrift)..(NPROC + MaxDrift)

\* wakeup1(): the processes it makes RUNNABLE, and the table and the ages
\* after that (arrival_time = ticks).
Sleepers(ch) == {q \in Proc : state[q] = "SLEEPING" /\ chan[q] = ch}

WokenState(W) == [q \in Proc |-> IF q \in W THEN "RUNNABLE" ELSE state[q]]

WokenAge(W) == [q \in Proc |-> IF q \in W THEN 0 ELSE age[q]]

\* p executes on CPU c, outside the timer handler.
Running(c, p) ==
  /\ panic = ""
  /\ cproc[c] = p
  /\ intr[c] = Idle
  /\ context[p] = "run"
  /\ yields[p] = 0

\* p executes system call f on CPU c.
InCall(c, p, f) == Running(c, p) /\ pc[p] = "sys" /\ f \in Calls

\* CPU c takes interrupts: it is in the scheduler, or in a process that is
\* neither in a handler nor in wait() with ptable.lock held.
Interruptible(c) ==
  /\ panic = ""
  /\ intr[c] = Idle
  /\ cproc[c] # 0 => Running(c, cproc[c]) /\ pc[cproc[c]] # "wait"

\* A corner case happens only in instances that ask for it.
Reaches(corner, happens) == happens => corner \in Corners

Goto(p, where) == pc' = [pc EXCEPT ![p] = where]

-----------------------------------------------------------------------------
\* scheduler()

EdfCandidates == {p \in Runnable : sched_class[p] = 1}

\* The first of the candidates with the smallest deadline.
PickEdf ==
  First({p \in EdfCandidates :
           \A q \in EdfCandidates : deadline[p] <= deadline[q]})

\* Variant of RrCandidates: the scan takes a process that is RUNNING.
RrAnyLive == {p \in Proc : state[p] \in {"RUNNABLE", "RUNNING"} /\ sched_level[p] = 1}

\* The scan tests the level and not the class.
RrCandidates == {p \in Runnable : sched_level[p] = 1}

\* Variants of PickRr: a scan that stops at the end of the table, and one that
\* always starts at its beginning.
PickRrToEnd(c) ==
  LET ahead == {p \in RrCandidates : p >= nextrrp[c]}
  IN  IF ahead # {} THEN First(ahead) ELSE 0

PickRrFromStart(c) == First(RrCandidates)

\* The first candidate at or after the cursor, in circular table order.
PickRr(c) ==
  LET ahead == {p \in RrCandidates : p >= nextrrp[c]}
  IN  First(IF ahead # {} THEN ahead ELSE RrCandidates)

FcfsCandidates ==
  {p \in Runnable : sched_class[p] = 2 /\ sched_level[p] = 2}

\* The first of the candidates with the smallest arrival time.
PickFcfs ==
  First({p \in FcfsCandidates : \A q \in FcfsCandidates : age[p] >= age[q]})

\* Variant of Chosen: round-robin goes first.
ChosenRrFirst(c) ==
  IF RrCandidates # {} THEN PickRr(c)
  ELSE IF EdfCandidates # {} THEN PickEdf
  ELSE IF FcfsCandidates # {} THEN PickFcfs ELSE 0

\* The process the loop body chooses, 0 if none: the counters decide which
\* queue is searched, and only that one.
Chosen(c) ==
  IF count["edf"] > 0 THEN (IF EdfCandidates = {} THEN 0 ELSE PickEdf)
  ELSE IF count["rr"] > 0 THEN (IF RrCandidates = {} THEN 0 ELSE PickRr(c))
  ELSE IF count["fcfs"] > 0 THEN (IF FcfsCandidates = {} THEN 0 ELSE PickFcfs)
  ELSE 0

\* Variant of After: the cursor runs off the table.
AfterNoWrap(p) == p + 1

\* The slot after p, back to the first at the end of the table.
After(p) == (p % NPROC) + 1

\* The loop body up to swtch(): ptable.lock stays held for the process.
Schedule(c) ==
  /\ panic = "" /\ cproc[c] = 0 /\ intr[c] = Idle
  /\ ptlock = NoCpu
  /\ Chosen(c) # 0
  /\ LET p == Chosen(c)
     IN  /\ cproc' = [cproc EXCEPT ![c] = p]
         /\ state' = [state EXCEPT ![p] = "RUNNING"]
         /\ count' = Dequeue(p)
         /\ rr_ticks' = [rr_ticks EXCEPT ![p] = 0]
         /\ age' = [age EXCEPT ![p] = 0]
         /\ nextrrp' = IF count["edf"] <= 0 /\ count["rr"] > 0
                       THEN [nextrrp EXCEPT ![c] = After(p)]
                       ELSE nextrrp
         /\ ptlock' = c
  /\ UNCHANGED <<pid, parent, chan, killed, schedFields, context, pc, child,
                 yields, intr, nextpid, panic>>

\* The process side of swtch(): forkret(), the end of yield() and the end of
\* sleep() release ptable.lock; sleep(p, &ptable.lock) in wait() keeps it.
Resume(c) ==
  /\ panic = "" /\ ptlock = c /\ cproc[c] # 0
  /\ LET p == cproc[c]
     IN  /\ state[p] = "RUNNING" /\ context[p] # "run"
         /\ context' = [context EXCEPT ![p] = "run"]
         /\ chan' = IF context[p] \in {"sleep", "wait"}
                    THEN [chan EXCEPT ![p] = 0] ELSE chan
         /\ ptlock' = IF context[p] = "wait" THEN c ELSE NoCpu
  /\ UNCHANGED <<state, pid, parent, killed, schedFields, age, rr_ticks, pc,
                 child, yields, cproc, nextrrp, intr, count, nextpid, panic>>

\* The scheduler side of swtch(): c->proc = 0 and the lock is released.
SwitchOut(c) ==
  /\ panic = "" /\ ptlock = c /\ cproc[c] # 0
  /\ state[cproc[c]] # "RUNNING"
  /\ cproc' = [cproc EXCEPT ![c] = 0]
  /\ ptlock' = NoCpu
  /\ UNCHANGED <<fields, schedFields, age, rr_ticks, context, pc, child,
                 yields, nextrrp, intr, count, nextpid, panic>>

-----------------------------------------------------------------------------
\* Entering and leaving the kernel, yield(), sleep() and wakeup()

\* trap(), T_SYSCALL: a killed process exits instead (see ExitBegin).
SysEnter(c, p) ==
  /\ Running(c, p) /\ pc[p] = "user" /\ killed[p] = 0
  /\ Goto(p, "sys")
  /\ UNCHANGED <<fields, schedFields, age, rr_ticks, context, child, yields,
                 cproc, nextrrp, intr, ptlock, count, nextpid, panic>>

\* The end of a call that leaves the process table alone, or of one that
\* only slept and woke others up on the way (read, write, open...).
SysReturn(c, p) ==
  /\ Running(c, p) /\ pc[p] \in {"sys", "io"}
  /\ Goto(p, "user")
  /\ UNCHANGED <<fields, schedFields, age, rr_ticks, context, child, yields,
                 cproc, nextrrp, intr, ptlock, count, nextpid, panic>>

\* yield(), up to swtch().  It is called by the timer handler, with
\* interrupts off, and by is_higher_waiting() as a system call.
Yield(c, p) ==
  /\ panic = "" /\ cproc[c] = p /\ intr[c] = Idle /\ context[p] = "run"
  /\ yields[p] > 0 \/ pc[p] = "yield"
  /\ ptlock = NoCpu
  /\ state' = [state EXCEPT ![p] = "RUNNABLE"]
  /\ age' = [age EXCEPT ![p] = 0]
  /\ count' = Enqueue({p})
  /\ context' = [context EXCEPT ![p] = "yield"]
  /\ ptlock' = c
  /\ IF yields[p] > 0
     THEN yields' = [yields EXCEPT ![p] = @ - 1] /\ UNCHANGED pc
     ELSE Goto(p, "user") /\ UNCHANGED yields
  /\ UNCHANGED <<pid, parent, chan, killed, schedFields, rr_ticks, child,
                 cproc, nextrrp, intr, nextpid, panic>>

\* sys_is_higher_waiting(): the counters are read without ptable.lock.
SysIsHigherWaiting(c, p) ==
  /\ InCall(c, p, "is_higher_waiting")
  /\ Goto(p, IF count["edf"] > 0 \/ count["rr"] > 0 THEN "yield" ELSE "user")
  /\ UNCHANGED <<fields, schedFields, age, rr_ticks, context, child, yields,
                 cproc, nextrrp, intr, ptlock, count, nextpid, panic>>

\* sleep(ch, lk) from taking ptable.lock to swtch(); how is the context that
\* is saved.  The decrement for a RUNNABLE caller is in the code.
Sleep(c, p, ch, how) ==
  /\ chan' = [chan EXCEPT ![p] = ch]
  /\ count' = IF state[p] = "RUNNABLE" THEN Dequeue(p) ELSE count
  /\ state' = [state EXCEPT ![p] = "SLEEPING"]
  /\ context' = [context EXCEPT ![p] = how]
  /\ ptlock' = c

\* A process in another part of the kernel waits for a lock, a disk block,
\* pipe data, log space or a line of input.
Block(c, p, ch) ==
  /\ Running(c, p) /\ pc[p] \in {"sys", "io", "exit"} /\ "block" \in Calls
  /\ ptlock = NoCpu
  /\ Sleep(c, p, ch, "sleep")
  /\ IF pc[p] = "sys" THEN Goto(p, "io") ELSE UNCHANGED pc
  /\ UNCHANGED <<pid, parent, killed, schedFields, age, rr_ticks, child,
                 yields, cproc, nextrrp, intr, nextpid, panic>>

\* sys_sleep(n), n > 0.  Nothing but kill() gets the process past the loop
\* (TimerTick), and then the call returns.
SysSleep(c, p) ==
  /\ InCall(c, p, "sleep")
  /\ ptlock = NoCpu
  /\ IF killed[p] = 1
     THEN UNCHANGED <<chan, count, state, context, ptlock>>
     ELSE Sleep(c, p, TicksChan, "sleep")
  /\ Goto(p, "user")
  /\ UNCHANGED <<pid, parent, killed, schedFields, age, rr_ticks, child,
                 yields, cproc, nextrrp, intr, nextpid, panic>>

\* wakeup(ch) by whoever runs on CPU c, process or device interrupt.
Wakeup(c, ch) ==
  /\ Interruptible(c) /\ "block" \in Calls
  /\ ptlock = NoCpu
  /\ Sleepers(ch) # {}
  /\ state' = WokenState(Sleepers(ch))
  /\ age' = WokenAge(Sleepers(ch))
  /\ count' = Enqueue(Sleepers(ch))
  /\ UNCHANGED <<pid, parent, chan, killed, schedFields, rr_ticks, context,
                 pc, child, yields, cproc, nextrrp, intr, ptlock, nextpid,
                 panic>>

-----------------------------------------------------------------------------
\* fork(), exec(), exit(), wait() and kill()

Unused == {q \in Proc : state[q] = "UNUSED"}

\* allocproc(), in fork().  killed is not among the fields it resets.
ForkAlloc(c, p) ==
  /\ InCall(c, p, "fork")
  /\ ptlock = NoCpu
  /\ nextpid <= MaxPid
  /\ IF Unused = {}
     THEN /\ Goto(p, "user")
          /\ UNCHANGED <<state, pid, schedFields, rr_ticks, context, child,
                         nextpid>>
     ELSE LET q == First(Unused)
          IN  /\ state' = [state EXCEPT ![q] = "EMBRYO"]
              /\ pid' = [pid EXCEPT ![q] = nextpid]
              /\ nextpid' = nextpid + 1
              /\ sched_class' = [sched_class EXCEPT ![q] = 2]
              /\ sched_level' = [sched_level EXCEPT ![q] = 2]
              /\ deadline' = [deadline EXCEPT ![q] = NoDeadline]
              /\ rr_ticks' = [rr_ticks EXCEPT ![q] = 0]
              /\ context' = [context EXCEPT ![q] = "forkret"]
              /\ child' = [child EXCEPT ![p] = q]
              /\ Goto(p, "fork")
  /\ UNCHANGED <<parent, chan, killed, age, yields, cproc, nextrrp, intr,
                 ptlock, count, panic>>

\* kalloc() or copyuvm() fails: the slot is given back without ptable.lock,
\* its pid still set.
ForkFail(c, p) ==
  /\ Running(c, p) /\ pc[p] = "fork"
  /\ state' = [state EXCEPT ![child[p]] = "UNUSED"]
  /\ child' = [child EXCEPT ![p] = 0]
  /\ Goto(p, "user")
  /\ UNCHANGED <<pid, parent, chan, killed, schedFields, age, rr_ticks,
                 context, yields, cproc, nextrrp, intr, ptlock, count,
                 nextpid, panic>>

\* The child is complete and becomes RUNNABLE.
ForkDone(c, p) ==
  /\ Running(c, p) /\ pc[p] = "fork"
  /\ ptlock = NoCpu
  /\ LET q == child[p]
     IN  /\ parent' = [parent EXCEPT ![q] = p]
         /\ state' = [state EXCEPT ![q] = "RUNNABLE"]
         /\ age' = [age EXCEPT ![q] = 0]
         /\ count' = Enqueue({q})
         /\ pc' = [pc EXCEPT ![p] = "user", ![q] = "user"]
  /\ child' = [child EXCEPT ![p] = 0]
  /\ UNCHANGED <<pid, chan, killed, schedFields, rr_ticks, context, yields,
                 cproc, nextrrp, intr, ptlock, nextpid, panic>>

\* exec() puts pids 1 and 2 in the round-robin queue with two stores, made
\* without ptable.lock.
ExecClass(c, p) ==
  /\ Running(c, p) /\ pc[p] \in {"sys", "io"} /\ "exec" \in Calls
  /\ pid[p] \in {1, 2}
  /\ sched_class' = [sched_class EXCEPT ![p] = 2]
  /\ Goto(p, "exec")
  /\ UNCHANGED <<fields, sched_level, deadline, age, rr_ticks, context,
                 child, yields, cproc, nextrrp, intr, ptlock, count, nextpid,
                 panic>>

ExecLevel(c, p) ==
  /\ Running(c, p) /\ pc[p] = "exec"
  /\ sched_level' = [sched_level EXCEPT ![p] = 1]
  /\ Goto(p, "user")
  /\ UNCHANGED <<fields, sched_class, deadline, age, rr_ticks, context,
                 child, yields, cproc, nextrrp, intr, ptlock, count, nextpid,
                 panic>>

\* exit() is reached from the system call and from trap() when a killed
\* process is about to return to, or interrupted in, user space.
ExitBegin(c, p) ==
  /\ Running(c, p)
  /\ \/ pc[p] = "sys" /\ "exit" \in Calls /\ p # initproc
     \/ pc[p] = "user" /\ killed[p] = 1
  /\ IF p = initproc
     THEN panic' = "init exiting" /\ UNCHANGED pc
     ELSE Goto(p, "exit") /\ UNCHANGED panic
  /\ UNCHANGED <<fields, schedFields, age, rr_ticks, context, child, yields,
                 cproc, nextrrp, intr, ptlock, count, nextpid>>

\* trap(), default: a fault in user space kills the process.
Fault(c, p) ==
  /\ Running(c, p) /\ pc[p] = "user" /\ "fault" \in Calls
  /\ Reaches("kill_init", p = initproc)
  /\ killed' = [killed EXCEPT ![p] = 1]
  /\ UNCHANGED <<state, pid, parent, chan, schedFields, age, rr_ticks,
                 context, pc, child, yields, cproc, nextrrp, intr, ptlock,
                 count, nextpid, panic>>

Children(p) == {q \in Proc : parent[q] = p}

\* Variant of WokenByExit: the parent is not told.
WokenOnlyInit(p) ==
  IF \E q \in Children(p) : state[q] = "ZOMBIE" THEN Sleepers(initproc) ELSE {}

\* wakeup1(parent), and wakeup1(initproc) if a zombie is handed to it.
WokenByExit(p) ==
  Sleepers(parent[p]) \cup
  (IF \E q \in Children(p) : state[q] = "ZOMBIE" THEN Sleepers(initproc) ELSE {})

\* Variant of Exit: ptable.lock is released before the switch.
ExitUnlocked(c, p) ==
  /\ Running(c, p) /\ pc[p] = "exit"
  /\ ptlock = NoCpu
  /\ state' = [WokenState(WokenByExit(p)) EXCEPT ![p] = "ZOMBIE"]
  /\ age' = WokenAge(WokenByExit(p))
  /\ count' = Enqueue(WokenByExit(p))
  /\ parent' = [q \in Proc |-> IF parent[q] = p THEN initproc ELSE parent[q]]
  /\ context' = [context EXCEPT ![p] = "zombie"]
  /\ UNCHANGED <<pid, chan, killed, schedFields, rr_ticks, pc, child, yields,
                 cproc, nextrrp, intr, ptlock, nextpid, panic>>

\* The critical section of exit(), up to swtch().
Exit(c, p) ==
  /\ Running(c, p) /\ pc[p] = "exit"
  /\ ptlock = NoCpu
  /\ state' = [WokenState(WokenByExit(p)) EXCEPT ![p] = "ZOMBIE"]
  /\ age' = WokenAge(WokenByExit(p))
  /\ count' = Enqueue(WokenByExit(p))
  /\ parent' = [q \in Proc |-> IF parent[q] = p THEN initproc ELSE parent[q]]
  /\ context' = [context EXCEPT ![p] = "zombie"]
  /\ ptlock' = c
  /\ UNCHANGED <<pid, chan, killed, schedFields, rr_ticks, pc, child, yields,
                 cproc, nextrrp, intr, nextpid, panic>>

\* One turn of the loop in wait(), entered from the call or with
\* ptable.lock still held after sleep().
Wait(c, p) ==
  /\ Running(c, p)
  /\ \/ pc[p] = "sys" /\ "wait" \in Calls /\ ptlock = NoCpu
     \/ pc[p] = "wait" /\ ptlock = c
  /\ LET zombies == {q \in Children(p) : state[q] = "ZOMBIE"}
     IN  \/ /\ zombies # {}
            /\ LET q == First(zombies)
               IN  /\ state' = [state EXCEPT ![q] = "UNUSED"]
                   /\ pid' = [pid EXCEPT ![q] = 0]
                   /\ parent' = [parent EXCEPT ![q] = 0]
                   /\ killed' = [killed EXCEPT ![q] = 0]
            /\ Goto(p, "user") /\ ptlock' = NoCpu
            /\ UNCHANGED <<chan, count, context>>
         \/ /\ zombies = {}
            /\ Children(p) = {} \/ killed[p] = 1
            /\ Goto(p, "user") /\ ptlock' = NoCpu
            /\ UNCHANGED <<fields, count, context>>
         \/ /\ zombies = {}
            /\ Children(p) # {} /\ killed[p] = 0
            /\ Sleep(c, p, p, "wait")
            /\ Goto(p, "wait")
            /\ UNCHANGED <<pid, parent, killed>>
  /\ UNCHANGED <<schedFields, age, rr_ticks, child, yields, cproc, nextrrp,
                 intr, nextpid, panic>>

\* The calls below search the table for a pid, in any state: a slot that is
\* UNUSED has pid 0, or the pid of a fork that failed.
WithPid(id) == {q \in Proc : pid[q] = id}

\* Variant of Kill: a sleeping process is not made RUNNABLE.
KillNoWakeup(c, p, id) ==
  /\ InCall(c, p, "kill")
  /\ ptlock = NoCpu
  /\ WithPid(id) # {}
  /\ Reaches("unused_pid", state[First(WithPid(id))] = "UNUSED")
  /\ Reaches("kill_init", First(WithPid(id)) = initproc)
  /\ killed' = [killed EXCEPT ![First(WithPid(id))] = 1]
  /\ Goto(p, "user")
  /\ UNCHANGED <<state, pid, parent, chan, schedFields, age, rr_ticks, context,
                 child, yields, cproc, nextrrp, intr, ptlock, count, nextpid, panic>>

Kill(c, p, id) ==
  /\ InCall(c, p, "kill")
  /\ ptlock = NoCpu
  /\ IF WithPid(id) = {}
     THEN UNCHANGED <<killed, state, age, count>>
     ELSE LET q == First(WithPid(id))
          IN  /\ Reaches("unused_pid", state[q] = "UNUSED")
              /\ Reaches("kill_init", q = initproc)
              /\ killed' = [killed EXCEPT ![q] = 1]
              /\ IF state[q] = "SLEEPING"
                 THEN /\ state' = [state EXCEPT ![q] = "RUNNABLE"]
                      /\ age' = [age EXCEPT ![q] = 0]
                      /\ count' = Enqueue({q})
                 ELSE UNCHANGED <<state, age, count>>
  /\ Goto(p, "user")
  /\ UNCHANGED <<pid, parent, chan, schedFields, rr_ticks, context, child,
                 yields, cproc, nextrrp, intr, ptlock, nextpid, panic>>

-----------------------------------------------------------------------------
\* set_deadline_for_process() and change_sched_level()

SetDeadline(c, p, id, d) ==
  /\ InCall(c, p, "set_deadline_for_process")
  /\ ptlock = NoCpu
  /\ IF d < 0 \/ WithPid(id) = {}
     THEN UNCHANGED <<schedFields, count>>
     ELSE LET q == First(WithPid(id))
          IN  /\ Reaches("unused_pid", state[q] = "UNUSED")
              /\ Reaches("exec_race", pc[q] = "exec")
              /\ count' = IF state[q] # "RUNNABLE" THEN count
                          ELSE IF sched_level[q] = 1 THEN Move("rr", "edf")
                          ELSE IF sched_level[q] = 2 THEN Move("fcfs", "edf")
                          ELSE count
              /\ InBounds(count')
              /\ sched_level' = [sched_level EXCEPT ![q] = 0]
              /\ sched_class' = [sched_class EXCEPT ![q] = 1]
              /\ deadline' = [deadline EXCEPT ![q] = d]
  /\ Goto(p, "user")
  /\ UNCHANGED <<fields, age, rr_ticks, context, child, yields, cproc,
                 nextrrp, intr, ptlock, nextpid, panic>>

\* Variant of Relevel: the counters are not moved.
RelevelUncounted(q, target) ==
  UNCHANGED count /\ sched_level' = [sched_level EXCEPT ![q] = target]

\* The part of change_sched_level() after the early return: only a process
\* at level 1 counts as leaving the round-robin queue.  The class is kept.
Relevel(q, target) ==
  /\ count' = IF state[q] # "RUNNABLE" THEN count
              ELSE IF sched_level[q] = 1 THEN Move("rr", "fcfs")
              ELSE Move("fcfs", "rr")
  /\ InBounds(count')
  /\ sched_level' = [sched_level EXCEPT ![q] = target]

\* The return for a process already at the target level does not release
\* ptable.lock.
ChangeLevel(c, p, id, target) ==
  /\ InCall(c, p, "change_sched_level")
  /\ ptlock = NoCpu
  /\ IF target \notin {1, 2} \/ WithPid(id) = {}
     THEN UNCHANGED <<count, sched_level, ptlock>>
     ELSE LET q == First(WithPid(id))
          IN  /\ Reaches("unused_pid", state[q] = "UNUSED")
              /\ Reaches("same_level", sched_level[q] = target)
              /\ Reaches("edf_level", sched_class[q] = 1)
              /\ IF sched_level[q] = target
                 THEN ptlock' = c /\ UNCHANGED <<count, sched_level>>
                 ELSE Relevel(q, target) /\ UNCHANGED ptlock
  /\ Goto(p, "user")
  /\ UNCHANGED <<fields, sched_class, deadline, age, rr_ticks, context,
                 child, yields, cproc, nextrrp, intr, nextpid, panic>>

\* acquire(&ptable.lock) on a CPU that holds it already: the next critical
\* section after that return.
AcquirePanic(c, p) ==
  /\ panic = "" /\ cproc[c] = p /\ context[p] = "run" /\ pc[p] # "wait"
  /\ ptlock = c
  /\ panic' = "acquire"
  /\ UNCHANGED <<fields, schedFields, age, rr_ticks, context, pc, child,
                 yields, cproc, nextrrp, intr, ptlock, count, nextpid>>

-----------------------------------------------------------------------------
\* The timer interrupt

Older(a) == IF a < MaxAge THEN a + 1 ELSE a

\* CPU 0 counts the tick and calls wakeup(&ticks) while it holds tickslock;
\* wakeup1() takes tickslock again for each process it wakes.
TimerTick(c) ==
  /\ c = 0 /\ Interruptible(c)
  /\ ptlock = NoCpu
  /\ age' = [q \in Proc |-> IF state[q] = "RUNNABLE" THEN Older(age[q])
                            ELSE age[q]]
  /\ IF Sleepers(TicksChan) # {}
     THEN panic' = "acquire" /\ UNCHANGED intr
     ELSE intr' = [intr EXCEPT ![c].at = "scan"] /\ UNCHANGED panic
  /\ UNCHANGED <<fields, schedFields, rr_ticks, context, pc, child, yields,
                 cproc, nextrrp, ptlock, count, nextpid>>

\* Variants of Aged: the scan leaves out the last slot; it looks at the level
\* a process is promoted to.
AgedNotLast(i) ==
  {q \in FcfsCandidates : q > i /\ q < NPROC /\ age[q] >= AGING_THRESHOLD}

AgedRr(i) == {q \in RrCandidates : q > i /\ age[q] >= AGING_THRESHOLD}

\* The processes after position i whose wait has reached the threshold.
Aged(i) ==
  {q \in FcfsCandidates : q > i /\ age[q] >= AGING_THRESHOLD}

\* update_wait_time(): with ptable.lock, restart the clock of the process
\* just handled, go on to the next aged one, and release the lock for it.
AgeScan(c) ==
  /\ panic = "" /\ intr[c].at = "scan"
  /\ ptlock = NoCpu
  /\ LET i == intr[c].p
     IN  /\ age' = IF i # 0 THEN [age EXCEPT ![i] = 0] ELSE age
         /\ intr' = [intr EXCEPT ![c] =
                       IF Aged(i) # {}
                       THEN [at |-> "read", p |-> First(Aged(i)), pid |-> 0]
                       ELSE [at |-> "account", p |-> 0, pid |-> 0]]
  /\ UNCHANGED <<fields, schedFields, rr_ticks, context, pc, child, yields,
                 cproc, nextrrp, ptlock, count, nextpid, panic>>

\* p->pid is read after the lock is released.
AgeRead(c) ==
  /\ panic = "" /\ intr[c].at = "read"
  /\ intr' = [intr EXCEPT ![c].at = "change", ![c].pid = pid[intr[c].p]]
  /\ UNCHANGED <<fields, schedFields, age, rr_ticks, context, pc, child,
                 yields, cproc, nextrrp, ptlock, count, nextpid, panic>>

\* change_sched_level(p->pid, 1), followed by acquire(&ptable.lock): if the
\* call kept the lock, that acquire panics.
AgeChange(c) ==
  /\ panic = "" /\ intr[c].at = "change"
  /\ ptlock = NoCpu
  /\ LET found == WithPid(intr[c].pid)
         q == First(found)
     IN  IF found = {}
         THEN UNCHANGED <<count, sched_level, panic>>
         ELSE IF sched_level[q] = 1
         THEN panic' = "acquire" /\ UNCHANGED <<count, sched_level>>
         ELSE Relevel(q, 1) /\ UNCHANGED panic
  /\ intr' = [intr EXCEPT ![c].at = "scan", ![c].pid = 0]
  /\ UNCHANGED <<fields, sched_class, deadline, age, rr_ticks, context, pc,
                 child, yields, cproc, nextrrp, ptlock, nextpid>>

\* The rest of trap(): a killed process interrupted in user space exits
\* (ExitBegin); a round-robin process yields at the end of its quantum; an
\* FCFS process yields inside is_higher_waiting(), and once more after it.
TimerAccount(c) ==
  /\ panic = ""
  /\ IF c = 0 THEN intr[c].at = "account" ELSE Interruptible(c)
  /\ intr' = [intr EXCEPT ![c] = Idle]
  /\ LET p == cproc[c]
     IN  IF p = 0 \/ (killed[p] = 1 /\ pc[p] = "user")
         THEN UNCHANGED <<rr_ticks, yields>>
         ELSE /\ rr_ticks' = IF QueueOf(p) = "rr"
                             THEN [rr_ticks EXCEPT ![p] = @ + 1] ELSE rr_ticks
              /\ yields' = [yields EXCEPT ![p] =
                   IF QueueOf(p) = "rr" /\ rr_ticks[p] + 1 >= QUANTUM THEN 1
                   ELSE IF /\ QueueOf(p) = "fcfs"
                           /\ count["edf"] > 0 \/ count["rr"] > 0 THEN 2
                   ELSE 0]
  /\ UNCHANGED <<fields, schedFields, age, context, pc, child, cproc,
                 nextrrp, ptlock, count, nextpid, panic>>

\* panic() loops forever.
Halted == panic # "" /\ UNCHANGED vars

-----------------------------------------------------------------------------
SchedStep(c) ==
  Schedule(c) \/ Resume(c) \/ SwitchOut(c)

TimerStep(c) ==
  TimerTick(c) \/ AgeScan(c) \/ AgeRead(c) \/ AgeChange(c) \/ TimerAccount(c)

CallStep(c, p) ==
  \/ SysEnter(c, p) \/ SysReturn(c, p) \/ SysSleep(c, p)
  \/ SysIsHigherWaiting(c, p) \/ Yield(c, p)
  \/ ForkAlloc(c, p) \/ ForkFail(c, p) \/ ForkDone(c, p)
  \/ ExecClass(c, p) \/ ExecLevel(c, p)
  \/ ExitBegin(c, p) \/ Exit(c, p) \/ Wait(c, p)
  \/ AcquirePanic(c, p) \/ Fault(c, p)
  \/ \E ch \in OtherChan : Block(c, p, ch)
  \/ \E id \in 0..MaxPid : Kill(c, p, id)
  \/ \E id \in 0..MaxPid, d \in Deadlines : SetDeadline(c, p, id, d)
  \/ \E id \in 0..MaxPid, l \in 0..2 : ChangeLevel(c, p, id, l)

Next ==
  \/ \E c \in Cpu : \/ SchedStep(c)
                    \/ TimerStep(c)
                    \/ \E p \in Proc : CallStep(c, p)
                    \/ \E ch \in OtherChan : Wakeup(c, ch)
  \/ Halted

Spec == Init /\ [][Next]_vars

-----------------------------------------------------------------------------
\* Type invariant: every field of the table, of the CPUs and of the counters
\* has a value the C type and the code allow.
TypeOK ==
  /\ state \in [Proc -> ProcState]
  /\ pid \in [Proc -> Nat]
  /\ parent \in [Proc -> Proc \cup {0}]
  /\ chan \in [Proc -> Chan]
  /\ killed \in [Proc -> Bit]
  /\ sched_class \in [Proc -> Level]
  /\ sched_level \in [Proc -> Level]
  /\ deadline \in [Proc -> Nat]
  /\ age \in [Proc -> Age]
  /\ rr_ticks \in [Proc -> Nat]
  /\ context \in [Proc -> Context]
  /\ pc \in [Proc -> Place]
  /\ child \in [Proc -> Proc \cup {0}]
  /\ yields \in [Proc -> Level]
  /\ cproc \in [Cpu -> Proc \cup {0}]
  /\ nextrrp \in [Cpu -> Proc]
  /\ intr \in [Cpu -> HandlerState]
  /\ ptlock \in Cpu \cup {NoCpu}
  /\ count \in [Queue -> Int]
  /\ nextpid \in Nat
  /\ panic \in Message

\* The three counters add up to the number of RUNNABLE processes, whatever
\* the programs call: every path that enters or leaves RUNNABLE, or moves a
\* RUNNABLE process between queues, keeps the sum.
CountsSum ==
  count["edf"] + count["rr"] + count["fcfs"] = Cardinality(Runnable)

\* Each counter is the number of RUNNABLE processes of its queue, so the
\* branch that scheduler() takes has a process to run.
CountsExact ==
  \A k \in Queue : count[k] = Cardinality({p \in Runnable : QueueOf(p) = k})

\* A process is on at most one CPU, a RUNNING process is on one, and a CPU
\* is on the stack of a process that is not RUNNING only while it holds
\* ptable.lock (the hand-over in sched() and scheduler()).
OnOneCpu ==
  /\ \A c, d \in Cpu : cproc[c] = cproc[d] /\ cproc[c] # 0 => c = d
  /\ \A p \in Proc : state[p] = "RUNNING" => \E c \in Cpu : cproc[c] = p
  /\ \A c \in Cpu :
       cproc[c] # 0 /\ ptlock # c => state[cproc[c]] = "RUNNING"

\* exit() and wait() lose no wakeup: a parent asleep in wait() has no zombie
\* child, not even one it inherited as init.
NoLostExit ==
  \A p, q \in Proc :
    state[p] = "SLEEPING" /\ chan[p] = p /\ parent[q] = p => state[q] # "ZOMBIE"

\* wait() frees a slot, and with it the kernel stack, only after the CPU has
\* left that stack.
ReapedOffCpu ==
  [][\A p \in Proc : state[p] = "ZOMBIE" /\ state'[p] = "UNUSED"
       => \A c \in Cpu : cproc[c] # p]_vars

\* scheduler() never idles while a process is RUNNABLE.
WorkConserving == Runnable # {} => \A c \in Cpu : Chosen(c) # 0

Rank(p) == CASE QueueOf(p) = "edf" -> 1
             [] QueueOf(p) = "rr" -> 2
             [] OTHER -> 3

\* scheduler() runs a process only when none of a higher queue is RUNNABLE:
\* EDF before round-robin before FCFS.
PriorityRespected ==
  [][\A c \in Cpu : cproc[c] = 0 /\ cproc'[c] # 0
       => \A q \in Runnable : Rank(cproc'[c]) <= Rank(q)]_vars

\* acquire() is never called for a lock the CPU already holds.
NoAcquirePanic == panic # "acquire"

-----------------------------------------------------------------------------
\* What makes the invariants above inductive.

\* The code of a process runs only while its state is RUNNING.
CpuInv == OnOneCpu /\ \A p \in Proc : context[p] = "run" => state[p] = "RUNNING"

\* The slot a fork() is filling is an EMBRYO of that fork() alone.
ForkInv ==
  /\ \A p \in Proc : pc[p] = "fork" => child[p] # 0
  /\ \A p \in Proc : child[p] # 0 => state[child[p]] = "EMBRYO"
  /\ \A p, q \in Proc : child[p] = child[q] /\ child[p] # 0 => p = q

\* init has no parent and is never reaped; no process is its own parent.
ParentInv ==
  /\ parent[initproc] = 0 /\ state[initproc] \notin {"UNUSED", "EMBRYO"}
  /\ \A p \in Proc : parent[p] # p

\* A slot in use has a pid, pids have been handed out, and no two slots, in
\* use or given back by a failed fork(), have the same.
PidInv ==
  /\ \A p \in Proc : pid[p] < nextpid
  /\ \A p \in Proc : state[p] # "UNUSED" => pid[p] # 0
  /\ \A p, q \in Proc : pid[p] = pid[q] /\ pid[p] # 0 => p = q

\* A process is between the queues only while it executes the two stores of
\* exec(), and then the timer does not make it yield.
QueueInv ==
  \A p \in Proc : state[p] \notin {"UNUSED", "ZOMBIE"} =>
    /\ sched_class[p] \in {1, 2}
    /\ QueueOf(p) = "none" =>
         context[p] = "run" /\ pc[p] = "exec" /\ yields[p] = 0

\* When no program changes the level of an EDF process or the class of one
\* in exec(), EDF processes are at level 0.
LevelInv ==
  \A p \in Proc : state[p] \notin {"UNUSED", "ZOMBIE"} =>
    /\ sched_class[p] = 1 => sched_level[p] = 0
    /\ pc[p] = "exec" => sched_class[p] = 2

\* On one CPU nothing happens to a process between the moment
\* update_wait_time() releases ptable.lock for it and change_sched_level().
WindowInv ==
  \A c \in Cpu :
    /\ intr[c].at # "none" => ptlock = NoCpu
    /\ intr[c].at \in {"read", "change"} => intr[c].p \in FcfsCandidates
    /\ intr[c].at = "change" => intr[c].pid = pid[intr[c].p]

\* The process table is consistent; this and CountsSum are kept by every
\* step.
TableInv ==
  /\ TypeOK /\ CpuInv /\ ForkInv /\ ParentInv /\ PidInv /\ QueueInv
  /\ NoLostExit

\* The same with the counters, on one CPU.
OneCpuInv == TableInv /\ WindowInv /\ LevelInv /\ CountsExact

-----------------------------------------------------------------------------
\* The hardware keeps a timer interrupt pending until the CPU takes it; the
\* handler, the yields it owes and the hand-over through swtch() run with
\* interrupts off; between interrupts the scheduler loop advances.
\* Nothing is assumed of processes.
HandlerStep(c) ==
  \/ AgeScan(c) \/ AgeRead(c) \/ AgeChange(c)
  \/ c = 0 /\ TimerAccount(c)
  \/ \E p \in Proc : yields[p] > 0 /\ Yield(c, p)
  \/ \E p \in Proc : pc[p] = "wait" /\ Wait(c, p)

Fairness ==
  /\ \A c \in Cpu : /\ WF_vars(Resume(c) \/ SwitchOut(c))
                    /\ WF_vars(HandlerStep(c))
                    /\ SF_vars(Schedule(c))
  /\ SF_vars(TimerTick(0))
  /\ \A c \in Cpu \ {0} : SF_vars(TimerAccount(c))

FairSpec == Spec /\ Fairness

\* A process in the kernel also gets on with its call, and one that returns
\* to user space killed goes to exit().
KernelStep(p) ==
  \E c \in Cpu :
    \/ SysReturn(c, p) \/ ForkFail(c, p) \/ ForkDone(c, p) \/ Exit(c, p)
    \/ ExecLevel(c, p)
    \/ yields[p] = 0 /\ Yield(c, p)
    \/ pc[p] = "user" /\ ExitBegin(c, p)

KernelFairSpec == FairSpec /\ \A p \in Proc : SF_vars(KernelStep(p))

\* Aging: a process does not stay RUNNABLE in the FCFS queue for ever.
AgingPromotes ==
  \A p \in Proc : p \in FcfsCandidates ~> (p \notin FcfsCandidates \/ panic # "")

\* No starvation: a RUNNABLE process is run.
RunnableRuns ==
  \A p \in Proc : state[p] = "RUNNABLE" ~> (state[p] = "RUNNING" \/ panic # "")

\* A killed process leaves: it is a zombie some time after kill() found it.
KilledExits ==
  \A p \in Proc :
    killed[p] = 1 /\ state[p] \notin {"UNUSED", "EMBRYO"}
      ~> (state[p] \in {"ZOMBIE", "UNUSED"} \/ panic # "")
=============================================================================
