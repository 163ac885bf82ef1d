-------------------------------- MODULE Locks --------------------------------
(***************************************************************************)
(* Spinlocks, interrupts and kernel threads (spinlock.c and the places in  *)
(* proc.c, trap.c, console.c, ide.c and kalloc.c that nest locks).  A      *)
(* thread is a stack of code left to run, one frame for the system call or *)
(* scheduler() and one for the interrupt handler on top of it.  Code is a  *)
(* sequence of instructions on locks; of the rest only who sleeps with     *)
(* which lock is kept.  What the process table holds is left open: a       *)
(* thread that has switched away may be picked again at any time.          *)
(***************************************************************************)
EXTENDS Integers, Sequences, FiniteSets

CONSTANTS CPU,      \* 0 .. ncpu-1
          Process,
          Calls     \* the system calls that processes make: names of code

VARIABLES if,       \* FL_IF of each CPU
          ncli, intena,
          locked,   \* lock -> CPU that holds it, or -1
          thread,   \* CPU -> thread that runs on it; a CPU names its scheduler()
          stack,    \* thread -> frames, the running one first
          saved,    \* thread -> sched()'s local intena
          kept,     \* change_sched_level() has returned with ptable.lock held
          oops      \* panic() was called

lockVars == <<if, ncli, intena, locked, thread, stack, saved, kept, oops>>

Lock == {"ptable", "tickslock", "cons", "idelock", "kmem"}

acquire(l) == <<"acquire", l>>
release(l) == <<"release", l>>
Critical(l) == <<acquire(l), release(l)>>
Within(l, code) == <<acquire(l)>> \o code \o <<release(l)>>
Either(codes) == <<<<"either", codes>>>>   \* what the table holds decides

cprintf == Critical("cons")
StampTicks == Critical("tickslock")        \* p->arrival_time = ticks
kfree == Critical("kmem")
wakeup(l) == Within("ptable", <<<<"wakeup1", l>>>>)   \* of who slept with lock l
yield == Within("ptable", StampTicks \o <<<<"sched">>>>)
\* (a mutant of sleep) takes lk again before it releases ptable.lock
sleepSwapped(l) == <<acquire("ptable"), release(l), <<"sched">>, acquire(l), release("ptable")>>
sleep(l) == <<acquire("ptable"), release(l), <<"sched">>, release("ptable"), acquire(l)>>

schedule == <<<<"sti">>>> \o Within("ptable", <<<<"choose">>>>)

(* change_sched_level() finds the process at another level, no process, or *)
(* the process at this level; it then returns without a release().         *)
change_sched_level ==
  <<acquire("ptable")>>
    \o Either({cprintf \o <<release("ptable")>>, <<release("ptable")>>, cprintf \o <<<<"keep">>>>})

update_wait_time ==
  Within("ptable", Either({<<>>, <<release("ptable")>> \o change_sched_level \o <<acquire("ptable")>>}))

(* The code a system call runs; wait() sleeps with ptable.lock itself.     *)
CallCode ==
  [fork                     |-> Critical("ptable") \o kfree \o Within("ptable", StampTicks),
   wait                     |-> Within("ptable", Either({<<>>, <<<<"sched">>>>}) \o Either({<<>>, kfree})),
   kill                     |-> Within("ptable", StampTicks),
   sleep                    |-> Within("tickslock", sleep("tickslock")),
   set_deadline_for_process |-> Within("ptable", cprintf),
   change_sched_level       |-> change_sched_level,
   print_sched_info         |-> Within("tickslock", cprintf) \o Within("ptable", cprintf),
   consoleread              |-> Within("cons", sleep("cons")),
   iderw                    |-> Within("idelock", sleep("idelock"))]

trapret == <<<<"sti">>>>   \* user space runs with interrupts on
iret == <<<<"iret">>>>

\* trap() for an interrupt on CPU c in a process, or in scheduler().
TrapCodes(c, inProcess) ==
  LET tick == IF c = 0 THEN Within("tickslock", wakeup("tickslock")) \o update_wait_time ELSE <<>>
      quantum == IF inProcess THEN Either({<<>>, cprintf \o yield}) ELSE <<>>
  IN  {tick \o quantum \o iret,
       Within("cons", wakeup("cons")) \o iret,           \* kbdintr
       Within("idelock", wakeup("idelock")) \o iret}     \* ideintr

LockInit ==
  /\ if = [c \in CPU |-> FALSE] /\ ncli = [c \in CPU |-> 0]
  /\ intena = [c \in CPU |-> FALSE]
  /\ locked = [l \in Lock |-> -1]
  /\ thread = [c \in CPU |-> c]
  /\ stack = [t \in CPU \union Process |-> IF t \in CPU THEN <<<<>>>> ELSE <<<<release("ptable")>>>>]
  /\ saved = [p \in Process |-> TRUE]     \* forkret(): nothing to restore
  /\ kept = FALSE /\ oops = FALSE

-----------------------------------------------------------------------------
Code(c) == stack[thread[c]][1]
At(c, what) == ~oops /\ Code(c) # <<>> /\ Code(c)[1][1] = what
Arg(c) == Code(c)[1][2]
Next1(c) == stack' = [stack EXCEPT ![thread[c]][1] = Tail(@)]

pushcli(c) ==
  /\ if' = [if EXCEPT ![c] = FALSE]
  /\ intena' = IF ncli[c] = 0 THEN [intena EXCEPT ![c] = if[c]] ELSE intena
  /\ ncli' = [ncli EXCEPT ![c] = @ + 1]

popcli(c) ==
  /\ ncli' = [ncli EXCEPT ![c] = @ - 1]
  /\ if' = [if EXCEPT ![c] = @ \/ (ncli[c] = 1 /\ intena[c])]

holding(c, l) == locked[l] = c
Panic == oops' = TRUE /\ UNCHANGED <<if, ncli, intena, locked, thread, stack, saved, kept>>

\* acquire() up to the loop on xchg, and the xchg that takes the lock.
Acquire(c) ==
  /\ At(c, "acquire")
  /\ \/ holding(c, Arg(c)) /\ Panic
     \/ /\ ~holding(c, Arg(c)) /\ pushcli(c)
        /\ stack' = [stack EXCEPT ![thread[c]][1][1][1] = "spin"]
        /\ UNCHANGED <<locked, thread, saved, kept, oops>>

Xchg(c) ==
  /\ At(c, "spin") /\ locked[Arg(c)] = -1
  /\ locked' = [locked EXCEPT ![Arg(c)] = c] /\ Next1(c)
  /\ UNCHANGED <<if, ncli, intena, thread, saved, kept, oops>>

Release(c) ==
  /\ At(c, "release")
  /\ \/ (~holding(c, Arg(c)) \/ if[c]) /\ Panic
     \/ /\ holding(c, Arg(c)) /\ ~if[c]
        /\ locked' = [locked EXCEPT ![Arg(c)] = -1] /\ popcli(c) /\ Next1(c)
        /\ UNCHANGED <<intena, thread, saved, kept, oops>>

\* sched() up to swtch(): back into scheduler() of this CPU.
Sched(c) ==
  /\ At(c, "sched")
  /\ \/ (~holding(c, "ptable") \/ ncli[c] # 1 \/ if[c]) /\ Panic
     \/ /\ holding(c, "ptable") /\ ncli[c] = 1 /\ ~if[c]
        /\ saved' = [saved EXCEPT ![thread[c]] = intena[c]]
        /\ thread' = [thread EXCEPT ![c] = c] /\ Next1(c)
        /\ UNCHANGED <<if, ncli, intena, locked, kept, oops>>

\* (a mutant of Resumed) sched() without `mycpu()->intena = intena'
ResumedNot(c, p) == intena' = intena
Resumed(c, p) == intena' = [intena EXCEPT ![c] = saved[p]]

Off(p) == \A c \in CPU : thread[c] # p

\* wakeup1() stamps the processes that sleep with lock l on its channel.
Sleeps(p, l) ==
  /\ Off(p) /\ Len(stack[p][1]) > 1
  /\ stack[p][1][1] = release("ptable") /\ stack[p][1][2] = acquire(l)

Wakeup1(c) ==
  /\ At(c, "wakeup1")
  /\ LET wakes == IF \E p \in Process : Sleeps(p, Arg(c)) THEN StampTicks ELSE <<>>
     IN  stack' = [stack EXCEPT ![thread[c]][1] = wakes \o Tail(@)]
  /\ UNCHANGED <<if, ncli, intena, locked, thread, saved, kept, oops>>

Branch(c) ==
  /\ At(c, "either")
  /\ \E code \in Arg(c) : stack' = [stack EXCEPT ![thread[c]][1] = code \o Tail(@)]
  /\ UNCHANGED <<if, ncli, intena, locked, thread, saved, kept, oops>>

\* change_sched_level() returns in the middle.
Keep(c) ==
  /\ At(c, "keep") /\ kept' = TRUE /\ Next1(c)
  /\ UNCHANGED <<if, ncli, intena, locked, thread, saved, oops>>

\* scheduler() finds a process to run, or none that is RUNNABLE.
Choose(c) ==
  /\ At(c, "choose")
  /\ \/ Next1(c)
     \/ /\ \E p \in Process : Off(p)
        /\ stack' = [stack EXCEPT ![c][1] = StampTicks \o <<<<"pick">>>> \o Tail(@)]
  /\ UNCHANGED <<if, ncli, intena, locked, thread, saved, kept, oops>>

\* scheduler()'s swtch() into process p, and the end of p's sched().
Pick(c, p) ==
  /\ At(c, "pick") /\ Off(p)
  /\ thread' = [thread EXCEPT ![c] = p] /\ Resumed(c, p) /\ Next1(c)
  /\ UNCHANGED <<if, ncli, locked, saved, kept, oops>>

Sti(c) ==
  /\ At(c, "sti") /\ if' = [if EXCEPT ![c] = TRUE] /\ Next1(c)
  /\ UNCHANGED <<ncli, intena, locked, thread, saved, kept, oops>>

\* Scheduler() goes round, a process in user space makes a call.
Loop(c) ==
  /\ ~oops /\ stack[thread[c]] = <<<<>>>>
  /\ \E code \in IF thread[c] \in CPU THEN {schedule}
                                      ELSE {CallCode[n] \o trapret : n \in Calls} :
       stack' = [stack EXCEPT ![thread[c]] = <<code>>]
  /\ UNCHANGED <<if, ncli, intena, locked, thread, saved, kept, oops>>

\* An interrupt: the gate clears FL_IF, iret restores it.
Interrupt(c) ==
  /\ ~oops /\ if[c] /\ Len(stack[thread[c]]) < 3
  /\ if' = [if EXCEPT ![c] = FALSE]
  /\ \E code \in TrapCodes(c, thread[c] \in Process) :
       stack' = [stack EXCEPT ![thread[c]] = <<code>> \o @]
  /\ UNCHANGED <<ncli, intena, locked, thread, saved, kept, oops>>

Iret(c) ==
  /\ At(c, "iret") /\ if' = [if EXCEPT ![c] = TRUE]
  /\ stack' = [stack EXCEPT ![thread[c]] = Tail(@)]
  /\ UNCHANGED <<ncli, intena, locked, thread, saved, kept, oops>>

LockNext ==
  \E c \in CPU : \/ Acquire(c) \/ Xchg(c) \/ Release(c) \/ Sched(c) \/ Sti(c)
                 \/ Wakeup1(c) \/ Branch(c) \/ Keep(c) \/ Choose(c) \/ Loop(c) \/ Interrupt(c) \/ Iret(c)
                 \/ \E p \in Process : Pick(c, p)

-----------------------------------------------------------------------------
Spins(c, l) == At(c, "spin") /\ Arg(c) = l
Again(c, l) == Code(c) # <<>> /\ Code(c)[1] = acquire(l) /\ holding(c, l)

(* ncli counts the locks a CPU holds or spins for; with any, or in a       *)
(* handler, interrupts are off, and otherwise on unless scheduler() is     *)
(* about to turn them on, across every switch of threads between CPUs      *)
(* (sched() keeps intena per thread, proc.c:500-506).  No assertion of     *)
(* acquire(), release(), popcli() or sched() fails but acquire()'s in the  *)
(* two cases the code does not avoid: the tick that wakes a process from   *)
(* sleep() takes tickslock twice (trap.c:52-56, proc.c:637), and after     *)
(* change_sched_level() has kept ptable.lock (proc.c:799) its CPU takes    *)
(* that one twice.  Until then the rest holds too; the count always does.  *)
InterruptsMasked ==
  /\ oops => \E c \in CPU : \/ Again(c, "tickslock") /\ holding(c, "ptable")
                            \/ Again(c, "ptable") /\ kept
  /\ ~oops => \A c \in CPU :
       /\ ncli[c] = Cardinality({l \in Lock : locked[l] = c \/ Spins(c, l)})
       /\ ~kept /\ (ncli[c] > 0 \/ Len(stack[thread[c]]) > 1) => ~if[c]
       /\ ~if[c] => \/ ncli[c] > 0 \/ Len(stack[thread[c]]) > 1
                    \/ thread[c] = c /\ (Code(c) = <<>> \/ At(c, "sti"))

(* Two CPUs spin for each other's locks only over two of ptable.lock,      *)
(* tickslock and cons.lock, which are nested both ways (proc.c:476 and     *)
(* trap.c:52-55, proc.c:772 and console.c:223, proc.c:868-869 and          *)
(* console.c:223), or over any lock and ptable.lock once                   *)
(* change_sched_level() has kept that one.  The locks of the disk (outside *)
(* ptable.lock, ide.c:109-125, 163) and of memory (inside it,              *)
(* proc.c:345-347) are otherwise nested one way.                           *)
CircularWaits ==
  \A c, d \in CPU : \A l, m \in Lock :
    c # d /\ Spins(c, l) /\ locked[l] = d /\ Spins(d, m) /\ locked[m] = c
      => {l, m} \subseteq {"ptable", "tickslock", "cons"} \/ (kept /\ "ptable" \in {l, m})
=============================================================================
