----------------------------- MODULE SchedProofs -----------------------------
(***************************************************************************)
(* Theorems about the process table and the scheduler: for any number of   *)
(* processes and CPUs the table is consistent and the counters add up; on  *)
(* one CPU each counter is exact, the scheduler never idles while a        *)
(* process is RUNNABLE, and it respects the priorities of the queues.      *)
(***************************************************************************)
EXTENDS SchedTable

\* Only wait() takes a slot from ZOMBIE to UNUSED.
LEMMA ZombieStays ==
  ASSUME Counting, TableInv, [Next]_vars, ~ \E c \in Cpu, p \in Proc : Wait(c, p)
  PROVE  \A q \in Proc : state[q] = "ZOMBIE" => state'[q] = "ZOMBIE"
<1>0. TypeOK /\ CpuInv /\ ForkInv
  BY DEF TableInv
<1>1. ASSUME NEW c \in Cpu, Schedule(c)
      PROVE  \A q \in Proc : state[q] = "ZOMBIE" => state'[q] = "ZOMBIE"
  <2>1. state[Chosen(c)] = "RUNNABLE"
    BY <1>0, <1>1, ChosenIn, Zenon DEF Schedule, Runnable
  <2>. QED BY <1>0, <1>1, <2>1, Zenon DEF TypeOK, Schedule
<1>2. ASSUME NEW c \in Cpu, Resume(c) \/ SwitchOut(c) \/ Quiet(c)
      PROVE  \A q \in Proc : state[q] = "ZOMBIE" => state'[q] = "ZOMBIE"
  BY <1>0, <1>2, QuietKeeps, Zenon DEF Resume, SwitchOut, fields
<1>3. ASSUME NEW c \in Cpu, NEW ch \in OtherChan, Wakeup(c, ch)
      PROVE  \A q \in Proc : state[q] = "ZOMBIE" => state'[q] = "ZOMBIE"
  BY <1>3, Zenon DEF Wakeup, Sleepers, WokenState
<1>4. ASSUME NEW c \in Cpu, NEW p \in Proc,
             \/ Yield(c, p) \/ SysSleep(c, p)
             \/ \E ch \in OtherChan : Block(c, p, ch)
      PROVE  \A q \in Proc : state[q] = "ZOMBIE" => state'[q] = "ZOMBIE"
  <2>1. state[p] = "RUNNING"
    BY <1>0, <1>4, Zenon DEF CpuInv, Yield, SysSleep, Block, InCall, Running
  <2>. QED BY <1>0, <1>4, <2>1, Zenon DEF TypeOK, Yield, SysSleep, Block, Sleep
<1>5. ASSUME NEW c \in Cpu, NEW p \in Proc, ForkAlloc(c, p)
      PROVE  \A q \in Proc : state[q] = "ZOMBIE" => state'[q] = "ZOMBIE"
  <2>1. Unused # {} => state[First(Unused)] = "UNUSED"
    BY FirstIn DEF Unused
  <2>. QED BY <1>0, <1>5, <2>1 DEF TypeOK, ForkAlloc
<1>6. ASSUME NEW c \in Cpu, NEW p \in Proc, ForkFail(c, p) \/ ForkDone(c, p)
      PROVE  \A q \in Proc : state[q] = "ZOMBIE" => state'[q] = "ZOMBIE"
  <2>1. state[child[p]] = "EMBRYO"
    BY <1>0, <1>6 DEF ForkFail, ForkDone, ForkInv
  <2>. QED BY <1>0, <1>6, <2>1 DEF TypeOK, ForkFail, ForkDone
<1>7. ASSUME NEW c \in Cpu, NEW p \in Proc, Exit(c, p)
      PROVE  \A q \in Proc : state[q] = "ZOMBIE" => state'[q] = "ZOMBIE"
  BY <1>7, Zenon DEF Exit, WokenByExit, WokenState, Sleepers
<1>8. ASSUME NEW c \in Cpu, NEW p \in Proc, NEW id \in 0..MaxPid, Kill(c, p, id)
      PROVE  \A q \in Proc : state[q] = "ZOMBIE" => state'[q] = "ZOMBIE"
  <2>1. \/ state' = state
        \/ \E r : state[r] = "SLEEPING" /\ state' = [state EXCEPT ![r] = "RUNNABLE"]
    BY <1>8, Zenon DEF Kill
  <2>2. state \in [Proc -> ProcState]
    BY <1>0, Zenon DEF TypeOK
  <2>. QED BY <2>1, <2>2, Zenon
<1>9. ASSUME NEW c \in Cpu, NEW p \in Proc, NEW id \in 0..MaxPid, NEW l \in 0..2,
             ChangeLevel(c, p, id, l)
      PROVE  \A q \in Proc : state[q] = "ZOMBIE" => state'[q] = "ZOMBIE"
  BY <1>9, Zenon DEF ChangeLevel, fields
<1>10. CASE UNCHANGED vars
  BY <1>10 DEF vars, fields
<1>. QED BY <1>1, <1>2, <1>3, <1>4, <1>5, <1>6, <1>7, <1>8, <1>9, <1>10, Zenon,
            NextCases

Total(f) == f["edf"] + f["rr"] + f["fcfs"]

-----------------------------------------------------------------------------
\* What the updates of the counters add up to.

LEMMA QueueNames == "edf" \in Queue /\ "rr" \in Queue /\ "fcfs" \in Queue
BY DEF Queue

LEMMA QueueOfIn == ASSUME NEW p PROVE QueueOf(p) = "none" \/ QueueOf(p) \in Queue
BY QueueNames DEF QueueOf

LEMMA DequeueTotal ==
  ASSUME TypeOK, NEW p, QueueOf(p) \in Queue
  PROVE  Total(Dequeue(p)) = Total(count) - 1
<1>1. count["edf"] \in Int /\ count["rr"] \in Int /\ count["fcfs"] \in Int
  BY QueueNames DEF TypeOK
<1>2. QueueOf(p) \in {"edf", "rr", "fcfs"}
  BY DEF Queue
<1>. HIDE DEF QueueOf
<1>. QED BY <1>1, <1>2, QueueNames DEF Dequeue, Total

LEMMA MoveTotal ==
  ASSUME TypeOK, NEW from \in Queue, NEW to \in Queue, from # to
  PROVE  Total(Move(from, to)) = Total(count)
<1>1. count["edf"] \in Int /\ count["rr"] \in Int /\ count["fcfs"] \in Int
  BY QueueNames DEF TypeOK
<1>2. from \in {"edf", "rr", "fcfs"} /\ to \in {"edf", "rr", "fcfs"}
  BY DEF Queue
<1>. QED BY <1>1, <1>2, QueueNames DEF Move, Total

LEMMA EnqueueTotal ==
  ASSUME Counting, TypeOK, NEW W \in SUBSET Proc, \A q \in W : QueueOf(q) \in Queue
  PROVE  Total(Enqueue(W)) = Total(count) + Cardinality(W)
<1>. DEFINE E == {q \in W : QueueOf(q) = "edf"}
            R == {q \in W : QueueOf(q) = "rr"}
            F == {q \in W : QueueOf(q) = "fcfs"}
<1>1. count["edf"] \in Int /\ count["rr"] \in Int /\ count["fcfs"] \in Int
  BY QueueNames DEF TypeOK
<1>2. /\ Enqueue(W)["edf"] = count["edf"] + Cardinality(E)
      /\ Enqueue(W)["rr"] = count["rr"] + Cardinality(R)
      /\ Enqueue(W)["fcfs"] = count["fcfs"] + Cardinality(F)
  BY QueueNames DEF Enqueue
<1>3. /\ IsFiniteSet(E) /\ Cardinality(E) \in Nat
      /\ IsFiniteSet(R) /\ Cardinality(R) \in Nat
      /\ IsFiniteSet(F) /\ Cardinality(F) \in Nat
  BY ProcFinite
<1>4. W = (E \cup R) \cup F /\ E \cap R = {} /\ (E \cup R) \cap F = {}
  BY DEF Queue
<1>. HIDE DEF E, R, F
<1>5. IsFiniteSet(E \cup R) /\ Cardinality(E \cup R) = Cardinality(E) + Cardinality(R)
  <2>1. /\ IsFiniteSet(E \cup R)
        /\ Cardinality(E \cup R) = Cardinality(E) + Cardinality(R) - Cardinality(E \cap R)
    BY <1>3, Zenon DEF Counting, Unions
  <2>2. Cardinality(E \cap R) = 0
    BY <1>4, Zenon DEF Counting, EmptySets
  <2>. QED BY <1>3, <2>1, <2>2
<1>6. Cardinality(W) = Cardinality(E \cup R) + Cardinality(F)
  <2>1. Cardinality((E \cup R) \cup F) =
          Cardinality(E \cup R) + Cardinality(F) - Cardinality((E \cup R) \cap F)
    BY <1>3, <1>5, Zenon DEF Counting, Unions
  <2>2. Cardinality((E \cup R) \cap F) = 0
    BY <1>4 DEF Counting, EmptySets
  <2>3. Cardinality(W) = Cardinality((E \cup R) \cup F)
    BY <1>4
  <2>. QED BY <1>3, <1>5, <2>1, <2>2, <2>3
<1>. QED BY <1>1, <1>2, <1>3, <1>5, <1>6 DEF Total
-----------------------------------------------------------------------------
\* The sum of the counters.

\* Neither the sum nor the set of RUNNABLE processes changes.
LEMMA SumKept ==
  ASSUME CountsSum, Total(count') = Total(count),
         \A q \in Proc : state'[q] = "RUNNABLE" <=> state[q] = "RUNNABLE"
  PROVE  CountsSum'
<1>1. Runnable' = Runnable
  BY DEF Runnable
<1>. QED BY <1>1 DEF CountsSum, Total

\* The processes of W become RUNNABLE.
LEMMA SumEnqueue ==
  ASSUME Counting, TypeOK, QueueInv, CountsSum, NEW W \in SUBSET Proc, count' = Enqueue(W),
         \A q \in W : /\ state[q] \notin {"UNUSED", "ZOMBIE", "RUNNABLE"}
                      /\ context[q] # "run" \/ pc[q] # "exec" \/ yields[q] # 0,
         \A q \in Proc :
           state'[q] = "RUNNABLE" <=> (state[q] = "RUNNABLE" \/ q \in W)
  PROVE  CountsSum'
<1>1. Total(count') = Total(count) + Cardinality(W)
  <2>1. \A q \in W : QueueOf(q) # "none"
    BY DEF QueueInv
  <2>2. \A q \in W : QueueOf(q) \in Queue
    BY <2>1, QueueOfIn
  <2>. QED BY <2>2, EnqueueTotal
<1>2. Runnable' = Runnable \cup W /\ Runnable \cap W = {}
  BY DEF Runnable
<1>3. /\ IsFiniteSet(Runnable) /\ Cardinality(Runnable) \in Nat
      /\ IsFiniteSet(W) /\ Cardinality(W) \in Nat
  BY ProcFinite DEF Runnable
<1>4. Cardinality(Runnable') = Cardinality(Runnable) + Cardinality(W)
  <2>1. Cardinality(Runnable \cup W) =
          Cardinality(Runnable) + Cardinality(W) - Cardinality(Runnable \cap W)
    BY <1>3 DEF Counting, Unions
  <2>2. Cardinality(Runnable \cap W) = 0
    BY <1>2 DEF Counting, EmptySets
  <2>3. Cardinality(Runnable') = Cardinality(Runnable \cup W)
    BY <1>2
  <2>. QED BY <1>3, <2>1, <2>2, <2>3
<1>5. Total(count) = Cardinality(Runnable)
  BY DEF CountsSum, Total
<1>6. Total(count') = Cardinality(Runnable')
  BY <1>1, <1>3, <1>4, <1>5
<1>. QED BY <1>6 DEF CountsSum, Total

LEMMA SumSchedule ==
  ASSUME Counting, TypeOK, CpuInv, QueueInv, CountsSum, NEW c \in Cpu, Schedule(c)
  PROVE  CountsSum'
<1>1. PICK p \in Proc : p = Chosen(c) /\ state[p] = "RUNNABLE"
  BY ChosenIn, Zenon DEF Schedule, Runnable
<1>2. state' = [state EXCEPT ![p] = "RUNNING"] /\ count' = Dequeue(p)
  BY <1>1, Zenon DEF Schedule
<1>3. QueueOf(p) \in Queue
  BY <1>1, QueueOfIn DEF QueueInv, CpuInv
<1>4. Total(count') = Total(count) - 1
  BY <1>2, <1>3, DequeueTotal
<1>5. Runnable' = Runnable \ {p} /\ p \in Runnable
  BY <1>1, <1>2 DEF Runnable, TypeOK
<1>6. IsFiniteSet(Runnable) /\ Cardinality(Runnable) \in Nat
  BY ProcFinite DEF Runnable
<1>7. Cardinality(Runnable \ {p}) = Cardinality(Runnable) - 1
  BY <1>5, <1>6, Zenon DEF Counting, Removals
<1>8. Total(count) = Cardinality(Runnable)
  BY DEF CountsSum, Total
<1>9. Total(count') = Cardinality(Runnable')
  BY <1>4, <1>5, <1>7, <1>8
<1>. QED BY <1>9 DEF CountsSum, Total

LEMMA SumStep ==
  ASSUME Counting, TableInv, CountsSum, [Next]_vars
  PROVE  CountsSum'
<1>0. TypeOK /\ CpuInv /\ ForkInv /\ QueueInv
  BY DEF TableInv
<1>1. ASSUME NEW c \in Cpu, Resume(c) \/ SwitchOut(c) PROVE CountsSum'
  BY <1>1, SumKept, Zenon DEF Resume, SwitchOut, fields
<1>2. ASSUME NEW c \in Cpu,
             TimerTick(c) \/ AgeScan(c) \/ AgeRead(c) \/ TimerAccount(c)
      PROVE  CountsSum'
  BY <1>2, SumKept, Zenon DEF TimerTick, AgeScan, AgeRead, TimerAccount, fields
<1>3. ASSUME NEW c \in Cpu, AgeChange(c) PROVE CountsSum'
  <2>1. state' = state
    BY <1>3, Zenon DEF AgeChange, fields
  <2>2. count' \in {count, Move("rr", "fcfs"), Move("fcfs", "rr")}
    BY <1>3, Zenon DEF AgeChange, Relevel
  <2>. QED BY <1>0, <2>1, <2>2, MoveTotal, QueueNames, SumKept
<1>4. ASSUME NEW c \in Cpu, NEW p \in Proc,
             \/ SysEnter(c, p) \/ SysReturn(c, p) \/ SysIsHigherWaiting(c, p)
             \/ ExecClass(c, p) \/ ExecLevel(c, p) \/ ExitBegin(c, p)
             \/ AcquirePanic(c, p) \/ Fault(c, p)
      PROVE  CountsSum'
  BY <1>4, SumKept, Zenon DEF SysEnter, SysReturn, SysIsHigherWaiting, ExecClass,
                       ExecLevel, ExitBegin, AcquirePanic, Fault, fields
<1>5. ASSUME NEW c \in Cpu, NEW ch \in OtherChan, Wakeup(c, ch) PROVE CountsSum'
  <2>1. Sleepers(ch) \in SUBSET Proc /\ count' = Enqueue(Sleepers(ch))
    BY <1>5, Zenon DEF Wakeup, Sleepers
  <2>2. \A q \in Sleepers(ch) : state[q] = "SLEEPING" /\ context[q] # "run"
    BY <1>0, Zenon DEF Sleepers, CpuInv
  <2>3. \A q \in Proc :
          state'[q] = "RUNNABLE" <=> (state[q] = "RUNNABLE" \/ q \in Sleepers(ch))
    BY <1>5 DEF Wakeup, WokenState
  <2>. QED BY <1>0, <2>1, <2>2, <2>3, SumEnqueue, Zenon
<1>6. ASSUME NEW c \in Cpu, NEW p \in Proc, Yield(c, p) PROVE CountsSum'
  <2>1. /\ count' = Enqueue({p}) /\ state[p] = "RUNNING"
        /\ state' = [state EXCEPT ![p] = "RUNNABLE"]
    BY <1>0, <1>6, Zenon DEF Yield, CpuInv
  <2>2. yields[p] > 0 \/ pc[p] = "yield"
    BY <1>6, Zenon DEF Yield
  <2>3. yields[p] # 0 \/ pc[p] # "exec"
    BY <2>2
  <2>4. {p} \in SUBSET Proc
    OBVIOUS
  <2>5. \A q \in Proc :
          state'[q] = "RUNNABLE" <=> (state[q] = "RUNNABLE" \/ q \in {p})
    BY <1>0, <2>1, Zenon DEF TypeOK
  <2>. QED BY <1>0, <2>1, <2>3, <2>4, <2>5, SumEnqueue, Zenon
<1>7. ASSUME NEW c \in Cpu, NEW p \in Proc,
             SysSleep(c, p) \/ \E ch \in OtherChan : Block(c, p, ch)
      PROVE  CountsSum'
  <2>1. state[p] = "RUNNING"
    BY <1>0, <1>7, Zenon DEF SysSleep, Block, InCall, Running, CpuInv
  <2>2. count' = count
    BY <1>7, <2>1, Zenon DEF SysSleep, Block, Sleep
  <2>3. state' = state \/ state' = [state EXCEPT ![p] = "SLEEPING"]
    BY <1>7, Zenon DEF SysSleep, Block, Sleep
  <2>. QED BY <1>0, <2>1, <2>2, <2>3, SumKept, Zenon DEF TypeOK
<1>8. ASSUME NEW c \in Cpu, NEW p \in Proc, ForkAlloc(c, p) PROVE CountsSum'
  <2>1. Unused # {} => state[First(Unused)] = "UNUSED"
    BY FirstIn DEF Unused
  <2>2. /\ count' = count
        /\ \/ state' = state
           \/ Unused # {} /\ state' = [state EXCEPT ![First(Unused)] = "EMBRYO"]
    BY <1>8, Zenon DEF ForkAlloc
  <2>3. state \in [Proc -> ProcState]
    BY <1>0, Zenon DEF TypeOK
  <2>4. \A q \in Proc : state'[q] = "RUNNABLE" <=> state[q] = "RUNNABLE"
    BY <2>1, <2>2, <2>3, Zenon
  <2>. QED BY <1>0, <2>2, <2>4, SumKept
<1>9. ASSUME NEW c \in Cpu, NEW p \in Proc, ForkFail(c, p) PROVE CountsSum'
  <2>1. state[child[p]] = "EMBRYO"
    BY <1>0, <1>9 DEF ForkFail, ForkInv
  <2>. QED BY <1>0, <1>9, <2>1, SumKept, Zenon DEF TypeOK, ForkFail
<1>10. ASSUME NEW c \in Cpu, NEW p \in Proc, ForkDone(c, p) PROVE CountsSum'
  <2>1. child[p] \in Proc /\ state[child[p]] = "EMBRYO"
    BY <1>0, <1>10 DEF TypeOK, ForkDone, ForkInv
  <2>2. {child[p]} \in SUBSET Proc /\ context[child[p]] # "run"
    BY <1>0, <2>1, Zenon DEF CpuInv
  <2>3. /\ count' = Enqueue({child[p]})
        /\ state' = [state EXCEPT ![child[p]] = "RUNNABLE"]
    BY <1>10 DEF ForkDone
  <2>4. \A q \in Proc :
          state'[q] = "RUNNABLE" <=> (state[q] = "RUNNABLE" \/ q \in {child[p]})
    BY <1>0, <2>3 DEF TypeOK
  <2>. QED BY <1>0, <2>1, <2>2, <2>3, <2>4, SumEnqueue, Zenon
<1>11. ASSUME NEW c \in Cpu, NEW p \in Proc, Exit(c, p) PROVE CountsSum'
  <2>. DEFINE W == WokenByExit(p)
  <2>1. \A q \in W : q \in Proc /\ state[q] = "SLEEPING" /\ context[q] # "run"
    BY <1>0 DEF WokenByExit, Sleepers, CpuInv
  <2>2. state[p] = "RUNNING" /\ count' = Enqueue(W)
    BY <1>0, <1>11, Zenon DEF Exit, Running, CpuInv
  <2>3. state' = [[q \in Proc |-> IF q \in W THEN "RUNNABLE" ELSE state[q]]
                    EXCEPT ![p] = "ZOMBIE"]
    BY <1>11, Zenon DEF Exit, WokenState
  <2>. HIDE DEF W
  <2>4. \A q \in Proc :
          state'[q] = "RUNNABLE" <=> (state[q] = "RUNNABLE" \/ q \in W)
    BY <2>1, <2>2, <2>3
  <2>5. W \in SUBSET Proc
    BY <2>1
  <2>. QED BY <1>0, <2>1, <2>2, <2>4, <2>5, SumEnqueue, Zenon
<1>12. ASSUME NEW c \in Cpu, NEW p \in Proc, Wait(c, p) PROVE CountsSum'
  <2>. DEFINE zombies == {q \in Children(p) : state[q] = "ZOMBIE"}
  <2>1. zombies # {} => state[First(zombies)] = "ZOMBIE"
    BY FirstIn DEF Children
  <2>2. state[p] = "RUNNING"
    BY <1>0, <1>12, Zenon DEF Wait, Running, CpuInv
  <2>3. count' = count
    BY <1>12, <2>2, Zenon DEF Wait, Sleep
  <2>4. \/ UNCHANGED state
        \/ zombies # {} /\ state' = [state EXCEPT ![First(zombies)] = "UNUSED"]
        \/ state' = [state EXCEPT ![p] = "SLEEPING"]
    BY <1>12, Zenon DEF Wait, Sleep, fields
  <2>5. \A q \in Proc : state'[q] = "RUNNABLE" <=> state[q] = "RUNNABLE"
    BY <1>0, <2>1, <2>2, <2>4 DEF TypeOK
  <2>. QED BY <2>3, <2>5, SumKept
<1>13. ASSUME NEW c \in Cpu, NEW p \in Proc, NEW id \in 0..MaxPid, Kill(c, p, id)
       PROVE  CountsSum'
  <2>1. CASE UNCHANGED <<state, count>>
    BY <2>1, SumKept, Zenon
  <2>2. CASE /\ WithPid(id) # {} /\ state[First(WithPid(id))] = "SLEEPING"
             /\ state' = [state EXCEPT ![First(WithPid(id))] = "RUNNABLE"]
             /\ count' = Enqueue({First(WithPid(id))})
    <3>1. PICK q \in Proc : q = First(WithPid(id))
      BY <2>2, WithPidIn
    <3>2. {q} \in SUBSET Proc /\ context[q] # "run"
      BY <1>0, <2>2, <3>1, Zenon DEF CpuInv
    <3>3. \A r \in Proc :
            state'[r] = "RUNNABLE" <=> (state[r] = "RUNNABLE" \/ r \in {q})
      BY <1>0, <2>2, <3>1, Zenon DEF TypeOK
    <3>. QED BY <1>0, <2>2, <3>1, <3>2, <3>3, SumEnqueue, Zenon
  <2>. QED BY <1>13, <2>1, <2>2 DEF Kill
<1>14. ASSUME NEW c \in Cpu, NEW p \in Proc, NEW id \in 0..MaxPid,
              NEW d \in Deadlines, SetDeadline(c, p, id, d)
       PROVE  CountsSum'
  <2>1. state' = state
    BY <1>14, Zenon DEF SetDeadline, fields
  <2>2. count' \in {count, Move("rr", "edf"), Move("fcfs", "edf")}
    BY <1>14, Zenon DEF SetDeadline
  <2>. QED BY <1>0, <2>1, <2>2, MoveTotal, QueueNames, SumKept
<1>15. ASSUME NEW c \in Cpu, NEW p \in Proc, NEW id \in 0..MaxPid, NEW l \in 0..2,
              ChangeLevel(c, p, id, l)
       PROVE  CountsSum'
  <2>1. state' = state
    BY <1>15, Zenon DEF ChangeLevel, fields
  <2>2. count' \in {count, Move("rr", "fcfs"), Move("fcfs", "rr")}
    BY <1>15, Zenon DEF ChangeLevel, Relevel
  <2>. QED BY <1>0, <2>1, <2>2, MoveTotal, QueueNames, SumKept
<1>16. CASE UNCHANGED vars
  BY <1>16, SumKept DEF vars, fields
<1>. QED BY <1>0, SumSchedule, <1>1, <1>2, <1>3, <1>4, <1>5, <1>6, <1>7, <1>8, Zenon,
            <1>9, <1>10, <1>11, <1>12, <1>13, <1>14, <1>15, <1>16,
            NextCases DEF Quiet, TimerStep

LEMMA SumInit == ASSUME Counting PROVE Init => CountsSum
<1>. SUFFICES ASSUME Init PROVE CountsSum
  OBVIOUS
<1>1. Runnable = {initproc}
  <2>1. state = [p \in Proc |-> IF p = initproc THEN "RUNNABLE" ELSE "UNUSED"]
    BY Zenon DEF Init
  <2>. QED BY <2>1, Numbers DEF Runnable
<1>2. Cardinality(Runnable) = 1
  BY <1>1, Zenon DEF Counting, Singletons
<1>3. count = [k \in Queue |-> IF k = "rr" THEN 1 ELSE 0]
  BY Zenon DEF Init
<1>. QED BY <1>2, <1>3, QueueNames DEF CountsSum



OneCpu == NCPU = 1 /\ "edf_level" \notin Corners /\ "exec_race" \notin Corners

-----------------------------------------------------------------------------
\* The window in update_wait_time() is closed on one CPU.

LEMMA OnlyCpu == ASSUME OneCpu, NEW c \in Cpu, NEW d \in Cpu PROVE c = d
BY DEF OneCpu, Cpu

\* Nothing but the timer handler runs while the handler is at work.
LEMMA WindowClosed ==
  ASSUME OneCpu, WindowInv, NEW c \in Cpu, intr[c].at = "none", intr' = intr
  PROVE  WindowInv'
<1>1. \A d \in Cpu : intr'[d].at = "none"
  BY OnlyCpu, Zenon
<1>. QED BY <1>1 DEF WindowInv

LEMMA WindowStep ==
  ASSUME Counting, OneCpu, TypeOK, WindowInv, [Next]_vars
  PROVE  WindowInv'
<1>0. Idle.at = "none"
  BY DEF Idle
<1>1. ASSUME NEW c \in Cpu, Schedule(c) PROVE WindowInv'
  BY <1>0, <1>1, WindowClosed, Zenon DEF Schedule
<1>2. ASSUME NEW c \in Cpu, Resume(c) \/ SwitchOut(c) PROVE WindowInv'
  <2>1. ptlock = c /\ intr' = intr
    BY <1>2, Zenon DEF Resume, SwitchOut
  <2>2. intr[c].at = "none"
    BY <2>1, NoCpuIsNone DEF WindowInv
  <2>. QED BY <2>1, <2>2, WindowClosed
<1>3. ASSUME NEW c \in Cpu, NEW ch \in OtherChan, Wakeup(c, ch) PROVE WindowInv'
  BY <1>0, <1>3, WindowClosed, Zenon DEF Wakeup, Interruptible
<1>4. ASSUME NEW c \in Cpu, NEW p \in Proc, Running(c, p), intr' = intr
      PROVE  WindowInv'
  BY <1>0, <1>4, WindowClosed, Zenon DEF Running
<1>5. ASSUME NEW c \in Cpu, NEW p \in Proc,
             \/ SysEnter(c, p) \/ SysReturn(c, p) \/ SysIsHigherWaiting(c, p)
             \/ ExecClass(c, p) \/ ExecLevel(c, p) \/ ExitBegin(c, p)
             \/ Fault(c, p) \/ SysSleep(c, p)
             \/ \E ch \in OtherChan : Block(c, p, ch)
      PROVE  Running(c, p) /\ intr' = intr
  BY <1>5, Zenon DEF SysEnter, SysReturn, SysIsHigherWaiting, ExecClass, ExecLevel,
              ExitBegin, Fault, SysSleep, Block, InCall
<1>6. ASSUME NEW c \in Cpu, NEW p \in Proc,
             \/ ForkAlloc(c, p) \/ ForkFail(c, p) \/ ForkDone(c, p)
             \/ Exit(c, p) \/ Wait(c, p)
             \/ \E id \in 0..MaxPid : Kill(c, p, id)
             \/ \E id \in 0..MaxPid, d \in Deadlines : SetDeadline(c, p, id, d)
             \/ \E id \in 0..MaxPid, l \in 0..2 : ChangeLevel(c, p, id, l)
      PROVE  Running(c, p) /\ intr' = intr
  BY <1>6, Zenon DEF ForkAlloc, ForkFail, ForkDone, Exit, Wait, Kill, SetDeadline,
              ChangeLevel, InCall
<1>7. ASSUME NEW c \in Cpu, NEW p \in Proc, Yield(c, p) PROVE WindowInv'
  BY <1>0, <1>7, WindowClosed, Zenon DEF Yield
<1>8. ASSUME NEW c \in Cpu, NEW p \in Proc, AcquirePanic(c, p) PROVE WindowInv'
  <2>1. ptlock = c /\ intr' = intr
    BY <1>8, Zenon DEF AcquirePanic
  <2>2. intr[c].at = "none"
    BY <2>1, NoCpuIsNone, Zenon DEF WindowInv
  <2>. QED BY <2>1, <2>2, WindowClosed
<1>9. ASSUME NEW c \in Cpu, TimerStep(c), NEW d \in Cpu
      PROVE  /\ intr'[d].at # "none" => ptlock' = NoCpu
             /\ intr'[d].at \in {"read", "change"} => intr'[d].p \in FcfsCandidates'
             /\ intr'[d].at = "change" => intr'[d].pid = pid'[intr'[d].p]
  <2>1. d = c /\ intr \in [Cpu -> HandlerState]
    BY OnlyCpu DEF TypeOK
  <2>2. CASE TimerTick(c)
    BY <2>1, <2>2, <1>0, Zenon DEF TimerTick, Interruptible, WindowInv, Idle
  <2>3. CASE AgeScan(c)
    <3>1. UNCHANGED <<FcfsCandidates, pid, ptlock>> /\ ptlock = NoCpu
      BY <2>3, Zenon DEF AgeScan, FcfsCandidates, Runnable, fields, schedFields
    <3>2. Aged(intr[c].p) # {} => First(Aged(intr[c].p)) \in FcfsCandidates
      <4>1. Aged(intr[c].p) \in SUBSET Proc
        BY DEF Aged, FcfsCandidates, Runnable
      <4>. QED BY <4>1, FirstIn, Zenon DEF Aged
    <3>3. \/ intr'[c] = [at |-> "account", p |-> 0, pid |-> 0]
          \/ /\ Aged(intr[c].p) # {}
             /\ intr'[c] = [at |-> "read", p |-> First(Aged(intr[c].p)), pid |-> 0]
      BY <2>1, <2>3, Zenon DEF AgeScan
    <3>. QED BY <2>1, <3>1, <3>2, <3>3
  <2>4. CASE AgeRead(c)
    <3>1. UNCHANGED <<FcfsCandidates, pid, ptlock>> /\ intr[c].at = "read"
      BY <2>4, Zenon DEF AgeRead, FcfsCandidates, Runnable, fields, schedFields
    <3>2. intr' = [intr EXCEPT ![c].at = "change", ![c].pid = pid[intr[c].p]]
      BY <2>4, Zenon DEF AgeRead
    <3>3. /\ intr'[c].at = "change" /\ intr'[c].p = intr[c].p
          /\ intr'[c].pid = pid[intr[c].p]
      BY <2>1, <3>2 DEF HandlerState
    <3>. QED BY <2>1, <3>1, <3>3 DEF WindowInv
  <2>5. CASE AgeChange(c)
    <3>1. ptlock' = NoCpu /\ intr' = [intr EXCEPT ![c].at = "scan", ![c].pid = 0]
      BY <2>5, Zenon DEF AgeChange
    <3>2. intr'[c].at = "scan"
      BY <2>1, <3>1, Zenon DEF HandlerState
    <3>. QED BY <2>1, <3>1, <3>2, Zenon
  <2>6. CASE TimerAccount(c)
    BY <2>1, <2>6, <1>0, Zenon DEF TimerAccount
  <2>. QED BY <1>9, <2>2, <2>3, <2>4, <2>5, <2>6, Zenon DEF TimerStep
<1>10. ASSUME NEW c \in Cpu, TimerStep(c) PROVE WindowInv'
  BY <1>9, <1>10, Zenon DEF WindowInv
<1>11. CASE UNCHANGED vars
  <2>1. UNCHANGED <<intr, ptlock, pid, FcfsCandidates>>
    BY <1>11 DEF vars, fields, schedFields, FcfsCandidates, Runnable
  <2>. QED BY <2>1, Zenon DEF WindowInv
<1>. QED BY <1>1, <1>2, <1>3, <1>4, <1>5, <1>6, <1>7, <1>8, <1>10, <1>11, NextCases
         DEF Quiet
-----------------------------------------------------------------------------
\* EDF processes stay at level 0.

\* update_wait_time() promotes the FCFS process it found.
LEMMA AgedTarget ==
  ASSUME Counting, TypeOK, PidInv, WindowInv, NEW c \in Cpu, AgeChange(c)
  PROVE  \E q \in Proc : /\ q \in FcfsCandidates /\ Relevel(q, 1)
                         /\ UNCHANGED <<state, pc, context, sched_class>>
<1>1. PICK q \in Proc : q = intr[c].p /\ q \in FcfsCandidates
  BY Zenon DEF AgeChange, WindowInv, FcfsCandidates, Runnable
<1>2. state[q] = "RUNNABLE" /\ sched_level[q] = 2 /\ pid[q] # 0
  BY <1>1 DEF FcfsCandidates, Runnable, PidInv
<1>3. intr[c].pid = pid[q]
  BY <1>1, Zenon DEF AgeChange, WindowInv
<1>4. WithPid(pid[q]) = {q}
  BY <1>2 DEF WithPid, PidInv
<1>5. First(WithPid(intr[c].pid)) = q /\ WithPid(intr[c].pid) # {}
  BY <1>3, <1>4, WithPidIn DEF WithPid
<1>6. UNCHANGED <<state, pc, context, sched_class>>
  BY Zenon DEF AgeChange, fields
<1>7. sched_level[First(WithPid(intr[c].pid))] # 1
  BY <1>2, <1>5
<1>8. Relevel(First(WithPid(intr[c].pid)), 1)
  BY <1>5, <1>7, Zenon DEF AgeChange
<1>9. Relevel(q, 1)
  BY <1>5, <1>8, Zenon DEF Relevel
<1>. QED BY <1>1, <1>6, <1>9

\* No process changes queues, comes into use or enters exec().
LEMMA LevelKept ==
  ASSUME LevelInv, UNCHANGED <<sched_class, sched_level>>,
         \A q \in Proc : state'[q] \notin {"UNUSED", "ZOMBIE"}
                           => state[q] \notin {"UNUSED", "ZOMBIE"},
         \A q \in Proc : pc'[q] = "exec" => pc[q] = "exec"
  PROVE  LevelInv'
BY Zenon DEF LevelInv

LEMMA LevelStep ==
  ASSUME Counting, OneCpu, TableInv, WindowInv, LevelInv, [Next]_vars
  PROVE  LevelInv'
<1>0. TypeOK /\ CpuInv /\ ForkInv /\ PidInv
  BY Zenon DEF TableInv
<1>a. /\ state \in [Proc -> ProcState] /\ pc \in [Proc -> Place]
      /\ sched_class \in [Proc -> Level] /\ sched_level \in [Proc -> Level]
  BY <1>0 DEF TypeOK
<1>1. ASSUME NEW c \in Cpu, Schedule(c) PROVE LevelInv'
  <2>1. state[Chosen(c)] = "RUNNABLE"
    BY <1>0, <1>1, ChosenIn, Zenon DEF Schedule, Runnable
  <2>. QED BY <1>a, <1>1, <2>1, LevelKept, Zenon DEF Schedule, schedFields
<1>2. ASSUME NEW c \in Cpu,
             \/ Resume(c) \/ SwitchOut(c) \/ TimerTick(c) \/ AgeScan(c)
             \/ AgeRead(c) \/ TimerAccount(c)
      PROVE  LevelInv'
  BY <1>2, LevelKept, Zenon DEF Resume, SwitchOut, TimerTick, AgeScan, AgeRead,
                         TimerAccount, fields, schedFields
<1>3. ASSUME NEW c \in Cpu, AgeChange(c) PROVE LevelInv'
  <2>1. PICK q \in Proc : /\ q \in FcfsCandidates /\ Relevel(q, 1)
                          /\ UNCHANGED <<state, pc, context, sched_class>>
    BY <1>0, <1>3, AgedTarget, Zenon
  <2>2. sched_class[q] = 2 /\ sched_level' = [sched_level EXCEPT ![q] = 1]
    BY <2>1 DEF FcfsCandidates, Relevel
  <2>. QED BY <1>a, <2>1, <2>2 DEF LevelInv
<1>4. ASSUME NEW c \in Cpu, NEW p \in Proc,
             \/ SysEnter(c, p) \/ SysReturn(c, p) \/ SysIsHigherWaiting(c, p)
             \/ ExitBegin(c, p) \/ AcquirePanic(c, p) \/ Fault(c, p)
      PROVE  LevelInv'
  BY <1>a, <1>4, LevelKept, Zenon
     DEF SysEnter, SysReturn, SysIsHigherWaiting, ExitBegin, AcquirePanic, Fault,
         Goto, fields, schedFields
<1>5. ASSUME NEW c \in Cpu, NEW p \in Proc, ExecClass(c, p) PROVE LevelInv'
  <2>1. /\ sched_class' = [sched_class EXCEPT ![p] = 2]
        /\ pc' = [pc EXCEPT ![p] = "exec"] /\ UNCHANGED <<state, sched_level>>
    BY <1>5 DEF ExecClass, Goto, fields
  <2>. QED BY <1>a, <2>1 DEF LevelInv
<1>6. ASSUME NEW c \in Cpu, NEW p \in Proc, ExecLevel(c, p) PROVE LevelInv'
  <2>1. /\ sched_level' = [sched_level EXCEPT ![p] = 1] /\ pc[p] = "exec"
        /\ pc' = [pc EXCEPT ![p] = "user"] /\ UNCHANGED <<state, sched_class>>
    BY <1>6, Zenon DEF ExecLevel, Goto, fields
  <2>. QED BY <1>a, <2>1 DEF LevelInv
<1>7. ASSUME NEW c \in Cpu, NEW ch \in OtherChan, Wakeup(c, ch) PROVE LevelInv'
  BY <1>7, LevelKept DEF Wakeup, Sleepers, WokenState, schedFields
<1>8. ASSUME NEW c \in Cpu, NEW p \in Proc,
             \/ Yield(c, p) \/ SysSleep(c, p)
             \/ \E ch \in OtherChan : Block(c, p, ch)
      PROVE  LevelInv'
  <2>1. state[p] = "RUNNING" /\ UNCHANGED <<sched_class, sched_level>>
    BY <1>0, <1>8, Zenon
       DEF CpuInv, Yield, SysSleep, Block, InCall, Running, schedFields
  <2>2. \/ state' = state
        \/ \E s \in ProcState : state' = [state EXCEPT ![p] = s]
    BY <1>8, StateNames, Zenon DEF Yield, SysSleep, Block, Sleep
  <2>3. pc' = pc \/ \E w \in {"user", "io"} : pc' = [pc EXCEPT ![p] = w]
    BY <1>8, Zenon DEF Yield, SysSleep, Block, Goto
  <2>. QED BY <1>a, <2>1, <2>2, <2>3, LevelKept
<1>9. ASSUME NEW c \in Cpu, NEW p \in Proc, ForkAlloc(c, p) PROVE LevelInv'
  <2>1. CASE Unused = {}
    BY <1>a, <1>9, <2>1, LevelKept DEF ForkAlloc, Goto, schedFields
  <2>2. CASE Unused # {}
    <3>1. PICK q \in Proc : q = First(Unused)
      BY <2>2, FirstIn, Zenon DEF Unused
    <3>2. /\ state' = [state EXCEPT ![q] = "EMBRYO"]
          /\ sched_class' = [sched_class EXCEPT ![q] = 2]
          /\ sched_level' = [sched_level EXCEPT ![q] = 2]
          /\ pc' = [pc EXCEPT ![p] = "fork"]
      BY <1>9, <2>2, <3>1, Zenon DEF ForkAlloc, Goto
    <3>. QED BY <1>a, <3>2 DEF LevelInv
  <2>. QED BY <2>1, <2>2, Zenon
<1>10. ASSUME NEW c \in Cpu, NEW p \in Proc, ForkFail(c, p) \/ ForkDone(c, p)
       PROVE  LevelInv'
  <2>1. child[p] \in Proc /\ state[child[p]] = "EMBRYO"
    BY <1>0, <1>10 DEF TypeOK, ForkFail, ForkDone, ForkInv
  <2>. QED BY <1>a, <1>10, <2>1, LevelKept
           DEF ForkFail, ForkDone, Goto, schedFields
<1>11. ASSUME NEW c \in Cpu, NEW p \in Proc, Exit(c, p) PROVE LevelInv'
  BY <1>11, LevelKept, Zenon DEF Exit, WokenByExit, WokenState, Sleepers, schedFields
<1>12. ASSUME NEW c \in Cpu, NEW p \in Proc, Wait(c, p) PROVE LevelInv'
  <2>1. state[p] = "RUNNING" /\ UNCHANGED <<sched_class, sched_level>>
    BY <1>0, <1>12, Zenon DEF CpuInv, Wait, Running, schedFields
  <2>2. \E w \in {"user", "wait"} : pc' = [pc EXCEPT ![p] = w]
    BY <1>12 DEF Wait, Goto
  <2>3. \/ UNCHANGED state
        \/ \E q : state' = [state EXCEPT ![q] = "UNUSED"]
        \/ state' = [state EXCEPT ![p] = "SLEEPING"]
    BY <1>12, Zenon DEF Wait, Sleep, fields
  <2>. QED BY <1>a, <2>1, <2>2, <2>3, LevelKept
<1>13. ASSUME NEW c \in Cpu, NEW p \in Proc, NEW id \in 0..MaxPid, Kill(c, p, id)
       PROVE  LevelInv'
  BY <1>a, <1>13, LevelKept DEF Kill, Goto, schedFields
<1>14. ASSUME NEW c \in Cpu, NEW p \in Proc, NEW id \in 0..MaxPid,
              NEW d \in Deadlines, SetDeadline(c, p, id, d)
       PROVE  LevelInv'
  <2>1. state' = state /\ pc' = [pc EXCEPT ![p] = "user"]
    BY <1>14, Zenon DEF SetDeadline, Goto, fields
  <2>2. CASE UNCHANGED schedFields
    BY <1>a, <2>1, <2>2, LevelKept DEF schedFields
  <2>3. CASE WithPid(id) # {} /\ ~ UNCHANGED schedFields
    <3>1. PICK q \in Proc : q = First(WithPid(id))
      BY <2>3, WithPidIn, Zenon
    <3>2. /\ sched_level' = [sched_level EXCEPT ![q] = 0]
          /\ sched_class' = [sched_class EXCEPT ![q] = 1] /\ pc[q] # "exec"
      BY <1>14, <2>3, <3>1 DEF SetDeadline, Reaches, OneCpu
    <3>. QED BY <1>a, <2>1, <3>2, Zenon DEF LevelInv
  <2>. QED BY <1>14, <2>2, <2>3, Zenon DEF SetDeadline
<1>15. ASSUME NEW c \in Cpu, NEW p \in Proc, NEW id \in 0..MaxPid, NEW l \in 0..2,
              ChangeLevel(c, p, id, l)
       PROVE  LevelInv'
  <2>1. /\ state' = state /\ sched_class' = sched_class
        /\ pc' = [pc EXCEPT ![p] = "user"]
    BY <1>15, Zenon DEF ChangeLevel, Goto, fields
  <2>2. CASE UNCHANGED sched_level
    BY <1>a, <2>1, <2>2, LevelKept
  <2>3. CASE WithPid(id) # {} /\ ~ UNCHANGED sched_level
    <3>1. PICK q \in Proc : q = First(WithPid(id))
      BY <2>3, WithPidIn, Zenon
    <3>2. sched_level' = [sched_level EXCEPT ![q] = l] /\ sched_class[q] # 1
      BY <1>15, <2>3, <3>1 DEF ChangeLevel, Relevel, Reaches, OneCpu
    <3>. QED BY <1>a, <2>1, <3>2, Zenon DEF LevelInv
  <2>. QED BY <1>15, <2>2, <2>3, Zenon DEF ChangeLevel
<1>16. CASE UNCHANGED vars
  BY <1>16, LevelKept, Zenon DEF vars, fields, schedFields
<1>. QED BY <1>1, <1>2, <1>3, <1>4, <1>5, <1>6, <1>7, <1>8, <1>9, <1>10, <1>11,
            <1>12, <1>13, <1>14, <1>15, <1>16, NextCases DEF Quiet, TimerStep
-----------------------------------------------------------------------------
\* Each counter counts its queue.

\* No RUNNABLE process comes, goes or changes queues.
LEMMA ExactKept ==
  ASSUME CountsExact, count' = count,
         \A q \in Proc : state'[q] = "RUNNABLE" <=> state[q] = "RUNNABLE",
         \A q \in Proc : state[q] = "RUNNABLE" =>
           sched_class'[q] = sched_class[q] /\ sched_level'[q] = sched_level[q]
  PROVE  CountsExact'
<1>1. ASSUME NEW k \in Queue
      PROVE  {p \in Runnable : QueueOf(p) = k}' = {p \in Runnable : QueueOf(p) = k}
  BY Zenon DEF Runnable, QueueOf
<1>. QED BY <1>1, Zenon DEF CountsExact

\* The processes of W become RUNNABLE.
LEMMA ExactEnqueue ==
  ASSUME Counting, TypeOK, CountsExact, NEW W \in SUBSET Proc, count' = Enqueue(W),
         UNCHANGED <<sched_class, sched_level>>,
         \A q \in W : state[q] # "RUNNABLE",
         \A q \in Proc :
           state'[q] = "RUNNABLE" <=> (state[q] = "RUNNABLE" \/ q \in W)
  PROVE  CountsExact'
<1>1. ASSUME NEW k \in Queue
      PROVE  count'[k] = Cardinality({p \in Runnable : QueueOf(p) = k}')
  <2>. DEFINE A == {p \in Runnable : QueueOf(p) = k}
              B == {q \in W : QueueOf(q) = k}
  <2>1. {p \in Runnable : QueueOf(p) = k}' = A \cup B
    BY Zenon DEF Runnable, QueueOf
  <2>2. A \cap B = {}
    BY Zenon DEF Runnable
  <2>3. /\ IsFiniteSet(A) /\ Cardinality(A) \in Nat
        /\ IsFiniteSet(B) /\ Cardinality(B) \in Nat
    BY ProcFinite, Zenon DEF Runnable
  <2>4. count[k] = Cardinality(A)
    BY DEF CountsExact
  <2>5. count'[k] = count[k] + Cardinality(B)
    BY DEF Enqueue
  <2>. HIDE DEF A, B
  <2>6. Cardinality(A \cup B) = Cardinality(A) + Cardinality(B) - Cardinality(A \cap B)
    BY <2>3, Zenon DEF Counting, Unions
  <2>7. Cardinality(A \cap B) = 0
    BY <2>2, Zenon DEF Counting, EmptySets
  <2>8. count'[k] = Cardinality(A \cup B)
    BY <2>3, <2>4, <2>5, <2>6, <2>7
  <2>. QED BY <2>1, <2>8, Zenon
<1>. QED BY <1>1, Zenon DEF CountsExact

\* The RUNNABLE process q changes from one queue to another.
LEMMA ExactMove ==
  ASSUME Counting, TypeOK, CountsExact, NEW q \in Proc, state[q] = "RUNNABLE", state' = state,
         NEW from \in Queue, NEW to \in Queue, from # to,
         QueueOf(q) = from, QueueOf(q)' = to, count' = Move(from, to),
         \A r \in Proc : r # q =>
           sched_class'[r] = sched_class[r] /\ sched_level'[r] = sched_level[r]
  PROVE  CountsExact'
<1>1. ASSUME NEW k \in Queue
      PROVE  count'[k] = Cardinality({p \in Runnable : QueueOf(p) = k}')
  <2>. DEFINE A == {p \in Runnable : QueueOf(p) = k}
              B == {p \in Runnable : QueueOf(p) = k}'
  <2>0. \A r \in Proc : r # q => QueueOf(r)' = QueueOf(r)
    BY DEF QueueOf
  <2>1. /\ k = from => B = A \ {q} /\ q \in A
        /\ k = to => B = A \cup {q} /\ q \notin A
        /\ k # from /\ k # to => B = A
    BY <2>0, Zenon DEF Runnable
  <2>2. IsFiniteSet(A) /\ Cardinality(A) \in Nat
    BY ProcFinite, Zenon DEF Runnable
  <2>3. count[k] = Cardinality(A)
    BY DEF CountsExact
  <2>4. count'[k] = IF k = from THEN count[k] - 1
                    ELSE IF k = to THEN count[k] + 1 ELSE count[k]
    BY DEF Move
  <2>. HIDE DEF A, B
  <2>5. /\ q \in A => Cardinality(A \ {q}) = Cardinality(A) - 1
        /\ q \notin A => Cardinality(A \cup {q}) = Cardinality(A) + 1
    BY <2>2, Zenon DEF Counting, Removals, Additions
  <2>6. count'[k] = Cardinality(B)
    BY <2>1, <2>3, <2>4, <2>5, Zenon
  <2>. QED BY <2>6, Zenon DEF B
<1>. QED BY <1>1, Zenon DEF CountsExact

LEMMA ExactSchedule ==
  ASSUME Counting, TypeOK, CountsExact, NEW c \in Cpu, Schedule(c)
  PROVE  CountsExact'
<1>1. PICK q \in Proc : q = Chosen(c) /\ state[q] = "RUNNABLE"
  BY ChosenIn, Zenon DEF Schedule, Runnable
<1>2. /\ state' = [state EXCEPT ![q] = "RUNNING"] /\ count' = Dequeue(q)
      /\ UNCHANGED <<sched_class, sched_level>>
  BY <1>1, Zenon DEF Schedule, schedFields
<1>3. ASSUME NEW k \in Queue
      PROVE  count'[k] = Cardinality({p \in Runnable : QueueOf(p) = k}')
  <2>. DEFINE A == {p \in Runnable : QueueOf(p) = k}
              B == {p \in Runnable : QueueOf(p) = k}'
  <2>0. \A r \in Proc : QueueOf(r)' = QueueOf(r)
    BY <1>2, Zenon DEF QueueOf
  <2>1. /\ k = QueueOf(q) => B = A \ {q} /\ q \in A
        /\ k # QueueOf(q) => B = A
    BY <1>1, <1>2, <2>0 DEF Runnable, TypeOK
  <2>2. IsFiniteSet(A) /\ Cardinality(A) \in Nat
    BY ProcFinite DEF Runnable
  <2>3. count[k] = Cardinality(A)
    BY DEF CountsExact
  <2>4. count'[k] = IF k = QueueOf(q) THEN count[k] - 1 ELSE count[k]
    BY <1>2 DEF Dequeue
  <2>. HIDE DEF A, B
  <2>5. q \in A => Cardinality(A \ {q}) = Cardinality(A) - 1
    BY <2>2, Zenon DEF Counting, Removals
  <2>6. count'[k] = Cardinality(B)
    BY <2>1, <2>3, <2>4, <2>5
  <2>. QED BY <2>6, Zenon DEF B
<1>. QED BY <1>3 DEF CountsExact

LEMMA ExactStep ==
  ASSUME Counting, OneCpu, TableInv, WindowInv, LevelInv, CountsExact, [Next]_vars
  PROVE  CountsExact'
<1>0. TypeOK /\ CpuInv /\ ForkInv /\ PidInv /\ QueueInv
  BY Zenon DEF TableInv
<1>a. state \in [Proc -> ProcState]
  BY <1>0 DEF TypeOK
<1>b. sched_class \in [Proc -> Level] /\ sched_level \in [Proc -> Level]
  BY <1>0 DEF TypeOK
<1>1. ASSUME NEW c \in Cpu,
             \/ Resume(c) \/ SwitchOut(c) \/ TimerTick(c) \/ AgeScan(c)
             \/ AgeRead(c) \/ TimerAccount(c)
      PROVE  CountsExact'
  BY <1>1, ExactKept, Zenon DEF Resume, SwitchOut, TimerTick, AgeScan, AgeRead,
                         TimerAccount, fields, schedFields
<1>2. ASSUME NEW q \in Proc, state[q] = "RUNNABLE", state' = state,
             sched_class' = sched_class, sched_class[q] = 2,
             NEW l \in {1, 2}, sched_level[q] # l, Relevel(q, l)
      PROVE  CountsExact'
  <2>1. sched_level' = [sched_level EXCEPT ![q] = l]
    BY <1>2, Zenon DEF Relevel
  <2>2. QueueOf(q) \in {"rr", "fcfs"}
    BY <1>0, <1>2 DEF QueueInv, CpuInv, QueueOf
  <2>3. sched_level[q] \in {1, 2}
    BY <1>2, <2>2 DEF QueueOf
  <2>4. CASE sched_level[q] = 1
    <3>1. count' = Move("rr", "fcfs")
      BY <1>2, <2>4 DEF Relevel
    <3>2. QueueOf(q) = "rr" /\ QueueOf(q)' = "fcfs"
      BY <1>b, <1>2, <2>1, <2>4 DEF QueueOf
    <3>. QED BY <1>0, <1>b, <1>2, <2>1, <3>1, <3>2, QueueNames, ExactMove
  <2>5. CASE sched_level[q] = 2
    <3>1. count' = Move("fcfs", "rr")
      BY <1>2, <2>5 DEF Relevel
    <3>2. QueueOf(q) = "fcfs" /\ QueueOf(q)' = "rr"
      BY <1>b, <1>2, <2>1, <2>5 DEF QueueOf
    <3>. QED BY <1>0, <1>b, <1>2, <2>1, <3>1, <3>2, QueueNames, ExactMove
  <2>. QED BY <2>3, <2>4, <2>5
<1>3. ASSUME NEW c \in Cpu, AgeChange(c) PROVE CountsExact'
  <2>1. PICK q \in Proc : /\ q \in FcfsCandidates /\ Relevel(q, 1)
                          /\ UNCHANGED <<state, pc, context, sched_class>>
    BY <1>0, <1>3, AgedTarget
  <2>2. state[q] = "RUNNABLE" /\ sched_class[q] = 2 /\ sched_level[q] # 1
    BY <2>1 DEF FcfsCandidates, Runnable
  <2>. QED BY <1>2, <2>1, <2>2
<1>4. ASSUME NEW c \in Cpu, NEW p \in Proc,
             \/ SysEnter(c, p) \/ SysReturn(c, p) \/ SysIsHigherWaiting(c, p)
             \/ ExitBegin(c, p) \/ AcquirePanic(c, p) \/ Fault(c, p)
      PROVE  CountsExact'
  BY <1>4, ExactKept, Zenon DEF SysEnter, SysReturn, SysIsHigherWaiting, ExitBegin,
                         AcquirePanic, Fault, fields, schedFields
<1>5. ASSUME NEW c \in Cpu, NEW p \in Proc, ExecClass(c, p) \/ ExecLevel(c, p)
      PROVE  CountsExact'
  <2>1. state[p] = "RUNNING" /\ UNCHANGED <<state, count>>
    BY <1>0, <1>5, Zenon DEF ExecClass, ExecLevel, Running, CpuInv, fields
  <2>2. \A r \in Proc : r # p =>
          sched_class'[r] = sched_class[r] /\ sched_level'[r] = sched_level[r]
    BY <1>b, <1>5, Zenon DEF ExecClass, ExecLevel
  <2>. QED BY <2>1, <2>2, ExactKept
<1>6. ASSUME NEW c \in Cpu, NEW ch \in OtherChan, Wakeup(c, ch) PROVE CountsExact'
  <2>1. /\ Sleepers(ch) \in SUBSET Proc /\ count' = Enqueue(Sleepers(ch))
        /\ UNCHANGED <<sched_class, sched_level>>
    BY <1>6, Zenon DEF Wakeup, Sleepers, schedFields
  <2>2. \A q \in Sleepers(ch) : state[q] # "RUNNABLE"
    BY Zenon DEF Sleepers
  <2>3. \A q \in Proc :
          state'[q] = "RUNNABLE" <=> (state[q] = "RUNNABLE" \/ q \in Sleepers(ch))
    BY <1>6, Zenon DEF Wakeup, WokenState
  <2>. QED BY <1>0, <2>1, <2>2, <2>3, ExactEnqueue, Zenon
<1>7. ASSUME NEW c \in Cpu, NEW p \in Proc, Yield(c, p) PROVE CountsExact'
  <2>1. /\ count' = Enqueue({p}) /\ state[p] = "RUNNING"
        /\ state' = [state EXCEPT ![p] = "RUNNABLE"]
        /\ UNCHANGED <<sched_class, sched_level>>
    BY <1>0, <1>7, Zenon DEF Yield, CpuInv, schedFields
  <2>2. {p} \in SUBSET Proc
    OBVIOUS
  <2>3. \A q \in Proc :
          state'[q] = "RUNNABLE" <=> (state[q] = "RUNNABLE" \/ q \in {p})
    BY <1>a, <2>1
  <2>. QED BY <1>0, <2>1, <2>2, <2>3, ExactEnqueue
<1>8. ASSUME NEW c \in Cpu, NEW p \in Proc,
             SysSleep(c, p) \/ \E ch \in OtherChan : Block(c, p, ch)
      PROVE  CountsExact'
  <2>1. state[p] = "RUNNING" /\ UNCHANGED <<sched_class, sched_level>>
    BY <1>0, <1>8, ZenonT(30) DEF SysSleep, Block, InCall, Running, CpuInv, schedFields
  <2>2. count' = count
    BY <1>8, <2>1, Zenon DEF SysSleep, Block, Sleep
  <2>3. state' = state \/ state' = [state EXCEPT ![p] = "SLEEPING"]
    BY <1>8, Zenon DEF SysSleep, Block, Sleep
  <2>. QED BY <1>a, <2>1, <2>2, <2>3, ExactKept
<1>9. ASSUME NEW c \in Cpu, NEW p \in Proc, ForkAlloc(c, p) PROVE CountsExact'
  <2>1. CASE Unused = {}
    BY <1>9, <2>1, ExactKept DEF ForkAlloc, schedFields
  <2>2. CASE Unused # {}
    <3>1. PICK q \in Proc : q = First(Unused) /\ state[q] = "UNUSED"
      BY <2>2, FirstIn DEF Unused
    <3>2. /\ state' = [state EXCEPT ![q] = "EMBRYO"] /\ count' = count
          /\ sched_class' = [sched_class EXCEPT ![q] = 2]
          /\ sched_level' = [sched_level EXCEPT ![q] = 2]
      BY <1>9, <2>2, <3>1 DEF ForkAlloc
    <3>. QED BY <1>a, <1>b, <3>1, <3>2, ExactKept
  <2>. QED BY <2>1, <2>2
<1>10. ASSUME NEW c \in Cpu, NEW p \in Proc, ForkFail(c, p) PROVE CountsExact'
  <2>1. state[child[p]] = "EMBRYO"
    BY <1>0, <1>10, SMTT(20) DEF ForkFail, ForkInv
  <2>. QED BY <1>a, <1>10, <2>1, ExactKept DEF ForkFail, schedFields
<1>11. ASSUME NEW c \in Cpu, NEW p \in Proc, ForkDone(c, p) PROVE CountsExact'
  <2>1. PICK q \in Proc : q = child[p] /\ state[q] = "EMBRYO"
    BY <1>0, <1>11 DEF TypeOK, ForkDone, ForkInv
  <2>2. /\ count' = Enqueue({q}) /\ state' = [state EXCEPT ![q] = "RUNNABLE"]
        /\ UNCHANGED <<sched_class, sched_level>>
    BY <1>11, <2>1 DEF ForkDone, schedFields
  <2>3. {q} \in SUBSET Proc
    OBVIOUS
  <2>4. \A r \in Proc :
          state'[r] = "RUNNABLE" <=> (state[r] = "RUNNABLE" \/ r \in {q})
    BY <1>a, <2>2
  <2>. QED BY <1>0, <2>1, <2>2, <2>3, <2>4, ExactEnqueue
<1>12. ASSUME NEW c \in Cpu, NEW p \in Proc, Exit(c, p) PROVE CountsExact'
  <2>. DEFINE W == WokenByExit(p)
  <2>1. \A q \in W : q \in Proc /\ state[q] = "SLEEPING"
    BY DEF WokenByExit, Sleepers
  <2>2. /\ state[p] = "RUNNING" /\ count' = Enqueue(W)
        /\ UNCHANGED <<sched_class, sched_level>>
    BY <1>0, <1>12, ZenonT(30) DEF Exit, Running, CpuInv, schedFields
  <2>3. state' = [[q \in Proc |-> IF q \in W THEN "RUNNABLE" ELSE state[q]]
                    EXCEPT ![p] = "ZOMBIE"]
    BY <1>12, Zenon DEF Exit, WokenState
  <2>. HIDE DEF W
  <2>4. \A q \in Proc :
          state'[q] = "RUNNABLE" <=> (state[q] = "RUNNABLE" \/ q \in W)
    BY <2>1, <2>2, <2>3
  <2>5. W \in SUBSET Proc /\ \A q \in W : state[q] # "RUNNABLE"
    BY <2>1, Zenon
  <2>. QED BY <1>0, <2>2, <2>4, <2>5, ExactEnqueue, Zenon
<1>13. ASSUME NEW c \in Cpu, NEW p \in Proc, Wait(c, p) PROVE CountsExact'
  <2>. DEFINE zombies == {q \in Children(p) : state[q] = "ZOMBIE"}
  <2>1. zombies # {} => state[First(zombies)] = "ZOMBIE"
    BY FirstIn DEF Children
  <2>2. state[p] = "RUNNING" /\ UNCHANGED <<sched_class, sched_level>>
    BY <1>0, <1>13, ZenonT(30) DEF Wait, Running, CpuInv, schedFields
  <2>3. count' = count
    BY <1>13, <2>2, Zenon DEF Wait, Sleep
  <2>4. \/ UNCHANGED state
        \/ zombies # {} /\ state' = [state EXCEPT ![First(zombies)] = "UNUSED"]
        \/ state' = [state EXCEPT ![p] = "SLEEPING"]
    BY <1>13, Zenon DEF Wait, Sleep, fields
  <2>5. \A q \in Proc : state'[q] = "RUNNABLE" <=> state[q] = "RUNNABLE"
    BY <1>a, <2>1, <2>2, <2>4
  <2>. QED BY <2>2, <2>3, <2>5, ExactKept
<1>14. ASSUME NEW c \in Cpu, NEW p \in Proc, NEW id \in 0..MaxPid, Kill(c, p, id)
       PROVE  CountsExact'
  <2>0. UNCHANGED <<sched_class, sched_level>>
    BY <1>14, Zenon DEF Kill, schedFields
  <2>1. CASE UNCHANGED <<state, count>>
    BY <2>0, <2>1, ExactKept
  <2>2. CASE /\ WithPid(id) # {} /\ state[First(WithPid(id))] = "SLEEPING"
             /\ state' = [state EXCEPT ![First(WithPid(id))] = "RUNNABLE"]
             /\ count' = Enqueue({First(WithPid(id))})
    <3>1. PICK q \in Proc : q = First(WithPid(id))
      BY <2>2, WithPidIn, Zenon
    <3>2. \A r \in Proc :
            state'[r] = "RUNNABLE" <=> (state[r] = "RUNNABLE" \/ r \in {q})
      BY <1>a, <2>2, <3>1
    <3>3. {q} \in SUBSET Proc /\ \A r \in {q} : state[r] # "RUNNABLE"
      BY <2>2, <3>1
    <3>4. count' = Enqueue({q})
      BY <2>2, <3>1, SMTT(20)
    <3>. QED BY <1>0, <2>0, <3>2, <3>3, <3>4, ExactEnqueue
  <2>. QED BY <1>14, <2>1, <2>2 DEF Kill
<1>15. ASSUME NEW c \in Cpu, NEW p \in Proc, NEW id \in 0..MaxPid,
              NEW d \in Deadlines, SetDeadline(c, p, id, d)
       PROVE  CountsExact'
  <2>1. state' = state
    BY <1>15, Zenon DEF SetDeadline, fields
  <2>2. CASE UNCHANGED <<sched_class, sched_level, count>>
    BY <2>1, <2>2, ExactKept
  <2>3. ASSUME NEW q \in Proc,
               sched_level' = [sched_level EXCEPT ![q] = 0],
               sched_class' = [sched_class EXCEPT ![q] = 1],
               count' = IF state[q] # "RUNNABLE" THEN count
                        ELSE IF sched_level[q] = 1 THEN Move("rr", "edf")
                        ELSE IF sched_level[q] = 2 THEN Move("fcfs", "edf")
                        ELSE count
        PROVE  CountsExact'
    <3>1. /\ QueueOf(q)' = "edf"
          /\ \A r \in Proc : r # q =>
               sched_class'[r] = sched_class[r] /\ sched_level'[r] = sched_level[r]
      BY <1>b, <2>3, Zenon DEF QueueOf
    <3>2. CASE state[q] # "RUNNABLE"
      <4>1. count' = count
        BY <2>3, <3>2, Zenon
      <4>. QED BY <2>1, <3>1, <3>2, <4>1, ExactKept
    <3>3. CASE state[q] = "RUNNABLE"
      <4>1. sched_class[q] = 1 \/ (sched_class[q] = 2 /\ sched_level[q] \in {1, 2})
        BY <1>0, <3>3 DEF QueueInv, CpuInv, QueueOf
      <4>2. CASE sched_class[q] = 1
        <5>1. sched_level[q] = 0
          BY <3>3, <4>2, Zenon DEF LevelInv
        <5>2. count' = count
          BY <2>3, <5>1
        <5>3. \A r \in Proc :
                sched_class'[r] = sched_class[r] /\ sched_level'[r] = sched_level[r]
          BY <1>b, <2>3, <4>2, <5>1
        <5>. QED BY <2>1, <5>2, <5>3, ExactKept
      <4>3. CASE sched_class[q] = 2 /\ sched_level[q] = 1
        <5>1. count' = Move("rr", "edf") /\ QueueOf(q) = "rr"
          BY <2>3, <3>3, <4>3 DEF QueueOf
        <5>. QED BY <1>0, <2>1, <3>1, <3>3, <5>1, QueueNames, ExactMove
      <4>4. CASE sched_class[q] = 2 /\ sched_level[q] = 2
        <5>1. count' = Move("fcfs", "edf") /\ QueueOf(q) = "fcfs"
          BY <2>3, <3>3, <4>4, SMTT(20) DEF QueueOf
        <5>. QED BY <1>0, <2>1, <3>1, <3>3, <5>1, QueueNames, ExactMove
      <4>. QED BY <4>1, <4>2, <4>3, <4>4
    <3>. QED BY <3>2, <3>3, Zenon
  <2>. QED BY <1>15, <2>2, <2>3, WithPidIn, Zenon DEF SetDeadline, schedFields
<1>16. ASSUME NEW c \in Cpu, NEW p \in Proc, NEW id \in 0..MaxPid, NEW l \in 0..2,
              ChangeLevel(c, p, id, l)
       PROVE  CountsExact'
  <2>1. state' = state /\ sched_class' = sched_class
    BY <1>16, Zenon DEF ChangeLevel, fields
  <2>2. CASE UNCHANGED <<sched_level, count>>
    BY <2>1, <2>2, ExactKept, Zenon
  <2>3. ASSUME NEW q \in Proc, l \in {1, 2}, sched_level[q] # l, sched_class[q] # 1,
               Relevel(q, l)
        PROVE  CountsExact'
    <3>1. CASE state[q] # "RUNNABLE"
      <4>1. count' = count /\ sched_level' = [sched_level EXCEPT ![q] = l]
        BY <2>3, <3>1, Zenon DEF Relevel
      <4>. QED BY <1>b, <2>1, <3>1, <4>1, ExactKept, Zenon
    <3>2. CASE state[q] = "RUNNABLE"
      <4>1. sched_class[q] = 2
        BY <1>0, <2>3, <3>2, Zenon DEF QueueInv
      <4>. QED BY <1>2, <2>1, <2>3, <3>2, <4>1, Zenon
    <3>. QED BY <3>1, <3>2, Zenon
  <2>4. CASE l \notin {1, 2} \/ WithPid(id) = {}
    <3>1. UNCHANGED <<sched_level, count>>
      BY <1>16, <2>4, Zenon DEF ChangeLevel
    <3>. QED BY <2>2, <3>1, Zenon
  <2>5. CASE l \in {1, 2} /\ WithPid(id) # {}
    <3>1. PICK q \in Proc : q = First(WithPid(id))
      BY <2>5, WithPidIn, Zenon
    <3>2. /\ sched_class[q] # 1
          /\ \/ UNCHANGED <<sched_level, count>>
             \/ sched_level[q] # l /\ Relevel(q, l)
      BY <1>16, <2>5, <3>1, Zenon DEF ChangeLevel, Reaches, OneCpu
    <3>. QED BY <2>2, <2>3, <2>5, <3>2, Zenon
  <2>. QED BY <2>4, <2>5, Zenon
<1>17. CASE UNCHANGED vars
  BY <1>17, ExactKept, Zenon DEF vars, fields, schedFields
<1>. QED BY <1>0, ExactSchedule, <1>1, <1>3, <1>4, <1>5, <1>6, <1>7, <1>8, <1>9,
            <1>10, <1>11, <1>12, <1>13, <1>14, <1>15, <1>16, <1>17,
            NextCases DEF Quiet, TimerStep
LEMMA OneCpuInit == ASSUME Counting PROVE Init => OneCpuInv
<1>. SUFFICES ASSUME Init PROVE OneCpuInv
  OBVIOUS
<1>0. initproc \in Proc
  BY SizeAssumption DEF initproc, Proc
<1>1. TableInv
  BY TableInit
<1>2. \A c \in Cpu : intr[c].at = "none"
  BY Zenon DEF Init, Idle
<1>3. WindowInv
  BY <1>2, Zenon DEF WindowInv
<1>4. /\ \A p \in Proc : state[p] = "RUNNABLE" <=> p = initproc
      /\ \A p \in Proc : sched_class[p] # 1 /\ pc[p] = "user"
      /\ QueueOf(initproc) = "rr"
  <2>1. /\ state = [p \in Proc |-> IF p = initproc THEN "RUNNABLE" ELSE "UNUSED"]
        /\ sched_class = [p \in Proc |-> IF p = initproc THEN 2 ELSE 0]
        /\ sched_level = [p \in Proc |-> IF p = initproc THEN 1 ELSE 0]
        /\ pc = [p \in Proc |-> "user"]
    BY Zenon DEF Init
  <2>. QED BY <1>0, <2>1 DEF QueueOf
<1>5. LevelInv
  BY <1>4, Zenon DEF LevelInv
<1>6. ASSUME NEW k \in Queue
      PROVE  {p \in Runnable : QueueOf(p) = k} = IF k = "rr" THEN {initproc} ELSE {}
  BY <1>0, <1>4, Zenon DEF Runnable
<1>7. ASSUME NEW k \in Queue
      PROVE  count[k] = Cardinality({p \in Runnable : QueueOf(p) = k})
  <2>1. count[k] = IF k = "rr" THEN 1 ELSE 0
    BY Zenon DEF Init
  <2>2. Cardinality({initproc}) = 1
    BY Zenon DEF Counting, Singletons
  <2>3. Cardinality({}) = 0
    BY DEF Counting, EmptySets
  <2>4. CASE k = "rr"
    BY <1>6, <2>1, <2>2, <2>4
  <2>5. CASE k # "rr"
    BY <1>6, <2>1, <2>3, <2>5
  <2>. QED BY <2>4, <2>5
<1>. QED BY <1>1, <1>3, <1>5, <1>7, Zenon DEF OneCpuInv, CountsExact

LEMMA OneCpuStep == ASSUME Counting, OneCpu PROVE OneCpuInv /\ [Next]_vars => OneCpuInv'
<1>1. ASSUME OneCpuInv, [Next]_vars PROVE OneCpuInv'
  <2>1. TableInv /\ WindowInv /\ LevelInv /\ CountsExact /\ TypeOK
    BY <1>1 DEF OneCpuInv, TableInv
  <2>2. TableInv'
    BY <1>1, <2>1, TableStep, Zenon
  <2>3. WindowInv'
    BY <1>1, <2>1, WindowStep
  <2>4. LevelInv'
    BY <1>1, <2>1, LevelStep
  <2>5. CountsExact'
    BY <1>1, <2>1, ExactStep, Zenon
  <2>. QED BY <2>2, <2>3, <2>4, <2>5, Zenon DEF OneCpuInv
<1>. QED BY <1>1

-----------------------------------------------------------------------------
\* What scheduler() chooses.

\* Every RUNNABLE process is in a queue, and the queue has a counter above 0.
LEMMA RunnableCounted ==
  ASSUME Counting, OneCpuInv, NEW p \in Runnable
  PROVE  p \in Proc /\ QueueOf(p) \in Queue /\ count[QueueOf(p)] > 0
<1>1. p \in Proc /\ state[p] = "RUNNABLE"
  BY Zenon DEF Runnable
<1>2. QueueOf(p) # "none"
  BY <1>1, Zenon DEF OneCpuInv, TableInv, QueueInv, CpuInv
<1>3. QueueOf(p) \in Queue
  BY <1>2, Zenon DEF QueueOf, Queue
<1>. DEFINE Q == {q \in Runnable : QueueOf(q) = QueueOf(p)}
<1>4. count[QueueOf(p)] = Cardinality(Q)
  BY <1>3, Zenon DEF OneCpuInv, CountsExact
<1>5. IsFiniteSet(Q) /\ Cardinality(Q) \in Nat /\ Q # {}
  BY ProcFinite, Zenon DEF Runnable
<1>. HIDE DEF Q
<1>6. Cardinality(Q) # 0
  BY <1>5 DEF Counting, EmptySets
<1>. QED BY <1>1, <1>3, <1>4, <1>5, <1>6

\* A counter above 0 has a RUNNABLE process.
LEMMA CountedRunnable ==
  ASSUME Counting, OneCpuInv, NEW k \in Queue, count[k] > 0
  PROVE  \E q \in Runnable : QueueOf(q) = k
<1>. DEFINE Q == {q \in Runnable : QueueOf(q) = k}
<1>1. count[k] = Cardinality(Q)
  BY DEF OneCpuInv, CountsExact
<1>2. Q # {}
  <2>1. Cardinality({}) = 0
    BY DEF Counting, EmptySets
  <2>. HIDE DEF Q
  <2>. QED BY <1>1, <2>1
<1>. QED BY <1>2, Zenon

LEMMA ChosenExists ==
  ASSUME Counting, OneCpuInv, NEW c \in Cpu, NEW p \in Runnable
  PROVE  Chosen(c) # 0
<1>0. TypeOK
  BY Zenon DEF OneCpuInv, TableInv
<1>1. count["edf"] \in Int /\ count["rr"] \in Int /\ count["fcfs"] \in Int
  BY <1>0, QueueNames, Zenon DEF TypeOK
<1>2. count["edf"] > 0 => EdfCandidates # {}
  BY CountedRunnable, QueueNames, Zenon DEF EdfCandidates, QueueOf
<1>3. count["rr"] > 0 => RrCandidates # {}
  BY CountedRunnable, QueueNames, Zenon DEF RrCandidates, QueueOf
<1>4. count["fcfs"] > 0 => FcfsCandidates # {}
  BY CountedRunnable, QueueNames, Zenon DEF FcfsCandidates, QueueOf
<1>5. count["edf"] > 0 \/ count["rr"] > 0 \/ count["fcfs"] > 0
  BY RunnableCounted DEF Queue
<1>6. \A q \in Runnable : q # 0
  BY DEF Runnable, Proc
<1>7. CASE count["edf"] > 0
  <2>1. PickEdf \in Runnable
    BY <1>0, <1>2, <1>7, PickEdfIn, Zenon DEF EdfCandidates
  <2>. QED BY <1>2, <1>6, <1>7, <2>1, Zenon DEF Chosen
<1>8. CASE ~ (count["edf"] > 0) /\ count["rr"] > 0
  <2>1. PickRr(c) \in Runnable
    BY <1>0, <1>3, <1>8, PickRrIn, Zenon DEF RrCandidates
  <2>. QED BY <1>3, <1>6, <1>8, <2>1, Zenon DEF Chosen
<1>9. CASE ~ (count["edf"] > 0) /\ ~ (count["rr"] > 0)
  <2>1. PickFcfs \in Runnable
    BY <1>0, <1>4, <1>5, <1>9, PickFcfsIn DEF FcfsCandidates
  <2>. QED BY <1>4, <1>5, <1>6, <1>9, <2>1, Zenon DEF Chosen
<1>. QED BY <1>7, <1>8, <1>9, Zenon

LEMMA ChosenRank ==
  ASSUME Counting, OneCpuInv, NEW c \in Cpu, Chosen(c) # 0, NEW q \in Runnable
  PROVE  Rank(Chosen(c)) <= Rank(q)
<1>0. TypeOK /\ LevelInv /\ QueueInv
  BY Zenon DEF OneCpuInv, TableInv
<1>1. count["edf"] \in Int /\ count["rr"] \in Int
  BY <1>0, QueueNames DEF TypeOK
<1>2. PICK p \in Proc : p = Chosen(c) /\ state[p] = "RUNNABLE"
  BY <1>0, ChosenIn DEF Runnable
<1>3. /\ QueueOf(q) \in Queue /\ count[QueueOf(q)] > 0
      /\ Rank(q) \in {1, 2, 3} /\ Rank(p) \in {1, 2, 3}
  BY RunnableCounted, Zenon DEF Rank
<1>4. CASE count["edf"] > 0
  <2>1. QueueOf(p) = "edf"
    BY <1>0, <1>2, <1>4, ChosenIn DEF EdfCandidates, QueueOf
  <2>2. Rank(p) = 1
    BY <2>1, Zenon DEF Rank
  <2>. QED BY <1>2, <1>3, <2>2
<1>5. CASE count["edf"] <= 0 /\ count["rr"] > 0
  <2>1. sched_level[p] = 1
    BY <1>0, <1>2, <1>5, ChosenIn DEF RrCandidates
  <2>2. QueueOf(p) = "rr"
    BY <1>0, <1>2, <2>1 DEF LevelInv, QueueInv, QueueOf
  <2>3. Rank(p) = 2
    BY <2>2, Zenon DEF Rank
  <2>4. QueueOf(q) # "edf"
    BY <1>1, <1>3, <1>5
  <2>5. Rank(q) # 1
    BY <2>4 DEF Rank
  <2>. QED BY <1>2, <1>3, <2>3, <2>5
<1>6. CASE count["edf"] <= 0 /\ count["rr"] <= 0
  <2>1. QueueOf(q) # "edf" /\ QueueOf(q) # "rr"
    BY <1>1, <1>3, <1>6
  <2>2. Rank(q) = 3
    BY <2>1, Zenon DEF Rank
  <2>. QED BY <1>2, <1>3, <2>2
<1>. QED BY <1>1, <1>4, <1>5, <1>6
\* Only the loop of scheduler() gives a CPU a process.
LEMMA OnlySchedule ==
  ASSUME TypeOK, [Next]_vars, NEW c \in Cpu, cproc[c] = 0, cproc'[c] # 0
  PROVE  Chosen(c) # 0 /\ cproc'[c] = Chosen(c)
<1>0. cproc \in [Cpu -> Proc \cup {0}]
  BY DEF TypeOK
<1>1. ASSUME NEW d \in Cpu, Schedule(d) PROVE Chosen(c) # 0 /\ cproc'[c] = Chosen(c)
  BY <1>0, <1>1, Zenon DEF Schedule
<1>2. ASSUME NEW d \in Cpu, SwitchOut(d) PROVE FALSE
  BY <1>0, <1>2, Zenon DEF SwitchOut
<1>3. ASSUME NEW d \in Cpu,
             Resume(d) \/ Quiet(d) \/ \E ch \in OtherChan : Wakeup(d, ch)
      PROVE  cproc' = cproc
  BY <1>3, QuietKeeps, Zenon DEF Resume, Wakeup
<1>4. ASSUME NEW d \in Cpu, NEW p \in Proc,
             \/ Yield(d, p) \/ SysSleep(d, p)
             \/ \E ch \in OtherChan : Block(d, p, ch)
             \/ ForkAlloc(d, p) \/ ForkFail(d, p) \/ ForkDone(d, p)
             \/ Exit(d, p) \/ Wait(d, p)
             \/ \E id \in 0..MaxPid : Kill(d, p, id)
             \/ \E id \in 0..MaxPid, l \in 0..2 : ChangeLevel(d, p, id, l)
      PROVE  cproc' = cproc
  BY <1>4, Zenon DEF Yield, SysSleep, Block, ForkAlloc, ForkFail, ForkDone, Exit, Wait,
              Kill, ChangeLevel
<1>5. CASE UNCHANGED vars
  BY <1>5, Zenon DEF vars
<1>. QED BY <1>1, <1>2, <1>3, <1>4, <1>5, NextCases

-----------------------------------------------------------------------------
\* The steps of the two theorems about actions.

LEMMA ReapedStep ==
  ASSUME Counting, TableInv, [Next]_vars, NEW q \in Proc,
         state[q] = "ZOMBIE", state'[q] = "UNUSED", NEW d \in Cpu
  PROVE  cproc[d] # q
<1>0. SUFFICES ASSUME cproc[d] = q PROVE FALSE
  OBVIOUS
<1>1. TypeOK /\ CpuInv
  BY Zenon DEF TableInv
<1>2. PICK c \in Cpu, p \in Proc : Wait(c, p)
  <2>1. state'[q] # "ZOMBIE"
    OBVIOUS
  <2>. QED BY <2>1, ZombieStays, Zenon
<1>3. cproc[c] = p /\ state[p] = "RUNNING" /\ ptlock \in {NoCpu, c}
  BY <1>1, <1>2, Zenon DEF Wait, Running, CpuInv
<1>4. d = c
  <2>1. cproc[d] # 0 /\ state[cproc[d]] # "RUNNING"
    BY <1>0 DEF Proc
  <2>2. ptlock = d
    BY <1>1, <2>1, Zenon DEF CpuInv, OnOneCpu
  <2>. QED BY <1>3, <2>2, NoCpuIsNone, Zenon
<1>. QED BY <1>0, <1>3, <1>4

LEMMA PriorityStep ==
  ASSUME Counting, OneCpu, OneCpuInv, [Next]_vars,
         NEW c \in Cpu, cproc[c] = 0, cproc'[c] # 0, NEW q \in Runnable
  PROVE  Rank(cproc'[c]) <= Rank(q)
<1>1. TypeOK
  BY Zenon DEF OneCpuInv, TableInv
<1>2. Chosen(c) # 0 /\ cproc'[c] = Chosen(c)
  BY <1>1, OnlySchedule
<1>. QED BY <1>2, ChosenRank

-----------------------------------------------------------------------------
\* The facts about finite sets, from the library.

FT == INSTANCE FiniteSetTheorems

LEMMA SetsAre ==
  /\ \A S : FT!IsFiniteSet(S) = IsFiniteSet(S)
  /\ \A S : FT!Cardinality(S) = Cardinality(S)
BY DEF FT!IsFiniteSet, IsFiniteSet, FT!Cardinality, Cardinality

LEMMA Counted == Counting
<1>1. Least
  <2>. SUFFICES ASSUME NEW T \in SUBSET Nat, T # {} PROVE \E x \in T : \A y \in T : x <= y
    BY Zenon DEF Least
  <2>1. PICK x \in T : \A y \in T : ~(<<y, x>> \in FT!OpToRel(<, Nat))
    BY FT!NatLessThanWellFounded, FT!WFMin, Zenon
  <2>2. \A y \in T : ~(y < x)
    BY <2>1, Zenon DEF FT!OpToRel
  <2>. QED BY <2>2
<1>2. Sizes
  BY FT!FS_CardinalityType, SetsAre, Zenon DEF Sizes
<1>3. EmptySets
  BY FT!FS_EmptySet, SetsAre, Zenon DEF EmptySets
<1>4. Singletons
  BY FT!FS_Singleton, SetsAre, Zenon DEF Singletons
<1>5. Intervals
  BY FT!FS_Interval, SetsAre DEF Intervals
<1>6. Subsets
  BY FT!FS_Subset, SetsAre, Zenon DEF Subsets
<1>7. Additions
  BY FT!FS_AddElement, SetsAre, Zenon DEF Additions
<1>8. Removals
  BY FT!FS_RemoveElement, SetsAre, Zenon DEF Removals
<1>9. Unions
  BY FT!FS_Union, SetsAre, Zenon DEF Unions
<1>10. Products
  BY FT!FS_Product, SetsAre, Zenon DEF Products
<1>11. Images
  <2>. SUFFICES ASSUME NEW S, NEW T, NEW f, IsFiniteSet(S), Onto(f, S, T)
                PROVE  /\ IsFiniteSet(T) /\ Cardinality(T) <= Cardinality(S)
                       /\ (\A a, b \in S : f[a] = f[b] => a = b) => Cardinality(T) = Cardinality(S)
    BY Zenon DEF Images
  <2>1. f \in FT!Surjection(S, T)
    BY Zenon DEF FT!Surjection, Onto
  <2>2. (\A a, b \in S : f[a] = f[b] => a = b) => f \in FT!Injection(S, T)
    BY Zenon DEF FT!Injection, FT!IsInjective, Onto
  <2>3. /\ IsFiniteSet(T) /\ Cardinality(T) <= Cardinality(S)
        /\ Cardinality(T) = Cardinality(S) <=> f \in FT!Injection(S, T)
    BY <2>1, FT!FS_Surjection, SetsAre, Zenon
  <2>. QED BY <2>2, <2>3, Zenon
<1>. QED BY <1>1, <1>2, <1>3, <1>4, <1>5, <1>6, <1>7, <1>8, <1>9, <1>10, <1>11, Zenon DEF Counting

-----------------------------------------------------------------------------
\* Every field of the process table and of the CPUs keeps a value that its C
\* type and the code allow (proc.h:1-70, proc.c:80-523).
THEOREM TypeCorrect == Spec => []TypeOK
<1>1. Init => TypeOK
  BY TypeInit, Zenon
<1>2. TypeOK /\ [Next]_vars => TypeOK'
  BY TypeStep, Counted
<1>. QED BY <1>1, <1>2, PTL DEF Spec

\* The process table stays consistent, whatever the programs call, on any
\* number of CPUs (proc.c:80-135, 213-368, 379-523).
THEOREM TableConsistent == Spec => []TableInv
<1>1. Init => TableInv
  BY TableInit
<1>2. TableInv /\ [Next]_vars => TableInv'
  BY TableStep, Counted
<1>. QED BY <1>1, <1>2, PTL DEF Spec

\* No process is ever on two CPUs, and only the holder of ptable.lock is on
\* the stack of one that is not RUNNING (scheduler() and sched()).
THEOREM OnOneCpuAlways == Spec => []OnOneCpu
<1>1. TableInv => OnOneCpu
  BY Zenon DEF TableInv, CpuInv
<1>. QED BY <1>1, TableConsistent, PTL

\* A parent never sleeps in wait() with a zombie child to collect: exit()
\* cannot slip in between the scan and the sleep.
THEOREM NoLostExitAlways == Spec => []NoLostExit
<1>1. TableInv => NoLostExit
  BY DEF TableInv
<1>. QED BY <1>1, TableConsistent, PTL

\* wait() frees the stack of a process only when no CPU is on it.
THEOREM ReapedOffCpuAlways == Spec => ReapedOffCpu
<1>1. TableInv /\ [Next]_vars =>
        [\A p \in Proc : state[p] = "ZOMBIE" /\ state'[p] = "UNUSED"
           => \A c \in Cpu : cproc[c] # p]_vars
  BY ReapedStep, Counted
<1>. QED BY <1>1, TableConsistent, PTL DEF Spec, ReapedOffCpu

\* The three counters together count the RUNNABLE processes, on any number of
\* CPUs and whatever the programs call: every place that enters or leaves
\* RUNNABLE adjusts one of them.
THEOREM CountsSumAlways == Spec => []CountsSum
<1>1. Init => TableInv /\ CountsSum
  BY TableInit, SumInit, Counted
<1>2. TableInv /\ CountsSum /\ [Next]_vars => TableInv' /\ CountsSum'
  BY TableStep, SumStep, Counted
<1>. QED BY <1>1, <1>2, PTL DEF Spec

\* On one CPU the invariant the three results below rest on is kept by the
\* scheduler, the timer's aging and every system call.
THEOREM OneCpuInvAlways == ASSUME OneCpu PROVE Spec => []OneCpuInv
<1>1. Init => OneCpuInv
  BY OneCpuInit, Counted
<1>2. OneCpuInv /\ [Next]_vars => OneCpuInv'
  BY OneCpuStep, Counted
<1>. QED BY <1>1, <1>2, PTL DEF Spec

\* On one CPU each counter is the number of RUNNABLE processes of its queue,
\* which is what scheduler() takes it for.
THEOREM CountsExactAlways == ASSUME OneCpu PROVE Spec => []CountsExact
<1>1. OneCpuInv => CountsExact
  BY Zenon DEF OneCpuInv
<1>. QED BY <1>1, OneCpuInvAlways, PTL

\* On one CPU scheduler() never idles while a process is RUNNABLE.
THEOREM WorkConservingAlways == ASSUME OneCpu PROVE Spec => []WorkConserving
<1>1. OneCpuInv => WorkConserving
  BY ChosenExists, Counted DEF WorkConserving
<1>. QED BY <1>1, OneCpuInvAlways, PTL

\* On one CPU scheduler() runs a process only when no process of a higher
\* queue waits.
THEOREM PriorityRespectedAlways == ASSUME OneCpu PROVE Spec => PriorityRespected
<1>1. OneCpuInv /\ [Next]_vars =>
        [\A c \in Cpu : cproc[c] = 0 /\ cproc'[c] # 0
           => \A q \in Runnable : Rank(cproc'[c]) <= Rank(q)]_vars
  BY PriorityStep, Counted, Zenon
<1>. QED BY <1>1, OneCpuInvAlways, PTL DEF Spec, PriorityRespected
=============================================================================
