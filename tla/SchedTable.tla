----------------------------- MODULE SchedTable -----------------------------
(***************************************************************************)
(* The process table stays consistent whatever the programs call, for any  *)
(* number of slots and CPUs: TypeOK and TableInv are inductive.            *)
(***************************************************************************)
EXTENDS Sched, Counting, TLAPS

USE SizeAssumption

-----------------------------------------------------------------------------
\* Facts about the helpers.

\* First(S), the search for the lowest matching slot, finds one.
LEMMA FirstIn ==
  ASSUME Counting, NEW S \in SUBSET Proc, S # {}
  PROVE  First(S) \in S /\ \A j \in S : First(S) <= j
<1>1. S \in SUBSET Nat
  BY DEF Proc
<1>2. \E i \in S : \A j \in S : i <= j
  BY <1>1 DEF Counting, Least
<1>. QED BY <1>2 DEF First

\* The slots are finitely many.
LEMMA ProcFinite ==
  ASSUME Counting, NEW W \in SUBSET Proc
  PROVE  IsFiniteSet(W) /\ Cardinality(W) \in Nat
<1>1. IsFiniteSet(Proc)
  BY DEF Proc, Counting, Intervals
<1>. QED BY <1>1 DEF Counting, Subsets, Sizes

LEMMA EnqueueType ==
  ASSUME Counting, count \in [Queue -> Int], NEW W, IsFiniteSet(W)
  PROVE  Enqueue(W) \in [Queue -> Int]
<1>1. ASSUME NEW k \in Queue
      PROVE  Cardinality({q \in W : QueueOf(q) = k}) \in Nat
  BY DEF Counting, Subsets, Sizes
<1>. QED BY <1>1 DEF Enqueue

\* Some RUNNABLE EDF process has the least deadline, and some FCFS process
\* the greatest age: the two searches of scheduler() find one.
LEMMA PickEdfIn ==
  ASSUME Counting, TypeOK, EdfCandidates # {}
  PROVE  PickEdf \in EdfCandidates
<1>. DEFINE T == {deadline[p] : p \in EdfCandidates}
<1>1. EdfCandidates \in SUBSET Proc
  BY DEF EdfCandidates, Runnable
<1>2. T \in SUBSET Nat /\ T # {}
  <2>1. \A p \in EdfCandidates : deadline[p] \in Nat
    BY <1>1 DEF TypeOK
  <2>. QED BY <2>1
<1>3. PICK x \in T : \A y \in T : x <= y
  BY <1>2, Zenon DEF Counting, Least
<1>4. {p \in EdfCandidates : \A q \in EdfCandidates : deadline[p] <= deadline[q]}
        # {}
  BY <1>3
<1>. QED BY <1>1, <1>4, FirstIn DEF PickEdf

LEMMA PickFcfsIn ==
  ASSUME Counting, TypeOK, FcfsCandidates # {}
  PROVE  PickFcfs \in FcfsCandidates
<1>. DEFINE T == {MaxAge - age[p] : p \in FcfsCandidates}
<1>1. FcfsCandidates \in SUBSET Proc
  BY DEF FcfsCandidates, Runnable
<1>a. \A p \in FcfsCandidates : age[p] \in Age
  BY <1>1 DEF TypeOK
<1>2. T \in SUBSET Nat /\ T # {}
  <2>1. \A p \in FcfsCandidates : MaxAge - age[p] \in Nat
    BY <1>a, AgeAssumption DEF Age
  <2>. QED BY <2>1
<1>3. PICK x \in T : \A y \in T : x <= y
  BY <1>2, Zenon DEF Counting, Least
<1>4. PICK p \in FcfsCandidates : x = MaxAge - age[p]
  BY <1>3
<1>5. \A q \in FcfsCandidates : age[p] >= age[q]
  <2>1. ASSUME NEW q \in FcfsCandidates PROVE age[p] >= age[q]
    <3>1. MaxAge - age[p] <= MaxAge - age[q]
      BY <1>3, <1>4
    <3>. QED BY <3>1, <1>a, AgeAssumption DEF Age
  <2>. QED BY <2>1
<1>6. {i \in FcfsCandidates : \A q \in FcfsCandidates : age[i] >= age[q]} # {}
  BY <1>5
<1>. QED BY <1>1, <1>6, FirstIn, Zenon DEF PickFcfs

LEMMA PickRrIn ==
  ASSUME Counting, TypeOK, NEW c \in Cpu, RrCandidates # {}
  PROVE  PickRr(c) \in RrCandidates
<1>. DEFINE ahead == {p \in RrCandidates : p >= nextrrp[c]}
<1>1. RrCandidates \in SUBSET Proc /\ ahead \in SUBSET Proc
  BY DEF RrCandidates, Runnable
<1>2. CASE ahead # {}
  BY <1>1, <1>2, FirstIn DEF PickRr
<1>3. CASE ahead = {}
  BY <1>1, <1>3, FirstIn DEF PickRr
<1>. QED BY <1>2, <1>3

\* What scheduler() chooses is RUNNABLE, and of the queue whose counter is
\* positive.
LEMMA ChosenIn ==
  ASSUME Counting, TypeOK, NEW c \in Cpu, Chosen(c) # 0
  PROVE  /\ Chosen(c) \in Runnable
         /\ count["edf"] > 0 => Chosen(c) \in EdfCandidates
         /\ count["edf"] <= 0 /\ count["rr"] > 0 => Chosen(c) \in RrCandidates
         /\ count["edf"] <= 0 /\ count["rr"] <= 0 =>
              Chosen(c) \in FcfsCandidates
<1>1. count["edf"] \in Int /\ count["rr"] \in Int
  BY DEF TypeOK, Queue
<1>2. CASE count["edf"] > 0
  BY <1>1, <1>2, PickEdfIn DEF Chosen, EdfCandidates
<1>3. CASE count["edf"] <= 0 /\ count["rr"] > 0
  BY <1>1, <1>3, PickRrIn DEF Chosen, RrCandidates
<1>4. CASE count["edf"] <= 0 /\ count["rr"] <= 0
  BY <1>1, <1>4, PickFcfsIn DEF Chosen, FcfsCandidates
<1>. QED BY <1>1, <1>2, <1>3, <1>4
-----------------------------------------------------------------------------
\* Type correctness.

\* The named sets of values hold the constants the code stores.
LEMMA StateNames ==
  /\ "UNUSED" \in ProcState /\ "EMBRYO" \in ProcState /\ "SLEEPING" \in ProcState
  /\ "RUNNABLE" \in ProcState /\ "RUNNING" \in ProcState /\ "ZOMBIE" \in ProcState
BY DEF ProcState

LEMMA ContextNames ==
  /\ "forkret" \in Context /\ "yield" \in Context /\ "sleep" \in Context
  /\ "wait" \in Context /\ "run" \in Context /\ "zombie" \in Context
BY DEF Context

LEMMA PlaceNames ==
  /\ "user" \in Place /\ "sys" \in Place /\ "io" \in Place /\ "fork" \in Place
  /\ "wait" \in Place /\ "exec" \in Place /\ "exit" \in Place /\ "yield" \in Place
BY DEF Place

LEMMA Numbers ==
  /\ 0 \in Age /\ 0 \in Bit /\ 1 \in Bit
  /\ 0 \in Level /\ 1 \in Level /\ 2 \in Level
  /\ initproc \in Proc
BY AgeAssumption DEF Age, Bit, Level, initproc, Proc

LEMMA Messages == "" \in Message /\ "acquire" \in Message /\ "init exiting" \in Message
BY DEF Message

LEMMA DequeueType ==
  ASSUME count \in [Queue -> Int], NEW p
  PROVE  Dequeue(p) \in [Queue -> Int]
BY DEF Dequeue

LEMMA MoveType ==
  ASSUME count \in [Queue -> Int], NEW from, NEW to
  PROVE  Move(from, to) \in [Queue -> Int]
BY DEF Move

LEMMA NoDeadlineType == NoDeadline \in Nat
BY SMT DEF NoDeadline

LEMMA WithPidIn ==
  ASSUME Counting, NEW id, WithPid(id) # {}
  PROVE  First(WithPid(id)) \in Proc /\ pid[First(WithPid(id))] = id
BY FirstIn DEF WithPid

LEMMA TypeInit == Init => TypeOK
<1>1. NoDeadline \in Nat
  BY NoDeadlineType
<1>2. 1 \in Proc /\ 0 \in Chan /\ Idle \in HandlerState
  BY DEF Proc, Chan, Idle, HandlerState
<1>. SUFFICES ASSUME Init PROVE TypeOK
  OBVIOUS
<1>3. state \in [Proc -> ProcState] /\ pid \in [Proc -> Nat]
  BY StateNames, Zenon DEF Init
<1>4. parent \in [Proc -> Proc \cup {0}] /\ chan \in [Proc -> Chan]
  BY <1>2, Zenon DEF Init
<1>5. /\ killed \in [Proc -> Bit]
      /\ sched_class \in [Proc -> Level] /\ sched_level \in [Proc -> Level]
      /\ age \in [Proc -> Age] /\ yields \in [Proc -> Level]
  BY Numbers, Zenon DEF Init
<1>6. deadline \in [Proc -> Nat] /\ rr_ticks \in [Proc -> Nat]
  BY <1>1, Zenon DEF Init
<1>7. context \in [Proc -> Context] /\ pc \in [Proc -> Place] /\ panic \in Message
  BY ContextNames, PlaceNames, Messages, Zenon DEF Init
<1>8. /\ child \in [Proc -> Proc \cup {0}] /\ cproc \in [Cpu -> Proc \cup {0}]
      /\ nextrrp \in [Cpu -> Proc] /\ intr \in [Cpu -> HandlerState]
  BY <1>2, Zenon DEF Init
<1>9. ptlock \in Cpu \cup {NoCpu} /\ nextpid \in Nat
  BY Zenon DEF Init
<1>10. count \in [Queue -> Int]
  <2>1. count = [k \in Queue |-> IF k = "rr" THEN 1 ELSE 0]
    BY Zenon DEF Init
  <2>. QED BY <2>1
<1>. QED BY <1>10, <1>3, <1>4, <1>5, <1>6, <1>7, <1>8, <1>9 DEF TypeOK

\* Every step keeps the types.
LEMMA TypeStep == ASSUME Counting PROVE TypeOK /\ [Next]_vars => TypeOK'
<1>0. SUFFICES ASSUME TypeOK, [Next]_vars PROVE TypeOK'
  OBVIOUS
<1>1. ASSUME NEW c \in Cpu, Schedule(c) PROVE TypeOK'
  <2>1. Chosen(c) \in Proc
    BY <1>0, <1>1, ChosenIn, Zenon DEF Schedule, Runnable
  <2>2. After(Chosen(c)) \in Proc
    BY <2>1 DEF Proc, After
  <2>3. Dequeue(Chosen(c)) \in [Queue -> Int]
    BY <1>0, DequeueType DEF TypeOK
  <2>4. UNCHANGED <<pid, parent, chan, killed, sched_class, sched_level, deadline,
                    context, pc, child, yields, intr, nextpid, panic>>
    BY <1>1, Zenon DEF Schedule, fields, schedFields
  <2>5. state' \in [Proc -> ProcState]
    BY <1>0, <1>1, <2>1, StateNames, Zenon DEF TypeOK, Schedule
  <2>6. age' \in [Proc -> Age]
    BY <1>0, <1>1, <2>1, Numbers, Zenon DEF TypeOK, Schedule
  <2>7. rr_ticks' \in [Proc -> Nat]
    BY <1>0, <1>1, <2>1, Zenon DEF TypeOK, Schedule
  <2>8. cproc' \in [Cpu -> Proc \cup {0}]
    BY <1>0, <1>1, <2>1, Zenon DEF TypeOK, Schedule
  <2>9. nextrrp' \in [Cpu -> Proc]
    BY <1>0, <1>1, <2>2, Zenon DEF TypeOK, Schedule
  <2>10. ptlock' \in Cpu \cup {NoCpu}
    BY <1>0, <1>1, Zenon DEF TypeOK, Schedule
  <2>11. count' \in [Queue -> Int]
    BY <1>0, <1>1, <2>3, Zenon DEF TypeOK, Schedule
  <2>. QED BY <1>0, <2>4, <2>5, <2>6, <2>7, <2>8, <2>9, <2>10, <2>11 DEF TypeOK
<1>2. ASSUME NEW c \in Cpu, Resume(c) PROVE TypeOK'
  <2>1. 0 \in Chan
    BY DEF Chan
  <2>2. UNCHANGED <<state, pid, parent, killed, sched_class, sched_level, deadline,
                    age, rr_ticks, pc, child, yields, cproc, nextrrp, intr,
                    count, nextpid, panic>>
    BY <1>2, Zenon DEF Resume, fields, schedFields
  <2>3. chan' \in [Proc -> Chan]
    BY <1>0, <1>2, <2>1, Zenon DEF TypeOK, Resume
  <2>4. context' \in [Proc -> Context]
    BY <1>0, <1>2, ContextNames, Zenon DEF TypeOK, Resume
  <2>5. ptlock' \in Cpu \cup {NoCpu}
    BY <1>0, <1>2, Zenon DEF TypeOK, Resume
  <2>. QED BY <1>0, <2>2, <2>3, <2>4, <2>5 DEF TypeOK
<1>3. ASSUME NEW c \in Cpu, SwitchOut(c) PROVE TypeOK'
  <2>1. UNCHANGED <<state, pid, parent, chan, killed, sched_class, sched_level,
                    deadline, age, rr_ticks, context, pc, child, yields,
                    nextrrp, intr, count, nextpid, panic>>
    BY <1>3, Zenon DEF SwitchOut, fields, schedFields
  <2>2. cproc' \in [Cpu -> Proc \cup {0}]
    BY <1>0, <1>3, Zenon DEF TypeOK, SwitchOut
  <2>3. ptlock' \in Cpu \cup {NoCpu}
    BY <1>0, <1>3, Zenon DEF TypeOK, SwitchOut
  <2>. QED BY <1>0, <2>1, <2>2, <2>3 DEF TypeOK
<1>4. ASSUME NEW c \in Cpu, TimerTick(c) PROVE TypeOK'
  <2>1. \A a \in Age : Older(a) \in Age
    BY AgeAssumption DEF Age, Older
  <2>2. [intr[c] EXCEPT !.at = "scan"] \in HandlerState
    <3>1. intr[c] = Idle
      BY <1>4, Zenon DEF TimerTick, Interruptible
    <3>. QED BY <3>1 DEF Idle, HandlerState
  <2>3. UNCHANGED <<state, pid, parent, chan, killed, sched_class, sched_level,
                    deadline, rr_ticks, context, pc, child, yields, cproc,
                    nextrrp, ptlock, count, nextpid>>
    BY <1>4 DEF TimerTick, fields, schedFields
  <2>4. age' \in [Proc -> Age]
    BY <1>0, <1>4, <2>1, Numbers DEF TypeOK, TimerTick
  <2>5. intr' \in [Cpu -> HandlerState]
    BY <1>0, <1>4, <2>2 DEF TypeOK, TimerTick
  <2>6. panic' \in Message
    BY <1>0, <1>4, Messages, Zenon DEF TypeOK, TimerTick
  <2>. QED BY <1>0, <2>3, <2>4, <2>5, <2>6 DEF TypeOK
<1>5. ASSUME NEW c \in Cpu, AgeScan(c) PROVE TypeOK'
  <2>1. Aged(intr[c].p) # {} => First(Aged(intr[c].p)) \in Proc
    BY FirstIn DEF Aged, FcfsCandidates, Runnable
  <2>2. intr[c].p # 0 => intr[c].p \in Proc
    BY <1>0 DEF TypeOK, HandlerState
  <2>3. /\ [at |-> "account", p |-> 0, pid |-> 0] \in HandlerState
        /\ Aged(intr[c].p) # {} =>
             [at |-> "read", p |-> First(Aged(intr[c].p)), pid |-> 0]
               \in HandlerState
    BY <2>1 DEF HandlerState
  <2>4. UNCHANGED <<state, pid, parent, chan, killed, sched_class, sched_level,
                    deadline, rr_ticks, context, pc, child, yields, cproc,
                    nextrrp, ptlock, count, nextpid, panic>>
    BY <1>5, Zenon DEF AgeScan, fields, schedFields
  <2>5. age' \in [Proc -> Age]
    BY <1>0, <1>5, <2>2, Numbers, Zenon DEF TypeOK, AgeScan
  <2>6. intr' \in [Cpu -> HandlerState]
    BY <1>0, <1>5, <2>3, Zenon DEF TypeOK, AgeScan
  <2>. QED BY <1>0, <2>4, <2>5, <2>6, Zenon DEF TypeOK
<1>6. ASSUME NEW c \in Cpu, AgeRead(c) PROVE TypeOK'
  <2>1. intr[c].p \in Proc /\ pid[intr[c].p] \in Nat
    BY <1>0, <1>6, Zenon DEF TypeOK, HandlerState, AgeRead
  <2>2. [intr[c] EXCEPT !.at = "change", !.pid = pid[intr[c].p]] \in HandlerState
    <3>1. intr[c] \in [at : {"read"}, p : Proc, pid : Nat]
      BY <1>0, <1>6, Zenon DEF TypeOK, HandlerState, AgeRead
    <3>. QED BY <2>1, <3>1, Zenon DEF HandlerState
  <2>3. UNCHANGED <<state, pid, parent, chan, killed, sched_class, sched_level,
                    deadline, age, rr_ticks, context, pc, child, yields,
                    cproc, nextrrp, ptlock, count, nextpid, panic>>
    BY <1>6, Zenon DEF AgeRead, fields, schedFields
  <2>4. intr' \in [Cpu -> HandlerState]
    BY <1>0, <1>6, <2>2, Zenon DEF TypeOK, AgeRead
  <2>. QED BY <1>0, <2>3, <2>4 DEF TypeOK
<1>7. ASSUME NEW c \in Cpu, AgeChange(c) PROVE TypeOK'
  <2>1. [intr[c] EXCEPT !.at = "scan", !.pid = 0] \in HandlerState
    <3>1. intr[c] \in HandlerState
      BY <1>0, Zenon DEF TypeOK
    <3>2. CASE intr[c] \in [at : {"none", "scan", "account"}, p : Proc \cup {0}, pid : Nat]
      BY <3>2, Zenon DEF HandlerState
    <3>3. CASE intr[c] \in [at : {"read", "change"}, p : Proc, pid : Nat]
      BY <3>3, Zenon DEF HandlerState
    <3>. QED BY <3>1, <3>2, <3>3, Zenon DEF HandlerState
  <2>2. /\ Move("rr", "fcfs") \in [Queue -> Int]
        /\ Move("fcfs", "rr") \in [Queue -> Int]
    BY <1>0, MoveType DEF TypeOK
  <2>3. UNCHANGED <<state, pid, parent, chan, killed, sched_class, deadline, age,
                    rr_ticks, context, pc, child, yields, cproc, nextrrp,
                    ptlock, nextpid>>
    BY <1>7, Zenon DEF AgeChange, fields, schedFields
  <2>4. sched_level' \in [Proc -> Level]
    BY <1>0, <1>7, Numbers, Zenon DEF TypeOK, AgeChange, Relevel
  <2>5. intr' \in [Cpu -> HandlerState]
    BY <1>0, <1>7, <2>1, Zenon DEF TypeOK, AgeChange
  <2>6. count' \in [Queue -> Int]
    BY <1>0, <1>7, <2>2, Zenon DEF TypeOK, AgeChange, Relevel
  <2>7. panic' \in Message
    BY <1>0, <1>7, Messages, Zenon DEF TypeOK, AgeChange
  <2>. QED BY <1>0, <2>3, <2>4, <2>5, <2>6, <2>7 DEF TypeOK
<1>8. ASSUME NEW c \in Cpu, TimerAccount(c) PROVE TypeOK'
  <2>1. Idle \in HandlerState
    BY DEF Idle, HandlerState
  <2>2. UNCHANGED <<state, pid, parent, chan, killed, sched_class, sched_level,
                    deadline, age, context, pc, child, cproc, nextrrp, ptlock,
                    count, nextpid, panic>>
    BY <1>8, Zenon DEF TimerAccount, fields, schedFields
  <2>3. rr_ticks' \in [Proc -> Nat]
    <3>1. \/ rr_ticks' = rr_ticks
          \/ rr_ticks' = [rr_ticks EXCEPT ![cproc[c]] = @ + 1]
      BY <1>8, Zenon DEF TimerAccount
    <3>2. rr_ticks \in [Proc -> Nat]
      BY <1>0 DEF TypeOK
    <3>. QED BY <3>1, <3>2
  <2>4. yields' \in [Proc -> Level]
    <3>1. \/ yields' = yields
          \/ \E n \in {0, 1, 2} : yields' = [yields EXCEPT ![cproc[c]] = n]
      BY <1>8, Zenon DEF TimerAccount
    <3>2. yields \in [Proc -> Level]
      BY <1>0 DEF TypeOK
    <3>. QED BY <3>1, <3>2, Numbers
  <2>5. intr' \in [Cpu -> HandlerState]
    BY <1>0, <1>8, <2>1, Zenon DEF TypeOK, TimerAccount
  <2>. QED BY <1>0, <2>2, <2>3, <2>4, <2>5 DEF TypeOK
<1>9. ASSUME NEW c \in Cpu, NEW ch \in OtherChan, Wakeup(c, ch) PROVE TypeOK'
  <2>1. Enqueue(Sleepers(ch)) \in [Queue -> Int]
    BY <1>0, EnqueueType, ProcFinite DEF TypeOK, Sleepers
  <2>2. UNCHANGED <<pid, parent, chan, killed, sched_class, sched_level, deadline,
                    rr_ticks, context, pc, child, yields, cproc, nextrrp,
                    intr, ptlock, nextpid, panic>>
    BY <1>9 DEF Wakeup, fields, schedFields
  <2>3. state' \in [Proc -> ProcState]
    BY <1>0, <1>9, StateNames, Zenon DEF TypeOK, Wakeup, WokenState
  <2>4. age' \in [Proc -> Age]
    BY <1>0, <1>9, Numbers, Zenon DEF TypeOK, Wakeup, WokenAge
  <2>5. count' \in [Queue -> Int]
    BY <1>0, <1>9, <2>1, Zenon DEF TypeOK, Wakeup
  <2>. QED BY <1>0, <2>2, <2>3, <2>4, <2>5 DEF TypeOK
<1>10. ASSUME NEW c \in Cpu, NEW p \in Proc, SysEnter(c, p) PROVE TypeOK'
  <2>1. UNCHANGED <<state, pid, parent, chan, killed, sched_class, sched_level,
                    deadline, age, rr_ticks, context, child, yields, cproc,
                    nextrrp, intr, ptlock, count, nextpid, panic>>
    BY <1>10 DEF SysEnter, fields, schedFields
  <2>2. pc' \in [Proc -> Place]
    BY <1>0, <1>10, PlaceNames, Zenon DEF TypeOK, SysEnter, Goto
  <2>. QED BY <1>0, <2>1, <2>2, Zenon DEF TypeOK
<1>11. ASSUME NEW c \in Cpu, NEW p \in Proc, SysReturn(c, p) PROVE TypeOK'
  <2>1. UNCHANGED <<state, pid, parent, chan, killed, sched_class, sched_level,
                    deadline, age, rr_ticks, context, child, yields, cproc,
                    nextrrp, intr, ptlock, count, nextpid, panic>>
    BY <1>11, Zenon DEF SysReturn, fields, schedFields
  <2>2. pc' \in [Proc -> Place]
    BY <1>0, <1>11, PlaceNames, Zenon DEF TypeOK, SysReturn, Goto
  <2>. QED BY <1>0, <2>1, <2>2 DEF TypeOK
<1>12. ASSUME NEW c \in Cpu, NEW p \in Proc,
              SysIsHigherWaiting(c, p)
       PROVE  TypeOK'
  <2>1. UNCHANGED <<state, pid, parent, chan, killed, sched_class, sched_level,
                    deadline, age, rr_ticks, context, child, yields, cproc,
                    nextrrp, intr, ptlock, count, nextpid, panic>>
    BY <1>12 DEF SysIsHigherWaiting, fields, schedFields
  <2>2. pc' \in [Proc -> Place]
    BY <1>0, <1>12, PlaceNames, Zenon DEF TypeOK, SysIsHigherWaiting, Goto
  <2>. QED BY <1>0, <2>1, <2>2 DEF TypeOK
<1>13. ASSUME NEW c \in Cpu, NEW p \in Proc, ExecClass(c, p) PROVE TypeOK'
  <2>1. UNCHANGED <<state, pid, parent, chan, killed, sched_level, deadline, age,
                    rr_ticks, context, child, yields, cproc, nextrrp, intr,
                    ptlock, count, nextpid, panic>>
    BY <1>13, Zenon DEF ExecClass, fields, schedFields
  <2>2. sched_class' \in [Proc -> Level]
    BY <1>0, <1>13, Numbers, Zenon DEF TypeOK, ExecClass
  <2>3. pc' \in [Proc -> Place]
    BY <1>0, <1>13, PlaceNames, Zenon DEF TypeOK, ExecClass, Goto
  <2>. QED BY <1>0, <2>1, <2>2, <2>3, Zenon DEF TypeOK
<1>14. ASSUME NEW c \in Cpu, NEW p \in Proc, ExecLevel(c, p) PROVE TypeOK'
  <2>1. UNCHANGED <<state, pid, parent, chan, killed, sched_class, deadline, age,
                    rr_ticks, context, child, yields, cproc, nextrrp, intr,
                    ptlock, count, nextpid, panic>>
    BY <1>14, Zenon DEF ExecLevel, fields, schedFields
  <2>2. sched_level' \in [Proc -> Level]
    BY <1>0, <1>14, Numbers, Zenon DEF TypeOK, ExecLevel
  <2>3. pc' \in [Proc -> Place]
    BY <1>0, <1>14, PlaceNames, Zenon DEF TypeOK, ExecLevel, Goto
  <2>. QED BY <1>0, <2>1, <2>2, <2>3, Zenon DEF TypeOK
<1>15. ASSUME NEW c \in Cpu, NEW p \in Proc, ExitBegin(c, p) PROVE TypeOK'
  <2>1. UNCHANGED <<state, pid, parent, chan, killed, sched_class, sched_level,
                    deadline, age, rr_ticks, context, child, yields, cproc,
                    nextrrp, intr, ptlock, count, nextpid>>
    BY <1>15, Zenon DEF ExitBegin, fields, schedFields
  <2>2. pc' \in [Proc -> Place]
    BY <1>0, <1>15, PlaceNames, Zenon DEF TypeOK, ExitBegin, Goto
  <2>3. panic' \in Message
    BY <1>0, <1>15, Messages, Zenon DEF TypeOK, ExitBegin
  <2>. QED BY <1>0, <2>1, <2>2, <2>3 DEF TypeOK
<1>16. ASSUME NEW c \in Cpu, NEW p \in Proc, AcquirePanic(c, p) PROVE TypeOK'
  <2>1. UNCHANGED <<state, pid, parent, chan, killed, sched_class, sched_level,
                    deadline, age, rr_ticks, context, pc, child, yields,
                    cproc, nextrrp, intr, ptlock, count, nextpid>>
    BY <1>16, Zenon DEF AcquirePanic, fields, schedFields
  <2>2. panic' \in Message
    BY <1>0, <1>16, Messages, Zenon DEF TypeOK, AcquirePanic
  <2>. QED BY <1>0, <2>1, <2>2 DEF TypeOK
<1>17. ASSUME NEW c \in Cpu, NEW p \in Proc, Fault(c, p) PROVE TypeOK'
  <2>1. UNCHANGED <<state, pid, parent, chan, sched_class, sched_level, deadline, age,
                    rr_ticks, context, pc, child, yields, cproc, nextrrp,
                    intr, ptlock, count, nextpid, panic>>
    BY <1>17, Zenon DEF Fault, fields, schedFields
  <2>2. killed' \in [Proc -> Bit]
    BY <1>0, <1>17, Numbers, Zenon DEF TypeOK, Fault
  <2>. QED BY <1>0, <2>1, <2>2 DEF TypeOK
<1>18. ASSUME NEW c \in Cpu, NEW p \in Proc, Yield(c, p) PROVE TypeOK'
  <2>1. Enqueue({p}) \in [Queue -> Int]
    BY <1>0, EnqueueType, Zenon DEF TypeOK, Counting, Singletons
  <2>2. yields[p] > 0 => yields[p] - 1 \in Level
    <3>1. yields[p] \in Level
      BY <1>0 DEF TypeOK
    <3>. QED BY <3>1 DEF Level
  <2>3. UNCHANGED <<pid, parent, chan, killed, sched_class, sched_level, deadline,
                    rr_ticks, child, cproc, nextrrp, intr, nextpid, panic>>
    BY <1>18, Zenon DEF Yield, fields, schedFields
  <2>4. state' \in [Proc -> ProcState]
    BY <1>0, <1>18, StateNames, Zenon DEF TypeOK, Yield
  <2>5. age' \in [Proc -> Age]
    BY <1>0, <1>18, Numbers, Zenon DEF TypeOK, Yield
  <2>6. context' \in [Proc -> Context]
    BY <1>0, <1>18, ContextNames, Zenon DEF TypeOK, Yield
  <2>7. pc' \in [Proc -> Place]
    <3>1. pc' = pc \/ pc' = [pc EXCEPT ![p] = "user"]
      BY <1>18, Zenon DEF Yield, Goto
    <3>. QED BY <1>0, <3>1, PlaceNames DEF TypeOK
  <2>8. yields' \in [Proc -> Level]
    <3>1. \/ yields' = yields
          \/ yields[p] > 0 /\ yields' = [yields EXCEPT ![p] = @ - 1]
      BY <1>18, Zenon DEF Yield
    <3>. QED BY <1>0, <2>2, <3>1, Zenon DEF TypeOK
  <2>9. ptlock' \in Cpu \cup {NoCpu}
    BY <1>0, <1>18, Zenon DEF TypeOK, Yield
  <2>10. count' \in [Queue -> Int]
    BY <1>0, <1>18, <2>1, Zenon DEF TypeOK, Yield
  <2>. QED BY <1>0, <2>3, <2>4, <2>5, <2>6, <2>7, <2>8, <2>9, <2>10 DEF TypeOK
<1>19. ASSUME NEW c \in Cpu, NEW p \in Proc, SysSleep(c, p) PROVE TypeOK'
  <2>1. Dequeue(p) \in [Queue -> Int]
    BY <1>0, DequeueType DEF TypeOK
  <2>2. TicksChan \in Chan
    BY DEF TicksChan, Chan
  <2>3. UNCHANGED <<pid, parent, killed, sched_class, sched_level, deadline, age,
                    rr_ticks, child, yields, cproc, nextrrp, intr, nextpid,
                    panic>>
    BY <1>19, Zenon DEF SysSleep, fields, schedFields
  <2>4. state' \in [Proc -> ProcState]
    BY <1>0, <1>19, StateNames DEF TypeOK, SysSleep, Sleep
  <2>5. chan' \in [Proc -> Chan]
    BY <1>0, <1>19, <2>2 DEF TypeOK, SysSleep, Sleep
  <2>6. context' \in [Proc -> Context]
    BY <1>0, <1>19, ContextNames DEF TypeOK, SysSleep, Sleep
  <2>7. pc' \in [Proc -> Place]
    BY <1>0, <1>19, PlaceNames, Zenon DEF TypeOK, SysSleep, Goto
  <2>8. ptlock' \in Cpu \cup {NoCpu}
    BY <1>0, <1>19, Zenon DEF TypeOK, SysSleep, Sleep
  <2>9. count' \in [Queue -> Int]
    BY <1>0, <1>19, <2>1, Zenon DEF TypeOK, SysSleep, Sleep
  <2>. QED BY <1>0, <2>3, <2>4, <2>5, <2>6, <2>7, <2>8, <2>9, Zenon DEF TypeOK
<1>20. ASSUME NEW c \in Cpu, NEW p \in Proc, NEW ch \in OtherChan,
              Block(c, p, ch)
       PROVE  TypeOK'
  <2>1. Dequeue(p) \in [Queue -> Int]
    BY <1>0, DequeueType DEF TypeOK
  <2>2. ch \in Chan
    BY DEF OtherChan, Chan
  <2>3. UNCHANGED <<pid, parent, killed, sched_class, sched_level, deadline, age,
                    rr_ticks, child, yields, cproc, nextrrp, intr, nextpid,
                    panic>>
    BY <1>20, Zenon DEF Block, fields, schedFields
  <2>4. state' \in [Proc -> ProcState]
    BY <1>0, <1>20, StateNames, Zenon DEF TypeOK, Block, Sleep
  <2>5. chan' \in [Proc -> Chan]
    BY <1>0, <1>20, <2>2, Zenon DEF TypeOK, Block, Sleep
  <2>6. context' \in [Proc -> Context]
    BY <1>0, <1>20, ContextNames, Zenon DEF TypeOK, Block, Sleep
  <2>7. pc' \in [Proc -> Place]
    BY <1>0, <1>20, PlaceNames, Zenon DEF TypeOK, Block, Goto
  <2>8. ptlock' \in Cpu \cup {NoCpu}
    BY <1>0, <1>20, Zenon DEF TypeOK, Block, Sleep
  <2>9. count' \in [Queue -> Int]
    BY <1>0, <1>20, <2>1, Zenon DEF TypeOK, Block, Sleep
  <2>. QED BY <1>0, <2>3, <2>4, <2>5, <2>6, <2>7, <2>8, <2>9, Zenon DEF TypeOK
<1>21. ASSUME NEW c \in Cpu, NEW p \in Proc, ForkAlloc(c, p) PROVE TypeOK'
  <2>1. Unused # {} => First(Unused) \in Proc
    BY FirstIn DEF Unused
  <2>2. NoDeadline \in Nat
    BY NoDeadlineType, Zenon
  <2>3. UNCHANGED <<parent, chan, killed, age, yields, cproc, nextrrp, intr, ptlock,
                    count, panic>>
    BY <1>21, Zenon DEF ForkAlloc, fields, schedFields
  <2>4. state' \in [Proc -> ProcState]
    BY <1>0, <1>21, <2>1, StateNames DEF TypeOK, ForkAlloc
  <2>5. pid' \in [Proc -> Nat]
    BY <1>0, <1>21, <2>1 DEF TypeOK, ForkAlloc
  <2>6. sched_class' \in [Proc -> Level]
    BY <1>0, <1>21, <2>1, Numbers, Zenon DEF TypeOK, ForkAlloc, schedFields
  <2>7. sched_level' \in [Proc -> Level]
    BY <1>0, <1>21, <2>1, Numbers, Zenon DEF TypeOK, ForkAlloc, schedFields
  <2>8. deadline' \in [Proc -> Nat]
    BY <1>0, <1>21, <2>1, <2>2 DEF TypeOK, ForkAlloc, schedFields
  <2>9. rr_ticks' \in [Proc -> Nat]
    BY <1>0, <1>21, <2>1 DEF TypeOK, ForkAlloc
  <2>10. context' \in [Proc -> Context]
    BY <1>0, <1>21, <2>1, ContextNames DEF TypeOK, ForkAlloc
  <2>11. pc' \in [Proc -> Place]
    BY <1>0, <1>21, PlaceNames DEF TypeOK, ForkAlloc, Goto
  <2>12. child' \in [Proc -> Proc \cup {0}]
    BY <1>0, <1>21, <2>1 DEF TypeOK, ForkAlloc
  <2>13. nextpid' \in Nat
    BY <1>0, <1>21 DEF TypeOK, ForkAlloc
  <2>. QED BY <1>0, <2>3, <2>4, <2>5, <2>6, <2>7, <2>8, <2>9, <2>10, <2>11, Zenon,
              <2>12, <2>13 DEF TypeOK
<1>22. ASSUME NEW c \in Cpu, NEW p \in Proc, ForkFail(c, p) PROVE TypeOK'
  <2>1. UNCHANGED <<pid, parent, chan, killed, sched_class, sched_level, deadline,
                    age, rr_ticks, context, yields, cproc, nextrrp, intr,
                    ptlock, count, nextpid, panic>>
    BY <1>22 DEF ForkFail, fields, schedFields
  <2>2. state' \in [Proc -> ProcState]
    BY <1>0, <1>22, StateNames, Zenon DEF TypeOK, ForkFail
  <2>3. pc' \in [Proc -> Place]
    BY <1>0, <1>22, PlaceNames, Zenon DEF TypeOK, ForkFail, Goto
  <2>4. child' \in [Proc -> Proc \cup {0}]
    BY <1>0, <1>22, Zenon DEF TypeOK, ForkFail
  <2>. QED BY <1>0, <2>1, <2>2, <2>3, <2>4, Zenon DEF TypeOK
<1>23. ASSUME NEW c \in Cpu, NEW p \in Proc, ForkDone(c, p) PROVE TypeOK'
  <2>1. Enqueue({child[p]}) \in [Queue -> Int]
    BY <1>0, EnqueueType, Zenon DEF TypeOK, Counting, Singletons
  <2>2. UNCHANGED <<pid, chan, killed, sched_class, sched_level, deadline, rr_ticks,
                    context, yields, cproc, nextrrp, intr, ptlock, nextpid,
                    panic>>
    BY <1>23 DEF ForkDone, fields, schedFields
  <2>3. state' \in [Proc -> ProcState]
    BY <1>0, <1>23, StateNames, Zenon DEF TypeOK, ForkDone
  <2>4. parent' \in [Proc -> Proc \cup {0}]
    BY <1>0, <1>23, Numbers, Zenon DEF TypeOK, ForkDone
  <2>5. age' \in [Proc -> Age]
    BY <1>0, <1>23, Numbers, Zenon DEF TypeOK, ForkDone
  <2>6. pc' \in [Proc -> Place]
    BY <1>0, <1>23, PlaceNames, Zenon DEF TypeOK, ForkDone
  <2>7. child' \in [Proc -> Proc \cup {0}]
    BY <1>0, <1>23 DEF TypeOK, ForkDone
  <2>8. count' \in [Queue -> Int]
    BY <1>0, <1>23, <2>1, Zenon DEF TypeOK, ForkDone
  <2>. QED BY <1>0, <2>2, <2>3, <2>4, <2>5, <2>6, <2>7, <2>8 DEF TypeOK
<1>24. ASSUME NEW c \in Cpu, NEW p \in Proc, Exit(c, p) PROVE TypeOK'
  <2>1. Enqueue(WokenByExit(p)) \in [Queue -> Int]
    BY <1>0, EnqueueType, ProcFinite DEF TypeOK, WokenByExit, Sleepers
  <2>2. UNCHANGED <<pid, chan, killed, sched_class, sched_level, deadline, rr_ticks,
                    pc, child, yields, cproc, nextrrp, intr, nextpid, panic>>
    BY <1>24, Zenon DEF Exit, fields, schedFields
  <2>3. state' \in [Proc -> ProcState]
    BY <1>0, <1>24, StateNames, Zenon DEF TypeOK, Exit, WokenState
  <2>4. parent' \in [Proc -> Proc \cup {0}]
    BY <1>0, <1>24, Numbers, Zenon DEF TypeOK, Exit
  <2>5. age' \in [Proc -> Age]
    BY <1>0, <1>24, Numbers, Zenon DEF TypeOK, Exit, WokenAge
  <2>6. context' \in [Proc -> Context]
    BY <1>0, <1>24, ContextNames, Zenon DEF TypeOK, Exit
  <2>7. ptlock' \in Cpu \cup {NoCpu}
    BY <1>0, <1>24, Zenon DEF TypeOK, Exit
  <2>8. count' \in [Queue -> Int]
    BY <1>0, <1>24, <2>1, Zenon DEF TypeOK, Exit
  <2>. QED BY <1>0, <2>2, <2>3, <2>4, <2>5, <2>6, <2>7, <2>8 DEF TypeOK
<1>25. ASSUME NEW c \in Cpu, NEW p \in Proc, Wait(c, p) PROVE TypeOK'
  <2>1. Dequeue(p) \in [Queue -> Int]
    BY <1>0, DequeueType DEF TypeOK
  <2>2. p \in Chan
    BY DEF Proc, Chan
  <2>3. UNCHANGED <<sched_class, sched_level, deadline, age, rr_ticks, child, yields,
                    cproc, nextrrp, intr, nextpid, panic>>
    BY <1>25, Zenon DEF Wait, fields, schedFields
  <2>4. state' \in [Proc -> ProcState]
    <3>1. \/ state' = state
          \/ \E q : state' = [state EXCEPT ![q] = "UNUSED"]
          \/ state' = [state EXCEPT ![p] = "SLEEPING"]
      BY <1>25, Zenon DEF Wait, Sleep, fields
    <3>. QED BY <1>0, <3>1, StateNames DEF TypeOK
  <2>5. pid' \in [Proc -> Nat]
    <3>1. pid' = pid \/ \E q : pid' = [pid EXCEPT ![q] = 0]
      BY <1>25, Zenon DEF Wait, fields
    <3>. QED BY <1>0, <3>1 DEF TypeOK
  <2>6. parent' \in [Proc -> Proc \cup {0}]
    <3>1. parent' = parent \/ \E q : parent' = [parent EXCEPT ![q] = 0]
      BY <1>25, Zenon DEF Wait, fields
    <3>. QED BY <1>0, <3>1, Numbers DEF TypeOK
  <2>7. chan' \in [Proc -> Chan]
    <3>1. chan' = chan \/ chan' = [chan EXCEPT ![p] = p]
      BY <1>25, Zenon DEF Wait, Sleep, fields
    <3>. QED BY <1>0, <2>2, <3>1 DEF TypeOK
  <2>8. killed' \in [Proc -> Bit]
    <3>1. killed' = killed \/ \E q : killed' = [killed EXCEPT ![q] = 0]
      BY <1>25, Zenon DEF Wait, fields
    <3>. QED BY <1>0, <3>1, Numbers DEF TypeOK
  <2>9. context' \in [Proc -> Context]
    <3>1. context' = context \/ context' = [context EXCEPT ![p] = "wait"]
      BY <1>25, Zenon DEF Wait, Sleep
    <3>. QED BY <1>0, <3>1, ContextNames DEF TypeOK
  <2>10. pc' \in [Proc -> Place]
    <3>1. \E w \in {"user", "wait"} : pc' = [pc EXCEPT ![p] = w]
      BY <1>25, Zenon DEF Wait, Goto
    <3>. QED BY <1>0, <3>1, PlaceNames DEF TypeOK
  <2>11. ptlock' \in Cpu \cup {NoCpu}
    BY <1>0, <1>25, Zenon DEF TypeOK, Wait, Sleep
  <2>12. count' \in [Queue -> Int]
    BY <1>0, <1>25, <2>1, Zenon DEF TypeOK, Wait, Sleep
  <2>. QED BY <1>0, <2>3, <2>4, <2>5, <2>6, <2>7, <2>8, <2>9, <2>10, <2>11,
              <2>12 DEF TypeOK
<1>26. ASSUME NEW c \in Cpu, NEW p \in Proc, NEW id \in 0..MaxPid,
              Kill(c, p, id)
       PROVE  TypeOK'
  <2>1. WithPid(id) # {} => First(WithPid(id)) \in Proc
    BY WithPidIn
  <2>2. Enqueue({First(WithPid(id))}) \in [Queue -> Int]
    BY <1>0, EnqueueType, Zenon DEF TypeOK, Counting, Singletons
  <2>3. UNCHANGED <<pid, parent, chan, sched_class, sched_level, deadline, rr_ticks,
                    context, child, yields, cproc, nextrrp, intr, ptlock,
                    nextpid, panic>>
    BY <1>26, Zenon DEF Kill, fields, schedFields
  <2>4. state' \in [Proc -> ProcState]
    <3>1. state' = state \/ \E q : state' = [state EXCEPT ![q] = "RUNNABLE"]
      BY <1>26, Zenon DEF Kill
    <3>. QED BY <1>0, <3>1, StateNames DEF TypeOK
  <2>5. killed' \in [Proc -> Bit]
    <3>1. killed' = killed \/ \E q : killed' = [killed EXCEPT ![q] = 1]
      BY <1>26, Zenon DEF Kill
    <3>. QED BY <1>0, <3>1, Numbers DEF TypeOK
  <2>6. age' \in [Proc -> Age]
    <3>1. age' = age \/ \E q : age' = [age EXCEPT ![q] = 0]
      BY <1>26, Zenon DEF Kill
    <3>. QED BY <1>0, <3>1, Numbers DEF TypeOK
  <2>7. pc' \in [Proc -> Place]
    <3>1. \E w \in {"user", "wait"} : pc' = [pc EXCEPT ![p] = w]
      BY <1>26, Zenon DEF Kill, Goto
    <3>. QED BY <1>0, <3>1, PlaceNames DEF TypeOK
  <2>8. count' \in [Queue -> Int]
    BY <1>0, <1>26, <2>2, Zenon DEF TypeOK, Kill
  <2>. QED BY <1>0, <2>3, <2>4, <2>5, <2>6, <2>7, <2>8, Zenon DEF TypeOK
<1>27. ASSUME NEW c \in Cpu, NEW p \in Proc, NEW id \in 0..MaxPid,
              NEW d \in Deadlines,
              SetDeadline(c, p, id, d)
       PROVE  TypeOK'
  <2>1. WithPid(id) # {} => First(WithPid(id)) \in Proc
    BY WithPidIn
  <2>2. d < 0 \/ d \in Nat
    BY DeadlineAssumption
  <2>3. /\ Move("rr", "edf") \in [Queue -> Int]
        /\ Move("fcfs", "edf") \in [Queue -> Int]
    BY <1>0, MoveType DEF TypeOK
  <2>4. UNCHANGED <<state, pid, parent, chan, killed, age, rr_ticks, context, child,
                    yields, cproc, nextrrp, intr, ptlock, nextpid, panic>>
    BY <1>27, Zenon DEF SetDeadline, fields, schedFields
  <2>5. sched_class' \in [Proc -> Level]
    <3>1. sched_class' = sched_class \/ \E q : sched_class' = [sched_class EXCEPT ![q] = 1]
      BY <1>27, Zenon DEF SetDeadline, schedFields
    <3>. QED BY <1>0, <3>1, Numbers DEF TypeOK
  <2>6. sched_level' \in [Proc -> Level]
    <3>1. sched_level' = sched_level \/ \E q : sched_level' = [sched_level EXCEPT ![q] = 0]
      BY <1>27, Zenon DEF SetDeadline, schedFields
    <3>. QED BY <1>0, <3>1, Numbers DEF TypeOK
  <2>7. deadline' \in [Proc -> Nat]
    <3>1. \/ deadline' = deadline
          \/ ~(d < 0) /\ \E q : deadline' = [deadline EXCEPT ![q] = d]
      BY <1>27, Zenon DEF SetDeadline, schedFields
    <3>. QED BY <1>0, <2>2, <3>1 DEF TypeOK
  <2>8. pc' \in [Proc -> Place]
    <3>1. \E w \in {"user", "wait"} : pc' = [pc EXCEPT ![p] = w]
      BY <1>27, Zenon DEF SetDeadline, Goto
    <3>. QED BY <1>0, <3>1, PlaceNames DEF TypeOK
  <2>9. count' \in [Queue -> Int]
    BY <1>0, <1>27, <2>3, Zenon DEF TypeOK, SetDeadline
  <2>. QED BY <1>0, <2>4, <2>5, <2>6, <2>7, <2>8, <2>9, Zenon DEF TypeOK
<1>28. ASSUME NEW c \in Cpu, NEW p \in Proc, NEW id \in 0..MaxPid,
              NEW l \in 0..2,
              ChangeLevel(c, p, id, l)
       PROVE  TypeOK'
  <2>1. /\ Move("rr", "fcfs") \in [Queue -> Int]
        /\ Move("fcfs", "rr") \in [Queue -> Int]
    BY <1>0, MoveType DEF TypeOK
  <2>2. l \in Level
    BY DEF Level
  <2>3. UNCHANGED <<state, pid, parent, chan, killed, sched_class, deadline, age,
                    rr_ticks, context, child, yields, cproc, nextrrp, intr,
                    nextpid, panic>>
    BY <1>28, Zenon DEF ChangeLevel, fields, schedFields
  <2>4. sched_level' \in [Proc -> Level]
    <3>1. sched_level' = sched_level \/ \E q : sched_level' = [sched_level EXCEPT ![q] = l]
      BY <1>28, Zenon DEF ChangeLevel, Relevel
    <3>. QED BY <1>0, <2>2, <3>1 DEF TypeOK
  <2>5. pc' \in [Proc -> Place]
    <3>1. \E w \in {"user", "wait"} : pc' = [pc EXCEPT ![p] = w]
      BY <1>28, Zenon DEF ChangeLevel, Goto
    <3>. QED BY <1>0, <3>1, PlaceNames DEF TypeOK
  <2>6. ptlock' \in Cpu \cup {NoCpu}
    BY <1>0, <1>28, Zenon DEF TypeOK, ChangeLevel
  <2>7. count' \in [Queue -> Int]
    <3>1. count' \in {count, Move("rr", "fcfs"), Move("fcfs", "rr")}
      BY <1>28, Zenon DEF ChangeLevel, Relevel
    <3>. QED BY <1>0, <2>1, <3>1 DEF TypeOK
  <2>. QED BY <1>0, <2>3, <2>4, <2>5, <2>6, <2>7, Zenon DEF TypeOK
<1>29. CASE UNCHANGED vars
  BY <1>0, <1>29, Zenon DEF TypeOK, vars, fields, schedFields
<1>. QED BY <1>0, <1>1, <1>2, <1>3, <1>4, <1>5, <1>6, <1>7, <1>8, <1>9, <1>10, Zenon,
            <1>11, <1>12, <1>13, <1>14, <1>15, <1>16, <1>17, <1>18, <1>19,
            <1>20, <1>21, <1>22, <1>23, <1>24, <1>25, <1>26, <1>27, <1>28,
            <1>29
         DEF Next, SchedStep, TimerStep, CallStep, Halted



-----------------------------------------------------------------------------
\* Steps that leave the lives of the processes alone.
Quiet(c) ==
  \/ TimerStep(c)
  \/ \E p \in Proc :
       \/ SysEnter(c, p) \/ SysReturn(c, p) \/ SysIsHigherWaiting(c, p)
       \/ ExecClass(c, p) \/ ExecLevel(c, p) \/ ExitBegin(c, p)
       \/ AcquirePanic(c, p) \/ Fault(c, p)
       \/ \E id \in 0..MaxPid, d \in Deadlines : SetDeadline(c, p, id, d)

LEMMA QuietKeeps ==
  ASSUME TypeOK, NEW c \in Cpu, Quiet(c)
  PROVE  /\ UNCHANGED <<state, pid, parent, chan, context, child, cproc,
                        ptlock, nextpid>>
         /\ \A q \in Proc : pc'[q] = "fork" => pc[q] = "fork"
<1>0. pc \in [Proc -> Place]
  BY DEF TypeOK
<1>1. CASE TimerStep(c)
  BY <1>1, Zenon DEF TimerStep, TimerTick, AgeScan, AgeRead, AgeChange, TimerAccount,
              fields
<1>2. ASSUME NEW p \in Proc,
             \/ SysEnter(c, p) \/ SysReturn(c, p) \/ SysIsHigherWaiting(c, p)
             \/ ExecClass(c, p) \/ ExecLevel(c, p)
      PROVE  /\ UNCHANGED <<state, pid, parent, chan, context, child, cproc,
                            ptlock, nextpid>>
             /\ \E w \in {"sys", "user", "yield", "exec"} : Goto(p, w)
  BY <1>2, Zenon DEF SysEnter, SysReturn, SysIsHigherWaiting, ExecClass, ExecLevel,
              fields
<1>3. ASSUME NEW p \in Proc, ExitBegin(c, p) \/ AcquirePanic(c, p) \/ Fault(c, p)
      PROVE  /\ UNCHANGED <<state, pid, parent, chan, context, child, cproc,
                            ptlock, nextpid>>
             /\ pc' = pc \/ Goto(p, "exit")
  BY <1>3, Zenon DEF ExitBegin, AcquirePanic, Fault, fields
<1>4. ASSUME NEW p \in Proc, NEW id \in 0..MaxPid, NEW d \in Deadlines,
             SetDeadline(c, p, id, d)
      PROVE  /\ UNCHANGED <<state, pid, parent, chan, context, child, cproc,
                            ptlock, nextpid>>
             /\ Goto(p, "user")
  BY <1>4, Zenon DEF SetDeadline, fields
<1>. QED BY <1>0, <1>1, <1>2, <1>3, <1>4, Zenon DEF Quiet, Goto

LEMMA NextCases ==
  ASSUME [Next]_vars
  PROVE  \/ \E c \in Cpu :
              \/ Schedule(c) \/ Resume(c) \/ SwitchOut(c) \/ Quiet(c)
              \/ \E ch \in OtherChan : Wakeup(c, ch)
              \/ \E p \in Proc :
                   \/ Yield(c, p) \/ SysSleep(c, p)
                   \/ \E ch \in OtherChan : Block(c, p, ch)
                   \/ ForkAlloc(c, p) \/ ForkFail(c, p) \/ ForkDone(c, p)
                   \/ Exit(c, p) \/ Wait(c, p)
                   \/ \E id \in 0..MaxPid : Kill(c, p, id)
                   \/ \E id \in 0..MaxPid, l \in 0..2 : ChangeLevel(c, p, id, l)
         \/ UNCHANGED vars
BY ZenonT(30) DEF Next, SchedStep, CallStep, Quiet, Halted
-----------------------------------------------------------------------------
\* A process is on at most one CPU.

LEMMA NoCpuIsNone == NoCpu \notin Cpu
BY DEF NoCpu, Cpu

\* The CPUs keep their processes, and RUNNING processes stay RUNNING.
LEMMA CpuKept ==
  ASSUME TypeOK, CpuInv, cproc' = cproc,
         \A q \in Proc : state'[q] = "RUNNING" <=> state[q] = "RUNNING",
         \A q \in Proc : context'[q] = "run" => state[q] = "RUNNING",
         \A d \in Cpu :
           cproc[d] # 0 /\ ptlock' # d => state[cproc[d]] = "RUNNING"
  PROVE  CpuInv'
BY DEF TypeOK, CpuInv, OnOneCpu

\* Process p stops RUNNING and CPU c, still on its stack, holds ptable.lock.
LEMMA CpuLeft ==
  ASSUME TypeOK, CpuInv, NEW c \in Cpu, NEW p \in Proc,
         cproc[c] = p, cproc' = cproc,
         \A q \in Proc :
           state'[q] = "RUNNING" <=> (state[q] = "RUNNING" /\ q # p),
         \A q \in Proc : context'[q] = "run" => (context[q] = "run" /\ q # p),
         ptlock \in {NoCpu, c}, ptlock' = c
  PROVE  CpuInv'
BY NoCpuIsNone DEF TypeOK, CpuInv, OnOneCpu

LEMMA CpuSchedule ==
  ASSUME Counting, TypeOK, CpuInv, NEW c \in Cpu, Schedule(c)
  PROVE  CpuInv'
<1>. DEFINE p == Chosen(c)
<1>1. p \in Proc /\ state[p] = "RUNNABLE"
  BY ChosenIn, Zenon DEF Schedule, Runnable
<1>2. /\ ptlock = NoCpu /\ ptlock' = c /\ cproc[c] = 0
      /\ cproc' = [cproc EXCEPT ![c] = p]
      /\ state' = [state EXCEPT ![p] = "RUNNING"] /\ context' = context
  BY Zenon DEF Schedule
<1>3. /\ state \in [Proc -> ProcState] /\ cproc \in [Cpu -> Proc \cup {0}]
      /\ context \in [Proc -> Context]
  BY Zenon DEF TypeOK
<1>. HIDE DEF p
<1>4. \A d \in Cpu : cproc[d] # p
  BY <1>1, <1>2, NoCpuIsNone DEF CpuInv, OnOneCpu, Proc
<1>5. \A d, e \in Cpu : cproc'[d] = cproc'[e] /\ cproc'[d] # 0 => d = e
  BY <1>2, <1>3, <1>4, Zenon DEF CpuInv, OnOneCpu
<1>6. ASSUME NEW q \in Proc, state'[q] = "RUNNING"
      PROVE  \E d \in Cpu : cproc'[d] = q
  <2>1. CASE q = p
    BY <2>1, <1>2, <1>3, Zenon
  <2>2. CASE q # p
    <3>1. PICK d \in Cpu : cproc[d] = q
      BY <2>2, <1>2, <1>3, <1>6, Zenon DEF CpuInv, OnOneCpu
    <3>2. d # c
      BY <3>1, <1>2 DEF Proc
    <3>. QED BY <3>1, <3>2, <1>2, <1>3, Zenon
  <2>. QED BY <2>1, <2>2, Zenon
<1>7. \A d \in Cpu :
        cproc'[d] # 0 /\ ptlock' # d => state'[cproc'[d]] = "RUNNING"
  BY <1>1, <1>2, <1>3, NoCpuIsNone DEF CpuInv, OnOneCpu
<1>8. \A q \in Proc : context'[q] = "run" => state'[q] = "RUNNING"
  BY <1>1, <1>2, <1>3 DEF CpuInv
<1>. QED BY <1>5, <1>6, <1>7, <1>8, Zenon DEF CpuInv, OnOneCpu

LEMMA CpuStep ==
  ASSUME Counting, TypeOK, CpuInv, ForkInv, [Next]_vars
  PROVE  CpuInv'
<1>1. ASSUME NEW c \in Cpu, Resume(c) PROVE CpuInv'
  BY <1>1, NoCpuIsNone, Zenon DEF TypeOK, CpuInv, OnOneCpu, Resume
<1>2. ASSUME NEW c \in Cpu, SwitchOut(c) PROVE CpuInv'
  <2>1. /\ UNCHANGED <<state, context>> /\ ptlock = c /\ ptlock' = NoCpu
        /\ cproc[c] # 0 /\ state[cproc[c]] # "RUNNING" /\ cproc' = [cproc EXCEPT ![c] = 0]
    BY <1>2, Zenon DEF SwitchOut, fields
  <2>2. cproc \in [Cpu -> Proc \cup {0}]
    BY Zenon DEF TypeOK
  <2>. QED BY <2>1, <2>2, NoCpuIsNone DEF CpuInv, OnOneCpu, Proc
<1>3. ASSUME NEW c \in Cpu, Quiet(c) PROVE CpuInv'
  <2>1. UNCHANGED <<state, context, cproc, ptlock>>
    BY <1>3, QuietKeeps, Zenon
  <2>. QED BY <2>1 DEF CpuInv, OnOneCpu
<1>4. ASSUME NEW c \in Cpu, NEW ch \in OtherChan, Wakeup(c, ch) PROVE CpuInv'
  <2>1. /\ UNCHANGED <<context, cproc, ptlock>>
        /\ state' = [q \in Proc |-> IF q \in Sleepers(ch) THEN "RUNNABLE" ELSE state[q]]
    BY <1>4, Zenon DEF Wakeup, WokenState
  <2>2. \A q \in Proc : state'[q] = "RUNNING" <=> state[q] = "RUNNING"
    BY <2>1, Zenon DEF Sleepers
  <2>3. cproc \in [Cpu -> Proc \cup {0}]
    BY Zenon DEF TypeOK
  <2>. QED BY <2>1, <2>2, <2>3, Zenon DEF CpuInv, OnOneCpu
<1>5. ASSUME NEW c \in Cpu, NEW p \in Proc, Yield(c, p) PROVE CpuInv'
  BY <1>5, CpuLeft, Zenon DEF TypeOK, Yield
<1>6. ASSUME NEW c \in Cpu, NEW p \in Proc, SysSleep(c, p) PROVE CpuInv'
  <2>1. CASE killed[p] = 1
    <3>1. UNCHANGED <<state, context, cproc, ptlock>>
      BY <1>6, <2>1 DEF SysSleep
    <3>. QED BY <3>1 DEF CpuInv, OnOneCpu
  <2>2. CASE killed[p] # 1
    <3>1. Sleep(c, p, TicksChan, "sleep") /\ cproc' = cproc
      BY <1>6, <2>2 DEF SysSleep
    <3>2. cproc[c] = p /\ ptlock = NoCpu
      BY <1>6, Zenon DEF SysSleep, InCall, Running
    <3>. QED BY <3>1, <3>2, CpuLeft DEF TypeOK, Sleep
  <2>. QED BY <2>1, <2>2
<1>7. ASSUME NEW c \in Cpu, NEW p \in Proc, NEW ch \in OtherChan, Block(c, p, ch)
      PROVE  CpuInv'
  BY <1>7, CpuLeft, Zenon DEF TypeOK, Block, Sleep, Running
<1>8. ASSUME NEW c \in Cpu, NEW p \in Proc, ForkAlloc(c, p) PROVE CpuInv'
  <2>1. Unused # {} =>
          First(Unused) \in Proc /\ state[First(Unused)] = "UNUSED"
    BY FirstIn DEF Unused
  <2>. QED BY <1>8, <2>1 DEF TypeOK, CpuInv, OnOneCpu, ForkAlloc
<1>9. ASSUME NEW c \in Cpu, NEW p \in Proc, ForkFail(c, p) \/ ForkDone(c, p)
      PROVE  CpuInv'
  <2>1. child[p] \in Proc /\ state[child[p]] = "EMBRYO"
    <3>1. pc[p] = "fork"
      BY <1>9, Zenon DEF ForkFail, ForkDone
    <3>2. child \in [Proc -> Proc \cup {0}]
      BY DEF TypeOK
    <3>. QED BY <3>1, <3>2 DEF ForkInv
  <2>2. /\ UNCHANGED <<context, cproc, ptlock>>
        /\ \E w \in {"UNUSED", "RUNNABLE"} : state' = [state EXCEPT ![child[p]] = w]
    BY <1>9, Zenon DEF ForkFail, ForkDone
  <2>3. state \in [Proc -> ProcState]
    BY Zenon DEF TypeOK
  <2>4. \A q \in Proc : state'[q] = "RUNNING" <=> state[q] = "RUNNING"
    BY <2>1, <2>2, <2>3, Zenon
  <2>. QED BY <2>2, <2>4, CpuKept, Zenon DEF CpuInv, OnOneCpu
<1>10. ASSUME NEW c \in Cpu, NEW p \in Proc, Exit(c, p) PROVE CpuInv'
  BY <1>10, CpuLeft, Zenon
     DEF TypeOK, Exit, Running, WokenByExit, WokenState, Sleepers
<1>11. ASSUME NEW c \in Cpu, NEW p \in Proc, Wait(c, p) PROVE CpuInv'
  <2>. DEFINE zombies == {q \in Children(p) : state[q] = "ZOMBIE"}
  <2>1. zombies # {} =>
          First(zombies) \in Proc /\ state[First(zombies)] = "ZOMBIE"
    BY FirstIn DEF Children
  <2>2. /\ cproc[c] = p /\ context[p] = "run" /\ state[p] = "RUNNING"
        /\ ptlock \in {NoCpu, c} /\ cproc' = cproc
    BY <1>11, Zenon DEF Wait, Running, CpuInv
  <2>3. CASE /\ zombies # {} /\ state' = [state EXCEPT ![First(zombies)] = "UNUSED"]
             /\ ptlock' = NoCpu /\ context' = context
    <3>1. state \in [Proc -> ProcState]
      BY DEF TypeOK
    <3>2. \A q \in Proc : state'[q] = "RUNNING" <=> state[q] = "RUNNING"
      BY <2>1, <2>3, <3>1, Zenon
    <3>. QED BY <2>2, <2>3, <3>2, CpuKept, NoCpuIsNone DEF CpuInv, OnOneCpu
  <2>4. CASE UNCHANGED <<state, context>> /\ ptlock' = NoCpu
    BY <2>2, <2>4, CpuKept, NoCpuIsNone, Zenon DEF CpuInv, OnOneCpu
  <2>5. CASE Sleep(c, p, p, "wait")
    BY <2>2, <2>5, CpuLeft, Zenon DEF TypeOK, Sleep
  <2>. QED BY <1>11, <2>3, <2>4, <2>5, Zenon DEF Wait, fields
<1>12. ASSUME NEW c \in Cpu, NEW p \in Proc, NEW id \in 0..MaxPid, Kill(c, p, id)
       PROVE  CpuInv'
  <2>1. /\ UNCHANGED <<context, cproc, ptlock>>
        /\ \/ state' = state
           \/ \E q : state[q] = "SLEEPING" /\ state' = [state EXCEPT ![q] = "RUNNABLE"]
    BY <1>12, Zenon DEF Kill
  <2>2. state \in [Proc -> ProcState]
    BY Zenon DEF TypeOK
  <2>3. \A q \in Proc : state'[q] = "RUNNING" <=> state[q] = "RUNNING"
    BY <2>1, <2>2, Zenon
  <2>. QED BY <2>1, <2>3, CpuKept, Zenon DEF CpuInv, OnOneCpu
<1>13. ASSUME NEW c \in Cpu, NEW p \in Proc, NEW id \in 0..MaxPid, NEW l \in 0..2,
              ChangeLevel(c, p, id, l)
       PROVE  CpuInv'
  <2>1. /\ UNCHANGED <<state, context, cproc>> /\ ptlock = NoCpu
        /\ ptlock' \in {ptlock, c} /\ cproc[c] = p /\ context[p] = "run"
    BY <1>13, Zenon DEF ChangeLevel, Relevel, InCall, Running, fields
  <2>. QED BY <2>1, CpuKept, NoCpuIsNone, Zenon DEF CpuInv, OnOneCpu
<1>14. CASE UNCHANGED vars
  BY <1>14, Zenon DEF CpuInv, OnOneCpu, vars, fields
<1>. QED BY CpuSchedule, <1>1, <1>2, <1>3, <1>4, <1>5, <1>6, <1>7, <1>8, <1>9,
            <1>10, <1>11, <1>12, <1>13, <1>14, NextCases, Zenon
-----------------------------------------------------------------------------
\* fork() owns its EMBRYO, and init is never freed.

\* No fork() begins or ends, and no EMBRYO changes.
LEMMA ForkKept ==
  ASSUME TypeOK, ForkInv, child' = child,
         \A q \in Proc : pc'[q] = "fork" => pc[q] = "fork",
         \A q \in Proc : state[q] = "EMBRYO" => state'[q] = "EMBRYO"
  PROVE  ForkInv'
BY DEF TypeOK, ForkInv

\* A process outside fork() goes to sleep.
LEMMA ForkSlept ==
  ASSUME TypeOK, ForkInv, child' = child, NEW p \in Proc, state[p] = "RUNNING",
         pc' = pc \/ \E w \in {"user", "io"} : pc' = [pc EXCEPT ![p] = w],
         state' = state \/ state' = [state EXCEPT ![p] = "SLEEPING"]
  PROVE  ForkInv'
<1>1. state \in [Proc -> ProcState] /\ pc \in [Proc -> Place]
  BY DEF TypeOK
<1>2. \A q \in Proc : pc'[q] = "fork" => pc[q] = "fork"
  BY <1>1, Zenon
<1>3. \A q \in Proc : state[q] = "EMBRYO" => state'[q] = "EMBRYO"
  BY <1>1
<1>. QED BY <1>2, <1>3, ForkKept, Zenon

LEMMA ForkStep ==
  ASSUME Counting, TypeOK, CpuInv, ForkInv, [Next]_vars
  PROVE  ForkInv'
<1>1. ASSUME NEW c \in Cpu, Schedule(c) PROVE ForkInv'
  <2>1. state[Chosen(c)] = "RUNNABLE"
    BY <1>1, ChosenIn, Zenon DEF Schedule, Runnable
  <2>. QED BY <1>1, <2>1, ForkKept, Zenon DEF TypeOK, Schedule
<1>2. ASSUME NEW c \in Cpu, Resume(c) \/ SwitchOut(c) PROVE ForkInv'
  BY <1>2, ForkKept, Zenon DEF Resume, SwitchOut, fields
<1>3. ASSUME NEW c \in Cpu, Quiet(c) PROVE ForkInv'
  BY <1>3, QuietKeeps, ForkKept
<1>4. ASSUME NEW c \in Cpu, NEW ch \in OtherChan, Wakeup(c, ch) PROVE ForkInv'
  <2>1. UNCHANGED <<child, pc>> /\ state' = WokenState(Sleepers(ch))
    BY <1>4, Zenon DEF Wakeup
  <2>2. \A q \in Proc : state[q] = "EMBRYO" => state'[q] = "EMBRYO"
    BY <2>1 DEF WokenState, Sleepers
  <2>. QED BY <2>1, <2>2, ForkKept, Zenon
<1>5. ASSUME NEW c \in Cpu, NEW p \in Proc, Yield(c, p) PROVE ForkInv'
  BY <1>5, ForkKept, Zenon DEF TypeOK, CpuInv, Yield, Goto
<1>6. ASSUME NEW c \in Cpu, NEW p \in Proc, SysSleep(c, p) PROVE ForkInv'
  <2>1. /\ child' = child /\ pc' = [pc EXCEPT ![p] = "user"]
        /\ state' = state \/ state' = [state EXCEPT ![p] = "SLEEPING"]
    BY <1>6, Zenon DEF SysSleep, Sleep, Goto
  <2>2. state[p] = "RUNNING"
    BY <1>6, Zenon DEF CpuInv, SysSleep, InCall, Running
  <2>. QED BY <2>1, <2>2, ForkSlept, Zenon
<1>7. ASSUME NEW c \in Cpu, NEW p \in Proc, NEW ch \in OtherChan, Block(c, p, ch)
      PROVE  ForkInv'
  <2>1. /\ child' = child /\ (pc' = pc \/ pc' = [pc EXCEPT ![p] = "io"])
        /\ state' = state \/ state' = [state EXCEPT ![p] = "SLEEPING"]
    BY <1>7, Zenon DEF Block, Sleep, Goto
  <2>2. state[p] = "RUNNING"
    BY <1>7, Zenon DEF CpuInv, Block, Running
  <2>. QED BY <2>1, <2>2, ForkSlept, Zenon
<1>8. ASSUME NEW c \in Cpu, NEW p \in Proc, ForkAlloc(c, p) PROVE ForkInv'
  <2>1. CASE Unused = {}
    <3>1. UNCHANGED <<child, state>> /\ pc' = [pc EXCEPT ![p] = "user"]
      BY <1>8, <2>1, Zenon DEF ForkAlloc, Goto
    <3>2. pc \in [Proc -> Place]
      BY DEF TypeOK
    <3>3. \A q \in Proc : pc'[q] = "fork" => pc[q] = "fork"
      BY <3>1, <3>2, Zenon
    <3>. QED BY <3>1, <3>3, ForkKept, Zenon
  <2>2. CASE Unused # {}
    <3>. DEFINE q == First(Unused)
    <3>1. q \in Proc /\ state[q] = "UNUSED"
      BY <2>2, FirstIn, Zenon DEF Unused
    <3>2. /\ state' = [state EXCEPT ![q] = "EMBRYO"]
          /\ child' = [child EXCEPT ![p] = q] /\ pc' = [pc EXCEPT ![p] = "fork"]
      BY <1>8, <2>2, Zenon DEF ForkAlloc, Goto
    <3>3. /\ state \in [Proc -> ProcState] /\ child \in [Proc -> Proc \cup {0}]
          /\ pc \in [Proc -> Place]
      BY Zenon DEF TypeOK
    <3>. HIDE DEF q
    <3>4. q # 0 /\ \A r \in Proc : child[r] # q
      BY <3>1 DEF ForkInv, Proc
    <3>. QED BY <3>1, <3>2, <3>3, <3>4 DEF ForkInv
  <2>. QED BY <2>1, <2>2
<1>9. ASSUME NEW c \in Cpu, NEW p \in Proc, ForkFail(c, p) \/ ForkDone(c, p)
      PROVE  ForkInv'
  <2>. DEFINE q == child[p]
  <2>1. q \in Proc /\ q # 0 /\ \A r \in Proc : r # p => child[r] # q
    <3>1. pc[p] = "fork"
      BY <1>9, Zenon DEF ForkFail, ForkDone
    <3>2. child \in [Proc -> Proc \cup {0}]
      BY DEF TypeOK
    <3>. QED BY <3>1, <3>2, Zenon DEF ForkInv
  <2>2. /\ \E s \in ProcState : state' = [state EXCEPT ![q] = s]
        /\ child' = [child EXCEPT ![p] = 0]
    BY <1>9, StateNames, Zenon DEF ForkFail, ForkDone
  <2>3. \A r \in Proc : pc'[r] = "fork" => pc[r] = "fork" /\ r # p
    <3>1. \/ pc' = [pc EXCEPT ![p] = "user"]
          \/ pc' = [pc EXCEPT ![p] = "user", ![child[p]] = "user"]
      BY <1>9, Zenon DEF ForkFail, ForkDone, Goto
    <3>2. pc \in [Proc -> Place]
      BY DEF TypeOK
    <3>. QED BY <3>1, <3>2
  <2>4. state \in [Proc -> ProcState] /\ child \in [Proc -> Proc \cup {0}]
    BY DEF TypeOK
  <2>. HIDE DEF q
  <2>. QED BY <2>1, <2>2, <2>3, <2>4 DEF ForkInv
<1>10. ASSUME NEW c \in Cpu, NEW p \in Proc, Exit(c, p) PROVE ForkInv'
  BY <1>10, ForkKept, Zenon
     DEF TypeOK, CpuInv, Exit, Running, WokenByExit, WokenState, Sleepers
<1>11. ASSUME NEW c \in Cpu, NEW p \in Proc, Wait(c, p) PROVE ForkInv'
  <2>. DEFINE zombies == {q \in Children(p) : state[q] = "ZOMBIE"}
  <2>1. zombies # {} => state[First(zombies)] = "ZOMBIE"
    BY FirstIn DEF Children
  <2>2. state[p] = "RUNNING"
    BY <1>11, Zenon DEF Wait, Running, CpuInv
  <2>3. \/ UNCHANGED state
        \/ zombies # {} /\ state' = [state EXCEPT ![First(zombies)] = "UNUSED"]
        \/ state' = [state EXCEPT ![p] = "SLEEPING"]
    BY <1>11, Zenon DEF Wait, Sleep, fields
  <2>4. child' = child /\ \A r \in Proc : pc'[r] = "fork" => pc[r] = "fork"
    BY <1>11, Zenon DEF TypeOK, Wait, Goto
  <2>5. \A r \in Proc : state[r] = "EMBRYO" => state'[r] = "EMBRYO"
    BY <2>1, <2>2, <2>3 DEF TypeOK
  <2>. QED BY <2>4, <2>5, ForkKept, Zenon
<1>12. ASSUME NEW c \in Cpu, NEW p \in Proc, NEW id \in 0..MaxPid, Kill(c, p, id)
       PROVE  ForkInv'
  BY <1>12, WithPidIn, ForkKept DEF TypeOK, Kill, Goto
<1>13. ASSUME NEW c \in Cpu, NEW p \in Proc, NEW id \in 0..MaxPid, NEW l \in 0..2,
              ChangeLevel(c, p, id, l)
       PROVE  ForkInv'
  BY <1>13, ForkKept, Zenon DEF TypeOK, ChangeLevel, Goto, fields
<1>14. CASE UNCHANGED vars
  BY <1>14, ForkKept, Zenon DEF vars, fields
<1>. QED BY <1>1, <1>2, <1>3, <1>4, <1>5, <1>6, <1>7, <1>8, <1>9, <1>10, <1>11,
            <1>12, <1>13, <1>14, NextCases, Zenon
-----------------------------------------------------------------------------
\* init has no parent; pids are unique.

LEMMA ParentStep ==
  ASSUME Counting, TypeOK, CpuInv, ForkInv, ParentInv, [Next]_vars
  PROVE  ParentInv'
<1>0. initproc \in Proc /\ initproc # 0 /\ 0 \notin Proc
  BY SizeAssumption DEF initproc, Proc
<1>1. ASSUME NEW c \in Cpu, Schedule(c) PROVE ParentInv'
  BY <1>1, <1>0, Zenon DEF TypeOK, ParentInv, Schedule
<1>2. ASSUME NEW c \in Cpu, Resume(c) \/ SwitchOut(c) PROVE ParentInv'
  BY <1>2, Zenon DEF ParentInv, Resume, SwitchOut, fields
<1>3. ASSUME NEW c \in Cpu, Quiet(c) PROVE ParentInv'
  BY <1>3, QuietKeeps DEF ParentInv
<1>4. ASSUME NEW c \in Cpu, NEW ch \in OtherChan, Wakeup(c, ch) PROVE ParentInv'
  BY <1>4, <1>0 DEF ParentInv, Wakeup, WokenState
<1>5. ASSUME NEW c \in Cpu, NEW p \in Proc, Yield(c, p) PROVE ParentInv'
  BY <1>5, <1>0, Zenon DEF TypeOK, ParentInv, Yield
<1>6. ASSUME NEW c \in Cpu, NEW p \in Proc, SysSleep(c, p) PROVE ParentInv'
  <2>1. /\ parent' = parent
        /\ state' = state \/ state' = [state EXCEPT ![p] = "SLEEPING"]
    BY <1>6, Zenon DEF SysSleep, Sleep
  <2>. QED BY <1>0, <2>1, Zenon DEF TypeOK, ParentInv
<1>7. ASSUME NEW c \in Cpu, NEW p \in Proc, NEW ch \in OtherChan, Block(c, p, ch)
      PROVE  ParentInv'
  BY <1>7, <1>0, Zenon DEF TypeOK, ParentInv, Block, Sleep
<1>8. ASSUME NEW c \in Cpu, NEW p \in Proc, ForkAlloc(c, p) PROVE ParentInv'
  <2>1. Unused # {} =>
          First(Unused) \in Proc /\ state[First(Unused)] = "UNUSED"
    BY FirstIn, Zenon DEF Unused
  <2>2. parent' = parent /\ state'[initproc] \notin {"UNUSED", "EMBRYO"}
    <3>1. parent' = parent
      BY <1>8, Zenon DEF ForkAlloc
    <3>2. \/ state' = state
          \/ Unused # {} /\ state' = [state EXCEPT ![First(Unused)] = "EMBRYO"]
      BY <1>8, Zenon DEF ForkAlloc
    <3>. QED BY <1>0, <2>1, <3>1, <3>2, Zenon DEF TypeOK, ParentInv
  <2>. QED BY <2>2, Zenon DEF ParentInv
<1>9. ASSUME NEW c \in Cpu, NEW p \in Proc, ForkFail(c, p) \/ ForkDone(c, p)
      PROVE  ParentInv'
  <2>. DEFINE q == child[p]
  <2>1. q \in Proc /\ state[q] = "EMBRYO"
    <3>1. pc[p] = "fork"
      BY <1>9, Zenon DEF ForkFail, ForkDone
    <3>2. child \in [Proc -> Proc \cup {0}]
      BY DEF TypeOK
    <3>. QED BY <3>1, <3>2 DEF ForkInv
  <2>2. state[p] = "RUNNING"
    BY <1>9, Zenon DEF ForkFail, ForkDone, Running, CpuInv
  <2>3. /\ \E s \in ProcState : state' = [state EXCEPT ![q] = s]
        /\ parent' = parent \/ parent' = [parent EXCEPT ![q] = p]
    BY <1>9, StateNames, Zenon DEF ForkFail, ForkDone
  <2>4. state \in [Proc -> ProcState] /\ parent \in [Proc -> Proc \cup {0}]
    BY Zenon DEF TypeOK
  <2>. HIDE DEF q
  <2>. QED BY <1>0, <2>1, <2>2, <2>3, <2>4 DEF ParentInv
<1>10. ASSUME NEW c \in Cpu, NEW p \in Proc, Exit(c, p) PROVE ParentInv'
  <2>1. state'[initproc] \notin {"UNUSED", "EMBRYO"}
    BY <1>10, <1>0, Zenon DEF ParentInv, Exit, WokenState
  <2>2. parent' = [q \in Proc |-> IF parent[q] = p THEN initproc ELSE parent[q]]
    BY <1>10, Zenon DEF Exit
  <2>. QED BY <1>0, <2>1, <2>2, Zenon DEF ParentInv
<1>11. ASSUME NEW c \in Cpu, NEW p \in Proc, Wait(c, p) PROVE ParentInv'
  <2>. DEFINE zombies == {q \in Children(p) : state[q] = "ZOMBIE"}
  <2>1. zombies # {} => First(zombies) \in Proc /\ parent[First(zombies)] = p
    BY FirstIn DEF Children
  <2>2. \/ UNCHANGED <<state, parent>>
        \/ /\ zombies # {} /\ state' = [state EXCEPT ![First(zombies)] = "UNUSED"]
           /\ parent' = [parent EXCEPT ![First(zombies)] = 0]
        \/ state' = [state EXCEPT ![p] = "SLEEPING"] /\ parent' = parent
    BY <1>11, Zenon DEF Wait, Sleep, fields
  <2>3. state \in [Proc -> ProcState] /\ parent \in [Proc -> Proc \cup {0}]
    BY DEF TypeOK
  <2>. HIDE DEF zombies
  <2>. QED BY <1>0, <2>1, <2>2, <2>3 DEF ParentInv
<1>12. ASSUME NEW c \in Cpu, NEW p \in Proc, NEW id \in 0..MaxPid, Kill(c, p, id)
       PROVE  ParentInv'
  <2>1. parent' = parent /\ state'[initproc] \notin {"UNUSED", "EMBRYO"}
    <3>1. parent' = parent
      BY <1>12, Zenon DEF Kill
    <3>2. \/ state' = state
          \/ \E q : state' = [state EXCEPT ![q] = "RUNNABLE"]
      BY <1>12, Zenon DEF Kill
    <3>. QED BY <1>0, <3>1, <3>2, Zenon DEF TypeOK, ParentInv
  <2>. QED BY <2>1, Zenon DEF ParentInv
<1>13. ASSUME NEW c \in Cpu, NEW p \in Proc, NEW id \in 0..MaxPid, NEW l \in 0..2,
              ChangeLevel(c, p, id, l)
       PROVE  ParentInv'
  BY <1>13, Zenon DEF ParentInv, ChangeLevel, fields
<1>14. CASE UNCHANGED vars
  BY <1>14, Zenon DEF ParentInv, vars, fields
<1>. QED BY <1>1, <1>2, <1>3, <1>4, <1>5, <1>6, <1>7, <1>8, <1>9, <1>10, <1>11,
            <1>12, <1>13, <1>14, NextCases, Zenon

\* No pid is handed out and no slot comes into use.
LEMMA PidKept ==
  ASSUME PidInv, pid' = pid, nextpid' = nextpid,
         \A q \in Proc : state'[q] # "UNUSED" => state[q] # "UNUSED"
  PROVE  PidInv'
BY Zenon DEF PidInv

LEMMA PidStep ==
  ASSUME Counting, TypeOK, CpuInv, ForkInv, PidInv, [Next]_vars
  PROVE  PidInv'
<1>1. ASSUME NEW c \in Cpu, Schedule(c) PROVE PidInv'
  <2>1. state[Chosen(c)] = "RUNNABLE"
    BY <1>1, ChosenIn, Zenon DEF Schedule, Runnable
  <2>. QED BY <1>1, <2>1, PidKept, Zenon DEF TypeOK, Schedule
<1>2. ASSUME NEW c \in Cpu, Resume(c) \/ SwitchOut(c) PROVE PidInv'
  BY <1>2, PidKept, Zenon DEF Resume, SwitchOut, fields
<1>3. ASSUME NEW c \in Cpu, Quiet(c) PROVE PidInv'
  BY <1>3, QuietKeeps, PidKept, Zenon
<1>4. ASSUME NEW c \in Cpu, NEW ch \in OtherChan, Wakeup(c, ch) PROVE PidInv'
  BY <1>4, PidKept, Zenon DEF Wakeup, Sleepers, WokenState
<1>5. ASSUME NEW c \in Cpu, NEW p \in Proc, Yield(c, p) PROVE PidInv'
  BY <1>5, PidKept, Zenon DEF TypeOK, CpuInv, Yield
<1>6. ASSUME NEW c \in Cpu, NEW p \in Proc, SysSleep(c, p) PROVE PidInv'
  BY <1>6, PidKept, ZenonT(30) DEF TypeOK, CpuInv, SysSleep, Sleep, InCall, Running
<1>7. ASSUME NEW c \in Cpu, NEW p \in Proc, NEW ch \in OtherChan, Block(c, p, ch)
      PROVE  PidInv'
  BY <1>7, PidKept, Zenon DEF TypeOK, CpuInv, Block, Sleep, Running
<1>8. ASSUME NEW c \in Cpu, NEW p \in Proc, ForkAlloc(c, p) PROVE PidInv'
  <2>1. CASE Unused = {}
    BY <1>8, <2>1, PidKept, Zenon DEF ForkAlloc
  <2>2. CASE Unused # {}
    <3>. DEFINE q == First(Unused)
    <3>1. q \in Proc
      BY <2>2, FirstIn, Zenon DEF Unused
    <3>2. /\ state' = [state EXCEPT ![q] = "EMBRYO"] /\ nextpid' = nextpid + 1
          /\ pid' = [pid EXCEPT ![q] = nextpid]
      BY <1>8, <2>2, Zenon DEF ForkAlloc
    <3>3. state \in [Proc -> ProcState] /\ pid \in [Proc -> Nat] /\ nextpid \in Nat
      BY Zenon DEF TypeOK
    <3>. HIDE DEF q
    <3>4. nextpid # 0
      BY <3>1, <3>3 DEF PidInv
    <3>. QED BY <3>1, <3>2, <3>3, <3>4 DEF PidInv
  <2>. QED BY <2>1, <2>2
<1>9. ASSUME NEW c \in Cpu, NEW p \in Proc, ForkFail(c, p) \/ ForkDone(c, p)
      PROVE  PidInv'
  <2>1. state[child[p]] = "EMBRYO"
    <3>1. pc[p] = "fork"
      BY <1>9, Zenon DEF ForkFail, ForkDone
    <3>2. child \in [Proc -> Proc \cup {0}]
      BY DEF TypeOK
    <3>. QED BY <3>1, <3>2 DEF ForkInv
  <2>. QED BY <1>9, <2>1, PidKept DEF TypeOK, ForkFail, ForkDone
<1>10. ASSUME NEW c \in Cpu, NEW p \in Proc, Exit(c, p) PROVE PidInv'
  BY <1>10, PidKept, Zenon
     DEF TypeOK, CpuInv, Exit, Running, WokenByExit, WokenState, Sleepers
<1>11. ASSUME NEW c \in Cpu, NEW p \in Proc, Wait(c, p) PROVE PidInv'
  <2>. DEFINE q == First({r \in Children(p) : state[r] = "ZOMBIE"})
  <2>1. state[p] = "RUNNING" /\ nextpid' = nextpid
    BY <1>11, Zenon DEF Wait, Running, CpuInv
  <2>2. \/ UNCHANGED <<state, pid>>
        \/ /\ state' = [state EXCEPT ![q] = "UNUSED"]
           /\ pid' = [pid EXCEPT ![q] = 0]
        \/ state' = [state EXCEPT ![p] = "SLEEPING"] /\ pid' = pid
    BY <1>11, Zenon DEF Wait, Sleep, fields
  <2>3. state \in [Proc -> ProcState] /\ pid \in [Proc -> Nat] /\ nextpid \in Nat
    BY DEF TypeOK
  <2>. HIDE DEF q
  <2>. QED BY <2>1, <2>2, <2>3 DEF PidInv
<1>12. ASSUME NEW c \in Cpu, NEW p \in Proc, NEW id \in 0..MaxPid, Kill(c, p, id)
       PROVE  PidInv'
  BY <1>12, WithPidIn, PidKept DEF TypeOK, Kill
<1>13. ASSUME NEW c \in Cpu, NEW p \in Proc, NEW id \in 0..MaxPid, NEW l \in 0..2,
              ChangeLevel(c, p, id, l)
       PROVE  PidInv'
  BY <1>13, PidKept, Zenon DEF ChangeLevel, fields
<1>14. CASE UNCHANGED vars
  BY <1>14, PidKept, Zenon DEF vars, fields
<1>. QED BY <1>1, <1>2, <1>3, <1>4, <1>5, <1>6, <1>7, <1>8, <1>9, <1>10, <1>11,
            <1>12, <1>13, <1>14, NextCases, Zenon
-----------------------------------------------------------------------------
\* exit() and wait() lose no wakeup.

\* No process falls asleep in wait(), becomes a zombie or changes parents.
LEMMA ExitKept ==
  ASSUME NoLostExit, parent' = parent,
         \A q \in Proc : state'[q] = "SLEEPING" /\ chan'[q] = q
                           => state[q] = "SLEEPING" /\ chan[q] = q,
         \A q \in Proc : state'[q] = "ZOMBIE" => state[q] = "ZOMBIE"
  PROVE  NoLostExit'
BY DEF NoLostExit

LEMMA ExitExit ==
  ASSUME TypeOK, ParentInv, NoLostExit,
         NEW c \in Cpu, NEW p \in Proc, Exit(c, p)
  PROVE  NoLostExit'
<1>. DEFINE W == WokenByExit(p)
<1>0. initproc \in Proc
  BY Numbers
<1>1. /\ state' = [[q \in Proc |-> IF q \in W THEN "RUNNABLE" ELSE state[q]]
                     EXCEPT ![p] = "ZOMBIE"]
      /\ parent' = [q \in Proc |-> IF parent[q] = p THEN initproc ELSE parent[q]]
      /\ chan' = chan
  BY Zenon DEF Exit, WokenState
<1>. SUFFICES ASSUME NEW a \in Proc, NEW b \in Proc, state'[a] = "SLEEPING",
                     chan'[a] = a, parent'[b] = a, state'[b] = "ZOMBIE"
              PROVE  FALSE
  BY Zenon DEF NoLostExit
<1>. HIDE DEF W
<1>2. a # p /\ a \notin W /\ state[a] = "SLEEPING" /\ chan[a] = a
  BY <1>1, Zenon
<1>3. a \in Sleepers(a)
  BY <1>2, Zenon DEF Sleepers
<1>4. CASE b = p
  <2>1. parent[p] # p
    BY Zenon DEF ParentInv
  <2>2. parent[p] = a
    BY <1>1, <1>4, <2>1, Zenon
  <2>3. Sleepers(a) \subseteq W
    BY <2>2, Zenon DEF W, WokenByExit
  <2>. QED BY <1>2, <1>3, <2>3, Zenon
<1>5. CASE b # p
  <2>1. state[b] = "ZOMBIE"
    BY <1>1, <1>5, Zenon
  <2>2. CASE parent[b] = p
    <3>1. a = initproc
      BY <1>1, <2>2, Zenon
    <3>2. b \in Children(p)
      BY <2>2, Zenon DEF Children
    <3>3. Sleepers(initproc) \subseteq W
      BY <2>1, <3>2, Zenon DEF W, WokenByExit
    <3>. QED BY <1>2, <1>3, <3>1, <3>3, Zenon
  <2>3. CASE parent[b] # p
    BY <1>1, <1>2, <2>1, <2>3, Zenon DEF NoLostExit
  <2>. QED BY <2>2, <2>3, Zenon
<1>. QED BY <1>4, <1>5, Zenon

LEMMA ExitStep ==
  ASSUME TypeOK, CpuInv, ForkInv, ParentInv, NoLostExit, [Next]_vars
  PROVE  NoLostExit'
<1>1. ASSUME NEW c \in Cpu, Schedule(c) PROVE NoLostExit'
  BY <1>1, ExitKept, Zenon DEF TypeOK, Schedule
<1>2. ASSUME NEW c \in Cpu, SwitchOut(c) PROVE NoLostExit'
  BY <1>2, ExitKept, Zenon DEF SwitchOut, fields
<1>3. ASSUME NEW c \in Cpu, Resume(c) PROVE NoLostExit'
  <2>1. 0 \notin Proc
    BY DEF Proc
  <2>. QED BY <1>3, <2>1, ExitKept, Zenon DEF TypeOK, Resume
<1>4. ASSUME NEW c \in Cpu, Quiet(c) PROVE NoLostExit'
  BY <1>4, QuietKeeps, ExitKept
<1>5. ASSUME NEW c \in Cpu, NEW ch \in OtherChan, Wakeup(c, ch) PROVE NoLostExit'
  <2>1. UNCHANGED <<parent, chan>> /\ state' = WokenState(Sleepers(ch))
    BY <1>5, Zenon DEF Wakeup
  <2>. QED BY <2>1, ExitKept DEF WokenState
<1>6. ASSUME NEW c \in Cpu, NEW p \in Proc, Yield(c, p) PROVE NoLostExit'
  BY <1>6, ExitKept, Zenon DEF TypeOK, Yield
<1>7. ASSUME NEW c \in Cpu, NEW p \in Proc, SysSleep(c, p) PROVE NoLostExit'
  <2>1. TicksChan \notin Proc
    BY SizeAssumption DEF TicksChan, Proc
  <2>. QED BY <1>7, <2>1, ExitKept DEF TypeOK, SysSleep, Sleep
<1>8. ASSUME NEW c \in Cpu, NEW p \in Proc, NEW ch \in OtherChan, Block(c, p, ch)
      PROVE  NoLostExit'
  <2>1. ch \notin Proc
    BY SizeAssumption DEF OtherChan, Proc
  <2>. QED BY <1>8, <2>1, ExitKept DEF TypeOK, Block, Sleep
<1>9. ASSUME NEW c \in Cpu, NEW p \in Proc, ForkAlloc(c, p) PROVE NoLostExit'
  <2>1. /\ UNCHANGED <<parent, chan>>
        /\ UNCHANGED state \/ \E q : state' = [state EXCEPT ![q] = "EMBRYO"]
    BY <1>9, Zenon DEF ForkAlloc
  <2>. QED BY <2>1, ExitKept, Zenon DEF TypeOK
<1>10. ASSUME NEW c \in Cpu, NEW p \in Proc, ForkFail(c, p) PROVE NoLostExit'
  BY <1>10, ExitKept DEF TypeOK, ForkFail
<1>11. ASSUME NEW c \in Cpu, NEW p \in Proc, ForkDone(c, p) PROVE NoLostExit'
  <2>1. /\ chan' = chan /\ parent' = [parent EXCEPT ![child[p]] = p]
        /\ state' = [state EXCEPT ![child[p]] = "RUNNABLE"]
    BY <1>11, Zenon DEF ForkDone
  <2>2. state \in [Proc -> ProcState] /\ parent \in [Proc -> Proc \cup {0}]
    BY DEF TypeOK
  <2>. QED BY <2>1, <2>2 DEF NoLostExit
<1>12. ASSUME NEW c \in Cpu, NEW p \in Proc, Wait(c, p) PROVE NoLostExit'
  <2>. DEFINE zombies == {q \in Children(p) : state[q] = "ZOMBIE"}
              z == First(zombies)
  <2>1. CASE /\ zombies # {} /\ state' = [state EXCEPT ![z] = "UNUSED"]
             /\ parent' = [parent EXCEPT ![z] = 0] /\ chan' = chan
    <3>. HIDE DEF z
    <3>. QED BY <2>1 DEF TypeOK, NoLostExit
  <2>2. CASE UNCHANGED <<state, parent, chan>>
    BY <2>2, Zenon DEF NoLostExit
  <2>3. CASE zombies = {} /\ Sleep(c, p, p, "wait") /\ parent' = parent
    BY <2>3, Zenon DEF TypeOK, NoLostExit, Sleep, Children
  <2>. QED BY <1>12, <2>1, <2>2, <2>3, Zenon DEF Wait, fields
<1>13. ASSUME NEW c \in Cpu, NEW p \in Proc, NEW id \in 0..MaxPid, Kill(c, p, id)
       PROVE  NoLostExit'
  <2>1. /\ UNCHANGED <<parent, chan>>
        /\ UNCHANGED state \/ \E q : state' = [state EXCEPT ![q] = "RUNNABLE"]
    BY <1>13, Zenon DEF Kill
  <2>. QED BY <2>1, ExitKept, Zenon DEF TypeOK
<1>14. ASSUME NEW c \in Cpu, NEW p \in Proc, NEW id \in 0..MaxPid, NEW l \in 0..2,
              ChangeLevel(c, p, id, l)
       PROVE  NoLostExit'
  BY <1>14, ExitKept, Zenon DEF ChangeLevel, fields
<1>15. CASE UNCHANGED vars
  BY <1>15, ExitKept, Zenon DEF vars, fields
<1>. QED BY ExitExit, <1>1, <1>2, <1>3, <1>4, <1>5, <1>6, <1>7, <1>8, <1>9,
            <1>10, <1>11, <1>12, <1>13, <1>14, <1>15, NextCases, Zenon
-----------------------------------------------------------------------------
\* Every process in use is in one of the three queues, but for exec().

\* No process changes queues, comes into use or leaves exec().
LEMMA QueueKept ==
  ASSUME QueueInv, UNCHANGED <<sched_class, sched_level>>,
         \A q \in Proc : state'[q] \notin {"UNUSED", "ZOMBIE"}
                           => state[q] \notin {"UNUSED", "ZOMBIE"},
         \A q \in Proc :
           /\ QueueOf(q) = "none" /\ context[q] = "run" /\ pc[q] = "exec"
           /\ yields[q] = 0
           => context'[q] = "run" /\ pc'[q] = "exec" /\ yields'[q] = 0
  PROVE  QueueInv'
<1>1. \A q \in Proc : QueueOf(q)' = QueueOf(q)
  BY Zenon DEF QueueOf
<1>. HIDE DEF QueueOf
<1>. QED BY <1>1, Zenon DEF QueueInv

\* Only process q changes queues, to one of the three.
LEMMA QueueChanged ==
  ASSUME TypeOK, QueueInv, NEW q \in Proc,
         UNCHANGED <<state, context, yields>>,
         \A r \in Proc : pc[r] = "exec" => pc'[r] = "exec",
         \/ /\ sched_class' = [sched_class EXCEPT ![q] = 1]
            /\ \E l \in Level : sched_level' = [sched_level EXCEPT ![q] = l]
         \/ /\ sched_class' = sched_class
            /\ \E l \in {1, 2} : sched_level' = [sched_level EXCEPT ![q] = l]
  PROVE  QueueInv'
<1>1. sched_class \in [Proc -> Level] /\ sched_level \in [Proc -> Level]
  BY DEF TypeOK
<1>2. ASSUME NEW r \in Proc, r # q
      PROVE  QueueOf(r)' = QueueOf(r) /\ sched_class'[r] = sched_class[r]
  BY <1>1, <1>2, Zenon DEF QueueOf
<1>3. sched_class[q] \in {1, 2} =>
        sched_class'[q] \in {1, 2} /\ QueueOf(q)' # "none"
  BY <1>1, Zenon DEF QueueOf, Level
<1>. QED BY <1>2, <1>3 DEF QueueInv

LEMMA QueueStep ==
  ASSUME Counting, TypeOK, CpuInv, ForkInv, QueueInv, [Next]_vars
  PROVE  QueueInv'
<1>1. ASSUME NEW c \in Cpu, Schedule(c) PROVE QueueInv'
  <2>1. state[Chosen(c)] = "RUNNABLE"
    BY <1>1, ChosenIn, Zenon DEF Schedule, Runnable
  <2>. QED BY <1>1, <2>1, QueueKept, Zenon DEF TypeOK, Schedule, schedFields
<1>2. ASSUME NEW c \in Cpu, Resume(c) \/ SwitchOut(c) PROVE QueueInv'
  BY <1>2, QueueKept, Zenon DEF TypeOK, Resume, SwitchOut, fields, schedFields
<1>3. ASSUME NEW c \in Cpu, TimerTick(c) \/ AgeScan(c) \/ AgeRead(c)
      PROVE  QueueInv'
  BY <1>3, QueueKept, Zenon DEF TimerTick, AgeScan, AgeRead, fields, schedFields
<1>4. ASSUME NEW c \in Cpu, AgeChange(c) PROVE QueueInv'
  <2>. DEFINE q == First(WithPid(intr[c].pid))
  <2>1. UNCHANGED <<state, context, yields, pc, sched_class>>
    BY <1>4, Zenon DEF AgeChange, fields
  <2>2. CASE UNCHANGED sched_level
    BY <2>1, <2>2, QueueKept, Zenon
  <2>3. CASE q \in Proc /\ sched_level' = [sched_level EXCEPT ![q] = 1]
    <3>. HIDE DEF q
    <3>. QED BY <2>1, <2>3, QueueChanged, Zenon
  <2>. QED BY <1>4, <2>2, <2>3, WithPidIn, Zenon DEF AgeChange, Relevel
<1>5. ASSUME NEW c \in Cpu, TimerAccount(c) PROVE QueueInv'
  <2>. DEFINE p == cproc[c]
  <2>1. yields \in [Proc -> Level]
    BY DEF TypeOK
  <2>2. /\ UNCHANGED <<state, context, pc, sched_class, sched_level>>
        /\ \/ yields' = yields
           \/ \E n : /\ yields' = [yields EXCEPT ![p] = n]
                     /\ QueueOf(p) = "none" => n = 0
    BY <1>5, Zenon DEF TimerAccount, fields, schedFields
  <2>. HIDE DEF p
  <2>. QED BY <2>1, <2>2, QueueKept, Zenon
<1>6. ASSUME NEW c \in Cpu, NEW p \in Proc,
             \/ SysEnter(c, p) \/ SysReturn(c, p) \/ SysIsHigherWaiting(c, p)
             \/ ExitBegin(c, p) \/ AcquirePanic(c, p) \/ Fault(c, p)
      PROVE  QueueInv'
  BY <1>6, QueueKept, Zenon
     DEF TypeOK, SysEnter, SysReturn, SysIsHigherWaiting, ExitBegin, AcquirePanic,
         Fault, InCall, Goto, fields, schedFields
<1>7. ASSUME NEW c \in Cpu, NEW p \in Proc, ExecClass(c, p) PROVE QueueInv'
  <2>1. /\ sched_class' = [sched_class EXCEPT ![p] = 2]
        /\ pc' = [pc EXCEPT ![p] = "exec"]
        /\ UNCHANGED <<state, context, yields, sched_level>>
        /\ context[p] = "run" /\ yields[p] = 0
    BY <1>7, Zenon DEF ExecClass, Running, Goto, fields
  <2>2. sched_class \in [Proc -> Level] /\ pc \in [Proc -> Place]
    BY DEF TypeOK
  <2>3. \A r \in Proc : r # p => QueueOf(r)' = QueueOf(r)
    BY <2>1, <2>2, Zenon DEF QueueOf
  <2>. QED BY <2>1, <2>2, <2>3, Zenon DEF QueueInv
<1>8. ASSUME NEW c \in Cpu, NEW p \in Proc, ExecLevel(c, p) PROVE QueueInv'
  <2>1. /\ sched_level' = [sched_level EXCEPT ![p] = 1]
        /\ pc' = [pc EXCEPT ![p] = "user"]
        /\ UNCHANGED <<state, context, yields, sched_class>>
    BY <1>8 DEF ExecLevel, Goto, fields
  <2>2. sched_level \in [Proc -> Level] /\ pc \in [Proc -> Place]
    BY DEF TypeOK
  <2>3. \A r \in Proc : r # p => QueueOf(r)' = QueueOf(r)
    BY <2>1, <2>2, Zenon DEF QueueOf
  <2>4. sched_class[p] \in {1, 2} => QueueOf(p)' # "none"
    BY <2>1, <2>2 DEF QueueOf
  <2>. QED BY <2>1, <2>2, <2>3, <2>4, Zenon DEF QueueInv
<1>9. ASSUME NEW c \in Cpu, NEW ch \in OtherChan, Wakeup(c, ch) PROVE QueueInv'
  BY <1>9, QueueKept, Zenon DEF Wakeup, Sleepers, WokenState, schedFields
<1>10. ASSUME NEW c \in Cpu, NEW p \in Proc, Yield(c, p) PROVE QueueInv'
  <2>1. /\ UNCHANGED <<sched_class, sched_level>>
        /\ state[p] = "RUNNING" /\ state' = [state EXCEPT ![p] = "RUNNABLE"]
        /\ context' = [context EXCEPT ![p] = "yield"]
    BY <1>10, Zenon DEF Yield, CpuInv, schedFields
  <2>2. yields[p] > 0 \/ pc[p] = "yield"
    BY <1>10, Zenon DEF Yield
  <2>3. yields[p] # 0 \/ pc[p] # "exec"
    <3>1. ~(0 > 0)
      OBVIOUS
    <3>. QED BY <2>2, <3>1, Zenon
  <2>4. \A q \in Proc : q # p => pc'[q] = pc[q] /\ yields'[q] = yields[q]
    BY <1>10, Zenon DEF TypeOK, Yield, Goto
  <2>5. \A q \in Proc : state'[q] \notin {"UNUSED", "ZOMBIE"}
                          => state[q] \notin {"UNUSED", "ZOMBIE"}
    BY <2>1, Zenon DEF TypeOK
  <2>6. \A q \in Proc : q # p => context'[q] = context[q]
    BY <2>1, Zenon DEF TypeOK
  <2>. QED BY <2>1, <2>3, <2>4, <2>5, <2>6, QueueKept, Zenon
<1>11. ASSUME NEW c \in Cpu, NEW p \in Proc, SysSleep(c, p) PROVE QueueInv'
  <2>1. /\ UNCHANGED <<yields, sched_class, sched_level>>
        /\ pc[p] = "sys" /\ pc' = [pc EXCEPT ![p] = "user"]
        /\ state[p] = "RUNNING"
        /\ state' = state \/ state' = [state EXCEPT ![p] = "SLEEPING"]
        /\ context' = context \/ context' = [context EXCEPT ![p] = "sleep"]
    BY <1>11, Zenon DEF SysSleep, Sleep, InCall, Running, CpuInv, Goto, schedFields
  <2>2. \A q \in Proc : state'[q] \notin {"UNUSED", "ZOMBIE"}
                          => state[q] \notin {"UNUSED", "ZOMBIE"}
    BY <2>1, Zenon DEF TypeOK
  <2>3. /\ pc[p] # "exec"
        /\ \A q \in Proc : q # p => pc'[q] = pc[q] /\ context'[q] = context[q]
    BY <2>1, Zenon DEF TypeOK
  <2>. QED BY <2>1, <2>2, <2>3, QueueKept, Zenon
<1>12. ASSUME NEW c \in Cpu, NEW p \in Proc, NEW ch \in OtherChan, Block(c, p, ch)
       PROVE  QueueInv'
  BY <1>12, QueueKept, Zenon DEF TypeOK, CpuInv, Block, Sleep, Running, Goto, schedFields
<1>13. ASSUME NEW c \in Cpu, NEW p \in Proc, ForkAlloc(c, p) PROVE QueueInv'
  <2>1. CASE Unused = {}
    BY <1>13, <2>1, QueueKept DEF TypeOK, ForkAlloc, InCall, Goto, schedFields
  <2>2. CASE Unused # {}
    <3>0. PICK q \in Proc : q = First(Unused)
      BY <2>2, FirstIn, Zenon DEF Unused
    <3>1. /\ state' = [state EXCEPT ![q] = "EMBRYO"]
          /\ sched_class' = [sched_class EXCEPT ![q] = 2]
          /\ sched_level' = [sched_level EXCEPT ![q] = 2]
          /\ context' = [context EXCEPT ![q] = "forkret"]
          /\ pc' = [pc EXCEPT ![p] = "fork"] /\ pc[p] = "sys"
          /\ yields' = yields
      BY <1>13, <2>2, <3>0, Zenon DEF ForkAlloc, InCall, Goto
    <3>2. /\ state \in [Proc -> ProcState] /\ context \in [Proc -> Context]
          /\ pc \in [Proc -> Place]
          /\ sched_class \in [Proc -> Level] /\ sched_level \in [Proc -> Level]
      BY Zenon DEF TypeOK
    <3>3. \A r \in Proc : r # q => QueueOf(r)' = QueueOf(r)
      BY <3>1, <3>2, Zenon DEF QueueOf
    <3>4. QueueOf(q)' = "fcfs" /\ sched_class'[q] = 2
      BY <3>1, <3>2 DEF QueueOf
    <3>. QED BY <3>1, <3>2, <3>3, <3>4, Zenon DEF QueueInv
  <2>. QED BY <2>1, <2>2
<1>14. ASSUME NEW c \in Cpu, NEW p \in Proc, ForkFail(c, p) PROVE QueueInv'
  <2>1. /\ UNCHANGED <<context, yields, sched_class, sched_level>>
        /\ pc[p] = "fork" /\ pc' = [pc EXCEPT ![p] = "user"]
        /\ state' = [state EXCEPT ![child[p]] = "UNUSED"]
    BY <1>14, Zenon DEF ForkFail, Goto, schedFields
  <2>2. \A q \in Proc : state'[q] \notin {"UNUSED", "ZOMBIE"}
                          => state[q] \notin {"UNUSED", "ZOMBIE"}
    BY <2>1, Zenon DEF TypeOK
  <2>3. pc[p] # "exec" /\ \A q \in Proc : q # p => pc'[q] = pc[q]
    BY <2>1, Zenon DEF TypeOK
  <2>. QED BY <2>1, <2>2, <2>3, QueueKept, Zenon
<1>15. ASSUME NEW c \in Cpu, NEW p \in Proc, ForkDone(c, p) PROVE QueueInv'
  <2>1. child[p] \in Proc /\ state[child[p]] = "EMBRYO"
    <3>1. child[p] \in Proc \cup {0} /\ pc[p] = "fork"
      BY <1>15, Zenon DEF TypeOK, ForkDone
    <3>. QED BY <3>1, Zenon DEF ForkInv
  <2>2. context[child[p]] # "run"
    BY <2>1, Zenon DEF CpuInv
  <2>3. /\ UNCHANGED <<context, yields, sched_class, sched_level>> /\ pc[p] = "fork"
        /\ state' = [state EXCEPT ![child[p]] = "RUNNABLE"]
        /\ pc' = [pc EXCEPT ![p] = "user", ![child[p]] = "user"]
    BY <1>15, Zenon DEF ForkDone, schedFields
  <2>4. \A q \in Proc : state'[q] \notin {"UNUSED", "ZOMBIE"}
                          => state[q] \notin {"UNUSED", "ZOMBIE"}
    BY <2>1, <2>3, Zenon DEF TypeOK
  <2>5. pc[p] # "exec" /\ \A q \in Proc : q # p /\ q # child[p] => pc'[q] = pc[q]
    BY <2>3, Zenon DEF TypeOK
  <2>. QED BY <2>2, <2>3, <2>4, <2>5, QueueKept, Zenon
<1>16. ASSUME NEW c \in Cpu, NEW p \in Proc, Exit(c, p) PROVE QueueInv'
  <2>1. /\ UNCHANGED <<pc, yields, sched_class, sched_level>> /\ pc[p] = "exit"
        /\ context' = [context EXCEPT ![p] = "zombie"]
    BY <1>16, Zenon DEF Exit, schedFields
  <2>2. \A q \in Proc : state'[q] \notin {"UNUSED", "ZOMBIE"}
                          => state[q] \notin {"UNUSED", "ZOMBIE"}
    BY <1>16, Zenon DEF Exit, WokenByExit, WokenState, Sleepers
  <2>. QED BY <2>1, <2>2, QueueKept, Zenon DEF TypeOK
<1>17. ASSUME NEW c \in Cpu, NEW p \in Proc, Wait(c, p) PROVE QueueInv'
  <2>1. /\ UNCHANGED <<yields, sched_class, sched_level>>
        /\ pc[p] # "exec" /\ state[p] = "RUNNING"
    BY <1>17, Zenon DEF Wait, Running, CpuInv, schedFields
  <2>2. /\ \E w \in Place : pc' = [pc EXCEPT ![p] = w]
        /\ \E h \in Context : context' = context \/ context' = [context EXCEPT ![p] = h]
    BY <1>17, PlaceNames, ContextNames, Zenon DEF Wait, Sleep, Goto
  <2>3. \/ UNCHANGED state
        \/ \E q : state' = [state EXCEPT ![q] = "UNUSED"]
        \/ state' = [state EXCEPT ![p] = "SLEEPING"]
    BY <1>17, Zenon DEF Wait, Sleep, fields
  <2>4. \A q \in Proc : state'[q] \notin {"UNUSED", "ZOMBIE"}
                          => state[q] \notin {"UNUSED", "ZOMBIE"}
    BY <2>1, <2>3, Zenon DEF TypeOK
  <2>5. \A q \in Proc : q # p => pc'[q] = pc[q] /\ context'[q] = context[q]
    BY <2>2, Zenon DEF TypeOK
  <2>. QED BY <2>1, <2>4, <2>5, QueueKept, Zenon
<1>18. ASSUME NEW c \in Cpu, NEW p \in Proc, NEW id \in 0..MaxPid, Kill(c, p, id)
       PROVE  QueueInv'
  <2>1. /\ UNCHANGED <<yields, sched_class, sched_level, context>>
        /\ pc[p] = "sys" /\ pc' = [pc EXCEPT ![p] = "user"]
    BY <1>18, Zenon DEF Kill, InCall, Goto, schedFields
  <2>2. \/ UNCHANGED state
        \/ \E q : state[q] = "SLEEPING" /\ state' = [state EXCEPT ![q] = "RUNNABLE"]
    BY <1>18, Zenon DEF Kill
  <2>. QED BY <2>1, <2>2, QueueKept DEF TypeOK
<1>19. ASSUME NEW c \in Cpu, NEW p \in Proc, NEW id \in 0..MaxPid,
              NEW d \in Deadlines, SetDeadline(c, p, id, d)
       PROVE  QueueInv'
  <2>. DEFINE q == First(WithPid(id))
  <2>1. /\ UNCHANGED <<state, context, yields>>
        /\ pc[p] = "sys" /\ pc' = [pc EXCEPT ![p] = "user"]
    BY <1>19, Zenon DEF SetDeadline, InCall, Goto, fields
  <2>2. \A r \in Proc : pc[r] = "exec" => pc'[r] = "exec"
    BY <2>1, Zenon DEF TypeOK
  <2>3. CASE UNCHANGED schedFields
    BY <2>1, <2>2, <2>3, QueueKept, Zenon DEF schedFields
  <2>4. CASE /\ q \in Proc /\ sched_level' = [sched_level EXCEPT ![q] = 0]
             /\ sched_class' = [sched_class EXCEPT ![q] = 1]
    <3>. HIDE DEF q
    <3>. QED BY <2>1, <2>2, <2>4, QueueChanged, Numbers, Zenon
  <2>. QED BY <1>19, <2>3, <2>4, WithPidIn, Zenon DEF SetDeadline
<1>20. ASSUME NEW c \in Cpu, NEW p \in Proc, NEW id \in 0..MaxPid, NEW l \in 0..2,
              ChangeLevel(c, p, id, l)
       PROVE  QueueInv'
  <2>. DEFINE q == First(WithPid(id))
  <2>1. /\ UNCHANGED <<state, context, yields, sched_class>>
        /\ pc[p] = "sys" /\ pc' = [pc EXCEPT ![p] = "user"]
    BY <1>20, Zenon DEF ChangeLevel, InCall, Goto, fields
  <2>2. \A r \in Proc : pc[r] = "exec" => pc'[r] = "exec"
    BY <2>1, Zenon DEF TypeOK
  <2>3. CASE UNCHANGED sched_level
    BY <2>1, <2>2, <2>3, QueueKept, Zenon
  <2>4. CASE /\ q \in Proc /\ l \in {1, 2}
             /\ sched_level' = [sched_level EXCEPT ![q] = l]
    <3>. HIDE DEF q
    <3>. QED BY <2>1, <2>2, <2>4, QueueChanged, Zenon
  <2>. QED BY <1>20, <2>3, <2>4, WithPidIn, Zenon DEF ChangeLevel, Relevel
<1>21. CASE UNCHANGED vars
  BY <1>21, QueueKept, Zenon DEF vars, fields, schedFields
<1>. QED BY <1>1, <1>2, <1>3, <1>4, <1>5, <1>6, <1>7, <1>8, <1>9, <1>10, <1>11,
            <1>12, <1>13, <1>14, <1>15, <1>16, <1>17, <1>18, <1>19, <1>20, <1>21,
            NextCases, Zenon DEF Quiet, TimerStep
-----------------------------------------------------------------------------
\* The invariant and what follows from it.

LEMMA TableInit == Init => TableInv
<1>. SUFFICES ASSUME Init PROVE TableInv
  OBVIOUS
<1>0. initproc \in Proc /\ initproc # 0 /\ 0 \notin Proc
  BY SizeAssumption DEF initproc, Proc
<1>1. TypeOK
  BY TypeInit
<1>2. CpuInv
  BY Zenon DEF Init, CpuInv, OnOneCpu
<1>3. ForkInv
  BY Zenon DEF Init, ForkInv
<1>4. ParentInv
  BY <1>0, Zenon DEF Init, ParentInv
<1>5. PidInv
  <2>1. /\ pid = [p \in Proc |-> IF p = initproc THEN 1 ELSE 0] /\ nextpid = 2
        /\ state = [p \in Proc |-> IF p = initproc THEN "RUNNABLE" ELSE "UNUSED"]
    BY Zenon DEF Init
  <2>. QED BY <2>1 DEF PidInv
<1>6. QueueInv
  <2>1. /\ sched_class = [p \in Proc |-> IF p = initproc THEN 2 ELSE 0]
        /\ sched_level = [p \in Proc |-> IF p = initproc THEN 1 ELSE 0]
        /\ state = [p \in Proc |-> IF p = initproc THEN "RUNNABLE" ELSE "UNUSED"]
    BY Zenon DEF Init
  <2>. QED BY <2>1 DEF QueueInv, QueueOf
<1>7. NoLostExit
  BY Zenon DEF Init, NoLostExit
<1>. QED BY <1>1, <1>2, <1>3, <1>4, <1>5, <1>6, <1>7 DEF TableInv

LEMMA TableStep == ASSUME Counting PROVE TableInv /\ [Next]_vars => TableInv'
BY TypeStep, CpuStep, ForkStep, ParentStep, PidStep, QueueStep, ExitStep
   DEF TableInv
=============================================================================
