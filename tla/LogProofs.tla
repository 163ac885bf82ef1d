----------------------------- MODULE LogProofs -----------------------------
(***************************************************************************)
(* The space of the log: begin_op()'s reservation, counted over the calls  *)
(* in progress, keeps every transaction inside the log area, no call       *)
(* panics, and a process asleep in begin_op() is owed a wakeup.            *)
(***************************************************************************)
EXTENDS Log, Counting, TLAPS

-----------------------------------------------------------------------------
\* Counting the budgets of the calls.

LEMMA BudgetFinite ==
  ASSUME Counting, NEW f
  PROVE  IsFiniteSet(BudgetOf(f)) /\ Cardinality(BudgetOf(f)) \in Nat
<1>1. IsFiniteSet(1..OpBlocks)
  BY SizeAssumption DEF Counting, Intervals
<1>2. IsFiniteSet(Proc \X (1..OpBlocks))
  BY <1>1, ProcAssumption, Zenon DEF Counting, Products
<1>3. BudgetOf(f) \in SUBSET (Proc \X (1..OpBlocks))
  BY DEF BudgetOf
<1>. QED BY <1>2, <1>3 DEF Counting, Subsets, Sizes

LEMMA BudgetShrinks ==
  ASSUME Counting, NEW f \in [Proc -> 0..OpBlocks], NEW g \in [Proc -> 0..OpBlocks],
         \A p \in Proc : g[p] <= f[p]
  PROVE  Cardinality(BudgetOf(g)) <= Cardinality(BudgetOf(f))
<1>1. BudgetOf(g) \in SUBSET BudgetOf(f)
  BY SizeAssumption DEF BudgetOf
<1>. QED BY <1>1, BudgetFinite DEF Counting, Subsets

\* A block added to the log comes out of the budget of its call.
LEMMA BudgetSpent ==
  ASSUME Counting, NEW f \in [Proc -> 0..OpBlocks], NEW p \in Proc, f[p] > 0
  PROVE  Cardinality(BudgetOf([f EXCEPT ![p] = @ - 1])) = Cardinality(BudgetOf(f)) - 1
<1>. DEFINE g == [f EXCEPT ![p] = @ - 1]
<1>1. BudgetOf(g) = BudgetOf(f) \ {<<p, f[p]>>}
  <2>1. f[p] \in 1..OpBlocks
    BY SizeAssumption
  <2>2. ASSUME NEW q \in Proc, NEW i \in 1..OpBlocks
        PROVE  <<q, i>> \in BudgetOf(g) <=> <<q, i>> \in BudgetOf(f) /\ <<q, i>> # <<p, f[p]>>
    <3>1. g[q] = IF q = p THEN f[p] - 1 ELSE f[q]
      OBVIOUS
    <3>2. f[q] \in Nat /\ i \in Nat
      BY SizeAssumption
    <3>. QED BY <3>1, <3>2 DEF BudgetOf
  <2>. QED BY <2>1, <2>2 DEF BudgetOf
<1>2. <<p, f[p]>> \in BudgetOf(f)
  BY SizeAssumption DEF BudgetOf
<1>. QED BY <1>1, <1>2, BudgetFinite, Zenon DEF Counting, Removals

\* Only calls in progress have a budget, of OpBlocks blocks each at most.
LEMMA BudgetBound ==
  ASSUME Counting, NEW f \in [Proc -> 0..OpBlocks], NEW S \in SUBSET Proc,
         \A p \in Proc : p \notin S => f[p] = 0
  PROVE  /\ IsFiniteSet(S) /\ Cardinality(S) \in Nat
         /\ Cardinality(BudgetOf(f)) <= Cardinality(S) * OpBlocks
<1>1. IsFiniteSet(S) /\ Cardinality(S) \in Nat
  BY ProcAssumption DEF Counting, Subsets, Sizes
<1>2. IsFiniteSet(1..OpBlocks) /\ Cardinality(1..OpBlocks) = OpBlocks
  BY SizeAssumption DEF Counting, Intervals
<1>3. IsFiniteSet(S \X (1..OpBlocks)) /\ Cardinality(S \X (1..OpBlocks)) = Cardinality(S) * OpBlocks
  BY <1>1, <1>2, Zenon DEF Counting, Products
<1>4. BudgetOf(f) \in SUBSET (S \X (1..OpBlocks))
  <2>1. ASSUME NEW t \in BudgetOf(f) PROVE t[1] \in S
    BY <2>1, SizeAssumption DEF BudgetOf
  <2>. QED BY <2>1 DEF BudgetOf
<1>. QED BY <1>1, <1>3, <1>4 DEF Counting, Subsets

LEMMA Slack ==
  ASSUME NEW n \in Nat, NEW a \in Nat, a >= 2, NEW k \in Nat, Room,
         k <= a * OpBlocks, n + a * MAXOPBLOCKS <= LOGSIZE
  PROVE  n + k + 2 * (MAXOPBLOCKS - OpBlocks) <= LOGSIZE
<1>1. PICK d \in Nat : MAXOPBLOCKS = OpBlocks + d
  BY SizeAssumption
<1>2. PICK c \in Nat : a = c + 2
  OBVIOUS
<1>3. a * MAXOPBLOCKS = a * OpBlocks + c * d + 2 * d
  BY <1>1, <1>2, SizeAssumption
<1>4. c * d \in Nat /\ a * OpBlocks \in Nat
  BY SizeAssumption
<1>. QED BY <1>1, <1>3, <1>4, SizeAssumption
LEMMA FitsLess ==
  ASSUME NEW m \in Int, NEW n \in Int, n <= m, Fits(m)
  PROVE  Fits(n)
BY SizeAssumption DEF Fits

LEMMA FitsRoom ==
  ASSUME Room, NEW n \in Int, Fits(n)
  PROVE  n < LOGSIZE /\ n < NLOG - 1
BY SizeAssumption DEF Fits, Room

-----------------------------------------------------------------------------
\* What the steps that are not calls leave alone.

LEMMA TypeFacts ==
  ASSUME Counting, TypeOK
  PROVE  /\ Len(lh) \in Nat /\ Len(head) \in Nat
         /\ \A i \in 1..Len(lh) : lh[i] \in Block
         /\ IsFiniteSet(Ops) /\ Cardinality(Ops) \in Nat
         /\ Cardinality(Budget) \in Nat
<1>1. Ops \in SUBSET Proc
  BY DEF Ops
<1>. QED BY <1>1, ProcAssumption, BudgetFinite DEF TypeOK, Budget, Counting, Subsets, Sizes

LEMMA SpaceKept ==
  ASSUME SpaceInv, Ops' = Ops,
         UNCHANGED <<left, lh, head, outstanding, committing, phase>>
  PROVE  SpaceInv'
BY DEF SpaceInv, Budget, BudgetOf, Fits

LEMMA LoopKept ==
  ASSUME LoopInv, UNCHANGED <<tail, lh, phase>>,
         \A p \in Proc : pc'[p] \in CommitPc => pc'[p] = pc[p]
  PROVE  LoopInv'
BY DEF LoopInv, CommitPc

LEMMA OwedKept ==
  ASSUME SleeperOwed, UNCHANGED <<outstanding, committing>>,
         \A p \in Proc : pc'[p] = "asleep" => pc[p] = "asleep"
  PROVE  SleeperOwed'
BY DEF SleeperOwed

\* A step of commit() moves its process from one of the commit points to another.
LEMMA GotoKept ==
  ASSUME TypeOK, ControlInv, SleeperOwed, NEW p \in Proc,
         NEW from \in CommitPc, NEW to \in CommitPc, Goto(p, from, to)
  PROVE  /\ phase = "up" /\ committing
         /\ pc' \in [Proc -> Pc] /\ pc'[p] = to
         /\ Ops' = Ops
         /\ \A q \in Proc : q # p => pc'[q] = pc[q] /\ pc[q] \notin CommitPc
         /\ \A q \in Proc : pc'[q] \in CommitPc <=> pc[q] \in CommitPc
         /\ \A q \in Proc : pc'[q] \in {"asleep", "log_write"} <=>
                              pc'[q] = pc[q] /\ pc[q] \in {"asleep", "log_write"}
<1>1. /\ phase = "up" /\ pc[p] = from /\ pc' = [pc EXCEPT ![p] = to]
  BY DEF Goto, Running
<1>2. pc \in [Proc -> Pc] /\ from \in Pc /\ to \in Pc
  BY DEF TypeOK, Pc
<1>3. "op" \notin CommitPc /\ "log_write" \notin CommitPc /\ "asleep" \notin CommitPc
  BY DEF CommitPc
<1>. HIDE DEF Pc, CommitPc
<1>4. pc' \in [Proc -> Pc] /\ pc'[p] = to /\ \A q \in Proc : q # p => pc'[q] = pc[q]
  BY <1>1, <1>2
<1>5. committing /\ \A q \in Proc : q # p => pc[q] \notin CommitPc
  BY <1>1 DEF ControlInv
<1>6. Ops' = Ops
  BY <1>1, <1>3, <1>4 DEF Ops
<1>. QED BY <1>1, <1>3, <1>4, <1>5, <1>6

LEMMA CommitKept ==
  ASSUME TypeOK, ControlInv, CallInv, SleeperOwed, NEW p \in Proc,
         NEW from \in CommitPc, NEW to \in CommitPc, Goto(p, from, to),
         UNCHANGED <<outstanding, committing, held, left, phase>>,
         lh' = lh \/ lh' = <<>>, to = "committed" => lh' = <<>>
  PROVE  ControlInv' /\ CallInv' /\ SleeperOwed'
<1>1. /\ phase = "up" /\ committing /\ pc'[p] = to /\ Ops' = Ops
      /\ \A q \in Proc : q # p => pc'[q] = pc[q] /\ pc[q] \notin CommitPc
      /\ \A q \in Proc : pc'[q] \in CommitPc <=> pc[q] \in CommitPc
      /\ \A q \in Proc : pc'[q] \in {"asleep", "log_write"} <=>
                              pc'[q] = pc[q] /\ pc[q] \in {"asleep", "log_write"}
  BY GotoKept
<1>2. "committed" \in CommitPc
  BY DEF CommitPc
<1>. HIDE DEF CommitPc
<1>3. ControlInv'
  BY <1>1, <1>2 DEF ControlInv
<1>4. \A q \in Proc : pc[q] # "log_write"
  BY <1>1 DEF ControlInv, Ops
<1>5. CallInv'
  BY <1>1, <1>4 DEF CallInv
<1>6. SleeperOwed'
  BY <1>1 DEF SleeperOwed
<1>. QED BY <1>3, <1>5, <1>6
-----------------------------------------------------------------------------
\* One lemma per operation of log.c: LogInv is kept.

LEMMA InitSleep == ASSUME Counting, Init PROVE LogInv
<1>1. TypeOK
  <2>1. home \in [Block -> Val] /\ data \in [Block -> Val] /\ logblk \in [Slot -> Val]
    BY ValAssumption DEF Init
  <2>2. head \in Seq(Block) /\ lh \in Seq(Block) /\ outstanding \in Nat /\ tail \in Nat
    BY DEF Init
  <2>5. committing \in BOOLEAN
    BY Zenon DEF Init
  <2>6. dirty \in SUBSET Block /\ held \in [Proc -> SUBSET Block] /\ panic = "none"
    BY DEF Init
  <2>3. left \in [Proc -> 0..OpBlocks]
    BY SizeAssumption DEF Init
  <2>4. phase \in Phase /\ pc \in [Proc -> Pc]
    BY DEF Init, Phase, Pc
  <2>. QED BY <2>1, <2>2, <2>3, <2>4, <2>5, <2>6 DEF TypeOK
<1>2. Ops = {} /\ Budget = {}
  BY SizeAssumption DEF Init, Ops, Budget, BudgetOf
<1>3. ControlInv /\ CallInv
  BY <1>2 DEF Init, ControlInv, CallInv, CommitPc
<1>4. SpaceInv
  <2>1. Cardinality(Ops) = 0 /\ Cardinality(Budget) = 0
    BY <1>2 DEF Counting, EmptySets
  <2>2. Len(lh) = 0 /\ Len(head) = 0 /\ outstanding = 0 /\ lh = <<>>
    BY DEF Init
  <2>. QED BY <2>1, <2>2, SizeAssumption DEF SpaceInv, Fits
<1>5. SleeperOwed
  BY DEF Init, SleeperOwed
<1>6. LoopInv
  BY DEF Init, LoopInv
<1>. QED BY <1>1, <1>3, <1>4, <1>5, <1>6, Zenon DEF LogInv

LEMMA SleepStep ==
  ASSUME Counting, Room, LogInv, NEW p \in Proc, BeginOp(p), Sleep(p)
  PROVE  LogInv'
<1>1. /\ phase = "up" /\ pc[p] \in {"out", "woken"} /\ MustWait
      /\ pc' = [pc EXCEPT ![p] = "asleep"]
      /\ UNCHANGED <<home, logblk, head, lh, outstanding, committing, data, dirty,
                     held, phase, tail, left, panic>>
  BY DEF BeginOp, Sleep, Running, disk, cache
<1>2. pc \in [Proc -> Pc]
  BY DEF LogInv, TypeOK
<1>3. TypeOK'
  BY <1>1, <1>2 DEF LogInv, TypeOK, Pc, Slot
<1>4. Ops' = Ops
  BY <1>1, <1>2 DEF Ops
<1>5. ControlInv'
  BY <1>1, <1>2, <1>4 DEF LogInv, ControlInv, CommitPc
<1>6. CallInv'
  BY <1>1, <1>2, <1>4 DEF LogInv, CallInv, Ops
<1>7. SpaceInv'
  BY <1>1, <1>4, SpaceKept DEF LogInv
<1>8. SleeperOwed'
  <2>1. SUFFICES ASSUME outstanding = 0, ~committing PROVE FALSE
    BY <1>1 DEF SleeperOwed, LogInv, TypeOK
  <2>2. Ops = {}
    BY <2>1, TypeFacts, Zenon DEF LogInv, SpaceInv, Counting, EmptySets
  <2>3. lh = <<>>
    BY <1>1, <2>1, <2>2 DEF LogInv, SpaceInv
  <2>. QED BY <1>1, <2>1, <2>3, SizeAssumption DEF MustWait, Room
<1>9. LoopInv'
  BY <1>1, <1>2, LoopKept, Zenon DEF LogInv, CommitPc
<1>. QED BY <1>3, <1>5, <1>6, <1>7, <1>8, <1>9, Zenon DEF LogInv

LEMMA EnterStep ==
  ASSUME Counting, Room, LogInv, NEW p \in Proc, BeginOp(p), Enter(p)
  PROVE  LogInv'
<1>1. /\ phase = "up" /\ pc[p] \in {"out", "woken"} /\ ~MustWait
      /\ pc' = [pc EXCEPT ![p] = "op"] /\ left' = [left EXCEPT ![p] = OpBlocks]
      /\ outstanding' = outstanding + 1
      /\ UNCHANGED <<home, logblk, head, lh, committing, data, dirty,
                     held, phase, tail, panic>>
  BY DEF BeginOp, Enter, Running, disk, cache
<1>2. /\ pc \in [Proc -> Pc] /\ left \in [Proc -> 0..OpBlocks] /\ outstanding \in Nat
      /\ OpBlocks \in Nat /\ OpBlocks \in 0..OpBlocks
  BY SizeAssumption DEF LogInv, TypeOK
<1>3. TypeOK'
  BY <1>1, <1>2 DEF LogInv, TypeOK, Pc, Slot
<1>4. Ops' = Ops \cup {p} /\ p \notin Ops
  BY <1>1, <1>2 DEF Ops
<1>5. ~committing
  BY <1>1 DEF MustWait
<1>6. ControlInv'
  BY <1>1, <1>2, <1>5, Zenon DEF LogInv, ControlInv, CommitPc
<1>7. CallInv'
  BY <1>1, <1>2, <1>4 DEF LogInv, CallInv
<1>8. SpaceInv'
  <2>1. /\ outstanding = Cardinality(Ops) /\ IsFiniteSet(Ops)
        /\ (Ops = {} => lh = <<>>) /\ Len(lh) \in Nat /\ Fits(Len(head))
    BY <1>1, <1>5, TypeFacts DEF LogInv, SpaceInv
  <2>2. Cardinality(Ops') = outstanding + 1
    BY <1>4, <2>1, Zenon DEF Counting, Additions
  <2>3. /\ Cardinality(Budget') <= (outstanding + 1) * OpBlocks
        /\ Cardinality(Budget') \in Nat
    <3>1. left' \in [Proc -> 0..OpBlocks] /\ Ops' \in SUBSET Proc
      BY <1>3 DEF TypeOK, Ops
    <3>2. \A q \in Proc : q \notin Ops' => left'[q] = 0
      BY <1>7 DEF CallInv
    <3>3. Budget' = BudgetOf(left')
      BY DEF Budget, BudgetOf
    <3>. QED BY <2>2, <3>1, <3>2, <3>3, BudgetBound, BudgetFinite
  <2>4. Fits(Len(lh) + Cardinality(Budget'))
    <3>1. CASE outstanding = 0
      <4>1. Ops = {}
        BY <2>1, <3>1, Zenon DEF Counting, EmptySets
      <4>2. Len(lh) = 0
        BY <2>1, <4>1
      <4>. QED BY <1>2, <2>3, <3>1, <4>2 DEF Fits
    <3>2. CASE outstanding >= 1
      <4>1. Len(lh) + (outstanding + 1) * MAXOPBLOCKS <= LOGSIZE
        <5>1. \A x, y : x \in Nat /\ y \in Nat /\ ~(x + y > LOGSIZE) => x + y <= LOGSIZE
          BY SizeAssumption
        <5>2. (outstanding + 1) * MAXOPBLOCKS \in Nat /\ Len(lh) \in Nat
          BY <1>2, SizeAssumption
        <5>3. ~(Len(lh) + (outstanding + 1) * MAXOPBLOCKS > LOGSIZE)
          BY <1>1, Zenon DEF MustWait
        <5>. QED BY <5>1, <5>2, <5>3, Zenon
      <4>2. outstanding + 1 \in Nat /\ outstanding + 1 >= 2
        BY <1>2, <3>2
      <4>3. Len(lh) + Cardinality(Budget') + 2 * (MAXOPBLOCKS - OpBlocks) <= LOGSIZE
        BY <2>1, <2>3, <4>1, <4>2, Slack
      <4>. QED BY <4>3 DEF Fits
    <3>. QED BY <1>2, <3>1, <3>2
  <2>. QED BY <1>1, <1>4, <2>1, <2>2, <2>4, Zenon DEF SpaceInv, Fits
<1>9. SleeperOwed'
  BY <1>1, <1>2 DEF SleeperOwed
<1>10. LoopInv'
  BY <1>1, <1>2, LoopKept DEF LogInv, CommitPc
<1>. QED BY <1>3, <1>6, <1>7, <1>8, <1>9, <1>10 DEF LogInv
LEMMA ModifyStep ==
  ASSUME Counting, Room, LogInv, NEW p \in Proc, NEW b \in Block, NEW v \in Val, Modify(p, b, v)
  PROVE  LogInv'
<1>1. /\ phase = "up" /\ pc[p] = "op" /\ (left[p] > 0 \/ b \in Blocks(lh))
      /\ pc' = [pc EXCEPT ![p] = "log_write"] /\ held' = [held EXCEPT ![p] = {b}]
      /\ data' = [data EXCEPT ![b] = v]
      /\ UNCHANGED <<home, logblk, head, lh, outstanding, committing, dirty,
                     phase, tail, left>>
  BY Zenon DEF Modify, Running, disk
<1>2. /\ pc \in [Proc -> Pc] /\ left \in [Proc -> 0..OpBlocks]
      /\ held \in [Proc -> SUBSET Block] /\ data \in [Block -> Val]
  BY DEF LogInv, TypeOK
<1>3. Ops' = Ops /\ p \in Ops
  BY <1>1, <1>2 DEF Ops
<1>4. panic' = "none"
  <2>1. Len(lh) < LOGSIZE /\ Len(lh) < NLOG - 1 /\ Len(lh) \in Nat
    BY TypeFacts, FitsLess, FitsRoom DEF LogInv, SpaceInv
  <2>2. outstanding >= 1
    BY <1>3, TypeFacts DEF LogInv, SpaceInv, Counting, EmptySets
  <2>3. panic = "none" /\ outstanding \in Nat
    BY DEF LogInv, TypeOK
  <2>4. panic' = IF Len(lh) >= LOGSIZE \/ Len(lh) >= NLOG - 1
                 THEN "too big a transaction"
                 ELSE IF outstanding < 1 THEN "log_write outside of trans"
                 ELSE panic
    BY Zenon DEF Modify
  <2>5. ~(Len(lh) >= LOGSIZE \/ Len(lh) >= NLOG - 1) /\ ~(outstanding < 1)
    BY <2>1, <2>2, <2>3, SizeAssumption
  <2>. QED BY <2>3, <2>4, <2>5
<1>5. TypeOK'
  <2>1. pc' \in [Proc -> Pc]
    BY <1>1, <1>2 DEF Pc
  <2>2. data' \in [Block -> Val] /\ held' \in [Proc -> SUBSET Block]
    BY <1>1, <1>2, Zenon
  <2>. QED BY <1>1, <1>4, <2>1, <2>2, Zenon DEF LogInv, TypeOK, Slot
<1>6. ControlInv'
  BY <1>1, <1>2, <1>3, Zenon DEF LogInv, ControlInv, CommitPc
<1>7. CallInv'
  <2>1. SUFFICES ASSUME NEW q \in Proc
                 PROVE  /\ q \notin Ops' => left'[q] = 0
                        /\ pc'[q] # "log_write" => held'[q] = {}
                        /\ pc'[q] = "log_write" =>
                             \E c \in Block : held'[q] = {c} /\ (c \in Blocks(lh') \/ left'[q] > 0)
    BY DEF CallInv, Blocks
  <2>2. CASE q = p
    BY <1>1, <1>2, <1>3, <2>2, Zenon
  <2>3. CASE q # p
    BY <1>1, <1>2, <1>3, <2>3, Zenon DEF LogInv, CallInv
  <2>. QED BY <2>2, <2>3, Zenon
<1>8. SpaceInv'
  BY <1>1, <1>3, SpaceKept DEF LogInv
<1>9. SleeperOwed'
  BY <1>1, <1>2, OwedKept DEF LogInv
<1>10. LoopInv'
  BY <1>1, <1>2, LoopKept DEF LogInv, CommitPc
<1>. QED BY <1>5, <1>6, <1>7, <1>8, <1>9, <1>10 DEF LogInv

\* Absorption adds a block to the log exactly when it is not there yet.
LEMMA AbsorbFacts ==
  ASSUME NEW s \in Seq(Block), NEW b \in Block
  PROVE  /\ Absorb(s, b) \in Seq(Block)
         /\ Blocks(Absorb(s, b)) = Blocks(s) \cup {b}
         /\ Len(Absorb(s, b)) = IF b \in Blocks(s) THEN Len(s) ELSE Len(s) + 1
<1>1. CASE b \in Blocks(s)
  BY <1>1 DEF Absorb
<1>2. CASE b \notin Blocks(s)
  <2>1. Absorb(s, b) = Append(s, b)
    BY <1>2 DEF Absorb
  <2>2. /\ Append(s, b) \in Seq(Block) /\ Len(Append(s, b)) = Len(s) + 1
        /\ \A i \in 1..(Len(s) + 1) : Append(s, b)[i] = IF i = Len(s) + 1 THEN b ELSE s[i]
    OBVIOUS
  <2>3. Len(s) \in Nat
    OBVIOUS
  <2>4. Blocks(Append(s, b)) = Blocks(s) \cup {b}
    BY <2>2, <2>3 DEF Blocks
  <2>. QED BY <1>2, <2>1, <2>2, <2>4
<1>. QED BY <1>1, <1>2

LEMMA LogWriteStep ==
  ASSUME Counting, Room, LogInv, NEW p \in Proc, LogWrite(p)
  PROVE  LogInv'
<1>1. PICK b \in held[p] :
        /\ lh' = Absorb(lh, b) /\ dirty' = dirty \cup {b}
        /\ left' = [left EXCEPT ![p] = IF b \in Blocks(lh) THEN @ ELSE @ - 1]
  BY Zenon DEF LogWrite
<1>2. /\ phase = "up" /\ pc[p] = "log_write"
      /\ pc' = [pc EXCEPT ![p] = "op"] /\ held' = [held EXCEPT ![p] = {}]
      /\ UNCHANGED <<home, logblk, head, outstanding, committing, data,
                     phase, tail, panic>>
  BY DEF LogWrite, Running, disk
<1>3. /\ pc \in [Proc -> Pc] /\ left \in [Proc -> 0..OpBlocks] /\ lh \in Seq(Block)
      /\ held \in [Proc -> SUBSET Block] /\ dirty \in SUBSET Block /\ b \in Block
  BY DEF LogInv, TypeOK
<1>4. b \in Blocks(lh) \/ left[p] > 0
  BY <1>2 DEF LogInv, CallInv
<1>5. /\ lh' \in Seq(Block) /\ Blocks(lh') = Blocks(lh) \cup {b}
      /\ Len(lh') = IF b \in Blocks(lh) THEN Len(lh) ELSE Len(lh) + 1
  BY <1>1, <1>3, AbsorbFacts
<1>6. left' \in [Proc -> 0..OpBlocks]
  <2>1. left[p] \in 0..OpBlocks /\ (left[p] > 0 => left[p] - 1 \in 0..OpBlocks)
    BY <1>3, SizeAssumption
  <2>. QED BY <1>1, <1>3, <1>4, <2>1, Zenon
<1>7. TypeOK'
  <2>1. pc' \in [Proc -> Pc]
    BY <1>2, <1>3 DEF Pc
  <2>2. dirty' \in SUBSET Block /\ held' \in [Proc -> SUBSET Block]
    BY <1>1, <1>2, <1>3
  <2>. QED BY <1>2, <1>5, <1>6, <2>1, <2>2, Zenon DEF LogInv, TypeOK, Slot
<1>8. Ops' = Ops /\ p \in Ops
  BY <1>2, <1>3, Zenon DEF Ops
<1>9. ControlInv'
  BY <1>2, <1>3, <1>8, Zenon DEF LogInv, ControlInv, CommitPc, Ops
<1>10. CallInv'
  <2>1. SUFFICES ASSUME NEW q \in Proc
                 PROVE  /\ q \notin Ops' => left'[q] = 0
                        /\ pc'[q] # "log_write" => held'[q] = {}
                        /\ pc'[q] = "log_write" =>
                             \E c \in Block : held'[q] = {c} /\ (c \in Blocks(lh') \/ left'[q] > 0)
    BY DEF CallInv, Blocks
  <2>2. CASE q = p
    BY <1>2, <1>3, <1>8, <2>2
  <2>3. CASE q # p
    BY <1>1, <1>2, <1>3, <1>5, <1>8, <2>3, Zenon DEF LogInv, CallInv
  <2>. QED BY <2>2, <2>3, Zenon
<1>11. SpaceInv'
  <2>1. Len(lh') + Cardinality(Budget') = Len(lh) + Cardinality(Budget)
    <3>1. Budget' = BudgetOf(left') /\ Budget = BudgetOf(left)
      BY DEF Budget, BudgetOf
    <3>2. CASE b \in Blocks(lh)
      <4>1. left' = left
        BY <1>1, <1>3, <3>2, Zenon
      <4>. QED BY <1>5, <3>1, <3>2, <4>1, Zenon
    <3>3. CASE b \notin Blocks(lh)
      <4>1. left' = [left EXCEPT ![p] = @ - 1] /\ left[p] > 0
        BY <1>1, <1>4, <3>3
      <4>2. Cardinality(Budget') = Cardinality(Budget) - 1
        BY <1>3, <3>1, <4>1, BudgetSpent, Zenon
      <4>. QED BY <1>5, <3>3, <4>2, TypeFacts DEF LogInv
    <3>. QED BY <3>2, <3>3
  <2>2. Ops # {}
    BY <1>8
  <2>. QED BY <1>2, <1>8, <2>1, <2>2, Zenon DEF LogInv, SpaceInv, Fits
<1>12. SleeperOwed'
  BY <1>2, <1>3, OwedKept DEF LogInv
<1>13. LoopInv'
  <2>1. \A q \in Proc : pc'[q] \notin CommitPc
    <3>1. \A q \in Proc : pc[q] \notin CommitPc
      BY <1>8 DEF LogInv, ControlInv
    <3>. QED BY <1>2, <1>3, <3>1, Zenon DEF CommitPc
  <2>. QED BY <1>2, <2>1 DEF LoopInv, CommitPc
<1>. QED BY <1>7, <1>9, <1>10, <1>11, <1>12, <1>13, Zenon DEF LogInv
LEMMA EndOpStep ==
  ASSUME Counting, Room, LogInv, NEW p \in Proc, EndOp(p)
  PROVE  LogInv'
<1>1. /\ phase = "up" /\ pc[p] = "op" /\ outstanding' = outstanding - 1
      /\ left' = [left EXCEPT ![p] = 0]
      /\ UNCHANGED <<home, logblk, head, lh, data, dirty, held, phase, tail>>
  BY DEF EndOp, Running, disk, cache
<1>2. /\ pc \in [Proc -> Pc] /\ left \in [Proc -> 0..OpBlocks] /\ outstanding \in Nat
      /\ panic = "none"
  BY DEF LogInv, TypeOK
<1>3. p \in Ops /\ ~committing
  BY <1>1 DEF Ops, LogInv, ControlInv
<1>4. /\ \A q \in Proc : pc[q] \notin CommitPc
  BY <1>3 DEF LogInv, ControlInv
<1>5. panic' = "none"
  BY <1>2, <1>3, Zenon DEF EndOp
<1>6. \/ /\ outstanding = 1 /\ committing' = TRUE
         /\ pc' = [pc EXCEPT ![p] = "commit"]
      \/ /\ outstanding # 1 /\ committing' = committing
         /\ pc' = Wakeup([pc EXCEPT ![p] = "out"])
  BY <1>3 DEF EndOp
<1>7. pc' \in [Proc -> Pc] /\ Ops' = Ops \ {p}
  <2>1. CASE pc' = [pc EXCEPT ![p] = "commit"]
    BY <1>2, <2>1 DEF Pc, CommitPc, Ops
  <2>2. CASE pc' = Wakeup([pc EXCEPT ![p] = "out"])
    BY <1>2, <2>2 DEF Pc, Ops, Wakeup
  <2>. QED BY <1>6, <2>1, <2>2
<1>8. /\ Cardinality(Ops') = outstanding - 1 /\ outstanding = Cardinality(Ops)
      /\ outstanding >= 1 /\ (outstanding = 1 => Ops' = {}) /\ (outstanding # 1 => Ops' # {})
  <2>1. outstanding = Cardinality(Ops) /\ IsFiniteSet(Ops)
    BY TypeFacts DEF LogInv, SpaceInv
  <2>2. Cardinality(Ops \ {p}) = outstanding - 1 /\ IsFiniteSet(Ops \ {p})
    BY <1>3, <2>1 DEF Counting, Removals
  <2>3. outstanding # 0
    BY <1>3, <2>1 DEF Counting, EmptySets
  <2>4. Cardinality(Ops') = 0 <=> Ops' = {}
    BY <1>7, <2>2, Zenon DEF Counting, EmptySets
  <2>. QED BY <1>2, <1>7, <2>1, <2>2, <2>3, <2>4
<1>9. TypeOK'
  <2>1. left' \in [Proc -> 0..OpBlocks]
    BY <1>1, <1>2, SizeAssumption
  <2>2. outstanding' \in Nat
    BY <1>1, <1>2, <1>8
  <2>3. committing' \in BOOLEAN
    <3>1. committing \in BOOLEAN
      BY DEF LogInv, TypeOK
    <3>2. committing' = TRUE \/ committing' = committing
      BY <1>6
    <3>. QED BY <3>1, <3>2, Zenon
  <2>. QED BY <1>1, <1>5, <1>7, <2>1, <2>2, <2>3, Zenon DEF LogInv, TypeOK, Slot
<1>10. \A q \in Proc : pc'[q] \in CommitPc => q = p /\ pc'[q] = "commit" /\ committing'
  <2>1. CASE outstanding = 1
    <3>1. committing' /\ pc' = [pc EXCEPT ![p] = "commit"]
      BY <1>6, <2>1
    <3>. QED BY <1>2, <1>4, <3>1
  <2>2. CASE outstanding # 1
    <3>1. pc' = Wakeup([pc EXCEPT ![p] = "out"])
      BY <1>6, <2>2, Zenon
    <3>. QED BY <1>2, <1>4, <3>1 DEF Wakeup, CommitPc
  <2>. QED BY <2>1, <2>2
<1>11. ControlInv'
  <2>1. committing' => Ops' = {}
    BY <1>3, <1>6, <1>8, Zenon
  <2>2. "committed" \in CommitPc
    BY DEF CommitPc
  <2>. QED BY <1>1, <1>10, <2>1, <2>2 DEF ControlInv
<1>12. CallInv'
  <2>1. SUFFICES ASSUME NEW q \in Proc
                 PROVE  /\ q \notin Ops' => left'[q] = 0
                        /\ pc'[q] # "log_write" => held'[q] = {}
                        /\ pc'[q] = "log_write" =>
                             \E c \in Block : held'[q] = {c} /\ (c \in Blocks(lh') \/ left'[q] > 0)
    BY DEF CallInv, Blocks
  <2>2. pc'[q] = "log_write" <=> q # p /\ pc[q] = "log_write"
    BY <1>1, <1>2, <1>6, Zenon DEF Wakeup
  <2>3. CASE q = p
    BY <1>1, <1>2, <2>2, <2>3, Zenon DEF LogInv, CallInv
  <2>4. CASE q # p
    BY <1>1, <1>2, <1>7, <2>2, <2>4, Zenon DEF LogInv, CallInv
  <2>. QED BY <2>3, <2>4, Zenon
<1>13. SpaceInv'
  <2>1. Budget' = BudgetOf(left') /\ Budget = BudgetOf(left)
    BY DEF Budget, BudgetOf
  <2>2. /\ Cardinality(Budget') <= Cardinality(Budget)
        /\ Cardinality(Budget') \in Nat /\ Cardinality(Budget) \in Nat
    <3>1. left' \in [Proc -> 0..OpBlocks] /\ \A q \in Proc : left'[q] <= left[q]
      BY <1>1, <1>2, SizeAssumption
    <3>. QED BY <1>2, <2>1, <3>1, BudgetShrinks, BudgetFinite, Zenon
  <2>3. Fits(Len(lh) + Cardinality(Budget'))
    BY <2>2, TypeFacts, FitsLess DEF LogInv, SpaceInv
  <2>4. ~(Ops' = {} /\ ~committing')
    BY <1>6, <1>8, Zenon
  <2>. QED BY <1>1, <1>8, <2>3, <2>4, Zenon DEF LogInv, SpaceInv, Fits
<1>14. LoopInv'
  BY <1>1, <1>10 DEF LogInv, LoopInv, CommitPc
<1>15. SleeperOwed'
  <2>1. CASE outstanding = 1
    BY <1>6, <2>1, Zenon DEF SleeperOwed
  <2>2. CASE outstanding # 1
    BY <1>1, <1>2, <1>8, <2>2 DEF SleeperOwed
  <2>. QED BY <2>1, <2>2
<1>. QED BY <1>9, <1>11, <1>12, <1>13, <1>14, <1>15, Zenon DEF LogInv
LEMMA LogIndex ==
  ASSUME Counting, Room, LogInv, tail \in 1..Len(lh)
  PROVE  /\ tail \in Slot /\ tail \in Nat /\ lh[tail] \in Block
         /\ tail + 1 \in Nat /\ (tail # Len(lh) => tail + 1 \in 1..Len(lh))
<1>1. Len(lh) < LOGSIZE /\ Len(lh) \in Nat
  BY TypeFacts, FitsLess, FitsRoom DEF LogInv, SpaceInv
<1>2. lh \in Seq(Block)
  BY DEF LogInv, TypeOK
<1>. QED BY <1>1, <1>2, SizeAssumption DEF Slot

LEMMA CommitStepKept ==
  ASSUME Counting, Room, LogInv, NEW p \in Proc, CommitStep(p), ~Finish(p)
  PROVE  LogInv'
<1>0. /\ TypeOK /\ ControlInv /\ CallInv /\ SpaceInv /\ LoopInv /\ SleeperOwed
      /\ Len(lh) \in Nat
  BY TypeFacts DEF LogInv
<1>c. /\ {"commit", "write_log", "write_head", "install_trans", "erase", "committed"} = CommitPc
  BY DEF CommitPc
<1>1. CASE Commit(p)
  <2>1. /\ UNCHANGED <<home, logblk, head, lh, outstanding, committing, data, dirty, held, phase, left, panic>>
        /\ tail' = 1
    BY <1>1 DEF Commit, disk, cache
  <2>2. PICK to \in {"write_log", "committed"} :
          Goto(p, "commit", to) /\ (to = "write_log" <=> Len(lh) > 0)
    BY <1>1 DEF Commit
  <2>3. /\ pc' \in [Proc -> Pc] /\ pc'[p] = to /\ Ops' = Ops
        /\ \A q \in Proc : q # p => pc'[q] = pc[q] /\ pc[q] \notin CommitPc
    BY <1>0, <1>c, <2>2, GotoKept, Zenon
  <2>4. TypeOK'
    BY <1>0, <2>1, <2>3 DEF TypeOK, Slot
  <2>5. to = "committed" => lh = <<>>
    BY <1>0, <2>2 DEF TypeOK
  <2>6. ControlInv' /\ CallInv' /\ SleeperOwed'
    BY <1>0, <1>c, <2>1, <2>2, <2>5, CommitKept, Zenon
  <2>7. SpaceInv'
    BY <1>0, <2>1, <2>3, SpaceKept, Zenon
  <2>8. phase = "up"
    BY <2>2, Zenon DEF Goto, Running
  <2>9. LoopInv'
    BY <1>0, <1>c, <2>1, <2>2, <2>3, <2>8 DEF LoopInv
  <2>. QED BY <2>4, <2>6, <2>7, <2>9, Zenon DEF LogInv
<1>2. CASE WriteLog(p)
  <2>1. /\ UNCHANGED <<home, head, lh, outstanding, committing, data, dirty, held, phase, left, panic>>
        /\ tail' = tail + 1 /\ logblk' = [logblk EXCEPT ![tail] = data[lh[tail]]]
    BY <1>2, Zenon DEF WriteLog, cache
  <2>2. PICK to \in {"write_log", "write_head"} :
          Goto(p, "write_log", to) /\ (to = "write_head" <=> tail = Len(lh))
    BY <1>2 DEF WriteLog
  <2>3. /\ pc' \in [Proc -> Pc] /\ pc'[p] = to /\ Ops' = Ops
        /\ \A q \in Proc : q # p => pc'[q] = pc[q] /\ pc[q] \notin CommitPc
    BY <1>0, <1>c, <2>2, GotoKept, Zenon
  <2>4. phase = "up" /\ tail \in 1..Len(lh)
    BY <1>0, <2>2 DEF Goto, Running, LoopInv
  <2>5. /\ tail \in Slot /\ lh[tail] \in Block /\ tail + 1 \in Nat
        /\ (tail # Len(lh) => tail + 1 \in 1..Len(lh))
    BY <2>4, LogIndex, Zenon
  <2>6. logblk' \in [Slot -> Val]
    BY <1>0, <2>1, <2>5, Zenon DEF TypeOK
  <2>7. TypeOK'
    BY <1>0, <2>1, <2>3, <2>5, <2>6, Zenon DEF TypeOK, Slot
  <2>8. ControlInv' /\ CallInv' /\ SleeperOwed'
    BY <1>0, <1>c, <2>1, <2>2, CommitKept, Zenon
  <2>9. SpaceInv'
    BY <1>0, <2>1, <2>3, SpaceKept, Zenon
  <2>10. LoopInv'
    BY <1>0, <1>c, <2>1, <2>2, <2>3, <2>4, <2>5 DEF LoopInv
  <2>. QED BY <2>7, <2>8, <2>9, <2>10, Zenon DEF LogInv
<1>3. CASE WriteHead(p)
  <2>1. /\ UNCHANGED <<home, logblk, lh, outstanding, committing, data, dirty, held, phase, left, panic>>
        /\ tail' = 1 /\ head' = lh /\ Goto(p, "write_head", "install_trans")
    BY <1>3 DEF WriteHead, cache
  <2>2. /\ pc' \in [Proc -> Pc] /\ pc'[p] = "install_trans" /\ Ops' = Ops /\ committing
        /\ \A q \in Proc : q # p => pc'[q] = pc[q] /\ pc[q] \notin CommitPc
    BY <1>0, <1>c, <2>1, GotoKept, Zenon
  <2>3. phase = "up" /\ Len(lh) > 0
    BY <1>0, <2>1, Zenon DEF Goto, Running, LoopInv
  <2>4. TypeOK'
    BY <1>0, <2>1, <2>2 DEF TypeOK, Slot
  <2>5. ControlInv' /\ CallInv' /\ SleeperOwed'
    BY <1>0, <1>c, <2>1, CommitKept, Zenon
  <2>6. SpaceInv'
    <3>1. Budget' = Budget
      BY <2>1 DEF Budget, BudgetOf
    <3>2. Fits(Len(lh))
      BY <1>0, TypeFacts, FitsLess DEF SpaceInv
    <3>. QED BY <1>0, <2>1, <2>2, <3>1, <3>2, Zenon DEF SpaceInv, Fits
  <2>7. LoopInv'
    BY <1>0, <1>c, <2>1, <2>2, <2>3 DEF LoopInv
  <2>. QED BY <2>4, <2>5, <2>6, <2>7, Zenon DEF LogInv
<1>4. CASE InstallTrans(p)
  <2>1. /\ UNCHANGED <<logblk, head, lh, outstanding, committing, held, phase, left, panic>>
        /\ tail' = tail + 1 /\ home' = [home EXCEPT ![lh[tail]] = logblk[tail]]
        /\ data' = [data EXCEPT ![lh[tail]] = logblk[tail]] /\ dirty' = dirty \ {lh[tail]}
    BY <1>4 DEF InstallTrans, InstallBlock
  <2>2. PICK to \in {"install_trans", "erase"} :
          Goto(p, "install_trans", to) /\ (to = "erase" <=> tail = Len(lh))
    BY <1>4, Zenon DEF InstallTrans
  <2>3. /\ pc' \in [Proc -> Pc] /\ pc'[p] = to /\ Ops' = Ops
        /\ \A q \in Proc : q # p => pc'[q] = pc[q] /\ pc[q] \notin CommitPc
    BY <1>0, <1>c, <2>2, GotoKept
  <2>4. phase = "up" /\ tail \in 1..Len(lh)
    BY <1>0, <2>2, Zenon DEF Goto, Running, LoopInv
  <2>5. /\ tail \in Slot /\ lh[tail] \in Block /\ tail + 1 \in Nat
        /\ (tail # Len(lh) => tail + 1 \in 1..Len(lh))
    BY <2>4, LogIndex, Zenon
  <2>6. home' \in [Block -> Val] /\ data' \in [Block -> Val] /\ dirty' \in SUBSET Block
    BY <1>0, <2>1, <2>5, Zenon DEF TypeOK
  <2>7. TypeOK'
    BY <1>0, <2>1, <2>3, <2>5, <2>6, Zenon DEF TypeOK, Slot
  <2>8. ControlInv' /\ CallInv' /\ SleeperOwed'
    BY <1>0, <1>c, <2>1, <2>2, CommitKept, Zenon
  <2>9. SpaceInv'
    BY <1>0, <2>1, <2>3, SpaceKept, Zenon
  <2>10. LoopInv'
    BY <1>0, <1>c, <2>1, <2>2, <2>3, <2>4, <2>5 DEF LoopInv
  <2>. QED BY <2>7, <2>8, <2>9, <2>10 DEF LogInv
<1>5. CASE Erase(p)
  <2>1. /\ UNCHANGED <<home, logblk, outstanding, committing, data, dirty, held, phase, tail, left, panic>>
        /\ head' = <<>> /\ lh' = <<>> /\ Goto(p, "erase", "committed")
    BY <1>5 DEF Erase, EraseHead, cache
  <2>2. /\ pc' \in [Proc -> Pc] /\ pc'[p] = "committed" /\ Ops' = Ops /\ committing
        /\ \A q \in Proc : q # p => pc'[q] = pc[q] /\ pc[q] \notin CommitPc
    BY <1>0, <1>c, <2>1, GotoKept, Zenon
  <2>3. phase = "up"
    BY <2>1 DEF Goto, Running
  <2>4. <<>> \in Seq(Block) /\ Len(<<>>) = 0
    OBVIOUS
  <2>5. TypeOK'
    BY <1>0, <2>1, <2>2, <2>4 DEF TypeOK, Slot
  <2>6. ControlInv' /\ CallInv' /\ SleeperOwed'
    BY <1>0, <1>c, <2>1, CommitKept, Zenon
  <2>7. SpaceInv'
    <3>1. Budget' = Budget
      BY <2>1, Zenon DEF Budget, BudgetOf
    <3>2. Fits(0 + Cardinality(Budget)) /\ Fits(0)
      BY <1>0, TypeFacts, FitsLess DEF SpaceInv
    <3>. QED BY <1>0, <2>1, <2>2, <2>4, <3>1, <3>2, Zenon DEF SpaceInv, Fits
  <2>8. LoopInv'
    BY <1>0, <1>c, <2>1, <2>2, <2>3, Zenon DEF LoopInv
  <2>. QED BY <2>5, <2>6, <2>7, <2>8 DEF LogInv
<1>. QED BY <1>1, <1>2, <1>3, <1>4, <1>5, Zenon DEF CommitStep
LEMMA FinishStep ==
  ASSUME Room, LogInv, NEW p \in Proc, Finish(p)
  PROVE  LogInv'
<1>1. /\ phase = "up" /\ pc[p] = "committed" /\ committing' = FALSE
      /\ pc' = Wakeup([pc EXCEPT ![p] = "out"])
      /\ UNCHANGED <<home, logblk, head, lh, outstanding, data, dirty, held, phase,
                     tail, left, panic>>
  BY DEF Finish, Running, disk, cache
<1>2. pc \in [Proc -> Pc]
  BY Zenon DEF LogInv, TypeOK
<1>3. /\ pc[p] \in CommitPc /\ committing /\ lh = <<>> /\ Ops = {}
      /\ \A q \in Proc : q # p => pc[q] \notin CommitPc
  BY <1>1, Zenon DEF LogInv, ControlInv, CommitPc
<1>4. pc' \in [Proc -> Pc] /\ \A q \in Proc : pc'[q] \notin CommitPc
  BY <1>1, <1>2, <1>3 DEF Wakeup, Pc, CommitPc
<1>5. Ops' = Ops
  BY <1>1, <1>2 DEF Wakeup, Ops
<1>6. TypeOK'
  <2>1. committing' \in BOOLEAN
    BY <1>1, Zenon
  <2>. QED BY <1>1, <1>4, <2>1, Zenon DEF LogInv, TypeOK, Slot
<1>7. ControlInv'
  <2>1. "committed" \in CommitPc
    BY DEF CommitPc
  <2>. QED BY <1>1, <1>4, <2>1, Zenon DEF ControlInv
<1>8. CallInv'
  <2>1. \A q \in Proc : pc[q] # "log_write" /\ pc'[q] # "log_write" /\ q \notin Ops
    BY <1>3, <1>5 DEF Ops
  <2>. QED BY <1>1, <2>1, Zenon DEF LogInv, CallInv
<1>9. SpaceInv'
  BY <1>1, <1>3, <1>5 DEF LogInv, SpaceInv, Budget, BudgetOf, Fits
<1>10. LoopInv'
  BY <1>1, <1>4, LoopKept, Zenon DEF LogInv
<1>11. SleeperOwed'
  BY <1>1, <1>2 DEF SleeperOwed, Wakeup
<1>. QED BY <1>6, <1>7, <1>8, <1>9, <1>10, <1>11 DEF LogInv

LEMMA EvictStep ==
  ASSUME LogInv, NEW b \in Block, Evict(b)
  PROVE  LogInv'
<1>1. /\ data' = [data EXCEPT ![b] = home[b]]
      /\ UNCHANGED <<home, logblk, head, lh, outstanding, committing, dirty, held,
                     phase, tail, pc, left, panic>>
  BY Zenon DEF Evict, disk
<1>2. data' \in [Block -> Val]
  BY <1>1 DEF LogInv, TypeOK
<1>3. TypeOK'
  BY <1>1, <1>2 DEF LogInv, TypeOK, Slot
<1>4. Ops' = Ops
  BY <1>1, Zenon DEF Ops
<1>5. ControlInv' /\ CallInv'
  BY <1>1, <1>4 DEF LogInv, ControlInv, CallInv, Blocks
<1>6. SpaceInv' /\ LoopInv' /\ SleeperOwed'
  BY <1>1, <1>4, SpaceKept, LoopKept, OwedKept, Zenon DEF LogInv
<1>. QED BY <1>3, <1>5, <1>6, Zenon DEF LogInv

\* A machine without processes: no calls, no budgets.
LEMMA DownCounts ==
  ASSUME Counting, \A p \in Proc : pc[p] = "out" /\ left[p] = 0
  PROVE  Ops = {} /\ Cardinality(Ops) = 0 /\ Cardinality(Budget) = 0
<1>1. Ops = {}
  BY DEF Ops
<1>2. Budget = {}
  BY SizeAssumption DEF Budget, BudgetOf
<1>. QED BY <1>1, <1>2, Zenon DEF Counting, EmptySets

LEMMA CrashStep ==
  ASSUME Counting, LogInv, Crash
  PROVE  LogInv'
<1>1. /\ lh' = <<>> /\ outstanding' = 0 /\ committing' = FALSE /\ data' = home
      /\ dirty' = {} /\ held' = [p \in Proc |-> {}] /\ phase' = "read_head" /\ tail' = 1
      /\ pc' = [p \in Proc |-> "out"] /\ left' = [p \in Proc |-> 0] /\ panic' = "none"
      /\ UNCHANGED <<home, logblk, head>>
  BY DEF Crash, disk
<1>2. <<>> \in Seq(Block) /\ Len(<<>>) = 0
  OBVIOUS
<1>3. TypeOK'
  <2>1. lh' \in Seq(Block) /\ outstanding' \in Nat /\ tail' \in Nat
    BY <1>1, <1>2
  <2>2. committing' \in BOOLEAN
    BY <1>1, Zenon
  <2>3. dirty' \in SUBSET Block /\ held' \in [Proc -> SUBSET Block]
    BY <1>1
  <2>4. left' \in [Proc -> 0..OpBlocks]
    BY <1>1, SizeAssumption
  <2>5. phase' \in Phase /\ pc' \in [Proc -> Pc]
    BY <1>1, Zenon DEF Phase, Pc
  <2>6. home' \in [Block -> Val] /\ data' \in [Block -> Val]
        /\ logblk' \in [Slot -> Val] /\ head' \in Seq(Block)
    BY <1>1 DEF LogInv, TypeOK
  <2>. QED BY <1>1, <2>1, <2>2, <2>3, <2>4, <2>5, <2>6 DEF TypeOK, Slot
<1>4. Ops' = {} /\ Cardinality(Ops') = 0 /\ Cardinality(Budget') = 0
  <2>1. Ops' = {} /\ Budget' = {}
    BY <1>1, SizeAssumption DEF Ops, Budget, BudgetOf
  <2>. QED BY <2>1, Zenon DEF Counting, EmptySets
<1>5. ControlInv' /\ CallInv' /\ LoopInv' /\ SleeperOwed'
  BY <1>1, <1>4, Zenon DEF ControlInv, CallInv, LoopInv, SleeperOwed, CommitPc
<1>6. SpaceInv'
  BY <1>1, <1>2, <1>4, SizeAssumption DEF LogInv, SpaceInv, Fits
<1>. QED BY <1>3, <1>5, <1>6 DEF LogInv

LEMMA RecoverStep ==
  ASSUME Counting, Room, LogInv, Recover
  PROVE  LogInv'
<1>1. /\ phase # "up" /\ UNCHANGED <<outstanding, committing, held, pc, left, panic, logblk>>
  BY Zenon DEF Recover, ReadHead, RecoverBlock, RecoverClear, InstallBlock, disk, cache
<1>2. ~committing /\ \A p \in Proc : pc[p] = "out" /\ left[p] = 0 /\ held[p] = {}
  BY <1>1 DEF LogInv, ControlInv, CallInv, Ops
<1>3. /\ Ops = {} /\ Cardinality(Ops) = 0 /\ Cardinality(Budget) = 0
      /\ Ops' = Ops /\ Budget' = Budget
  BY <1>1, <1>2, DownCounts DEF Ops, Budget, BudgetOf
<1>4. <<>> \in Seq(Block) /\ Len(<<>>) = 0
  OBVIOUS
<1>5. /\ TypeOK' /\ LoopInv' /\ (phase' = "up" => lh' = <<>>)
      /\ lh' \in {lh, head, <<>>} /\ head' \in {head, <<>>}
  <2>1. CASE ReadHead
    <3>1. /\ phase = "read_head" /\ lh' = head
          /\ phase' = IF head = <<>> THEN "clear" ELSE "install_trans"
          /\ UNCHANGED <<home, head, data, dirty, tail>>
      BY <2>1, Zenon DEF ReadHead, disk, cache
    <3>2. tail = 1 /\ head \in Seq(Block) /\ (head # <<>> => Len(head) >= 1)
      BY <3>1 DEF LogInv, LoopInv, TypeOK
    <3>3. TypeOK'
      BY <1>1, <3>1, <3>2 DEF LogInv, TypeOK, Slot, Phase
    <3>4. LoopInv'
      <4>1. phase' # "read_head" /\ (phase' = "install_trans" => head # <<>>)
        BY <3>1, Zenon
      <4>2. phase' = "install_trans" => tail' \in 1..Len(lh')
        <5>1. head # <<>> => 1 \in 1..Len(head)
          BY <3>2
        <5>. QED BY <3>1, <3>2, <4>1, <5>1, Zenon
      <4>3. \A p \in Proc : pc'[p] = "out"
        BY <1>1, <1>2, Zenon
      <4>. QED BY <4>1, <4>2, <4>3, Zenon DEF LoopInv
    <3>. QED BY <3>1, <3>3, <3>4, Zenon
  <2>2. CASE RecoverBlock
    <3>1. /\ phase = "install_trans" /\ UNCHANGED <<head, lh>>
          /\ tail' = tail + 1 /\ home' = [home EXCEPT ![lh[tail]] = logblk[tail]]
          /\ data' = [data EXCEPT ![lh[tail]] = logblk[tail]] /\ dirty' = dirty \ {lh[tail]}
          /\ phase' = IF tail = Len(lh) THEN "clear" ELSE phase
      BY <2>2, Zenon DEF RecoverBlock, InstallBlock
    <3>2. tail \in 1..Len(lh)
      BY <3>1 DEF LogInv, LoopInv
    <3>3. /\ tail \in Slot /\ lh[tail] \in Block /\ tail + 1 \in Nat
          /\ (tail # Len(lh) => tail + 1 \in 1..Len(lh))
      BY <3>2, LogIndex, Zenon
    <3>4. home' \in [Block -> Val] /\ data' \in [Block -> Val] /\ dirty' \in SUBSET Block
      BY <3>1, <3>3, Zenon DEF LogInv, TypeOK
    <3>5. TypeOK'
      BY <1>1, <3>1, <3>3, <3>4 DEF LogInv, TypeOK, Slot, Phase
    <3>6. LoopInv'
      BY <1>1, <1>2, <3>1, <3>3, Zenon DEF LoopInv
    <3>. QED BY <3>1, <3>5, <3>6, Zenon
  <2>3. CASE RecoverClear
    <3>1. /\ phase' = "up" /\ lh' = <<>> /\ head' = <<>>
          /\ UNCHANGED <<home, data, dirty, tail>>
      BY <2>3, Zenon DEF RecoverClear, EraseHead, cache
    <3>2. TypeOK'
      BY <1>1, <1>4, <3>1 DEF LogInv, TypeOK, Slot, Phase
    <3>3. LoopInv'
      BY <1>1, <1>2, <3>1, Zenon DEF LoopInv
    <3>. QED BY <3>1, <3>2, <3>3, Zenon
  <2>. QED BY <2>1, <2>2, <2>3, Zenon DEF Recover
<1>6. ControlInv' /\ CallInv' /\ SleeperOwed'
  BY <1>1, <1>2, <1>3, Zenon DEF ControlInv, CallInv, SleeperOwed, CommitPc, Ops
<1>7. SpaceInv'
  <2>1. /\ Fits(Len(lh) + 0) /\ Fits(Len(head)) /\ Fits(0) /\ outstanding = 0
        /\ Len(lh) \in Nat /\ Len(head) \in Nat
    BY <1>3, SizeAssumption, TypeFacts DEF LogInv, SpaceInv, Fits
  <2>2. Fits(Len(lh')) /\ Fits(Len(head')) /\ Len(lh') \in Nat
    BY <1>4, <1>5, <2>1
  <2>. QED BY <1>1, <1>3, <1>5, <2>1, <2>2 DEF SpaceInv, Fits
<1>. QED BY <1>5, <1>6, <1>7, Zenon DEF LogInv
LEMMA StutterKept == ASSUME LogInv, UNCHANGED vars PROVE LogInv'
<1>1. UNCHANGED <<home, logblk, head, lh, outstanding, committing, data, dirty, held,
                  phase, tail, pc, left, panic>>
  BY DEF vars, disk, cache
<1>2. TypeOK'
  BY <1>1 DEF LogInv, TypeOK, Slot
<1>3. Ops' = Ops
  BY <1>1, Zenon DEF Ops
<1>4. ControlInv' /\ CallInv'
  BY <1>1, <1>3 DEF LogInv, ControlInv, CallInv, Blocks
<1>5. SpaceInv' /\ LoopInv' /\ SleeperOwed'
  BY <1>1, <1>3, SpaceKept, LoopKept, OwedKept, Zenon DEF LogInv
<1>. QED BY <1>2, <1>4, <1>5, Zenon DEF LogInv

LEMMA LogInvStep ==
  ASSUME Counting, Room, LogInv, [Next]_vars
  PROVE  LogInv'
<1>1. CASE \E p \in Proc : BeginOp(p)
  BY <1>1, SleepStep, EnterStep, Zenon DEF BeginOp
<1>2. CASE \E p \in Proc : LogWrite(p) \/ EndOp(p) \/ CommitStep(p)
  BY <1>2, LogWriteStep, EndOpStep, CommitStepKept, FinishStep
<1>3. CASE \E p \in Proc, b \in Block, v \in Val : Modify(p, b, v)
  BY <1>3, ModifyStep
<1>4. CASE \E b \in Block : Evict(b)
  BY <1>4, EvictStep
<1>5. CASE Crash \/ Recover
  BY <1>5, CrashStep, RecoverStep
<1>6. CASE UNCHANGED vars
  BY <1>6, StutterKept
<1>. QED BY <1>1, <1>2, <1>3, <1>4, <1>5, <1>6 DEF Next

-----------------------------------------------------------------------------
LEMMA RecoveredIs ==
  ASSUME NEW h \in Seq(Block), Distinct(h), NEW l, NEW d, NEW g \in [Block -> Val],
         \A i \in 1..Len(h) : g[h[i]] = l[i],
         \A b \in Block : b \notin Blocks(h) => g[b] = d[b]
  PROVE  Recovered(h, l, d) = g
<1>1. ASSUME NEW b \in Block PROVE Recovered(h, l, d)[b] = g[b]
  <2>1. CASE b \in Blocks(h)
    <3>. DEFINE i == CHOOSE i \in 1..Len(h) : h[i] = b
    <3>1. i \in 1..Len(h) /\ h[i] = b
      BY <2>1, Zenon DEF Blocks
    <3>2. Recovered(h, l, d)[b] = l[i]
      BY <2>1 DEF Recovered
    <3>. QED BY <3>1, <3>2, Zenon
  <2>2. CASE b \notin Blocks(h)
    BY <2>2 DEF Recovered
  <2>. QED BY <2>1, <2>2, Zenon
<1>. QED BY <1>1, Zenon DEF Recovered

LEMMA RecoveredTo ==
  ASSUME lh \in Seq(Block), Distinct(lh), NEW g \in [Block -> Val],
         \A i \in 1..Len(lh) : g[lh[i]] = logblk[i],
         \A b \in Block : b \notin Blocks(lh) => g[b] = home[b]
  PROVE  Recovered(lh, logblk, home) = g
BY RecoveredIs

LEMMA NothingTwice == Distinct(<<>>)
BY DEF Distinct

LEMMA RecoveredEmpty ==
  ASSUME NEW l, NEW d \in [Block -> Val]
  PROVE  Recovered(<<>>, l, d) = d
BY DEF Recovered, Blocks

\* Home blocks that the header names do not matter.
LEMMA RecoveredInstall ==
  ASSUME NEW h, NEW l, NEW d, NEW e,
         \A b \in Block : b \notin Blocks(h) => e[b] = d[b]
  PROVE  Recovered(h, l, e) = Recovered(h, l, d)
BY DEF Recovered

-----------------------------------------------------------------------------
\* Steps that the abstract disk does not see.

Silent == Mem' = Mem /\ Stable' = Stable /\ Ops' = Ops

LEMMA DiskKept ==
  ASSUME UNCHANGED <<home, logblk, head>>
  PROVE  Stable' = Stable
BY DEF Stable, Recovered, Blocks

Claims == {"write_log", "write_head", "install_trans", "erase", "committed"}

LEMMA CrashKept ==
  ASSUME CrashInv, UNCHANGED <<home, logblk, head, lh, data, dirty, held, phase, tail>>,
         \A p \in Proc : pc'[p] \in Claims => pc'[p] = pc[p],
         \A p \in Proc : pc[p] \in {"install_trans", "erase"} => pc'[p] = pc[p]
  PROVE  CrashInv'
<1>1. CacheInv'
  BY DEF CrashInv, CacheInv, Distinct, Blocks
<1>2. CommitInv'
  BY DEF CrashInv, CommitInv, Logged, Claims
<1>3. RecoverInv'
  BY Zenon DEF CrashInv, RecoverInv, Logged
<1>. QED BY <1>1, <1>2, <1>3, Zenon DEF CrashInv

-----------------------------------------------------------------------------
\* One lemma per operation: CrashInv is kept, and what the abstract disk sees.

LEMMA InitCrash == ASSUME Init PROVE CrashInv /\ Abstract!Init
<1>1. home \in [Block -> Val] /\ head = <<>> /\ data = home /\ phase = "up"
  BY ValAssumption DEF Init
<1>2. CacheInv /\ CommitInv /\ RecoverInv
  BY DEF Init, CacheInv, CommitInv, RecoverInv, Distinct, Blocks, Logged
<1>3. Stable = home /\ Mem = home
  BY <1>1, RecoveredEmpty, Zenon DEF Stable, Mem
<1>4. Ops = {}
  BY DEF Init, Ops
<1>5. home = [b \in Block |-> V0]
  BY DEF Init
<1>. QED BY <1>2, <1>3, <1>4, <1>5 DEF CrashInv, Abstract!Init

LEMMA BeginOpCrash ==
  ASSUME LogInv, CrashInv, NEW p \in Proc, BeginOp(p)
  PROVE  CrashInv' /\ (Silent \/ Abstract!Begin(p))
<1>1. /\ UNCHANGED <<home, logblk, head, lh, data, dirty, held, phase, tail>>
      /\ pc[p] \in {"out", "woken"}
      /\ \/ pc' = [pc EXCEPT ![p] = "asleep"]
         \/ pc' = [pc EXCEPT ![p] = "op"]
  BY Zenon DEF BeginOp, Sleep, Enter, disk, cache
<1>2. pc \in [Proc -> Pc]
  BY Zenon DEF LogInv, TypeOK
<1>3. CrashInv'
  BY <1>1, <1>2, CrashKept DEF Claims
<1>4. Stable' = Stable /\ Mem' = Mem
  BY <1>1, DiskKept DEF Mem
<1>5. Ops' = Ops \/ (p \notin Ops /\ Ops' = Ops \cup {p})
  BY <1>1, <1>2 DEF Ops
<1>. QED BY <1>3, <1>4, <1>5 DEF Silent, Abstract!Begin

LEMMA EndOpCrash ==
  ASSUME LogInv, CrashInv, NEW p \in Proc, EndOp(p)
  PROVE  CrashInv' /\ Abstract!End(p)
<1>1. /\ UNCHANGED <<home, logblk, head, lh, data, dirty, held, phase, tail>>
      /\ pc[p] = "op"
  BY DEF EndOp, disk, cache
<1>2. pc \in [Proc -> Pc]
  BY DEF LogInv, TypeOK
<1>3. p \in Ops /\ ~committing
  BY <1>1 DEF Ops, LogInv, ControlInv
<1>4. \/ pc' = [pc EXCEPT ![p] = "commit"]
      \/ pc' = Wakeup([pc EXCEPT ![p] = "out"])
  BY <1>3, Zenon DEF EndOp
<1>5. CrashInv'
  BY <1>1, <1>2, <1>4, CrashKept DEF Claims, Wakeup
<1>6. Stable' = Stable /\ Mem' = Mem
  BY <1>1, DiskKept, Zenon DEF Mem
<1>7. Ops' = Ops \ {p}
  BY <1>1, <1>2, <1>4 DEF Ops, Wakeup
<1>. QED BY <1>3, <1>5, <1>6, <1>7 DEF Abstract!End

LEMMA FinishCrash ==
  ASSUME LogInv, CrashInv, NEW p \in Proc, Finish(p)
  PROVE  CrashInv' /\ Silent
<1>1. /\ UNCHANGED <<home, logblk, head, lh, data, dirty, held, phase, tail>>
      /\ pc[p] = "committed" /\ pc' = Wakeup([pc EXCEPT ![p] = "out"])
  BY DEF Finish, disk, cache
<1>2. pc \in [Proc -> Pc]
  BY DEF LogInv, TypeOK
<1>3. CrashInv'
  BY <1>1, <1>2, CrashKept DEF Claims, Wakeup
<1>4. Stable' = Stable /\ Mem' = Mem
  BY <1>1, DiskKept, Zenon DEF Mem
<1>5. Ops' = Ops
  BY <1>1, <1>2, Zenon DEF Ops, Wakeup
<1>. QED BY <1>3, <1>4, <1>5 DEF Silent

\* A recycled buffer comes back as it was.
LEMMA EvictCrash ==
  ASSUME LogInv, CrashInv, NEW b \in Block, Evict(b)
  PROVE  CrashInv' /\ Silent
<1>1. /\ UNCHANGED <<home, logblk, head, lh, dirty, held, phase, tail, pc>>
      /\ data' = [data EXCEPT ![b] = home[b]]
      /\ b \notin dirty /\ \A p \in Proc : b \notin held[p]
  BY DEF Evict, disk
<1>2. data[b] = home[b] /\ data \in [Block -> Val]
  BY <1>1 DEF CrashInv, CacheInv, LogInv, TypeOK
<1>3. data' = data
  BY <1>1, <1>2, Zenon
<1>4. CrashInv'
  BY <1>1, <1>3, CrashKept
<1>. QED BY <1>1, <1>3, <1>4, DiskKept DEF Silent, Mem, Ops
\* While a call is in progress nobody commits.
LEMMA NoCommitter ==
  ASSUME LogInv, NEW p \in Ops
  PROVE  ~committing /\ \A q \in Proc : pc[q] \notin CommitPc
BY DEF LogInv, ControlInv

LEMMA ModifyCrash ==
  ASSUME LogInv, CrashInv, NEW p \in Proc, NEW b \in Block, NEW v \in Val, Modify(p, b, v)
  PROVE  CrashInv' /\ Abstract!Write(p, b, v)
<1>1. /\ phase = "up" /\ pc[p] = "op" /\ \A q \in Proc : b \notin held[q]
      /\ pc' = [pc EXCEPT ![p] = "log_write"] /\ held' = [held EXCEPT ![p] = {b}]
      /\ data' = [data EXCEPT ![b] = v]
      /\ UNCHANGED <<home, logblk, head, lh, dirty, phase, tail>>
  BY Zenon DEF Modify, Running, disk
<1>2. pc \in [Proc -> Pc] /\ held \in [Proc -> SUBSET Block] /\ data \in [Block -> Val]
  BY Zenon DEF LogInv, TypeOK
<1>3. p \in Ops /\ Ops' = Ops
  BY <1>1, <1>2 DEF Ops
<1>4. \A q \in Proc : pc[q] \notin CommitPc /\ pc'[q] \notin CommitPc
  BY <1>1, <1>2, <1>3, NoCommitter DEF CommitPc
<1>5. CacheInv'
  <2>1. held[p] = {}
    BY <1>1 DEF LogInv, CallInv
  <2>2. ASSUME NEW c \in Block
        PROVE  c \in dirty' \/ data'[c] = home'[c] \/ \E q \in Proc : c \in held'[q]
    <3>1. CASE c = b
      BY <1>1, <1>2, <3>1
    <3>2. CASE c # b
      BY <1>1, <1>2, <2>1, <3>2 DEF CrashInv, CacheInv
    <3>. QED BY <3>1, <3>2
  <2>. QED BY <1>1, <2>2, Zenon DEF CrashInv, CacheInv
<1>6. CommitInv'
  BY <1>1, <1>4 DEF CrashInv, CommitInv, CommitPc
<1>7. RecoverInv'
  BY <1>1, Zenon DEF RecoverInv
<1>8. Stable' = Stable /\ Mem' = [Mem EXCEPT ![b] = v]
  BY <1>1, DiskKept DEF Mem
<1>. QED BY <1>3, <1>5, <1>6, <1>7, <1>8 DEF CrashInv, Abstract!Write

LEMMA AbsorbDistinct ==
  ASSUME NEW s \in Seq(Block), NEW b \in Block, Distinct(s)
  PROVE  Distinct(Absorb(s, b))
<1>1. CASE b \in Blocks(s)
  BY <1>1, Zenon DEF Absorb
<1>2. CASE b \notin Blocks(s)
  <2>1. Absorb(s, b) = Append(s, b) /\ \A i \in 1..Len(s) : s[i] # b
    BY <1>2 DEF Absorb, Blocks
  <2>2. /\ Len(Append(s, b)) = Len(s) + 1 /\ Len(s) \in Nat
        /\ \A i \in 1..(Len(s) + 1) : Append(s, b)[i] = IF i = Len(s) + 1 THEN b ELSE s[i]
    OBVIOUS
  <2>. QED BY <2>1, <2>2 DEF Distinct
<1>. QED BY <1>1, <1>2

LEMMA LogWriteCrash ==
  ASSUME LogInv, CrashInv, NEW p \in Proc, LogWrite(p)
  PROVE  CrashInv' /\ Silent
<1>1. PICK b \in held[p] : lh' = Absorb(lh, b) /\ dirty' = dirty \cup {b}
  BY Zenon DEF LogWrite
<1>2. /\ phase = "up" /\ pc[p] = "log_write"
      /\ pc' = [pc EXCEPT ![p] = "op"] /\ held' = [held EXCEPT ![p] = {}]
      /\ UNCHANGED <<home, logblk, head, data, phase, tail>>
  BY DEF LogWrite, Running, disk
<1>3. /\ pc \in [Proc -> Pc] /\ held \in [Proc -> SUBSET Block] /\ lh \in Seq(Block)
      /\ b \in Block
  BY DEF LogInv, TypeOK
<1>4. held[p] = {b}
  BY <1>1, <1>2 DEF LogInv, CallInv
<1>5. p \in Ops /\ Ops' = Ops
  BY <1>2, <1>3 DEF Ops
<1>6. \A q \in Proc : pc[q] \notin CommitPc /\ pc'[q] \notin CommitPc
  BY <1>2, <1>3, <1>5, NoCommitter DEF CommitPc
<1>7. CacheInv'
  <2>1. Distinct(lh') /\ dirty' \subseteq Blocks(lh')
    <3>1. Distinct(lh) /\ dirty \subseteq Blocks(lh)
      BY Zenon DEF CrashInv, CacheInv
    <3>2. Distinct(Absorb(lh, b))
      BY <1>3, <3>1, AbsorbDistinct, Zenon
    <3>3. Blocks(Absorb(lh, b)) = Blocks(lh) \cup {b}
      BY <1>3, AbsorbFacts, Zenon
    <3>. QED BY <1>1, <3>1, <3>2, <3>3, Zenon
  <2>2. ASSUME NEW c \in Block
        PROVE  c \in dirty' \/ data'[c] = home'[c] \/ \E q \in Proc : c \in held'[q]
    BY <1>1, <1>2, <1>3, <1>4, Zenon DEF CrashInv, CacheInv
  <2>3. Distinct(head')
    BY <1>2 DEF CrashInv, CacheInv, Distinct
  <2>4. Distinct(lh)' /\ Distinct(head)' /\ (dirty \subseteq Blocks(lh))'
    BY <2>1, <2>3 DEF Distinct, Blocks
  <2>. QED BY <1>2, <2>2, <2>4 DEF CacheInv
<1>8. CommitInv'
  BY <1>2, <1>6 DEF CrashInv, CommitInv, CommitPc
<1>9. RecoverInv'
  BY <1>2, Zenon DEF RecoverInv
<1>. QED BY <1>2, <1>5, <1>7, <1>8, <1>9, DiskKept DEF CrashInv, Silent, Mem

-----------------------------------------------------------------------------
\* The steps of commit().

LEMMA CommitterAlone ==
  ASSUME LogInv, NEW p \in Proc, NEW from \in CommitPc, NEW to \in CommitPc, Goto(p, from, to)
  PROVE  /\ phase = "up" /\ pc[p] = from /\ pc'[p] = to /\ Ops' = Ops /\ Ops = {}
         /\ \A q \in Proc : held[q] = {}
         /\ \A q \in Proc : q # p => pc[q] \notin CommitPc /\ pc'[q] \notin CommitPc
<1>1. /\ phase = "up" /\ committing /\ pc'[p] = to /\ Ops' = Ops
      /\ \A q \in Proc : q # p => pc'[q] = pc[q] /\ pc[q] \notin CommitPc
  BY GotoKept DEF LogInv
<1>2. pc[p] = from
  BY Zenon DEF Goto
<1>3. Ops = {}
  BY <1>1 DEF LogInv, ControlInv
<1>4. \A q \in Proc : held[q] = {}
  BY <1>3 DEF LogInv, CallInv, Ops
<1>. QED BY <1>1, <1>2, <1>3, <1>4

LEMMA CommitCrash ==
  ASSUME Counting, LogInv, CrashInv, NEW p \in Proc, Commit(p)
  PROVE  CrashInv' /\ Silent
<1>1. /\ UNCHANGED <<home, logblk, head, lh, data, dirty, held, phase>> /\ tail' = 1
  BY Zenon DEF Commit, disk, cache
<1>2. PICK to \in {"write_log", "committed"} :
        Goto(p, "commit", to) /\ (to = "write_log" <=> Len(lh) > 0)
  BY Zenon DEF Commit
<1>3. /\ phase = "up" /\ pc[p] = "commit" /\ pc'[p] = to /\ Ops' = Ops
      /\ \A q \in Proc : q # p => pc[q] \notin CommitPc /\ pc'[q] \notin CommitPc
  BY <1>2, CommitterAlone DEF CommitPc
<1>4. to = "committed" => dirty = {}
  <2>1. Len(lh) \in Nat
    BY TypeFacts DEF LogInv
  <2>. QED BY <1>2, <2>1 DEF CrashInv, CacheInv, Blocks
<1>5. CacheInv'
  BY <1>1 DEF CrashInv, CacheInv, Distinct, Blocks
<1>6. head = <<>>
  BY <1>3 DEF CrashInv, CommitInv, CommitPc
<1>7. CommitInv'
  BY <1>1, <1>2, <1>3, <1>4, <1>6 DEF CommitInv, Logged, CommitPc
<1>8. RecoverInv'
  BY <1>1, <1>3, SMTT(20) DEF RecoverInv
<1>. QED BY <1>1, <1>3, <1>5, <1>7, <1>8, DiskKept DEF CrashInv, Silent, Mem

LEMMA WriteLogCrash ==
  ASSUME Counting, Room, LogInv, CrashInv, NEW p \in Proc, WriteLog(p)
  PROVE  CrashInv' /\ Silent
<1>1. /\ UNCHANGED <<home, head, lh, data, dirty, held, phase>> /\ tail' = tail + 1
      /\ logblk' = [logblk EXCEPT ![tail] = data[lh[tail]]]
  BY Zenon DEF WriteLog, cache
<1>2. PICK to \in {"write_log", "write_head"} :
        Goto(p, "write_log", to) /\ (to = "write_head" <=> tail = Len(lh))
  BY Zenon DEF WriteLog
<1>3. /\ phase = "up" /\ pc[p] = "write_log" /\ pc'[p] = to /\ Ops' = Ops
      /\ \A q \in Proc : q # p => pc[q] \notin CommitPc /\ pc'[q] \notin CommitPc
  BY <1>2, CommitterAlone DEF CommitPc
<1>4. tail \in 1..Len(lh) /\ Logged(tail - 1) /\ tail \in Slot /\ Len(lh) \in Nat
  BY <1>3, LogIndex, TypeFacts DEF LogInv, LoopInv, CrashInv, CommitInv
<1>5. head = <<>> /\ home \in [Block -> Val] /\ logblk \in [Slot -> Val]
  BY <1>3 DEF CrashInv, CommitInv, CommitPc, LogInv, TypeOK
<1>6. \A i \in 1..tail : logblk'[i] = data[lh[i]]
  <2>1. SUFFICES ASSUME NEW i \in 1..tail PROVE logblk'[i] = data[lh[i]]
    BY Zenon
  <2>2. CASE i = tail
    BY <1>1, <1>4, <1>5, <2>2
  <2>3. CASE i # tail
    <3>1. i \in 1..(tail - 1)
      BY <1>4, <2>3
    <3>2. logblk[i] = data[lh[i]]
      BY <1>4, <3>1 DEF Logged
    <3>. QED BY <1>1, <1>5, <2>3, <3>2
  <2>. QED BY <2>2, <2>3
<1>7. CacheInv'
  BY <1>1 DEF CrashInv, CacheInv, Distinct, Blocks
<1>8. CommitInv'
  <2>1. tail' - 1 = tail
    BY <1>1, <1>4
  <2>2. to = "write_head" => Logged(Len(lh))'
    BY <1>1, <1>2, <1>6, <2>1 DEF Logged
  <2>3. to = "write_log" => Logged(tail - 1)'
    BY <1>1, <1>6, <2>1 DEF Logged
  <2>. QED BY <1>1, <1>2, <1>3, <1>5, <2>2, <2>3 DEF CommitInv, CommitPc
<1>9. RecoverInv'
  BY <1>1, <1>3 DEF RecoverInv
<1>10. Stable = home /\ Stable' = home
  BY <1>1, <1>5, RecoveredEmpty DEF Stable
<1>. QED BY <1>1, <1>3, <1>7, <1>8, <1>9, <1>10, Zenon DEF CrashInv, Silent, Mem
\* The commit point: what was in the cache becomes stable, for every block.
LEMMA WriteHeadCrash ==
  ASSUME Room, LogInv, CrashInv, NEW p \in Proc, WriteHead(p)
  PROVE  CrashInv' /\ Abstract!Commit
<1>1. /\ UNCHANGED <<home, logblk, lh, data, dirty, held, phase>> /\ tail' = 1 /\ head' = lh
      /\ Goto(p, "write_head", "install_trans")
  BY DEF WriteHead, cache
<1>2. /\ phase = "up" /\ pc[p] = "write_head" /\ pc'[p] = "install_trans" /\ Ops' = Ops
      /\ Ops = {} /\ \A q \in Proc : held[q] = {}
      /\ \A q \in Proc : q # p => pc[q] \notin CommitPc /\ pc'[q] \notin CommitPc
  BY <1>1, CommitterAlone, Zenon DEF CommitPc
<1>3. Logged(Len(lh)) /\ lh \in Seq(Block) /\ data \in [Block -> Val]
  BY <1>2 DEF CrashInv, CommitInv, LogInv, TypeOK
<1>4. CacheInv'
  BY <1>1 DEF CrashInv, CacheInv, Distinct, Blocks
<1>5. CommitInv'
  <2>1. Logged(Len(lh))' /\ 1..(tail' - 1) = {}
    BY <1>1, <1>3 DEF Logged
  <2>. QED BY <1>1, <1>2, <2>1, Zenon DEF CommitInv, CommitPc
<1>6. RecoverInv'
  BY <1>1, <1>2, Zenon DEF RecoverInv
<1>7. Recovered(lh, logblk, home) = data
  <2>1. Distinct(lh) /\ \A i \in 1..Len(lh) : data[lh[i]] = logblk[i]
    BY <1>3 DEF CrashInv, CacheInv, Logged
  <2>2. \A b \in Block : b \notin Blocks(lh) => data[b] = home[b]
    BY <1>2, Zenon DEF CrashInv, CacheInv
  <2>. QED BY <1>3, <2>1, <2>2, RecoveredTo, Zenon
<1>8. Stable' = data /\ Mem' = data /\ Mem = data
  BY <1>1, <1>2, <1>7 DEF Stable, Mem
<1>. QED BY <1>2, <1>4, <1>5, <1>6, <1>8 DEF CrashInv, Abstract!Commit

\* Installing a block twice, or after a crash, changes nothing that recovery
\* would not do.
LEMMA InstallTransCrash ==
  ASSUME Counting, Room, LogInv, CrashInv, NEW p \in Proc, InstallTrans(p)
  PROVE  CrashInv' /\ Silent
<1>1. /\ UNCHANGED <<logblk, head, lh, held, phase>> /\ tail' = tail + 1
      /\ home' = [home EXCEPT ![lh[tail]] = logblk[tail]]
      /\ data' = [data EXCEPT ![lh[tail]] = logblk[tail]] /\ dirty' = dirty \ {lh[tail]}
  BY Zenon DEF InstallTrans, InstallBlock
<1>2. PICK to \in {"install_trans", "erase"} :
        Goto(p, "install_trans", to) /\ (to = "erase" <=> tail = Len(lh))
  BY Zenon DEF InstallTrans
<1>3. /\ phase = "up" /\ pc[p] = "install_trans" /\ pc'[p] = to /\ Ops' = Ops
      /\ \A q \in Proc : q # p => pc[q] \notin CommitPc /\ pc'[q] \notin CommitPc
  BY <1>2, CommitterAlone DEF CommitPc
<1>4. /\ tail \in 1..Len(lh) /\ tail \in Nat /\ Len(lh) \in Nat /\ lh[tail] \in Block
      /\ head = lh /\ Logged(Len(lh)) /\ \A i \in 1..(tail - 1) : lh[i] \notin dirty
  BY <1>3, LogIndex, TypeFacts DEF LogInv, LoopInv, CrashInv, CommitInv
<1>5. home \in [Block -> Val] /\ data \in [Block -> Val] /\ lh \in Seq(Block)
  BY DEF LogInv, TypeOK
<1>6. data' = data
  <2>1. data[lh[tail]] = logblk[tail]
    BY <1>4, Zenon DEF Logged
  <2>. QED BY <1>1, <1>5, <2>1
<1>7. \A i \in 1..tail : lh[i] \notin dirty'
  BY <1>1, <1>4, SMTT(20)
<1>8. CacheInv'
  <2>1. ASSUME NEW c \in Block
        PROVE  c \in dirty' \/ data'[c] = home'[c] \/ \E q \in Proc : c \in held'[q]
    BY <1>1, <1>4, <1>5 DEF CrashInv, CacheInv
  <2>2. dirty' \subseteq Blocks(lh')
    BY <1>1 DEF CrashInv, CacheInv
  <2>. QED BY <1>1, <1>3, <2>1, <2>2, Zenon DEF CrashInv, CacheInv, Distinct, Blocks
<1>9. CommitInv'
  <2>1. Logged(Len(lh))' /\ (head = lh)'
    BY <1>1, <1>4, <1>6 DEF Logged
  <2>2. \A i \in 1..(tail' - 1) : lh'[i] \notin dirty'
    BY <1>1, <1>4, <1>7
  <2>3. to = "erase" => dirty' = {}
    <3>1. ASSUME to = "erase", NEW c \in dirty' PROVE FALSE
      <4>1. c \in Blocks(lh)
        BY <1>1, <3>1 DEF CrashInv, CacheInv
      <4>2. PICK i \in 1..Len(lh) : c = lh[i]
        BY <4>1 DEF Blocks
      <4>. QED BY <1>2, <1>7, <3>1, <4>2
    <3>. QED BY <3>1
  <2>. QED BY <1>1, <1>2, <1>3, <2>1, <2>2, <2>3 DEF CommitInv, CommitPc
<1>10. RecoverInv'
  BY <1>1, <1>3 DEF RecoverInv
<1>11. Stable' = Stable
  <2>1. \A b \in Block : b \notin Blocks(head) => home'[b] = home[b]
    BY <1>1, <1>4, <1>5 DEF Blocks
  <2>2. Recovered(head, logblk, home') = Recovered(head, logblk, home)
    BY <2>1, RecoveredInstall
  <2>. QED BY <1>1, <2>2 DEF Stable
<1>. QED BY <1>1, <1>3, <1>6, <1>8, <1>9, <1>10, <1>11 DEF CrashInv, Silent, Mem

LEMMA EraseCrash ==
  ASSUME Room, LogInv, CrashInv, NEW p \in Proc, Erase(p)
  PROVE  CrashInv' /\ Silent
<1>1. /\ UNCHANGED <<home, logblk, data, dirty, held, phase, tail>> /\ head' = <<>> /\ lh' = <<>>
      /\ Goto(p, "erase", "committed")
  BY Zenon DEF Erase, EraseHead, cache
<1>2. /\ phase = "up" /\ pc[p] = "erase" /\ pc'[p] = "committed" /\ Ops' = Ops
      /\ \A q \in Proc : held[q] = {}
      /\ \A q \in Proc : q # p => pc[q] \notin CommitPc /\ pc'[q] \notin CommitPc
  BY <1>1, CommitterAlone DEF CommitPc
<1>3. /\ head = lh /\ Logged(Len(lh)) /\ dirty = {} /\ lh \in Seq(Block)
      /\ home \in [Block -> Val] /\ data \in [Block -> Val] /\ Distinct(lh)
  BY <1>2 DEF CrashInv, CommitInv, CacheInv, LogInv, TypeOK
<1>4. data = home
  <2>1. \A b \in Block : data[b] = home[b]
    BY <1>2, <1>3, Zenon DEF CrashInv, CacheInv
  <2>. QED BY <1>3, <2>1
<1>5. CacheInv'
  <2>1. Distinct(<<>>) /\ dirty' = {} /\ data' = home'
    BY <1>1, <1>3, <1>4, SMTT(20) DEF Distinct
  <2>. QED BY <1>1, <2>1, Zenon DEF CacheInv
<1>6. CommitInv'
  BY <1>1, <1>2, <1>3, Zenon DEF CommitInv, CommitPc
<1>7. RecoverInv'
  BY <1>1, <1>2 DEF RecoverInv
<1>8. Stable = home /\ Stable' = home
  <2>1. Recovered(lh, logblk, home) = home
    BY <1>3, <1>4, RecoveredTo, Zenon DEF Logged
  <2>2. Recovered(<<>>, logblk, home) = home
    BY <1>3, RecoveredEmpty, Zenon
  <2>. QED BY <1>1, <1>3, <2>1, <2>2, Zenon DEF Stable
<1>. QED BY <1>1, <1>2, <1>5, <1>6, <1>7, <1>8 DEF CrashInv, Silent, Mem

-----------------------------------------------------------------------------
\* A crash, and the steps of recovery.

LEMMA CrashCrash ==
  ASSUME LogInv, CrashInv, Crash
  PROVE  CrashInv' /\ Abstract!Crash
<1>1. /\ lh' = <<>> /\ data' = home /\ dirty' = {} /\ held' = [p \in Proc |-> {}]
      /\ phase' = "read_head" /\ tail' = 1 /\ pc' = [p \in Proc |-> "out"]
      /\ UNCHANGED <<home, logblk, head>>
  BY DEF Crash, disk
<1>2. CacheInv'
  BY <1>1, NothingTwice, Zenon DEF CrashInv, CacheInv
<1>3. CommitInv' /\ RecoverInv'
  BY <1>1 DEF CommitInv, RecoverInv
<1>4. Stable' = Stable
  BY <1>1, DiskKept
<1>5. Mem' = Stable /\ Ops' = {}
  BY <1>1, <1>4 DEF Mem, Ops
<1>. QED BY <1>2, <1>3, <1>4, <1>5 DEF CrashInv, Abstract!Crash

LEMMA RecoverCrash ==
  ASSUME Counting, Room, LogInv, CrashInv, Recover
  PROVE  CrashInv' /\ Silent
<1>1. phase # "up" /\ UNCHANGED <<held, pc, logblk>>
  BY DEF Recover, ReadHead, RecoverBlock, RecoverClear, InstallBlock, disk, cache
<1>2. /\ dirty = {} /\ Ops' = Ops
      /\ \A p \in Proc : pc[p] = "out" /\ held[p] = {}
  BY <1>1 DEF LogInv, ControlInv, CallInv, CrashInv, CacheInv, Ops
<1>3. /\ home \in [Block -> Val] /\ data \in [Block -> Val] /\ head \in Seq(Block)
      /\ lh \in Seq(Block) /\ Distinct(head) /\ data = home
  BY <1>2 DEF LogInv, TypeOK, CrashInv, CacheInv
<1>4. CASE ReadHead
  <2>1. /\ phase = "read_head" /\ lh' = head /\ UNCHANGED <<home, head, data, dirty, tail>>
        /\ phase' = IF head = <<>> THEN "clear" ELSE "install_trans"
    BY <1>4, Zenon DEF ReadHead, disk, cache
  <2>2. CacheInv'
    BY <1>1, <1>2, <1>3, <2>1, Zenon DEF CacheInv, Distinct, Blocks
  <2>3. CommitInv'
    BY <1>1, <1>2, <2>1 DEF CommitInv
  <2>4. RecoverInv'
    <3>1. tail = 1
      BY <2>1 DEF LogInv, LoopInv
    <3>2. head = <<>> => Logged(Len(lh))'
      BY <2>1 DEF Logged
    <3>3. Logged(tail - 1)'
      BY <2>1, <3>1 DEF Logged
    <3>. QED BY <2>1, <3>2, <3>3 DEF RecoverInv
  <2>5. Stable' = Stable
    BY <1>1, <2>1, DiskKept
  <2>. QED BY <1>1, <1>2, <2>1, <2>2, <2>3, <2>4, <2>5 DEF CrashInv, Silent, Mem
<1>5. CASE RecoverBlock
  <2>1. /\ phase = "install_trans" /\ UNCHANGED <<head, lh>>
        /\ tail' = tail + 1 /\ home' = [home EXCEPT ![lh[tail]] = logblk[tail]]
        /\ data' = [data EXCEPT ![lh[tail]] = logblk[tail]] /\ dirty' = dirty \ {lh[tail]}
        /\ phase' = IF tail = Len(lh) THEN "clear" ELSE phase
    BY <1>5 DEF RecoverBlock, InstallBlock
  <2>2. /\ tail \in 1..Len(lh) /\ tail \in Nat /\ lh[tail] \in Block /\ Len(lh) \in Nat
        /\ lh = head /\ Logged(tail - 1)
    BY <2>1, LogIndex, TypeFacts DEF LogInv, LoopInv, CrashInv, RecoverInv
  <2>3. data' = home'
    BY <1>3, <2>1
  <2>4. \A i \in 1..tail : logblk[i] = data'[lh[i]]
    <3>1. SUFFICES ASSUME NEW i \in 1..tail PROVE logblk[i] = data'[lh[i]]
      BY Zenon
    <3>2. CASE i = tail
      BY <1>3, <2>1, <2>2, <3>2
    <3>3. CASE i # tail
      <4>1. i \in 1..(tail - 1) /\ i \in 1..Len(head)
        BY <2>2, <3>3
      <4>2. logblk[i] = data[lh[i]]
        BY <2>2, <4>1 DEF Logged
      <4>3. lh[i] # lh[tail]
        BY <1>3, <2>2, <3>3, <4>1 DEF Distinct
      <4>. QED BY <1>3, <2>1, <4>2, <4>3
    <3>. QED BY <3>2, <3>3
  <2>5. CacheInv'
    BY <1>2, <1>3, <2>1, <2>2, <2>3, Zenon DEF CacheInv
  <2>6. CommitInv'
    BY <1>1, <1>2, <2>1, Zenon DEF CommitInv
  <2>7. RecoverInv'
    <3>1. Logged(tail - 1)' /\ (tail = Len(lh) => Logged(Len(lh))')
      BY <1>1, <2>1, <2>2, <2>4 DEF Logged
    <3>. QED BY <2>1, <2>2, <3>1 DEF RecoverInv
  <2>8. Stable' = Stable
    <3>1. \A b \in Block : b \notin Blocks(head) => home'[b] = home[b]
      BY <1>3, <2>1, <2>2 DEF Blocks
    <3>2. Recovered(head, logblk, home') = Recovered(head, logblk, home)
      BY <3>1, RecoveredInstall
    <3>. QED BY <1>1, <2>1, <3>2 DEF Stable
  <2>. QED BY <1>1, <1>2, <2>1, <2>5, <2>6, <2>7, <2>8 DEF CrashInv, Silent, Mem
<1>6. CASE RecoverClear
  <2>1. /\ phase = "clear" /\ phase' = "up" /\ lh' = <<>> /\ head' = <<>>
        /\ UNCHANGED <<home, data, dirty, tail>>
    BY <1>6 DEF RecoverClear, EraseHead, cache
  <2>2. CacheInv'
    BY <1>2, <1>3, <2>1, NothingTwice, Zenon DEF CacheInv
  <2>3. CommitInv'
    BY <1>1, <1>2, <2>1 DEF CommitInv
  <2>4. RecoverInv'
    BY <2>1 DEF RecoverInv
  <2>5. Stable = home /\ Stable' = home
    <3>1. lh = head /\ Logged(Len(lh))
      BY <2>1 DEF CrashInv, RecoverInv
    <3>2. Recovered(head, logblk, home) = home
      BY <1>3, <3>1, RecoveredTo, Zenon DEF Logged
    <3>. QED BY <1>3, <2>1, <3>2, RecoveredEmpty, Zenon DEF Stable
  <2>6. Mem = home /\ Mem' = home
    BY <1>1, <1>3, <2>1, <2>5 DEF Mem
  <2>. QED BY <1>2, <2>2, <2>3, <2>4, <2>5, <2>6 DEF CrashInv, Silent
<1>. QED BY <1>4, <1>5, <1>6 DEF Recover
-----------------------------------------------------------------------------
LEMMA CrashInvStep ==
  ASSUME Counting, Room, LogInv, CrashInv, [Next]_vars
  PROVE  CrashInv' /\ (Silent \/ Abstract!Next)
<1>1. CASE \E p \in Proc : BeginOp(p)
  BY <1>1, BeginOpCrash DEF Abstract!Next
<1>2. CASE \E p \in Proc : EndOp(p)
  BY <1>2, EndOpCrash DEF Abstract!Next
<1>3. CASE \E p \in Proc : LogWrite(p)
  BY <1>3, LogWriteCrash
<1>4. CASE \E p \in Proc : WriteHead(p)
  BY <1>4, WriteHeadCrash DEF Abstract!Next
<1>5. CASE \E p \in Proc : Commit(p) \/ WriteLog(p) \/ InstallTrans(p) \/ Erase(p) \/ Finish(p)
  BY <1>5, CommitCrash, WriteLogCrash, InstallTransCrash, EraseCrash, FinishCrash
<1>6. CASE \E p \in Proc, b \in Block, v \in Val : Modify(p, b, v)
  BY <1>6, ModifyCrash DEF Abstract!Next
<1>7. CASE \E b \in Block : Evict(b)
  BY <1>7, EvictCrash
<1>8. CASE Crash
  BY <1>8, CrashCrash DEF Abstract!Next
<1>9. CASE Recover
  BY <1>9, RecoverCrash
<1>10. CASE UNCHANGED vars
  <2>1. UNCHANGED <<home, logblk, head, lh, data, dirty, held, phase, tail, pc>>
    BY <1>10 DEF vars, disk, cache
  <2>2. CrashInv'
    BY <2>1, CrashKept
  <2>. QED BY <2>1, <2>2, DiskKept DEF Silent, Mem, Ops
<1>. QED
  BY <1>1, <1>2, <1>3, <1>4, <1>5, <1>6, <1>7, <1>8, <1>9, <1>10 DEF Next, CommitStep

-----------------------------------------------------------------------------
\* The facts about finite sets, from the library.

FT == INSTANCE FiniteSetTheorems

LEMMA SetsAre ==
  /\ \A S : FT!IsFiniteSet(S) = IsFiniteSet(S)
  /\ \A S : FT!Cardinality(S) = Cardinality(S)
BY DEF FT!IsFiniteSet, IsFiniteSet, FT!Cardinality, Cardinality

LEMMA Counted == Counting
<1>1. Least
  <2>. SUFFICES ASSUME NEW T \in SUBSET Nat, T # {} PROVE \E x \in T : \A y \in T : x <= y
    BY Zenon DEF Least
  <2>1. PICK x \in T : \A y \in T : ~(<<y, x>> \in FT!OpToRel(<, Nat))
    BY FT!NatLessThanWellFounded, FT!WFMin, Zenon
  <2>2. \A y \in T : ~(y < x)
    BY <2>1, Zenon DEF FT!OpToRel
  <2>. QED BY <2>2
<1>2. Sizes
  BY FT!FS_CardinalityType, SetsAre, Zenon DEF Sizes
<1>3. EmptySets
  BY FT!FS_EmptySet, SetsAre, Zenon DEF EmptySets
<1>4. Singletons
  BY FT!FS_Singleton, SetsAre, Zenon DEF Singletons
<1>5. Intervals
  BY FT!FS_Interval, SetsAre DEF Intervals
<1>6. Subsets
  BY FT!FS_Subset, SetsAre, Zenon DEF Subsets
<1>7. Additions
  BY FT!FS_AddElement, SetsAre, Zenon DEF Additions
<1>8. Removals
  BY FT!FS_RemoveElement, SetsAre, Zenon DEF Removals
<1>9. Unions
  BY FT!FS_Union, SetsAre, Zenon DEF Unions
<1>10. Products
  BY FT!FS_Product, SetsAre, Zenon DEF Products
<1>11. Images
  <2>. SUFFICES ASSUME NEW S, NEW T, NEW f, IsFiniteSet(S), Onto(f, S, T)
                PROVE  /\ IsFiniteSet(T) /\ Cardinality(T) <= Cardinality(S)
                       /\ (\A a, b \in S : f[a] = f[b] => a = b) => Cardinality(T) = Cardinality(S)
    BY Zenon DEF Images
  <2>1. f \in FT!Surjection(S, T)
    BY Zenon DEF FT!Surjection, Onto
  <2>2. (\A a, b \in S : f[a] = f[b] => a = b) => f \in FT!Injection(S, T)
    BY Zenon DEF FT!Injection, FT!IsInjective, Onto
  <2>3. /\ IsFiniteSet(T) /\ Cardinality(T) <= Cardinality(S)
        /\ Cardinality(T) = Cardinality(S) <=> f \in FT!Injection(S, T)
    BY <2>1, FT!FS_Surjection, SetsAre, Zenon
  <2>. QED BY <2>2, <2>3, Zenon
<1>. QED BY <1>1, <1>2, <1>3, <1>4, <1>5, <1>6, <1>7, <1>8, <1>9, <1>10, <1>11, Zenon DEF Counting

-----------------------------------------------------------------------------
\* The theorems.

\* The inductive invariant of the log's space, for calls that add fewer
\* blocks than begin_op() counts for them.
THEOREM LogInvAlways == ASSUME Room PROVE Spec => []LogInv
<1>1. Init => LogInv
  BY Counted, InitSleep
<1>2. LogInv /\ [Next]_vars => LogInv'
  BY Counted, LogInvStep
<1>. QED BY <1>1, <1>2, PTL DEF Spec

\* log.c never logs more blocks than the log area of the disk has, for any
\* number of processes and any sizes within Room.
THEOREM LogFitsAlways == ASSUME Room PROVE Spec => []LogFits
<1>1. LogInv => LogFits
  <2>1. ASSUME LogInv PROVE Len(lh) < LOGSIZE /\ Len(lh) < NLOG - 1 /\ Len(lh) \in Nat
    BY Counted, <2>1, TypeFacts, FitsLess, FitsRoom DEF LogInv, SpaceInv
  <2>. QED BY <2>1, SizeAssumption DEF LogFits
<1>. QED BY <1>1, LogInvAlways, PTL

\* No panic of log_write() or end_op() is reached.
THEOREM NoPanicAlways == ASSUME Room PROVE Spec => []NoPanic
<1>1. LogInv => NoPanic
  BY DEF LogInv, TypeOK, NoPanic
<1>. QED BY <1>1, LogInvAlways, PTL

\* Nobody sleeps in begin_op() without a call or a commit in progress whose
\* end_op() calls wakeup(&log).
THEOREM SleeperOwedAlways == ASSUME Room PROVE Spec => []SleeperOwed
<1>1. LogInv => SleeperOwed
  BY DEF LogInv
<1>. QED BY <1>1, LogInvAlways, PTL

-----------------------------------------------------------------------------
\* What recovery makes of the disk.

\* Between any two block writes the cache, the log and the home blocks are
\* related as commit() and recovery need them to be.
THEOREM CrashInvAlways == ASSUME Room PROVE Spec => []CrashInv
<1>1. Init => CrashInv
  BY InitCrash
<1>2. LogInv /\ CrashInv /\ [Next]_vars => CrashInv'
  BY Counted, CrashInvStep
<1>. QED BY <1>1, <1>2, LogInvAlways, PTL DEF Spec

\* The log of log.c implements a disk that changes by whole groups of
\* finished calls, whichever block writes crashes interrupt, for any number
\* of processes, blocks and values and any sizes within Room.
THEOREM LogImplementsAtomicDisk == ASSUME Room PROVE Spec => CrashAtomic
<1>1. Init => Abstract!Init
  BY InitCrash
<1>2. LogInv /\ CrashInv /\ [Next]_vars => [Abstract!Next]_(Abstract!vars)
  BY Counted, CrashInvStep DEF Silent, Abstract!vars
<1>. QED
  BY <1>1, <1>2, LogInvAlways, CrashInvAlways, PTL DEF Spec, CrashAtomic, Abstract!Spec
=============================================================================
