-------------------------------- MODULE Log --------------------------------
(***************************************************************************)
(* The write-ahead log of log.c over a disk that can lose power between    *)
(* any two block writes.  File system calls (one per process) run          *)
(* concurrently inside one group; the last to end commits for all of them. *)
(*                                                                         *)
(* bio.c appears as its users see it: data[b] is what bread(b) returns,    *)
(* dirty the buffers that may not be recycled (B_DIRTY), held[p] the       *)
(* buffer that p has locked.  A block write is one step, on the disk when  *)
(* bwrite() returns.  logblk[i] is disk block log.start + i: it belongs to *)
(* the log only for i < NLOG, and LogFits says that no other is used.      *)
(***************************************************************************)
EXTENDS Integers, Sequences, FiniteSets

CONSTANTS
  Proc,         \* processes that make file system calls
  Block,        \* home blocks
  Val, V0,      \* block contents, and those of a fresh file system
  LOGSIZE,      \* entries of struct logheader
  NLOG,         \* log.size: blocks of the on-disk log, its header included
  MAXOPBLOCKS,  \* blocks that begin_op() counts for a call
  OpBlocks      \* bound: blocks that a call really adds to the log

ASSUME ProcAssumption == IsFiniteSet(Proc)
ASSUME ValAssumption == V0 \in Val
ASSUME SizeAssumption ==
  /\ LOGSIZE \in Nat /\ NLOG \in Nat /\ MAXOPBLOCKS \in Nat
  /\ OpBlocks \in 0..MAXOPBLOCKS

VARIABLES
  home, logblk, head,     \* the disk: home blocks, log blocks, log header
  lh,                     \* log.lh in memory: the block numbers 1..lh.n
  outstanding, committing,
  data, dirty, held,      \* the buffer cache
  phase,                  \* "up", or the step of recovery that is next
  tail,                   \* loop counter of write_log() and install_trans()
  pc,                     \* where each process is in log.c
  left,                   \* blocks its call may still add to the log
  panic

disk == <<home, logblk, head>>
cache == <<data, dirty, held>>
vars == <<disk, lh, outstanding, committing, cache, phase, tail, pc, left, panic>>

Slot == 1..LOGSIZE
Blocks(s) == {s[i] : i \in 1..Len(s)}

Init ==
  /\ home = [b \in Block |-> V0]
  /\ logblk = [i \in Slot |-> V0]
  /\ head = <<>> /\ lh = <<>>
  /\ outstanding = 0 /\ committing = FALSE
  /\ data = home /\ dirty = {} /\ held = [p \in Proc |-> {}]
  /\ phase = "up" /\ tail = 1
  /\ pc = [p \in Proc |-> "out"]
  /\ left = [p \in Proc |-> 0]
  /\ panic = "none"

-----------------------------------------------------------------------------
(* Calls: begin_op(), log_write(), end_op()                                *)

Running == phase = "up" /\ panic = "none"

(* Variants: begin_op() without its test of committing, and without room   *)
(* for the calls already outstanding.                                      *)
MustWaitCommitForgotten == Len(lh) + (outstanding + 1) * MAXOPBLOCKS > LOGSIZE
MustWaitUnreserved == committing \/ Len(lh) + MAXOPBLOCKS > LOGSIZE

(* begin_op()'s test: might this call exhaust the log?                     *)
MustWait ==
  committing \/ Len(lh) + (outstanding + 1) * MAXOPBLOCKS > LOGSIZE

Sleep(p) ==
  /\ MustWait
  /\ pc' = [pc EXCEPT ![p] = "asleep"]
  /\ UNCHANGED <<outstanding, left>>

Enter(p) ==
  /\ ~MustWait
  /\ outstanding' = outstanding + 1
  /\ pc' = [pc EXCEPT ![p] = "op"]
  /\ left' = [left EXCEPT ![p] = OpBlocks]

(* One round of begin_op()'s loop; a woken process tests again.            *)
BeginOp(p) ==
  /\ Running /\ pc[p] \in {"out", "woken"}
  /\ Sleep(p) \/ Enter(p)
  /\ UNCHANGED <<disk, lh, committing, cache, phase, tail, panic>>

(* Variant: wakeup() that wakes one process                                *)
WakeupOne(f) ==
  IF \A p \in Proc : f[p] # "asleep" THEN f
  ELSE [f EXCEPT ![CHOOSE p \in Proc : f[p] = "asleep"] = "woken"]

(* wakeup(&log) as a change of pc                                          *)
Wakeup(f) == [p \in Proc |-> IF f[p] = "asleep" THEN "woken" ELSE f[p]]

(* A caller locks a buffer with bread(), changes it and calls log_write(), *)
(* whose size test reads log.lh.n before log.lock is taken.                *)
Modify(p, b, v) ==
  /\ Running /\ pc[p] = "op"
  /\ left[p] > 0 \/ b \in Blocks(lh)
  /\ \A q \in Proc : b \notin held[q]
  /\ held' = [held EXCEPT ![p] = {b}]
  /\ data' = [data EXCEPT ![b] = v]
  /\ pc' = [pc EXCEPT ![p] = "log_write"]
  /\ panic' = IF Len(lh) >= LOGSIZE \/ Len(lh) >= NLOG - 1
              THEN "too big a transaction"
              ELSE IF outstanding < 1 THEN "log_write outside of trans"
              ELSE panic
  /\ UNCHANGED <<disk, lh, outstanding, committing, dirty, phase, tail, left>>

(* The locked part of log_write(), log absorption included, then brelse(). *)
Absorb(s, b) == IF b \in Blocks(s) THEN s ELSE Append(s, b)

(* Variant: the buffer is not pinned                                       *)
LogWriteUnpinned(p) ==
  /\ Running /\ pc[p] = "log_write"
  /\ \E b \in held[p] :
       /\ lh' = Absorb(lh, b)
       /\ left' = [left EXCEPT ![p] = IF b \in Blocks(lh) THEN @ ELSE @ - 1]
  /\ held' = [held EXCEPT ![p] = {}]
  /\ pc' = [pc EXCEPT ![p] = "op"]
  /\ UNCHANGED <<disk, outstanding, committing, data, dirty, phase, tail, panic>>

LogWrite(p) ==
  /\ Running /\ pc[p] = "log_write"
  /\ \E b \in held[p] :
       /\ lh' = Absorb(lh, b)
       /\ left' = [left EXCEPT ![p] = IF b \in Blocks(lh) THEN @ ELSE @ - 1]
       /\ dirty' = dirty \cup {b}
  /\ held' = [held EXCEPT ![p] = {}]
  /\ pc' = [pc EXCEPT ![p] = "op"]
  /\ UNCHANGED <<disk, outstanding, committing, data, phase, tail, panic>>

(* end_op() up to commit()                                                 *)
EndOp(p) ==
  /\ Running /\ pc[p] = "op"
  /\ outstanding' = outstanding - 1
  /\ left' = [left EXCEPT ![p] = 0]
  /\ IF committing
     THEN panic' = "log.committing" /\ UNCHANGED <<committing, pc>>
     ELSE IF outstanding = 1
     THEN /\ committing' = TRUE
          /\ pc' = [pc EXCEPT ![p] = "commit"]
          /\ UNCHANGED panic
     ELSE /\ pc' = Wakeup([pc EXCEPT ![p] = "out"])
          /\ UNCHANGED <<committing, panic>>
  /\ UNCHANGED <<disk, lh, cache, phase, tail>>

-----------------------------------------------------------------------------
(* commit() and the rest of end_op(), by the process that ended last       *)

Goto(p, from, to) == Running /\ pc[p] = from /\ pc' = [pc EXCEPT ![p] = to]

Commit(p) ==
  /\ Goto(p, "commit", IF Len(lh) > 0 THEN "write_log" ELSE "committed")
  /\ tail' = 1
  /\ UNCHANGED <<disk, lh, outstanding, committing, cache, phase, left, panic>>

(* One block of write_log()                                                *)
WriteLog(p) ==
  /\ Goto(p, "write_log", IF tail = Len(lh) THEN "write_head" ELSE "write_log")
  /\ logblk' = [logblk EXCEPT ![tail] = data[lh[tail]]]
  /\ tail' = tail + 1
  /\ UNCHANGED <<home, head, lh, outstanding, committing, cache, phase, left, panic>>

(* The first write_head(): the real commit                                 *)
WriteHead(p) ==
  /\ Goto(p, "write_head", "install_trans")
  /\ head' = lh
  /\ tail' = 1
  /\ UNCHANGED <<home, logblk, lh, outstanding, committing, cache, phase, left, panic>>

(* One block of install_trans(): the buffer gets the log block's contents  *)
(* and is written, which also cleans it.                                   *)
InstallBlock ==
  /\ home' = [home EXCEPT ![lh[tail]] = logblk[tail]]
  /\ data' = [data EXCEPT ![lh[tail]] = logblk[tail]]
  /\ dirty' = dirty \ {lh[tail]}
  /\ tail' = tail + 1
  /\ UNCHANGED <<logblk, head, lh, outstanding, committing, held, left, panic>>

InstallTrans(p) ==
  /\ Goto(p, "install_trans", IF tail = Len(lh) THEN "erase" ELSE "install_trans")
  /\ InstallBlock
  /\ UNCHANGED phase

(* log.lh.n = 0 and write_head()                                           *)
EraseHead == lh' = <<>> /\ head' = <<>>

Erase(p) ==
  /\ Goto(p, "erase", "committed")
  /\ EraseHead
  /\ UNCHANGED <<home, logblk, outstanding, committing, cache, phase, tail, left, panic>>

(* Variant: end_op() forgets the wakeup() after the commit                 *)
FinishSilent(p) ==
  /\ Running /\ pc[p] = "committed"
  /\ committing' = FALSE
  /\ pc' = [pc EXCEPT ![p] = "out"]
  /\ UNCHANGED <<disk, lh, outstanding, cache, phase, tail, left, panic>>

Finish(p) ==
  /\ Running /\ pc[p] = "committed"
  /\ committing' = FALSE
  /\ pc' = Wakeup([pc EXCEPT ![p] = "out"])
  /\ UNCHANGED <<disk, lh, outstanding, cache, phase, tail, left, panic>>

-----------------------------------------------------------------------------
(* bget() recycles a clean, unlocked buffer; a later bread() rereads it.   *)
Evict(b) ==
  /\ Running /\ b \notin dirty
  /\ \A p \in Proc : b \notin held[p]
  /\ data' = [data EXCEPT ![b] = home[b]]
  /\ UNCHANGED <<disk, lh, outstanding, committing, dirty, held, phase, tail,
                 pc, left, panic>>

(* Power loss or reset, also during recovery: memory is lost.              *)
Crash ==
  /\ lh' = <<>> /\ outstanding' = 0 /\ committing' = FALSE
  /\ data' = home /\ dirty' = {} /\ held' = [p \in Proc |-> {}]
  /\ phase' = "read_head" /\ tail' = 1
  /\ pc' = [p \in Proc |-> "out"] /\ left' = [p \in Proc |-> 0]
  /\ panic' = "none"
  /\ UNCHANGED disk

(* initlog() and recover_from_log(), before the first process runs         *)
ReadHead ==
  /\ phase = "read_head"
  /\ lh' = head
  /\ phase' = IF head = <<>> THEN "clear" ELSE "install_trans"
  /\ UNCHANGED <<disk, outstanding, committing, cache, tail, pc, left, panic>>

RecoverBlock ==
  /\ phase = "install_trans"
  /\ InstallBlock
  /\ phase' = IF tail = Len(lh) THEN "clear" ELSE phase
  /\ UNCHANGED pc

RecoverClear ==
  /\ phase = "clear"
  /\ EraseHead
  /\ phase' = "up"
  /\ UNCHANGED <<home, logblk, outstanding, committing, cache, tail, pc, left, panic>>

-----------------------------------------------------------------------------
CommitStep(p) ==
  Commit(p) \/ WriteLog(p) \/ WriteHead(p) \/ InstallTrans(p) \/ Erase(p) \/ Finish(p)

Recover == ReadHead \/ RecoverBlock \/ RecoverClear

Next ==
  \/ \E p \in Proc : BeginOp(p) \/ LogWrite(p) \/ EndOp(p) \/ CommitStep(p)
  \/ \E p \in Proc, b \in Block, v \in Val : Modify(p, b, v)
  \/ \E b \in Block : Evict(b)
  \/ Crash
  \/ Recover

Spec == Init /\ [][Next]_vars

(* A call that has begun ends, and the disk answers every request.         *)
Fairness ==
  \A p \in Proc : /\ SF_vars(EndOp(p))
                  /\ WF_vars(LogWrite(p) \/ CommitStep(p))
                  /\ WF_vars(pc[p] = "woken" /\ BeginOp(p))

FairSpec == Spec /\ Fairness
-----------------------------------------------------------------------------
(* Properties                                                              *)

(* What recovery makes of a header h, log blocks l and home blocks d       *)
Recovered(h, l, d) ==
  [b \in Block |-> IF b \in Blocks(h)
                   THEN l[CHOOSE i \in 1..Len(h) : h[i] = b]
                   ELSE d[b]]

Stable == Recovered(head, logblk, home)
Mem == IF phase = "up" THEN data ELSE Stable
Ops == {p \in Proc : pc[p] \in {"op", "log_write"}}

Abstract == INSTANCE AtomicDisk WITH mem <- Mem, stable <- Stable, ops <- Ops

(* Whatever block write a crash interrupts, in commit() or in recovery     *)
(* itself, recover_from_log() leaves the blocks as some earlier commit saw *)
(* them, with all the writes of each call or none; and a read between      *)
(* crashes returns the latest write, through eviction and commit alike.    *)
CrashAtomic == Abstract!Spec

(* The transaction fits the log area of the disk: write_log() never runs   *)
(* into the inode blocks behind it, although log_write() tests log.lh.n    *)
(* without the lock and calls add blocks concurrently.                     *)
LogFits == Len(lh) <= LOGSIZE /\ Len(lh) < NLOG

(* No call that begin_op() let in dies in log_write() or end_op().         *)
NoPanic == panic = "none"

(* A process asleep in begin_op() is owed a wakeup(): a call is            *)
(* outstanding, or one is committing, whose end_op() is still to come.     *)
SleeperOwed ==
  (\E p \in Proc : pc[p] = "asleep") => (outstanding > 0 \/ committing)

(* A process asleep in begin_op() is woken, unless the machine goes down.  *)
SleeperWakes == \A p \in Proc : (pc[p] = "asleep") ~> (pc[p] # "asleep")
-----------------------------------------------------------------------------
(* The inductive invariant behind LogFits, NoPanic, SleeperOwed and        *)
(* CrashAtomic, for a log area and calls of these sizes: every call adds   *)
(* fewer blocks than begin_op() counts for it.                             *)
Room == OpBlocks < MAXOPBLOCKS /\ MAXOPBLOCKS < LOGSIZE /\ LOGSIZE <= NLOG

CommitPc == {"commit", "write_log", "write_head", "install_trans", "erase", "committed"}
Pc == {"out", "asleep", "woken", "op", "log_write"} \cup CommitPc
Phase == {"up", "read_head", "install_trans", "clear"}

TypeOK ==
  /\ home \in [Block -> Val] /\ logblk \in [Slot -> Val] /\ head \in Seq(Block)
  /\ lh \in Seq(Block) /\ outstanding \in Nat /\ committing \in BOOLEAN
  /\ data \in [Block -> Val] /\ dirty \in SUBSET Block
  /\ held \in [Proc -> SUBSET Block]
  /\ phase \in Phase /\ tail \in Nat
  /\ pc \in [Proc -> Pc] /\ left \in [Proc -> 0..OpBlocks]
  /\ panic = "none"

(* One committer at most, and none while a call is in progress             *)
ControlInv ==
  /\ \A p \in Proc : pc[p] \in CommitPc => committing
  /\ \A p, q \in Proc : pc[p] \in CommitPc /\ pc[q] \in CommitPc => p = q
  /\ committing => Ops = {}
  /\ phase # "up" => ~committing /\ \A p \in Proc : pc[p] = "out"
  /\ \A p \in Proc : pc[p] = "committed" => lh = <<>>

(* What a call holds: one buffer inside log_write(), with room to log it   *)
CallInv ==
  \A p \in Proc :
    /\ p \notin Ops => left[p] = 0
    /\ pc[p] # "log_write" => held[p] = {}
    /\ pc[p] = "log_write" =>
         \E b \in Block : held[p] = {b} /\ (b \in Blocks(lh) \/ left[p] > 0)

(* The blocks that the calls in progress may still add, one by one         *)
BudgetOf(f) == {t \in Proc \X (1..OpBlocks) : t[2] <= f[t[1]]}
Budget == BudgetOf(left)

(* n blocks fit: those of one call, or of several that begin_op() let in,  *)
(* each counted with MAXOPBLOCKS.                                          *)
Fits(n) == n <= OpBlocks \/ n + 2 * (MAXOPBLOCKS - OpBlocks) <= LOGSIZE

SpaceInv ==
  /\ outstanding = Cardinality(Ops)
  /\ Ops = {} /\ ~committing /\ phase = "up" => lh = <<>>
  /\ Fits(Len(lh) + Cardinality(Budget))
  /\ Fits(Len(head))

(* The loops over the log stay inside it.                                  *)
LoopInv ==
  /\ phase = "read_head" => tail = 1
  /\ phase = "install_trans" => tail \in 1..Len(lh)
  /\ \A p \in Proc :
       /\ pc[p] \in {"write_log", "install_trans"} => tail \in 1..Len(lh)
       /\ pc[p] = "write_head" => Len(lh) > 0

LogInv == TypeOK /\ ControlInv /\ CallInv /\ SpaceInv /\ LoopInv /\ SleeperOwed

Distinct(s) == \A i, j \in 1..Len(s) : s[i] = s[j] => i = j

(* The first n log blocks hold what the buffers of their home blocks hold. *)
Logged(n) == \A i \in 1..n : logblk[i] = data[lh[i]]

(* The cache against the disk, and the log against the cache, while each   *)
(* loop of commit() and of recovery runs                                   *)
CacheInv ==
  /\ Distinct(lh) /\ Distinct(head)
  /\ dirty \subseteq Blocks(lh)
  /\ \A b \in Block : b \in dirty \/ data[b] = home[b] \/ \E p \in Proc : b \in held[p]
  /\ phase # "up" => dirty = {}

CommitInv ==
  /\ phase = "up" /\ (\A p \in Proc : pc[p] \notin {"install_trans", "erase"}) => head = <<>>
  /\ \A p \in Proc :
       /\ pc[p] = "write_log" => Logged(tail - 1)
       /\ pc[p] = "write_head" => Logged(Len(lh))
       /\ pc[p] = "install_trans" =>
            /\ head = lh /\ Logged(Len(lh))
            /\ \A i \in 1..(tail - 1) : lh[i] \notin dirty
       /\ pc[p] = "erase" => head = lh /\ Logged(Len(lh)) /\ dirty = {}
       /\ pc[p] = "committed" => dirty = {}

RecoverInv ==
  /\ phase = "read_head" => lh = <<>>
  /\ phase = "install_trans" => lh = head /\ Logged(tail - 1)
  /\ phase = "clear" => lh = head /\ Logged(Len(lh))

CrashInv == CacheInv /\ CommitInv /\ RecoverInv
=============================================================================
