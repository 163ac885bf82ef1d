------------------------------- MODULE Bcache -------------------------------
(***************************************************************************)
(* The buffer cache of bio.c, the sleep locks of sleeplock.c on its        *)
(* buffers and the disk driver of ide.c under it.                          *)
(*                                                                         *)
(* A process has up to two blocks at a time: a log block and a home block  *)
(* in commit(), an indirect block and the bitmap in bmap() and itrunc().   *)
(* It may change them, and then either writes them with bwrite() or leaves *)
(* them to the log, whose log_write() sets B_DIRTY; a later bwrite() of    *)
(* commit() cleans them.  What runs under one spinlock is one step.        *)
(*                                                                         *)
(* The disk is there and carries every command out, and Block are its      *)
(* blocks: what ide.c does about an absent disk (146), a block number out  *)
(* of range (78) and a read error (118, where the old contents of the      *)
(* buffer pass for those of the block) is left out.                        *)
(***************************************************************************)
EXTENDS Integers, Sequences, FiniteSets

CONSTANTS
  Process, NoUse,
  Block, NoBlock,   \* blocks of the disk; of a buffer never used (its dev is 0)
  Nested,           \* <<j, k>>: block k is read by processes that hold block j
  Val, V0,          \* block contents, and those of a fresh disk
  NBUF,
  MaxPinned         \* bound: logged blocks that wait for their commit

(* The first and the second buffer of each process                         *)
Uses == Process \X {1, 2}
Other(u) == <<u[1], 3 - u[2]>>

ASSUME SizeAssumption == NBUF \in Nat /\ MaxPinned \in Nat
ASSUME ProcessAssumption == IsFiniteSet(Process)
ASSUME ValAssumption == V0 \in Val
ASSUME NoneAssumption == NoBlock \notin Block /\ NoUse \notin Uses
ASSUME NestedAssumption == Nested \subseteq Block \X Block

Buf == 1..NBUF

VARIABLES
  blockno, valid, dirty, refcnt, data,   \* struct buf
  locked,       \* who has the buffer's sleep lock, or NoUse; the code keeps the pid
  lru,          \* the list bcache.head, most recently used first
  idequeue,
  command,      \* what the disk was told by idestart(), or <<>>
  disk,
  pc, want, b,  \* of each use: where it is, the block asked for, the buffer
  panic

buffers == <<blockno, valid, dirty, refcnt, data>>
vars == <<buffers, locked, lru, idequeue, command, disk, pc, want, b, panic>>

Init ==
  /\ blockno = [i \in Buf |-> NoBlock]
  /\ valid = [i \in Buf |-> FALSE] /\ dirty = [i \in Buf |-> FALSE]
  /\ refcnt = [i \in Buf |-> 0] /\ data = [i \in Buf |-> V0]
  /\ locked = [i \in Buf |-> NoUse]
  /\ lru = [i \in Buf |-> NBUF + 1 - i]
  /\ idequeue = <<>> /\ command = <<>>
  /\ disk = [k \in Block |-> V0]
  /\ pc = [u \in Uses |-> "out"]
  /\ want = [u \in Uses |-> NoBlock] /\ b = [u \in Uses |-> 0]
  /\ panic = "none"

-----------------------------------------------------------------------------
(* bread(): bget(), then the lock, then the disk if the block is not here. *)

Running == panic = "none"
holdingsleep(u) == locked[b[u]] # NoUse /\ locked[b[u]][1] = u[1]
Goto(u, to) == pc' = [pc EXCEPT ![u] = to]

Cached(k) == {i \in Buf : blockno[i] = k}
(* Variant: bget() that recycles a logged block                            *)
RecyclableUnpinned == {i \in Buf : refcnt[i] = 0}
Recyclable == {i \in Buf : refcnt[i] = 0 /\ ~dirty[i]}

(* The buffer nearest to the end of the list is recycled.                  *)
Victim == lru[CHOOSE n \in 1..NBUF : /\ lru[n] \in Recyclable
                                     /\ \A m \in (n + 1)..NBUF : lru[m] \notin Recyclable]

(* Variant: a hit that takes no reference                                  *)
HitUncounted(u, k) ==
  \E i \in Cached(k) :
    /\ b' = [b EXCEPT ![u] = i]
    /\ Goto(u, "acquiresleep")
    /\ UNCHANGED <<blockno, valid, dirty, refcnt, panic>>

Hit(u, k) ==
  \E i \in Cached(k) :
    /\ refcnt' = [refcnt EXCEPT ![i] = @ + 1]
    /\ b' = [b EXCEPT ![u] = i]
    /\ Goto(u, "acquiresleep")
    /\ UNCHANGED <<blockno, valid, dirty, panic>>

Recycle(u, k) ==
  /\ Cached(k) = {} /\ Recyclable # {}
  /\ blockno' = [blockno EXCEPT ![Victim] = k]
  /\ valid' = [valid EXCEPT ![Victim] = FALSE]
  /\ dirty' = [dirty EXCEPT ![Victim] = FALSE]
  /\ refcnt' = [refcnt EXCEPT ![Victim] = 1]
  /\ b' = [b EXCEPT ![u] = Victim]
  /\ Goto(u, "acquiresleep")
  /\ UNCHANGED panic

NoBuffers(u, k) ==
  /\ Cached(k) = {} /\ Recyclable = {}
  /\ panic' = "bget: no buffers"
  /\ UNCHANGED <<blockno, valid, dirty, refcnt, b, pc>>

Bget(u, k) ==
  /\ Running /\ pc[u] = "out"
  /\ want' = [want EXCEPT ![u] = k]
  /\ Hit(u, k) \/ Recycle(u, k) \/ NoBuffers(u, k)
  /\ UNCHANGED <<data, locked, lru, idequeue, command, disk>>

(* One round of acquiresleep()'s loop; on success bread() looks at B_VALID *)
Acquiresleep(u) ==
  /\ Running /\ pc[u] \in {"acquiresleep", "woken"}
  /\ IF locked[b[u]] # NoUse
     THEN Goto(u, "asleep") /\ UNCHANGED locked
     ELSE /\ locked' = [locked EXCEPT ![b[u]] = u]
          /\ Goto(u, IF valid[b[u]] THEN "holds" ELSE "iderw")
  /\ UNCHANGED <<buffers, lru, idequeue, command, disk, want, b, panic>>

-----------------------------------------------------------------------------
(* The disk driver                                                         *)

(* idestart(): a write takes the data with it.                             *)
Request(i) == <<[blockno |-> blockno[i], write |-> dirty[i], data |-> data[i]]>>

Done(i) == valid[i] /\ ~dirty[i]

(* iderw() up to the sleep(); its checks come first.                       *)
Iderw(u) ==
  /\ Running /\ pc[u] = "iderw"
  /\ IF ~holdingsleep(u) THEN panic' = "iderw: buf not locked" /\ UNCHANGED <<idequeue, command, pc>>
     ELSE IF Done(b[u]) THEN panic' = "iderw: nothing to do" /\ UNCHANGED <<idequeue, command, pc>>
     ELSE /\ idequeue' = Append(idequeue, b[u])
          /\ command' = IF idequeue = <<>> THEN Request(b[u]) ELSE command
          /\ Goto(u, "waits")
          /\ UNCHANGED panic
  /\ UNCHANGED <<buffers, locked, lru, disk, want, b>>

(* wakeup(b): the processes waiting for this buffer test again.            *)
WakeupBuf(i) ==
  [u \in Uses |-> IF pc[u] = "waits" /\ b[u] = i THEN "tests" ELSE pc[u]]

(* The disk carries the command out and interrupts: ideintr().             *)
Ideintr ==
  /\ Running /\ command # <<>>
  /\ LET i == Head(idequeue)
         rest == Tail(idequeue)
         c == command[1]
     IN /\ disk' = IF c.write THEN [disk EXCEPT ![c.blockno] = c.data] ELSE disk
        /\ data' = IF dirty[i] THEN data ELSE [data EXCEPT ![i] = disk[c.blockno]]
        /\ valid' = [valid EXCEPT ![i] = TRUE]
        /\ dirty' = [dirty EXCEPT ![i] = FALSE]
        /\ pc' = WakeupBuf(i)
        /\ idequeue' = rest
        /\ command' = IF rest = <<>> THEN <<>> ELSE Request(Head(rest))
  /\ UNCHANGED <<blockno, refcnt, locked, lru, want, b, panic>>

(* The loop of iderw() after a wakeup                                      *)
IderwTest(u) ==
  /\ Running /\ pc[u] = "tests"
  /\ Goto(u, IF Done(b[u]) THEN "holds" ELSE "waits")
  /\ UNCHANGED <<buffers, locked, lru, idequeue, command, disk, want, b, panic>>

-----------------------------------------------------------------------------
(* The owner of a buffer                                                   *)

Pinned == {i \in Buf : dirty[i]}

(* A caller of log_write() changes the block and leaves it to the log.     *)
Change(u, v) ==
  /\ Running /\ pc[u] = "holds"
  /\ dirty[b[u]] \/ Cardinality(Pinned) < MaxPinned
  /\ data' = [data EXCEPT ![b[u]] = v]
  /\ dirty' = [dirty EXCEPT ![b[u]] = TRUE]
  /\ UNCHANGED <<blockno, valid, refcnt, locked, lru, idequeue, command, disk, pc, want, b, panic>>

(* bwrite() up to iderw(), with the change its caller made to the data     *)
Bwrite(u, v) ==
  /\ Running /\ pc[u] = "holds"
  /\ IF ~holdingsleep(u)
     THEN panic' = "bwrite" /\ UNCHANGED <<data, dirty, pc>>
     ELSE /\ data' = [data EXCEPT ![b[u]] = v]
          /\ dirty' = [dirty EXCEPT ![b[u]] = TRUE]
          /\ Goto(u, "iderw")
          /\ UNCHANGED panic
  /\ UNCHANGED <<blockno, valid, refcnt, locked, lru, idequeue, command, disk, want, b>>

(* Variant: releasesleep() without its wakeup()                            *)
WakeupLockForgotten(f, i) == f

(* brelse(): releasesleep() with its wakeup(), then the reference          *)
WakeupLock(f, i) ==
  [u \in Uses |-> IF f[u] = "asleep" /\ b[u] = i THEN "woken" ELSE f[u]]

Releasesleep(u) ==
  /\ Running /\ pc[u] = "holds"
  /\ IF ~holdingsleep(u)
     THEN panic' = "brelse" /\ UNCHANGED <<locked, pc>>
     ELSE /\ locked' = [locked EXCEPT ![b[u]] = NoUse]
          /\ pc' = WakeupLock([pc EXCEPT ![u] = "brelse"], b[u])
          /\ UNCHANGED panic
  /\ UNCHANGED <<buffers, lru, idequeue, command, disk, want, b>>

(* The list with i, which was at place r, at its head                      *)
MoveToFront(s, i) ==
  LET r == CHOOSE r \in 1..NBUF : s[r] = i
  IN [n \in 1..NBUF |-> IF n = 1 THEN i ELSE IF n <= r THEN s[n - 1] ELSE s[n]]

(* Variant: the reference of a buffer that is not the last one is kept     *)
BrelseLast(u) ==
  /\ Running /\ pc[u] = "brelse"
  /\ refcnt' = [refcnt EXCEPT ![b[u]] = IF @ = 1 THEN 0 ELSE @]
  /\ lru' = IF refcnt[b[u]] = 1 THEN MoveToFront(lru, b[u]) ELSE lru
  /\ Goto(u, "out")
  /\ want' = [want EXCEPT ![u] = NoBlock]
  /\ b' = [b EXCEPT ![u] = 0]
  /\ UNCHANGED <<blockno, valid, dirty, data, locked, idequeue, command, disk, panic>>

Brelse(u) ==
  /\ Running /\ pc[u] = "brelse"
  /\ refcnt' = [refcnt EXCEPT ![b[u]] = @ - 1]
  /\ lru' = IF refcnt[b[u]] = 1 THEN MoveToFront(lru, b[u]) ELSE lru
  /\ Goto(u, "out")
  /\ want' = [want EXCEPT ![u] = NoBlock]
  /\ b' = [b EXCEPT ![u] = 0]
  /\ UNCHANGED <<blockno, valid, dirty, data, locked, idequeue, command, disk, panic>>

(* panic() never returns, and freezes the other CPUs.                      *)
Halted == ~Running /\ UNCHANGED vars

-----------------------------------------------------------------------------
Step(u) ==
  \/ Acquiresleep(u) \/ Iderw(u) \/ IderwTest(u) \/ Releasesleep(u) \/ Brelse(u)

(* A process is in one call at a time.                                     *)
Turn(u) == pc[Other(u)] \in {"out", "holds"}

(* A second buffer is asked for only with the first in hand.               *)
MayRead(u, k) ==
  IF pc[Other(u)] = "holds" THEN <<want[Other(u)], k>> \in Nested ELSE u[2] = 1

Next ==
  \/ \E u \in Uses : Turn(u) /\ Step(u)
  \/ \E u \in Uses, k \in Block : Turn(u) /\ MayRead(u, k) /\ Bget(u, k)
  \/ \E u \in Uses, v \in Val : Turn(u) /\ (Change(u, v) \/ Bwrite(u, v))
  \/ Ideintr
  \/ Halted

Spec == Init /\ [][Next]_vars

-----------------------------------------------------------------------------
(* Properties                                                              *)

(* The contents of block k: in a filled buffer, or else on the disk        *)
Lookup(no, full, buf, dsk, k) ==
  IF \E i \in Buf : no[i] = k /\ full[i]
  THEN buf[CHOOSE i \in Buf : no[i] = k /\ full[i]]
  ELSE dsk[k]

Contents == [k \in Block |-> Lookup(blockno, valid, data, disk, k)]
Locks(u) == \E i \in Buf : locked[i] = u
Owned == [p \in Process |-> {want[u] : u \in {w \in Uses : w[1] = p /\ Locks(w)}}]

Abstract == INSTANCE BlockStore WITH Proc <- Process, content <- Contents, owns <- Owned

(* From the return of bread() to brelse() a process has its block to       *)
(* itself, and the block has the contents its last owner left, whether     *)
(* they stayed in the cache, went to the disk or came back from it.        *)
CacheTransparent == Abstract!Spec

(* A process that bread() returned to has the buffer of the block it asked *)
(* for, filled and locked, however the buffers were recycled while it      *)
(* slept; and no block is in two buffers.                                  *)
OwnerHasBlock ==
  /\ \A u \in Uses : pc[u] = "holds" =>
       blockno[b[u]] = want[u] /\ valid[b[u]] /\ locked[b[u]] = u
  /\ \A i, j \in Buf : blockno[i] = blockno[j] /\ blockno[i] # NoBlock => i = j

(* Nobody sleeps in vain: a process asleep on a buffer's lock is owed the  *)
(* wakeup() of its holder, and one asleep in iderw() has its buffer in the *)
(* queue of a disk that is at work on the first one.                       *)
Owed ==
  /\ \A u \in Uses : pc[u] = "asleep" => locked[b[u]] # NoUse
  /\ \A u \in Uses : pc[u] = "waits" => \E n \in 1..Len(idequeue) : idequeue[n] = b[u]
  /\ idequeue # <<>> => command = Request(Head(idequeue))

(* The machine stops only where bget() finds no buffer (bio.c:92), when    *)
(* the buffers somebody uses and those that wait for the log's commit are  *)
(* all there are: no reference is lost.  The checks of a buffer's lock and *)
(* flags do not fail (bio.c:112, 123, ide.c:142-145).                      *)
PanicsOnlyFull ==
  panic # "none" =>
    /\ panic = "bget: no buffers"
    /\ Cardinality({u \in Uses : b[u] # 0}) + Cardinality(Pinned) >= NBUF

-----------------------------------------------------------------------------
(* The inductive invariant                                                 *)

Held == {"holds", "iderw", "waits", "tests"}
Pc == {"out", "acquiresleep", "asleep", "woken", "brelse"} \cup Held

TypeOK ==
  /\ blockno \in [Buf -> Block \cup {NoBlock}]
  /\ valid \in [Buf -> BOOLEAN] /\ dirty \in [Buf -> BOOLEAN]
  /\ refcnt \in [Buf -> Nat] /\ data \in [Buf -> Val]
  /\ locked \in [Buf -> Uses \cup {NoUse}] /\ lru \in [1..NBUF -> Buf]
  /\ idequeue \in Seq(Buf) /\ disk \in [Block -> Val]
  /\ pc \in [Uses -> Pc] /\ want \in [Uses -> Block \cup {NoBlock}]
  /\ b \in [Uses -> 0..NBUF]

Users(i) == {u \in Uses : b[u] = i}

(* Every process inside bio.c has a counted reference to the right buffer. *)
UseInv ==
  /\ \A u \in Uses : pc[u] = "out" <=> b[u] = 0
  /\ \A u \in Uses : pc[u] # "out" => blockno[b[u]] = want[u] /\ want[u] \in Block
  /\ \A i \in Buf : refcnt[i] = Cardinality(Users(i))
  /\ \A i, j \in Buf : blockno[i] = blockno[j] /\ blockno[i] # NoBlock => i = j

LockInv ==
  /\ \A u \in Uses : pc[u] \in Held => locked[b[u]] = u
  /\ \A i \in Buf : locked[i] # NoUse => pc[locked[i]] \in Held /\ b[locked[i]] = i
  /\ \A u \in Uses : pc[u] = "asleep" => locked[b[u]] # NoUse

(* The flags against the contents of cache and disk                        *)
FlagInv ==
  /\ \A i \in Buf : dirty[i] => valid[i]
  /\ \A i \in Buf : valid[i] => blockno[i] \in Block
  /\ \A i \in Buf : Done(i) => data[i] = disk[blockno[i]]
  /\ \A u \in Uses : /\ pc[u] = "holds" => valid[b[u]]
                     /\ pc[u] = "tests" => Done(b[u])
                     /\ pc[u] \in {"iderw", "waits"} => ~Done(b[u])

QueueInv ==
  /\ \A m, n \in 1..Len(idequeue) : idequeue[m] = idequeue[n] => m = n
  /\ \A n \in 1..Len(idequeue) : \E u \in Uses : pc[u] = "waits" /\ b[u] = idequeue[n]
  /\ \A u \in Uses : pc[u] = "waits" => \E n \in 1..Len(idequeue) : idequeue[n] = b[u]
  /\ command = IF idequeue = <<>> THEN <<>> ELSE Request(Head(idequeue))

LruInv == \A i \in Buf : \E n \in 1..NBUF : lru[n] = i

(* The buffers that are dirty because of the log, not of a bwrite()        *)
Logged == {i \in Buf : dirty[i] /\ \A u \in Uses : b[u] = i => pc[u] \notin {"iderw", "waits"}}
PinInv == Cardinality(Logged) <= MaxPinned

CacheInv == TypeOK /\ UseInv /\ LockInv /\ FlagInv /\ QueueInv /\ LruInv /\ PinInv
=============================================================================
