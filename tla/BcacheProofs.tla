---------------------------- MODULE BcacheProofs ----------------------------
(***************************************************************************)
(* References, locks, flags and queue of the buffers stay consistent,      *)
(* nobody sleeps in vain, and bget() gives up only with all buffers in use *)
(* or pinned.                                                              *)
(***************************************************************************)
EXTENDS Bcache, Counting, TLAPS

-----------------------------------------------------------------------------
\* References, users and the buffer to recycle.

LEMMA UsesFinite == ASSUME Counting PROVE IsFiniteSet(Uses) /\ Cardinality(Uses) \in Nat
<1>1. IsFiniteSet({1, 2})
  <2>1. IsFiniteSet({1} \cup {2})
    BY Zenon DEF Counting, Singletons, Additions
  <2>. QED BY <2>1
<1>2. IsFiniteSet(Uses)
  BY <1>1, ProcessAssumption, Zenon DEF Uses, Counting, Products
<1>. QED BY <1>2, Zenon DEF Counting, Sizes

LEMMA UsersFinite == ASSUME Counting, NEW i PROVE IsFiniteSet(Users(i)) /\ Cardinality(Users(i)) \in Nat
<1>1. Users(i) \in SUBSET Uses
  BY DEF Users
<1>. QED BY <1>1, UsesFinite DEF Counting, Subsets, Sizes

LEMMA BufInUse == ASSUME CacheInv PROVE \A u \in Uses : pc[u] # "out" => b[u] \in Buf
<1>1. \A u \in Uses : pc[u] # "out" => b[u] # 0 /\ b[u] \in 0..NBUF
  BY DEF CacheInv, UseInv, TypeOK
<1>. QED BY <1>1, SizeAssumption DEF Buf

LEMMA UserCounts ==
  ASSUME Counting, CacheInv, NEW i \in Buf, refcnt[i] = 0
  PROVE  /\ \A u \in Uses : b[u] # i
         /\ locked[i] = NoUse
         /\ \A n \in 1..Len(idequeue) : idequeue[n] # i
<1>1. Users(i) = {}
  BY UsersFinite DEF CacheInv, UseInv, Counting, EmptySets
<1>2. \A u \in Uses : b[u] # i
  BY <1>1 DEF Users
<1>3. locked[i] = NoUse
  <2>1. locked[i] \in Uses \cup {NoUse}
    BY Zenon DEF CacheInv, TypeOK
  <2>. QED BY <1>2, <2>1, Zenon DEF CacheInv, LockInv
<1>4. \A n \in 1..Len(idequeue) : \E u \in Uses : b[u] = idequeue[n]
  <2>1. QueueInv
    BY Zenon DEF CacheInv
  <2>. QED BY <2>1, Zenon DEF QueueInv
<1>. QED BY <1>2, <1>3, <1>4, Zenon

LEMMA UserAdded ==
  ASSUME Counting, CacheInv, NEW u \in Uses, b[u] = 0, NEW i \in Buf, b' = [b EXCEPT ![u] = i]
  PROVE  /\ Cardinality(Users(i)') = Cardinality(Users(i)) + 1
         /\ \A j \in Buf : j # i => Users(j)' = Users(j)
<1>1. b \in [Uses -> 0..NBUF] /\ i # 0
  BY SizeAssumption DEF CacheInv, TypeOK, Buf
<1>2. Users(i)' = Users(i) \cup {u} /\ u \notin Users(i)
  BY <1>1 DEF Users
<1>3. \A j \in Buf : j # i => Users(j)' = Users(j)
  <2>1. SUFFICES ASSUME NEW j \in Buf, j # i PROVE Users(j)' = Users(j)
    OBVIOUS
  <2>2. j # 0
    BY DEF Buf
  <2>. QED BY <1>1, <2>1, <2>2 DEF Users
<1>. QED BY <1>2, <1>3, UsersFinite, Zenon DEF Counting, Additions

LEMMA UserRemoved ==
  ASSUME Counting, CacheInv, NEW u \in Uses, NEW i \in Buf, b[u] = i, b' = [b EXCEPT ![u] = 0]
  PROVE  /\ Cardinality(Users(i)') = Cardinality(Users(i)) - 1
         /\ Cardinality(Users(i)) >= 1
         /\ \A j \in Buf : j # i => Users(j)' = Users(j)
<1>1. b \in [Uses -> 0..NBUF] /\ i # 0
  BY SizeAssumption DEF CacheInv, TypeOK, Buf
<1>2. Users(i)' = Users(i) \ {u} /\ u \in Users(i)
  BY <1>1 DEF Users
<1>3. \A j \in Buf : j # i => Users(j)' = Users(j)
  <2>1. SUFFICES ASSUME NEW j \in Buf, j # i PROVE Users(j)' = Users(j)
    OBVIOUS
  <2>2. j # 0
    BY DEF Buf
  <2>. QED BY <1>1, <2>1, <2>2 DEF Users
<1>4. Cardinality(Users(i)) # 0
  BY <1>2, UsersFinite DEF Counting, EmptySets
<1>5. Cardinality(Users(i) \ {u}) = Cardinality(Users(i)) - 1
  BY <1>2, UsersFinite, Zenon DEF Counting, Removals
<1>6. Cardinality(Users(i)) \in Nat
  BY UsersFinite
<1>. QED BY <1>2, <1>3, <1>4, <1>5, <1>6

LEMMA VictimFound ==
  ASSUME Counting, CacheInv, Recyclable # {}
  PROVE  Victim \in Recyclable /\ Victim \in Buf
<1>. DEFINE N == {n \in 1..NBUF : lru[n] \in Recyclable}
<1>1. N # {}
  BY DEF CacheInv, LruInv, Recyclable
<1>2. N \in SUBSET (1..NBUF) /\ IsFiniteSet(1..NBUF)
  BY SizeAssumption DEF Counting, Intervals
<1>3. PICK n \in N : \A m \in N : m <= n
  <2>. DEFINE T == {NBUF - n : n \in N}
  <2>1. T \subseteq Nat /\ T # {}
    BY <1>1, <1>2, SizeAssumption
  <2>3. PICK x \in T : \A y \in T : x <= y
    BY <2>1, Zenon DEF Counting, Least
  <2>4. PICK n \in N : x = NBUF - n
    OBVIOUS
  <2>5. ASSUME NEW m \in N PROVE m <= n
    <3>1. NBUF - m \in T /\ m \in Int /\ n \in Int
      BY <1>2
    <3>2. NBUF - n <= NBUF - m
      BY <2>3, <2>4, <3>1
    <3>. QED BY <3>1, <3>2, SizeAssumption
  <2>. QED BY <2>5
<1>4. n \in 1..NBUF /\ lru[n] \in Recyclable /\ \A m \in (n + 1)..NBUF : lru[m] \notin Recyclable
  BY <1>3, SizeAssumption
<1>. QED BY <1>4 DEF Victim, Recyclable
-----------------------------------------------------------------------------
\* Each action keeps CacheInv.

LEMMA InitCacheInv == ASSUME Counting, Init PROVE CacheInv
<1>1. TypeOK
  BY SizeAssumption, ValAssumption DEF Init, TypeOK, Buf, Pc
<1>2. \A i \in Buf : Users(i) = {}
  BY DEF Init, Users, Buf
<1>3. UseInv
  BY <1>2, Zenon DEF Init, UseInv, Counting, EmptySets
<1>4. LockInv /\ FlagInv
  BY DEF Init, LockInv, FlagInv, Held, Done
<1>5. QueueInv
  BY DEF Init, QueueInv
<1>6. LruInv
  <2>1. ASSUME NEW i \in Buf PROVE lru[NBUF + 1 - i] = i /\ NBUF + 1 - i \in 1..NBUF
    BY SizeAssumption DEF Init, Buf
  <2>. QED BY <2>1 DEF LruInv
<1>7. PinInv
  <2>1. Logged = {}
    BY DEF Init, Logged
  <2>. QED BY <2>1, SizeAssumption DEF PinInv, Counting, EmptySets
<1>. QED BY <1>1, <1>3, <1>4, <1>5, <1>6, <1>7 DEF CacheInv

LEMMA LoggedFinite == ASSUME Counting PROVE IsFiniteSet(Logged) /\ Cardinality(Logged) \in Nat
<1>1. Logged \in SUBSET Buf /\ IsFiniteSet(Buf)
  BY SizeAssumption DEF Logged, Buf, Counting, Intervals
<1>. QED BY <1>1 DEF Counting, Subsets, Sizes

\* Fewer logged buffers fit as well.
LEMMA PinKept == ASSUME Counting, CacheInv, Logged' \subseteq Logged PROVE PinInv'
<1>1. Cardinality(Logged') <= Cardinality(Logged)
  BY LoggedFinite DEF Counting, Subsets
<1>2. IsFiniteSet(Logged') /\ Cardinality(Logged') \in Nat
  BY <1>1, LoggedFinite DEF Counting, Subsets, Sizes
<1>. QED BY <1>1, <1>2, LoggedFinite, SizeAssumption DEF CacheInv, PinInv

\* A step that leaves the queue, its waiters and the first request alone
LEMMA QueueKept ==
  ASSUME CacheInv, idequeue' = idequeue, command' = command,
         \A q \in Uses : /\ pc'[q] = "waits" <=> pc[q] = "waits"
                         /\ pc[q] = "waits" => b'[q] = b[q],
         idequeue # <<>> => Request(Head(idequeue))' = Request(Head(idequeue))
  PROVE  QueueInv'
<1>1. command' = IF idequeue' = <<>> THEN <<>> ELSE Request(Head(idequeue))'
  BY DEF CacheInv, QueueInv
<1>2. \A n \in 1..Len(idequeue) : \E q \in Uses : pc'[q] = "waits" /\ b'[q] = idequeue[n]
  BY DEF CacheInv, QueueInv
<1>3. \A q \in Uses : pc'[q] = "waits" => \E n \in 1..Len(idequeue) : idequeue[n] = b'[q]
  BY DEF CacheInv, QueueInv
<1>4. \A m, n \in 1..Len(idequeue) : idequeue[m] = idequeue[n] => m = n
  BY DEF CacheInv, QueueInv
<1>. QED BY <1>1, <1>2, <1>3, <1>4 DEF QueueInv

LEMMA HitStep ==
  ASSUME Counting, CacheInv, NEW u \in Uses, NEW k \in Block, Bget(u, k), Hit(u, k)
  PROVE  CacheInv'
<1>1. PICK i \in Buf : /\ blockno[i] = k
                       /\ refcnt' = [refcnt EXCEPT ![i] = @ + 1]
                       /\ b' = [b EXCEPT ![u] = i]
  BY Zenon DEF Hit, Cached
<1>2. /\ pc[u] = "out" /\ want' = [want EXCEPT ![u] = k]
      /\ pc' = [pc EXCEPT ![u] = "acquiresleep"]
      /\ UNCHANGED <<blockno, valid, dirty, panic, data, locked, lru, idequeue, command, disk>>
  BY DEF Bget, Hit, Goto
<1>3. TypeOK /\ TypeOK' /\ i # 0 /\ b[u] = 0
  <2>1. TypeOK
    BY DEF CacheInv
  <2>2. b[u] = 0
    BY <1>2 DEF CacheInv, UseInv
  <2>3. i # 0 /\ i \in 0..NBUF
    BY SizeAssumption DEF Buf
  <2>4. TypeOK'
    BY <1>1, <1>2, <2>1, <2>3 DEF TypeOK, Pc
  <2>. QED BY <2>1, <2>2, <2>3, <2>4
<1>4. UseInv'
  <2>1. \A j \in Buf : refcnt'[j] = Cardinality(Users(j)')
    <3>1. /\ Cardinality(Users(i)') = Cardinality(Users(i)) + 1
          /\ \A j \in Buf : j # i => Users(j)' = Users(j)
      BY <1>1, <1>3, UserAdded, Zenon
    <3>. QED BY <1>1, <1>3, <3>1 DEF CacheInv, UseInv, TypeOK
  <2>2. \A q \in Uses : /\ pc'[q] = "out" <=> b'[q] = 0
                        /\ pc'[q] # "out" => blockno'[b'[q]] = want'[q] /\ want'[q] \in Block
    BY <1>1, <1>2, <1>3, Zenon DEF CacheInv, UseInv, TypeOK
  <2>. QED BY <1>2, <2>1, <2>2 DEF CacheInv, UseInv
<1>5. LockInv'
  BY <1>1, <1>2, <1>3 DEF CacheInv, LockInv, TypeOK, Held
<1>6. FlagInv'
  BY <1>1, <1>2, <1>3 DEF CacheInv, FlagInv, TypeOK, Done
<1>7. QueueInv'
  <2>1. Request(Head(idequeue))' = Request(Head(idequeue))
    BY <1>2 DEF Request
  <2>2. \A q \in Uses : /\ pc'[q] = "waits" <=> pc[q] = "waits"
                        /\ pc[q] = "waits" => b'[q] = b[q]
    BY <1>1, <1>2, <1>3 DEF TypeOK
  <2>. QED BY <1>2, <2>1, <2>2, QueueKept
<1>8. LruInv'
  BY <1>2 DEF CacheInv, LruInv
<1>9. PinInv'
  <2>1. Logged' \subseteq Logged
    BY <1>1, <1>2, <1>3, Zenon DEF Logged, TypeOK
  <2>. QED BY <2>1, PinKept
<1>. QED BY <1>3, <1>4, <1>5, <1>6, <1>7, <1>8, <1>9 DEF CacheInv

LEMMA RecycleStep ==
  ASSUME Counting, CacheInv, NEW u \in Uses, NEW k \in Block, Bget(u, k), Recycle(u, k)
  PROVE  CacheInv'
<1>1. PICK i \in Buf : i = Victim /\ refcnt[i] = 0 /\ ~dirty[i] /\ Cached(k) = {}
  BY VictimFound DEF Recycle, Recyclable
<1>2. /\ pc[u] = "out" /\ want' = [want EXCEPT ![u] = k]
      /\ pc' = [pc EXCEPT ![u] = "acquiresleep"]
      /\ blockno' = [blockno EXCEPT ![i] = k] /\ valid' = [valid EXCEPT ![i] = FALSE]
      /\ dirty' = [dirty EXCEPT ![i] = FALSE] /\ refcnt' = [refcnt EXCEPT ![i] = 1]
      /\ b' = [b EXCEPT ![u] = i]
      /\ UNCHANGED <<panic, data, locked, lru, idequeue, command, disk>>
  BY <1>1 DEF Bget, Recycle, Goto
<1>3. TypeOK /\ i # 0 /\ b[u] = 0
  <2>1. b[u] = 0
    BY <1>2 DEF CacheInv, UseInv
  <2>. QED BY <2>1 DEF CacheInv, Buf
<1>t. TypeOK'
  <2>1. i \in 0..NBUF
    BY SizeAssumption DEF Buf
  <2>. QED BY <1>2, <1>3, <2>1, Zenon DEF TypeOK, Pc
<1>u. /\ \A q \in Uses : b[q] # i
      /\ locked[i] = NoUse
      /\ \A n \in 1..Len(idequeue) : idequeue[n] # i
  BY <1>1, UserCounts, Zenon
<1>4. UseInv'
  <2>1. \A j \in Buf : refcnt'[j] = Cardinality(Users(j)')
    <3>1. Cardinality(Users(i)') = Cardinality(Users(i)) + 1 /\ refcnt[i] = Cardinality(Users(i))
      BY <1>1, <1>2, <1>3, UserAdded, Zenon DEF CacheInv, UseInv
    <3>2. refcnt'[i] = Cardinality(Users(i)')
      BY <1>1, <1>2, <1>3, <3>1 DEF TypeOK
    <3>3. \A j \in Buf : j # i => Users(j)' = Users(j)
      BY <1>2, <1>3, UserAdded, Zenon
    <3>. QED BY <1>2, <1>3, <3>2, <3>3 DEF CacheInv, UseInv, TypeOK
  <2>2. \A q \in Uses : /\ pc'[q] = "out" <=> b'[q] = 0
                        /\ pc'[q] # "out" => blockno'[b'[q]] = want'[q] /\ want'[q] \in Block
    <3>1. /\ pc'[u] = "acquiresleep" /\ b'[u] = i /\ i # 0
          /\ want'[u] = k /\ blockno'[i] = k
      BY <1>2, <1>3, Zenon DEF TypeOK
    <3>2. ASSUME NEW q \in Uses, q # u
          PROVE  pc'[q] = pc[q] /\ b'[q] = b[q] /\ want'[q] = want[q]
      BY <1>2, <1>3, <3>2, Zenon DEF TypeOK
    <3>3. \A q \in Uses : pc[q] # "out" => b[q] \in Buf /\ blockno'[b[q]] = blockno[b[q]]
      BY <1>2, <1>3, <1>u, BufInUse, Zenon DEF TypeOK
    <3>4. \A q \in Uses : /\ pc[q] = "out" <=> b[q] = 0
                          /\ pc[q] # "out" => blockno[b[q]] = want[q] /\ want[q] \in Block
      BY Zenon DEF CacheInv, UseInv
    <3>5. ASSUME NEW q \in Uses, q # u
          PROVE  /\ pc'[q] = "out" <=> b'[q] = 0
                 /\ pc'[q] # "out" => blockno'[b'[q]] = want'[q] /\ want'[q] \in Block
      <4>1. pc'[q] = pc[q] /\ b'[q] = b[q] /\ want'[q] = want[q]
        BY <3>2, <3>5, Zenon
      <4>2. pc'[q] = "out" <=> b'[q] = 0
        BY <3>4, <4>1, Zenon
      <4>3. ASSUME pc[q] # "out" PROVE blockno'[b[q]] = want[q] /\ want[q] \in Block
        BY <3>3, <3>4, <4>3, Zenon
      <4>. QED BY <4>1, <4>2, <4>3, Zenon
    <3>6. /\ pc'[u] = "out" <=> b'[u] = 0
          /\ blockno'[b'[u]] = want'[u] /\ want'[u] \in Block
      <4>1. pc'[u] # "out"
        BY <3>1, Zenon
      <4>. QED BY <3>1, <4>1, Zenon
    <3>. QED BY <3>5, <3>6, Zenon
  <2>3. \A m, n \in Buf : blockno'[m] = blockno'[n] /\ blockno'[m] # NoBlock => m = n
    BY <1>1, <1>2, <1>3 DEF CacheInv, UseInv, TypeOK, Cached
  <2>. QED BY <2>1, <2>2, <2>3, Zenon DEF UseInv
<1>5. LockInv'
  BY <1>1, <1>2, <1>3, <1>u DEF CacheInv, LockInv, TypeOK, Held
<1>6. FlagInv'
  <2>1. /\ ~valid'[i] /\ ~dirty'[i] /\ data' = data /\ disk' = disk
        /\ \A j \in Buf : j # i => /\ valid'[j] = valid[j] /\ dirty'[j] = dirty[j]
                                   /\ blockno'[j] = blockno[j]
    BY <1>2, <1>3, Zenon DEF TypeOK
  <2>2. /\ \A j \in Buf : dirty'[j] => valid'[j]
        /\ \A j \in Buf : valid'[j] => blockno'[j] \in Block
        /\ \A j \in Buf : Done(j)' => data'[j] = disk'[blockno'[j]]
    <3>1. ASSUME NEW j \in Buf
          PROVE  /\ dirty[j] => valid[j]
                 /\ valid[j] => blockno[j] \in Block
                 /\ valid[j] /\ ~dirty[j] => data[j] = disk[blockno[j]]
      BY Zenon DEF CacheInv, FlagInv, Done
    <3>2. ASSUME NEW j \in Buf
          PROVE  /\ dirty'[j] => valid'[j]
                 /\ valid'[j] => blockno'[j] \in Block
                 /\ valid'[j] /\ ~dirty'[j] => data'[j] = disk'[blockno'[j]]
      BY <2>1, <3>1, Zenon
    <3>. QED BY <3>2, Zenon DEF Done
  <2>3. ASSUME NEW q \in Uses, pc'[q] \in Held
        PROVE  pc'[q] = pc[q] /\ b'[q] = b[q] /\ b[q] \in Buf /\ b[q] # i
    <3>1. q # u
      BY <1>2, <1>3, <2>3, Zenon DEF TypeOK, Held
    <3>2. pc'[q] = pc[q] /\ b'[q] = b[q]
      BY <1>2, <1>3, <3>1, Zenon DEF TypeOK
    <3>. QED BY <1>u, <2>3, <3>2, BufInUse, Zenon DEF Held
  <2>4. ASSUME NEW q \in Uses
        PROVE  /\ pc'[q] = "holds" => valid'[b'[q]]
               /\ pc'[q] = "tests" => Done(b[q])'
               /\ pc'[q] \in {"iderw", "waits"} => ~Done(b[q])'
    <3>1. pc'[q] \in {"holds", "tests", "iderw", "waits"} => pc'[q] \in Held
      BY Zenon DEF Held
    <3>2. /\ pc[q] = "holds" => valid[b[q]]
          /\ pc[q] = "tests" => valid[b[q]] /\ ~dirty[b[q]]
          /\ pc[q] \in {"iderw", "waits"} => ~(valid[b[q]] /\ ~dirty[b[q]])
      BY Zenon DEF CacheInv, FlagInv, Done
    <3>3. CASE pc'[q] \in Held
      <4>1. /\ pc'[q] = pc[q] /\ b'[q] = b[q]
            /\ valid'[b[q]] = valid[b[q]] /\ dirty'[b[q]] = dirty[b[q]]
        BY <2>1, <2>3, <3>3, Zenon
      <4>. QED BY <1>2, <3>2, <4>1, Zenon DEF Done
    <3>. QED BY <3>1, <3>3, Zenon
  <2>5. \A q \in Uses : /\ pc'[q] = "holds" => valid'[b'[q]]
                        /\ pc'[q] = "tests" => Done(b[q])'
                        /\ pc'[q] \in {"iderw", "waits"} => ~Done(b[q])'
    BY <2>4, Zenon
  <2>. QED BY <2>2, <2>5, Zenon DEF FlagInv
<1>7. QueueInv'
  <2>1. idequeue # <<>> => Head(idequeue) # i /\ Head(idequeue) \in Buf
    BY <1>3, <1>u DEF TypeOK
  <2>2. idequeue # <<>> => Request(Head(idequeue))' = Request(Head(idequeue))
    BY <1>2, <1>3, <2>1, Zenon DEF TypeOK, Request
  <2>3. \A q \in Uses : /\ pc'[q] = "waits" <=> pc[q] = "waits"
                        /\ pc[q] = "waits" => b'[q] = b[q]
    BY <1>2, <1>3 DEF TypeOK
  <2>. QED BY <1>2, <2>2, <2>3, QueueKept, Zenon
<1>8. LruInv'
  BY <1>2 DEF CacheInv, LruInv
<1>9. PinInv'
  <2>1. Logged' \subseteq Logged
    BY <1>1, <1>2, <1>3, Zenon DEF Logged, TypeOK
  <2>. QED BY <2>1, PinKept
<1>. QED BY <1>t, <1>4, <1>5, <1>6, <1>7, <1>8, <1>9 DEF CacheInv
\* Where bget() gives up, each buffer is in use or is a logged block.
LEMMA BuffersLeft ==
  ASSUME Counting, CacheInv, Recyclable = {}
  PROVE  Cardinality({q \in Uses : b[q] # 0}) + Cardinality(Logged) >= NBUF
<1>. DEFINE Q == {q \in Uses : b[q] # 0}
            Used == {b[q] : q \in Q}
<1>1. Buf \subseteq Used \cup Logged
  <2>1. SUFFICES ASSUME NEW i \in Buf, i \notin Used PROVE i \in Logged
    OBVIOUS
  <2>2. \A q \in Uses : b[q] # i
    BY <2>1 DEF Buf
  <2>3. Users(i) = {}
    BY <2>2, Zenon DEF Users
  <2>4. refcnt[i] = 0
    BY <2>3, Zenon DEF CacheInv, UseInv, Counting, EmptySets
  <2>5. dirty[i]
    BY <2>4 DEF Recyclable
  <2>. QED BY <2>2, <2>5 DEF Logged
<1>2. /\ IsFiniteSet(Used) /\ Cardinality(Used) \in Nat /\ Cardinality(Q) \in Nat
      /\ Cardinality(Used) <= Cardinality(Q)
  <2>1. Q \in SUBSET Uses
    OBVIOUS
  <2>2. IsFiniteSet(Q)
    BY <2>1, UsesFinite, Zenon DEF Counting, Subsets
  <2>3. Onto([q \in Q |-> b[q]], Q, Used)
    BY DEF Onto
  <2>4. IsFiniteSet(Used) /\ Cardinality(Used) <= Cardinality(Q)
    BY <2>2, <2>3, Zenon DEF Counting, Images
  <2>. QED BY <2>2, <2>4, Zenon DEF Counting, Sizes
<1>3. Cardinality(Used \cup Logged) <= Cardinality(Used) + Cardinality(Logged)
  <2>1. /\ IsFiniteSet(Used \cup Logged)
        /\ Cardinality(Used \cup Logged)
             = Cardinality(Used) + Cardinality(Logged) - Cardinality(Used \cap Logged)
    BY <1>2, LoggedFinite, Zenon DEF Counting, Unions
  <2>2. Used \cap Logged \subseteq Logged
    OBVIOUS
  <2>3. Cardinality(Used \cap Logged) \in Nat
    BY <2>2, LoggedFinite, Zenon DEF Counting, Subsets, Sizes
  <2>. HIDE DEF Used
  <2>. QED BY <1>2, LoggedFinite, <2>1, <2>3
<1>4. Cardinality(Buf) = NBUF /\ Cardinality(Buf) <= Cardinality(Used \cup Logged)
  <2>1. Cardinality(Buf) = NBUF
    BY SizeAssumption DEF Buf, Counting, Intervals
  <2>2. IsFiniteSet(Used \cup Logged)
    BY <1>2, LoggedFinite, Zenon DEF Counting, Unions
  <2>. HIDE DEF Used
  <2>. QED BY <1>1, <2>1, <2>2 DEF Counting, Subsets
<1>5. Cardinality(Used \cup Logged) \in Nat
  BY <1>2, LoggedFinite, Zenon DEF Counting, Unions, Sizes
<1>. HIDE DEF Used, Q
<1>6. Cardinality(Q) + Cardinality(Logged) >= NBUF
  BY <1>2, <1>3, <1>4, <1>5, LoggedFinite, SizeAssumption
<1>. QED BY <1>6, Zenon DEF Q

LEMMA BgetStep ==
  ASSUME Counting, CacheInv, NEW u \in Uses, NEW k \in Block, Bget(u, k)
  PROVE  CacheInv'
<1>1. CASE Hit(u, k)
  BY <1>1, HitStep
<1>2. CASE Recycle(u, k)
  BY <1>2, RecycleStep
<1>3. CASE NoBuffers(u, k)
  <2>1. /\ pc[u] = "out" /\ want' = [want EXCEPT ![u] = k] /\ panic' = "bget: no buffers"
        /\ UNCHANGED <<blockno, valid, dirty, refcnt, b, pc, data, locked, lru, idequeue, command, disk>>
    BY <1>3, Zenon DEF Bget, NoBuffers
  <2>2. TypeOK'
    BY <2>1, Zenon DEF CacheInv, TypeOK
  <2>3. UseInv'
    <3>1. \A q \in Uses : pc[q] # "out" => want'[q] = want[q]
      BY <2>1, Zenon DEF CacheInv, TypeOK
    <3>. QED BY <2>1, <3>1, Zenon DEF CacheInv, UseInv, Users
  <2>4. LockInv' /\ FlagInv' /\ LruInv' /\ PinInv'
    BY <2>1, Zenon DEF CacheInv, LockInv, FlagInv, Done, LruInv, PinInv, Logged
  <2>5. QueueInv'
    BY <2>1, Zenon DEF CacheInv, QueueInv, Request
  <2>. QED BY <2>2, <2>3, <2>4, <2>5 DEF CacheInv
<1>. QED BY <1>1, <1>2, <1>3 DEF Bget

LEMMA AcquiresleepStep ==
  ASSUME Counting, CacheInv, NEW u \in Uses, Acquiresleep(u)
  PROVE  CacheInv'
<1>1. /\ pc[u] \in {"acquiresleep", "woken"}
      /\ UNCHANGED <<blockno, valid, dirty, refcnt, data, lru, idequeue, command, disk, want, b, panic>>
  BY DEF Acquiresleep, buffers
<1>2. PICK i \in Buf : i = b[u]
  <2>1. b[u] # 0 /\ b[u] \in 0..NBUF
    BY <1>1 DEF CacheInv, UseInv, TypeOK
  <2>. QED BY <2>1, SizeAssumption DEF Buf
<1>3. TypeOK
  BY Zenon DEF CacheInv
<1>4. PICK to \in {"asleep", "holds", "iderw"} :
        /\ pc' = [pc EXCEPT ![u] = to]
        /\ to = "asleep" => locked[i] # NoUse /\ locked' = locked
        /\ to # "asleep" => /\ locked[i] = NoUse /\ locked' = [locked EXCEPT ![i] = u]
                            /\ to = "holds" <=> valid[i]
  BY <1>2 DEF Acquiresleep, Goto
<1>5. TypeOK'
  <2>1. locked' \in [Buf -> Uses \cup {NoUse}]
    <3>1. locked' = locked \/ locked' = [locked EXCEPT ![i] = u]
      BY <1>4, Zenon
    <3>2. locked \in [Buf -> Uses \cup {NoUse}]
      BY <1>3 DEF TypeOK
    <3>. QED BY <3>1, <3>2
  <2>2. pc' \in [Uses -> Pc]
    BY <1>3, <1>4, Zenon DEF TypeOK, Pc, Held
  <2>. QED BY <1>1, <1>3, <2>1, <2>2 DEF TypeOK
<1>6. UseInv'
  <2>1. \A q \in Uses : pc'[q] = "out" <=> pc[q] = "out"
    BY <1>1, <1>3, <1>4 DEF TypeOK
  <2>. QED BY <1>1, <2>1, Zenon DEF CacheInv, UseInv, Users
<1>7. LockInv'
  <2>1. u # NoUse
    BY NoneAssumption
  <2>2. \A q \in Uses : q # u => pc'[q] = pc[q]
    BY <1>3, <1>4, Zenon DEF TypeOK
  <2>3. pc'[u] = to
    BY <1>3, <1>4, Zenon DEF TypeOK
  <2>4. CASE to = "asleep"
    BY <1>1, <1>2, <1>3, <1>4, <2>2, <2>3, <2>4 DEF CacheInv, LockInv, Held, TypeOK
  <2>5. CASE to # "asleep"
    <3>1. /\ locked'[i] = u /\ pc'[u] \in Held /\ b'[u] = i
          /\ \A j \in Buf : j # i => locked'[j] = locked[j]
      BY <1>1, <1>2, <1>3, <1>4, <2>3, <2>5 DEF Held, TypeOK
    <3>2. \A q \in Uses : q # u /\ pc[q] \in Held => b[q] # i
      BY <1>2, <1>4, <2>5, NoneAssumption DEF CacheInv, LockInv
    <3>3. \A q \in Uses : pc'[q] \in Held => locked'[b'[q]] = q
      <4>1. \A q \in Uses : pc[q] \in Held => b[q] \in Buf
        BY BufInUse DEF Held
      <4>. QED BY <1>1, <2>2, <3>1, <3>2, <4>1 DEF CacheInv, LockInv
    <3>4. \A j \in Buf : locked'[j] # NoUse => pc'[locked'[j]] \in Held /\ b'[locked'[j]] = j
      <4>1. \A j \in Buf : locked[j] # NoUse => locked[j] \in Uses /\ locked[j] # u
        <5>1. pc[u] \notin Held
          BY <1>1, Zenon DEF Held
        <5>2. \A j \in Buf : locked[j] \in Uses \cup {NoUse}
          BY <1>3, Zenon DEF TypeOK
        <5>. QED BY <5>1, <5>2, Zenon DEF CacheInv, LockInv
      <4>. QED BY <1>1, <2>2, <3>1, <4>1 DEF CacheInv, LockInv
    <3>5. \A q \in Uses : pc'[q] = "asleep" => locked'[b'[q]] # NoUse
      <4>1. SUFFICES ASSUME NEW q \in Uses, pc'[q] = "asleep" PROVE locked'[b[q]] # NoUse
        BY <1>1, Zenon
      <4>2. pc[q] = "asleep" /\ b[q] \in Buf
        BY <2>2, <2>3, <2>5, <4>1, BufInUse
      <4>. QED BY <2>1, <3>1, <4>2 DEF CacheInv, LockInv
    <3>. QED BY <3>3, <3>4, <3>5, Zenon DEF LockInv
  <2>. QED BY <2>4, <2>5
<1>8. FlagInv'
  BY <1>1, <1>2, <1>3, <1>4 DEF CacheInv, FlagInv, TypeOK, Done
<1>9. QueueInv'
  <2>1. Request(Head(idequeue))' = Request(Head(idequeue))
    BY <1>1, Zenon DEF Request
  <2>2. \A q \in Uses : /\ pc'[q] = "waits" <=> pc[q] = "waits"
                        /\ pc[q] = "waits" => b'[q] = b[q]
    BY <1>1, <1>3, <1>4, Zenon DEF TypeOK
  <2>. QED BY <1>1, <2>1, <2>2, QueueKept, Zenon
<1>10. LruInv'
  BY <1>1, Zenon DEF CacheInv, LruInv
<1>11. PinInv'
  <2>1. Logged' \subseteq Logged
    BY <1>1, <1>3, <1>4, Zenon DEF Logged, TypeOK
  <2>. QED BY <2>1, PinKept, Zenon
<1>. QED BY <1>5, <1>6, <1>7, <1>8, <1>9, <1>10, <1>11 DEF CacheInv
\* The holder of a buffer's lock is the only one inside; while it does not
\* wait for the disk its buffer is not in the queue.
LEMMA Holder ==
  ASSUME CacheInv, NEW u \in Uses, pc[u] \in Held
  PROVE  /\ b[u] \in Buf /\ locked[b[u]] = u /\ holdingsleep(u)
         /\ \A q \in Uses : q # u /\ pc[q] \in Held => b[q] # b[u]
         /\ pc[u] # "waits" => \A n \in 1..Len(idequeue) : idequeue[n] # b[u]
<1>1. b[u] \in Buf
  BY BufInUse, Zenon DEF Held
<1>2. locked[b[u]] = u
  BY Zenon DEF CacheInv, LockInv
<1>3. \A q \in Uses : q # u /\ pc[q] \in Held => b[q] # b[u]
  BY <1>2, Zenon DEF CacheInv, LockInv
<1>4. ASSUME pc[u] # "waits", NEW n \in 1..Len(idequeue), idequeue[n] = b[u] PROVE FALSE
  <2>1. PICK q \in Uses : pc[q] = "waits" /\ b[q] = b[u]
    BY <1>4 DEF CacheInv, QueueInv
  <2>. QED BY <1>3, <1>4, <2>1, Zenon DEF Held
<1>5. holdingsleep(u)
  BY <1>2, NoneAssumption, Zenon DEF holdingsleep
<1>. QED BY <1>1, <1>2, <1>3, <1>4, <1>5, Zenon

\* A holder that moves within Held, and nobody else, keeps the locks.
LEMMA LockKept ==
  ASSUME CacheInv, NEW u \in Uses, pc[u] \in Held, NEW to \in Held,
         pc' = [pc EXCEPT ![u] = to], locked' = locked, b' = b
  PROVE  LockInv'
<1>1. /\ \A q \in Uses : pc'[q] \in Held <=> pc[q] \in Held
      /\ \A q \in Uses : pc'[q] = "asleep" => pc[q] = "asleep"
  BY Zenon DEF CacheInv, TypeOK, Held
<1>2. \A j \in Buf : locked[j] \in Uses \cup {NoUse}
  BY DEF CacheInv, TypeOK
<1>. QED BY <1>1, <1>2, Zenon DEF CacheInv, LockInv

LEMMA IderwStep ==
  ASSUME Counting, CacheInv, NEW u \in Uses, Iderw(u)
  PROVE  CacheInv'
<1>1. PICK i \in Buf : /\ i = b[u] /\ locked[i] = u /\ holdingsleep(u) /\ pc[u] = "iderw" /\ ~Done(i)
                       /\ \A q \in Uses : q # u /\ pc[q] \in Held => b[q] # i
                       /\ \A n \in 1..Len(idequeue) : idequeue[n] # i
  BY Holder, Zenon DEF Iderw, Held, CacheInv, FlagInv
<1>2. /\ idequeue' = Append(idequeue, i)
      /\ command' = IF idequeue = <<>> THEN Request(i) ELSE command
      /\ pc' = [pc EXCEPT ![u] = "waits"]
      /\ UNCHANGED <<blockno, valid, dirty, refcnt, data, locked, lru, disk, want, b, panic>>
  BY <1>1, Zenon DEF Iderw, Goto, buffers
<1>3. TypeOK
  BY DEF CacheInv
<1>4. TypeOK'
  BY <1>2, <1>3, SMTT(20) DEF TypeOK, Pc, Held
<1>5. UseInv'
  <2>1. \A q \in Uses : pc'[q] = "out" <=> pc[q] = "out"
    BY <1>1, <1>2, <1>3 DEF TypeOK
  <2>. QED BY <1>2, <2>1, Zenon DEF CacheInv, UseInv, Users
<1>6. LockInv'
  BY <1>1, <1>2, LockKept, ZenonT(30) DEF Held
<1>7. FlagInv'
  BY <1>1, <1>2, <1>3, Zenon DEF CacheInv, FlagInv, TypeOK, Done
<1>8. QueueInv'
  <2>. DEFINE N == Len(idequeue)
  <2>1. /\ N \in Nat /\ Len(idequeue') = N + 1 /\ idequeue'[N + 1] = i
        /\ \A n \in 1..N : idequeue'[n] = idequeue[n]
    BY <1>2, <1>3 DEF TypeOK
  <2>2. \A q \in Uses : pc'[q] = IF q = u THEN "waits" ELSE pc[q]
    BY <1>2, <1>3, Zenon DEF TypeOK
  <2>3. 1..(N + 1) = (1..N) \cup {N + 1}
    BY <2>1
  <2>b. b' = b /\ i = b[u]
    BY <1>1, <1>2, Zenon
  <2>. HIDE DEF N
  <2>4. \A m, n \in 1..(N + 1) : idequeue'[m] = idequeue'[n] => m = n
    BY <1>1, <2>1, <2>3 DEF CacheInv, QueueInv, N
  <2>5. \A n \in 1..(N + 1) : \E q \in Uses : pc'[q] = "waits" /\ b'[q] = idequeue'[n]
    <3>1. \A n \in 1..N : \E q \in Uses : pc[q] = "waits" /\ b[q] = idequeue[n]
      BY Zenon DEF CacheInv, QueueInv, N
    <3>2. \A n \in 1..N : \E q \in Uses : pc'[q] = "waits" /\ b'[q] = idequeue'[n]
      BY <2>1, <2>2, <2>b, <3>1, Zenon
    <3>3. \E q \in Uses : pc'[q] = "waits" /\ b'[q] = idequeue'[N + 1]
      BY <2>1, <2>2, <2>b, Zenon
    <3>. QED BY <2>3, <3>2, <3>3, Zenon
  <2>6. \A q \in Uses : pc'[q] = "waits" => \E n \in 1..(N + 1) : idequeue'[n] = b'[q]
    <3>1. \A q \in Uses : pc[q] = "waits" => \E n \in 1..N : idequeue[n] = b[q]
      BY Zenon DEF CacheInv, QueueInv, N
    <3>2. \A q \in Uses : q # u /\ pc'[q] = "waits" => \E n \in 1..N : idequeue'[n] = b'[q]
      BY <2>1, <2>2, <2>b, <3>1, Zenon
    <3>3. N + 1 \in 1..(N + 1) /\ idequeue'[N + 1] = b'[u]
      BY <2>1, <2>3, <2>b, Zenon
    <3>. QED BY <2>3, <3>2, <3>3, Zenon
  <2>7. command' = Request(Head(idequeue))'
    <3>1. CASE idequeue = <<>>
      <4>1. Head(idequeue') = i
        BY <1>2, <1>3, <3>1 DEF TypeOK
      <4>. QED BY <1>2, <3>1, <4>1 DEF Request
    <3>2. CASE idequeue # <<>>
      <4>1. Head(idequeue') = Head(idequeue)
        BY <1>2, <1>3, <3>2 DEF TypeOK
      <4>. QED BY <1>2, <3>2, <4>1 DEF Request, CacheInv, QueueInv
    <3>. QED BY <3>1, <3>2, Zenon
  <2>8. idequeue' # <<>>
    BY <1>2, <1>3 DEF TypeOK
  <2>. QED BY <2>1, <2>4, <2>5, <2>6, <2>7, <2>8, Zenon DEF QueueInv
<1>9. LruInv'
  BY <1>2 DEF CacheInv, LruInv
<1>10. PinInv'
  <2>1. Logged' \subseteq Logged
    BY <1>1, <1>2, <1>3 DEF Logged, TypeOK
  <2>. QED BY <2>1, PinKept
<1>. QED BY <1>4, <1>5, <1>6, <1>7, <1>8, <1>9, <1>10 DEF CacheInv

LEMMA IderwTestStep ==
  ASSUME Counting, CacheInv, NEW u \in Uses, IderwTest(u)
  PROVE  CacheInv'
<1>1. pc[u] = "tests" /\ Done(b[u])
  BY Zenon DEF IderwTest, CacheInv, FlagInv
<1>2. /\ pc' = [pc EXCEPT ![u] = "holds"]
      /\ UNCHANGED <<blockno, valid, dirty, refcnt, data, locked, lru, idequeue, command, disk, want, b, panic>>
  BY <1>1 DEF IderwTest, Goto, buffers
<1>3. TypeOK
  BY Zenon DEF CacheInv
<1>4. TypeOK'
  BY <1>2, <1>3 DEF TypeOK, Pc, Held
<1>5. UseInv'
  <2>1. \A q \in Uses : pc'[q] = "out" <=> pc[q] = "out"
    BY <1>1, <1>2, <1>3 DEF TypeOK
  <2>. QED BY <1>2, <2>1, Zenon DEF CacheInv, UseInv, Users
<1>6. LockInv'
  BY <1>1, <1>2, LockKept, Zenon DEF Held
<1>7. FlagInv'
  BY <1>1, <1>2, <1>3 DEF CacheInv, FlagInv, TypeOK, Done
<1>8. QueueInv'
  <2>1. Request(Head(idequeue))' = Request(Head(idequeue))
    BY <1>2, Zenon DEF Request
  <2>2. \A q \in Uses : /\ pc'[q] = "waits" <=> pc[q] = "waits"
                        /\ pc[q] = "waits" => b'[q] = b[q]
    BY <1>1, <1>2, <1>3 DEF TypeOK
  <2>. QED BY <1>2, <2>1, <2>2, QueueKept, Zenon
<1>9. LruInv'
  BY <1>2 DEF CacheInv, LruInv
<1>10. PinInv'
  <2>1. Logged' \subseteq Logged
    BY <1>1, <1>2, <1>3, Zenon DEF Logged, TypeOK
  <2>. QED BY <2>1, PinKept, Zenon
<1>. QED BY <1>4, <1>5, <1>6, <1>7, <1>8, <1>9, <1>10 DEF CacheInv
LEMMA ChangeStep ==
  ASSUME Counting, CacheInv, NEW u \in Uses, NEW v \in Val, Change(u, v)
  PROVE  CacheInv'
<1>1. PICK i \in Buf : /\ i = b[u] /\ locked[i] = u /\ holdingsleep(u) /\ pc[u] = "holds" /\ valid[i]
                       /\ \A q \in Uses : q # u /\ pc[q] \in Held => b[q] # i
                       /\ \A n \in 1..Len(idequeue) : idequeue[n] # i
  BY Holder DEF Change, Held, CacheInv, FlagInv
<1>2. /\ data' = [data EXCEPT ![i] = v] /\ dirty' = [dirty EXCEPT ![i] = TRUE]
      /\ dirty[i] \/ Cardinality(Pinned) < MaxPinned
      /\ UNCHANGED <<blockno, valid, refcnt, locked, lru, idequeue, command, disk, pc, want, b, panic>>
  BY <1>1, Zenon DEF Change
<1>3. TypeOK
  BY DEF CacheInv
<1>4. TypeOK'
  BY <1>2, <1>3 DEF TypeOK
<1>5. UseInv' /\ LockInv' /\ LruInv'
  <2>1. \A j : Users(j)' = Users(j)
    BY <1>2, Zenon DEF Users
  <2>2. UseInv'
    BY <1>2, <2>1, Zenon DEF CacheInv, UseInv
  <2>3. LockInv'
    BY <1>2, Zenon DEF CacheInv, LockInv
  <2>4. LruInv'
    BY <1>2, Zenon DEF CacheInv, LruInv
  <2>. QED BY <2>2, <2>3, <2>4, Zenon
<1>6. FlagInv'
  <2>1. \A q \in Uses : pc[q] \in Held => q = u \/ b[q] # i
    BY <1>1, Zenon
  <2>2. /\ dirty'[i] /\ \A j \in Buf : j # i => dirty'[j] = dirty[j] /\ data'[j] = data[j]
    BY <1>2, <1>3 DEF TypeOK
  <2>3. UNCHANGED <<blockno, valid, disk, b>>
    BY <1>2, Zenon
  <2>4. \A q \in Uses : pc'[q] = pc[q]
    BY <1>1, <1>2, <1>3 DEF TypeOK
  <2>5. \A j \in Buf : /\ dirty'[j] => valid'[j]
                       /\ valid'[j] => blockno'[j] \in Block
                       /\ Done(j)' => data'[j] = disk'[blockno'[j]]
    BY <1>1, <2>2, <2>3 DEF CacheInv, FlagInv, Done
  <2>6. ASSUME NEW q \in Uses
        PROVE  /\ pc'[q] = "holds" => valid'[b'[q]]
               /\ pc'[q] = "tests" => Done(b[q])'
               /\ pc'[q] \in {"iderw", "waits"} => ~Done(b[q])'
    <3>1. CASE q = u
      BY <1>1, <2>2, <2>3, <2>4, <3>1 DEF Done
    <3>2. CASE q # u /\ pc[q] \in Held
      <4>1. b[q] \in Buf /\ b[q] # i
        BY <2>1, <3>2, BufInUse DEF Held
      <4>. QED BY <2>2, <2>3, <2>4, <3>2, <4>1 DEF CacheInv, FlagInv, Done
    <3>3. CASE q # u /\ pc[q] \notin Held
      BY <2>4, <3>3, Zenon DEF Held
    <3>. QED BY <3>1, <3>2, <3>3
  <2>. QED BY <2>5, <2>6, Zenon DEF FlagInv
<1>7. QueueInv'
  <2>1. idequeue # <<>> => Head(idequeue) # i /\ Head(idequeue) \in Buf
    BY <1>1, <1>3 DEF TypeOK
  <2>2. idequeue # <<>> => Request(Head(idequeue))' = Request(Head(idequeue))
    BY <1>2, <1>3, <2>1, Zenon DEF TypeOK, Request
  <2>. QED BY <1>2, <2>2, QueueKept
<1>8. PinInv'
  <2>1. Logged' \subseteq Logged \cup {i}
    BY <1>2, <1>3, Zenon DEF Logged, TypeOK
  <2>2. CASE dirty[i]
    <3>1. i \in Logged
      BY <1>1, <2>2, Zenon DEF Logged, Held
    <3>. QED BY <2>1, <3>1, PinKept
  <2>3. CASE ~dirty[i]
    <3>1. Logged \subseteq Pinned /\ Pinned \subseteq Buf
      BY Zenon DEF Logged, Pinned
    <3>2. IsFiniteSet(Pinned) /\ Cardinality(Pinned) \in Nat
      <4>1. IsFiniteSet(Buf)
        BY SizeAssumption DEF Buf, Counting, Intervals
      <4>. QED BY <3>1, <4>1 DEF Counting, Subsets, Sizes
    <3>3. Cardinality(Pinned \cup {i}) <= Cardinality(Pinned) + 1 /\ IsFiniteSet(Pinned \cup {i})
      <4>1. i \notin Pinned
        BY <2>3, Zenon DEF Pinned
      <4>2. /\ IsFiniteSet(Pinned \cup {i})
            /\ Cardinality(Pinned \cup {i}) = Cardinality(Pinned) + 1
        BY <3>2, <4>1 DEF Counting, Additions
      <4>. QED BY <3>2, <4>2
    <3>4. Logged' \subseteq Pinned \cup {i}
      BY <2>1, <3>1, Zenon
    <3>5. Cardinality(Logged') <= Cardinality(Pinned \cup {i}) /\ IsFiniteSet(Logged')
      BY <3>3, <3>4, Zenon DEF Counting, Subsets
    <3>6. Cardinality(Logged') \in Nat /\ Cardinality(Pinned \cup {i}) \in Nat
      BY <3>3, <3>5 DEF Counting, Sizes
    <3>. QED BY <1>2, <2>3, <3>2, <3>3, <3>5, <3>6, SizeAssumption DEF PinInv
  <2>. QED BY <2>2, <2>3, Zenon
<1>. QED BY <1>4, <1>5, <1>6, <1>7, <1>8 DEF CacheInv

LEMMA BwriteStep ==
  ASSUME Counting, CacheInv, NEW u \in Uses, NEW v \in Val, Bwrite(u, v)
  PROVE  CacheInv'
<1>1. PICK i \in Buf : /\ i = b[u] /\ locked[i] = u /\ holdingsleep(u) /\ pc[u] = "holds" /\ valid[i]
                       /\ \A q \in Uses : q # u /\ pc[q] \in Held => b[q] # i
                       /\ \A n \in 1..Len(idequeue) : idequeue[n] # i
  BY Holder, Zenon DEF Bwrite, Held, CacheInv, FlagInv
<1>2. /\ data' = [data EXCEPT ![i] = v] /\ dirty' = [dirty EXCEPT ![i] = TRUE]
      /\ pc' = [pc EXCEPT ![u] = "iderw"]
      /\ UNCHANGED <<blockno, valid, refcnt, locked, lru, idequeue, command, disk, want, b, panic>>
  BY <1>1, Zenon DEF Bwrite, Goto
<1>3. TypeOK
  BY DEF CacheInv
<1>4. TypeOK'
  BY <1>2, <1>3 DEF TypeOK, Pc, Held
<1>5. UseInv'
  <2>1. \A q \in Uses : pc'[q] = "out" <=> pc[q] = "out"
    BY <1>1, <1>2, <1>3 DEF TypeOK
  <2>. QED BY <1>2, <2>1, Zenon DEF CacheInv, UseInv, Users
<1>6. LockInv'
  BY <1>1, <1>2, LockKept, Zenon DEF Held
<1>7. FlagInv'
  <2>1. \A q \in Uses : pc[q] \in Held => q = u \/ b[q] # i
    BY <1>1, Zenon
  <2>2. /\ dirty'[i] /\ \A j \in Buf : j # i => dirty'[j] = dirty[j] /\ data'[j] = data[j]
    BY <1>2, <1>3, Zenon DEF TypeOK
  <2>3. UNCHANGED <<blockno, valid, disk, b>>
    BY <1>2, Zenon
  <2>4. \A q \in Uses : pc'[q] = IF q = u THEN "iderw" ELSE pc[q]
    BY <1>1, <1>2, <1>3 DEF TypeOK
  <2>5. \A j \in Buf : /\ dirty'[j] => valid'[j]
                       /\ valid'[j] => blockno'[j] \in Block
                       /\ Done(j)' => data'[j] = disk'[blockno'[j]]
    BY <1>1, <2>2, <2>3 DEF CacheInv, FlagInv, Done
  <2>6. ASSUME NEW q \in Uses
        PROVE  /\ pc'[q] = "holds" => valid'[b'[q]]
               /\ pc'[q] = "tests" => Done(b[q])'
               /\ pc'[q] \in {"iderw", "waits"} => ~Done(b[q])'
    <3>1. CASE q = u
      BY <1>1, <2>2, <2>3, <2>4, <3>1 DEF Done
    <3>2. CASE q # u /\ pc[q] \in Held
      <4>1. b[q] \in Buf /\ b[q] # i
        BY <2>1, <3>2, BufInUse DEF Held
      <4>. QED BY <2>2, <2>3, <2>4, <3>2, <4>1 DEF CacheInv, FlagInv, Done
    <3>3. CASE q # u /\ pc[q] \notin Held
      BY <2>4, <3>3, Zenon DEF Held
    <3>. QED BY <3>1, <3>2, <3>3
  <2>. QED BY <2>5, <2>6, Zenon DEF FlagInv
<1>8. QueueInv'
  <2>1. idequeue # <<>> => Head(idequeue) # i /\ Head(idequeue) \in Buf
    BY <1>1, <1>3 DEF TypeOK
  <2>2. idequeue # <<>> => Request(Head(idequeue))' = Request(Head(idequeue))
    BY <1>2, <1>3, <2>1, Zenon DEF TypeOK, Request
  <2>3. \A q \in Uses : /\ pc'[q] = "waits" <=> pc[q] = "waits"
                        /\ pc[q] = "waits" => b'[q] = b[q]
    BY <1>1, <1>2, <1>3, Zenon DEF TypeOK
  <2>. QED BY <1>2, <2>2, <2>3, QueueKept
<1>9. LruInv'
  BY <1>2, Zenon DEF CacheInv, LruInv
<1>10. PinInv'
  <2>1. Logged' \subseteq Logged
    BY <1>1, <1>2, <1>3 DEF Logged, TypeOK
  <2>. QED BY <2>1, PinKept, Zenon
<1>. QED BY <1>4, <1>5, <1>6, <1>7, <1>8, <1>9, <1>10, SMTT(20) DEF CacheInv

LEMMA ReleasesleepStep ==
  ASSUME Counting, CacheInv, NEW u \in Uses, Releasesleep(u)
  PROVE  CacheInv'
<1>1. PICK i \in Buf : /\ i = b[u] /\ locked[i] = u /\ holdingsleep(u) /\ pc[u] = "holds"
                       /\ \A q \in Uses : q # u /\ pc[q] \in Held => b[q] # i
  BY Holder, Zenon DEF Releasesleep, Held
<1>2. /\ locked' = [locked EXCEPT ![i] = NoUse]
      /\ pc' = WakeupLock([pc EXCEPT ![u] = "brelse"], i)
      /\ UNCHANGED <<blockno, valid, dirty, refcnt, data, lru, idequeue, command, disk, want, b, panic>>
  BY <1>1, Zenon DEF Releasesleep, buffers
<1>3. TypeOK
  BY DEF CacheInv
<1>u. /\ pc'[u] = "brelse"
      /\ \A q \in Uses : q # u => pc'[q] = IF pc[q] = "asleep" /\ b[q] = i THEN "woken" ELSE pc[q]
      /\ pc' \in [Uses -> Pc]
  BY <1>2, <1>3 DEF TypeOK, WakeupLock, Pc
<1>4. TypeOK'
  BY <1>2, <1>3, <1>u, Zenon DEF TypeOK
<1>5. UseInv'
  <2>1. \A q \in Uses : pc'[q] = "out" <=> pc[q] = "out"
    BY <1>1, <1>u, Zenon
  <2>. QED BY <1>2, <2>1, Zenon DEF CacheInv, UseInv, Users
<1>6. LockInv'
  <2>1. /\ locked'[i] = NoUse
        /\ \A j \in Buf : j # i => locked'[j] = locked[j]
    BY <1>2, <1>3, Zenon DEF TypeOK
  <2>2. \A q \in Uses : pc'[q] \in Held => q # u /\ pc[q] \in Held /\ b[q] \in Buf
    BY <1>u, BufInUse, Zenon DEF Held
  <2>3. \A q \in Uses : pc'[q] = "asleep" => pc[q] = "asleep" /\ b[q] # i /\ b[q] \in Buf
    BY <1>u, BufInUse, Zenon
  <2>4. \A j \in Buf : j # i /\ locked[j] # NoUse =>
          locked[j] \in Uses /\ locked[j] # u /\ pc'[locked[j]] = pc[locked[j]]
    <3>1. \A j \in Buf : locked[j] # NoUse => locked[j] \in Uses
      BY <1>3 DEF TypeOK
    <3>2. \A j \in Buf : j # i /\ locked[j] # NoUse => locked[j] # u /\ pc[locked[j]] # "asleep"
      BY <1>1 DEF CacheInv, LockInv, Held
    <3>. QED BY <1>u, <3>1, <3>2, Zenon
  <2>5. \A q \in Uses : pc'[q] \in Held => locked'[b'[q]] = q
    BY <1>1, <1>2, <2>1, <2>2, ZenonT(30) DEF CacheInv, LockInv
  <2>6. \A j \in Buf : locked'[j] # NoUse => pc'[locked'[j]] \in Held /\ b'[locked'[j]] = j
    <3>1. SUFFICES ASSUME NEW j \in Buf, locked'[j] # NoUse
                   PROVE  pc'[locked[j]] \in Held /\ b[locked[j]] = j /\ locked'[j] = locked[j]
      BY <1>2, Zenon
    <3>2. j # i /\ locked[j] # NoUse
      BY <2>1, <3>1
    <3>. QED BY <2>1, <2>4, <3>2, Zenon DEF CacheInv, LockInv
  <2>7. \A q \in Uses : pc'[q] = "asleep" => locked'[b'[q]] # NoUse
    <3>1. SUFFICES ASSUME NEW q \in Uses, pc'[q] = "asleep" PROVE locked'[b[q]] # NoUse
      BY <1>2
    <3>2. locked'[b[q]] = locked[b[q]] /\ pc[q] = "asleep"
      BY <2>1, <2>3, <3>1
    <3>. QED BY <3>2 DEF CacheInv, LockInv
  <2>. QED BY <2>5, <2>6, <2>7, Zenon DEF LockInv
<1>7. FlagInv'
  BY <1>1, <1>2, <1>u, ZenonT(30) DEF CacheInv, FlagInv, Done
<1>8. QueueInv'
  <2>1. Request(Head(idequeue))' = Request(Head(idequeue))
    BY <1>2 DEF Request
  <2>2. \A q \in Uses : /\ pc'[q] = "waits" <=> pc[q] = "waits"
                        /\ pc[q] = "waits" => b'[q] = b[q]
    BY <1>1, <1>2, <1>u, Zenon
  <2>. QED BY <1>2, <2>1, <2>2, QueueKept, Zenon
<1>9. LruInv'
  BY <1>2 DEF CacheInv, LruInv
<1>10. PinInv'
  <2>1. \A q \in Uses : pc[q] \in {"iderw", "waits"} => pc'[q] \in {"iderw", "waits"}
    BY <1>1, <1>u
  <2>2. Logged' \subseteq Logged
    BY <1>2, <2>1, Zenon DEF Logged
  <2>. QED BY <2>2, PinKept
<1>. QED BY <1>4, <1>5, <1>6, <1>7, <1>8, <1>9, <1>10 DEF CacheInv
\* brelse() moves a buffer to the head of the list and loses none.
LEMMA MovedToFront ==
  ASSUME TypeOK, LruInv, NEW i \in Buf
  PROVE  /\ MoveToFront(lru, i) \in [1..NBUF -> Buf]
         /\ \A j \in Buf : \E n \in 1..NBUF : MoveToFront(lru, i)[n] = j
<1>1. PICK r \in 1..NBUF : r = CHOOSE m \in 1..NBUF : lru[m] = i
  BY DEF LruInv
<1>2. lru[r] = i
  BY <1>1 DEF LruInv
<1>. DEFINE L == [n \in 1..NBUF |-> IF n = 1 THEN i ELSE IF n <= r THEN lru[n - 1] ELSE lru[n]]
<1>3. MoveToFront(lru, i) = L
  BY <1>1 DEF MoveToFront
<1>4. \A n \in 1..NBUF : n - 1 \in 1..NBUF \/ n = 1
  BY SizeAssumption
<1>5. L \in [1..NBUF -> Buf]
  BY <1>4, Zenon DEF TypeOK
<1>6. ASSUME NEW j \in Buf PROVE \E n \in 1..NBUF : L[n] = j
  <2>1. PICK m \in 1..NBUF : lru[m] = j
    BY DEF LruInv
  <2>2. CASE m = r
    <3>1. 1 \in 1..NBUF /\ L[1] = j
      BY <1>2, <2>1, <2>2, SizeAssumption
    <3>. QED BY <3>1
  <2>3. CASE m < r
    <3>1. m + 1 \in 1..NBUF /\ m + 1 # 1 /\ m + 1 <= r /\ (m + 1) - 1 = m
      BY <2>3, SizeAssumption
    <3>2. L[m + 1] = j
      BY <2>1, <3>1
    <3>. QED BY <3>1, <3>2
  <2>4. CASE m > r
    <3>1. m # 1 /\ ~(m <= r)
      BY <2>4, SizeAssumption
    <3>. QED BY <2>1, <3>1
  <2>. QED BY <2>2, <2>3, <2>4, SizeAssumption
<1>. QED BY <1>3, <1>5, <1>6

LEMMA BrelseStep ==
  ASSUME Counting, CacheInv, NEW u \in Uses, Brelse(u)
  PROVE  CacheInv'
<1>1. PICK i \in Buf : i = b[u] /\ pc[u] = "brelse"
  BY BufInUse, Zenon DEF Brelse
<1>2. /\ refcnt' = [refcnt EXCEPT ![i] = @ - 1]
      /\ lru' = IF refcnt[i] = 1 THEN MoveToFront(lru, i) ELSE lru
      /\ pc' = [pc EXCEPT ![u] = "out"]
      /\ want' = [want EXCEPT ![u] = NoBlock] /\ b' = [b EXCEPT ![u] = 0]
      /\ UNCHANGED <<blockno, valid, dirty, data, locked, idequeue, command, disk, panic>>
  BY <1>1 DEF Brelse, Goto
<1>3. TypeOK
  BY DEF CacheInv
<1>c. /\ Cardinality(Users(i)') = Cardinality(Users(i)) - 1
      /\ Cardinality(Users(i)) >= 1
      /\ \A j \in Buf : j # i => Users(j)' = Users(j)
  BY <1>1, <1>2, UserRemoved, Zenon
<1>l. lru' \in [1..NBUF -> Buf] /\ LruInv'
  BY <1>2, <1>3, MovedToFront, Zenon DEF CacheInv, LruInv, TypeOK
<1>r. refcnt[i] = Cardinality(Users(i)) /\ refcnt[i] \in Nat
  BY <1>3, ZenonT(30) DEF CacheInv, UseInv, TypeOK
<1>4. TypeOK'
  <2>1. refcnt' \in [Buf -> Nat]
    <3>1. refcnt[i] - 1 \in Nat
      BY <1>c, <1>r
    <3>. QED BY <1>2, <1>3, <3>1, Zenon DEF TypeOK
  <2>2. pc' \in [Uses -> Pc] /\ want' \in [Uses -> Block \cup {NoBlock}]
    BY <1>2, <1>3, Zenon DEF TypeOK, Pc
  <2>3. b' \in [Uses -> 0..NBUF]
    BY <1>2, <1>3, SizeAssumption DEF TypeOK
  <2>. QED BY <1>2, <1>3, <1>l, <2>1, <2>2, <2>3, Zenon DEF TypeOK
<1>5. UseInv'
  <2>1. \A j \in Buf : refcnt'[j] = Cardinality(Users(j)')
    <3>1. refcnt'[i] = Cardinality(Users(i)')
      BY <1>2, <1>3, <1>c, <1>r, Zenon DEF TypeOK
    <3>2. \A j \in Buf : j # i => refcnt'[j] = refcnt[j] /\ Users(j)' = Users(j)
      BY <1>2, <1>3, <1>c, Zenon DEF TypeOK
    <3>. QED BY <3>1, <3>2, Zenon DEF CacheInv, UseInv
  <2>2. \A q \in Uses : /\ pc'[q] = "out" <=> b'[q] = 0
                        /\ pc'[q] # "out" => blockno'[b'[q]] = want'[q] /\ want'[q] \in Block
    BY <1>2, <1>3 DEF CacheInv, UseInv, TypeOK
  <2>. QED BY <1>2, <2>1, <2>2, Zenon DEF CacheInv, UseInv
<1>q. \A q \in Uses : pc'[q] # "out" => pc'[q] = pc[q] /\ b'[q] = b[q] /\ q # u
  BY <1>2, <1>3 DEF TypeOK
<1>6. LockInv'
  <2>1. \A j \in Buf : locked[j] # NoUse => locked[j] \in Uses /\ locked[j] # u
    <3>1. \A j \in Buf : locked[j] # NoUse => locked[j] \in Uses
      BY <1>3 DEF TypeOK
    <3>. QED BY <1>1, <3>1, Zenon DEF CacheInv, LockInv, Held
  <2>2. \A q \in Uses : q # u => pc'[q] = pc[q] /\ b'[q] = b[q]
    BY <1>2, <1>3 DEF TypeOK
  <2>3. \A q \in Uses : pc'[q] \in Held => locked'[b'[q]] = q
    BY <1>2, <1>q, Zenon DEF CacheInv, LockInv, Held
  <2>4. \A j \in Buf : locked'[j] # NoUse => pc'[locked'[j]] \in Held /\ b'[locked'[j]] = j
    BY <1>2, <2>1, <2>2 DEF CacheInv, LockInv
  <2>5. \A q \in Uses : pc'[q] = "asleep" => locked'[b'[q]] # NoUse
    BY <1>2, <1>q DEF CacheInv, LockInv
  <2>. QED BY <2>3, <2>4, <2>5 DEF LockInv
<1>7. FlagInv'
  BY <1>2, <1>q DEF CacheInv, FlagInv, Done
<1>8. QueueInv'
  <2>1. Request(Head(idequeue))' = Request(Head(idequeue))
    BY <1>2, Zenon DEF Request
  <2>2. \A q \in Uses : /\ pc'[q] = "waits" <=> pc[q] = "waits"
                        /\ pc[q] = "waits" => b'[q] = b[q]
    BY <1>1, <1>2, <1>3, Zenon DEF TypeOK
  <2>. QED BY <1>2, <2>1, <2>2, QueueKept
<1>9. PinInv'
  <2>1. \A q \in Uses, j \in Buf : b[q] = j /\ pc[q] \in {"iderw", "waits"} =>
          b'[q] = j /\ pc'[q] \in {"iderw", "waits"}
    BY <1>1, <1>2, <1>3 DEF TypeOK
  <2>2. Logged' \subseteq Logged
    BY <1>2, <2>1 DEF Logged
  <2>. QED BY <2>2, PinKept
<1>. QED BY <1>l, <1>4, <1>5, <1>6, <1>7, <1>8, <1>9, Zenon DEF CacheInv
\* What an interrupt does: the first buffer of the queue is now filled and
\* clean, and its only waiter tests again.
LEMMA IdeintrFacts ==
  ASSUME CacheInv, Ideintr
  PROVE  \E i \in Buf, u \in Uses :
           /\ idequeue # <<>> /\ i = Head(idequeue)
           /\ pc[u] = "waits" /\ b[u] = i /\ locked[i] = u /\ blockno[i] \in Block
           /\ \A q \in Uses : q # u /\ pc[q] \in Held => b[q] # i
           /\ disk' = IF dirty[i] THEN [disk EXCEPT ![blockno[i]] = data[i]] ELSE disk
           /\ data' = IF dirty[i] THEN data ELSE [data EXCEPT ![i] = disk[blockno[i]]]
           /\ valid' = [valid EXCEPT ![i] = TRUE] /\ dirty' = [dirty EXCEPT ![i] = FALSE]
           /\ pc' = WakeupBuf(i) /\ idequeue' = Tail(idequeue)
           /\ command' = IF Tail(idequeue) = <<>> THEN <<>> ELSE Request(Head(Tail(idequeue)))
           /\ UNCHANGED <<blockno, refcnt, locked, lru, want, b, panic>>
<1>1. idequeue # <<>> /\ command = Request(Head(idequeue))
  BY Zenon DEF Ideintr, CacheInv, QueueInv
<1>2. idequeue \in Seq(Buf)
  BY DEF CacheInv, TypeOK
<1>3. PICK i \in Buf : i = Head(idequeue) /\ i = idequeue[1] /\ 1 \in 1..Len(idequeue)
  BY <1>1, <1>2
<1>4. PICK u \in Uses : pc[u] = "waits" /\ b[u] = i
  BY <1>3 DEF CacheInv, QueueInv
<1>5. locked[i] = u /\ \A q \in Uses : q # u /\ pc[q] \in Held => b[q] # i
  BY <1>4, Holder, Zenon DEF Held
<1>6. blockno[i] \in Block
  BY <1>4 DEF CacheInv, UseInv
<1>7. command[1].blockno = blockno[i] /\ command[1].write = dirty[i] /\ command[1].data = data[i]
  BY <1>1, <1>3 DEF Request
<1>8. /\ disk' = IF dirty[i] THEN [disk EXCEPT ![blockno[i]] = data[i]] ELSE disk
      /\ data' = IF dirty[i] THEN data ELSE [data EXCEPT ![i] = disk[blockno[i]]]
  BY <1>3, <1>7, Zenon DEF Ideintr
<1>9. /\ valid' = [valid EXCEPT ![i] = TRUE] /\ dirty' = [dirty EXCEPT ![i] = FALSE]
      /\ pc' = WakeupBuf(i) /\ idequeue' = Tail(idequeue)
      /\ command' = IF Tail(idequeue) = <<>> THEN <<>> ELSE Request(Head(Tail(idequeue)))
      /\ UNCHANGED <<blockno, refcnt, locked, lru, want, b, panic>>
  BY <1>3 DEF Ideintr
<1>. QED BY <1>1, <1>3, <1>4, <1>5, <1>6, <1>8, <1>9, Zenon

LEMMA IdeintrStep ==
  ASSUME Counting, CacheInv, Ideintr
  PROVE  CacheInv'
<1>1. PICK i \in Buf, u \in Uses :
           /\ idequeue # <<>> /\ i = Head(idequeue)
           /\ pc[u] = "waits" /\ b[u] = i /\ locked[i] = u /\ blockno[i] \in Block
           /\ \A q \in Uses : q # u /\ pc[q] \in Held => b[q] # i
           /\ disk' = IF dirty[i] THEN [disk EXCEPT ![blockno[i]] = data[i]] ELSE disk
           /\ data' = IF dirty[i] THEN data ELSE [data EXCEPT ![i] = disk[blockno[i]]]
           /\ valid' = [valid EXCEPT ![i] = TRUE] /\ dirty' = [dirty EXCEPT ![i] = FALSE]
           /\ pc' = WakeupBuf(i) /\ idequeue' = Tail(idequeue)
           /\ command' = IF Tail(idequeue) = <<>> THEN <<>> ELSE Request(Head(Tail(idequeue)))
           /\ UNCHANGED <<blockno, refcnt, locked, lru, want, b, panic>>
  BY IdeintrFacts, Zenon
<1>3. TypeOK
  BY Zenon DEF CacheInv
<1>u. /\ \A q \in Uses : pc'[q] = IF pc[q] = "waits" /\ b[q] = i THEN "tests" ELSE pc[q]
      /\ pc' \in [Uses -> Pc]
  BY <1>1, <1>3, Zenon DEF WakeupBuf, TypeOK, Pc, Held
<1>d. /\ disk' \in [Block -> Val] /\ data' \in [Buf -> Val]
      /\ data'[i] = disk'[blockno[i]]
      /\ \A j \in Buf : j # i => data'[j] = data[j]
      /\ \A k \in Block : k # blockno[i] => disk'[k] = disk[k]
  BY <1>1, <1>3, Zenon DEF TypeOK
<1>f. /\ valid'[i] /\ ~dirty'[i]
      /\ \A j \in Buf : j # i => valid'[j] = valid[j] /\ dirty'[j] = dirty[j]
  BY <1>1, <1>3 DEF TypeOK
<1>n. blockno' = blockno /\ b' = b
  BY <1>1
<1>4. TypeOK'
  <2>1. valid' \in [Buf -> BOOLEAN] /\ dirty' \in [Buf -> BOOLEAN] /\ idequeue' \in Seq(Buf)
    BY <1>1, <1>3 DEF TypeOK
  <2>. QED BY <1>1, <1>3, <1>u, <1>d, <2>1, Zenon DEF TypeOK
<1>5. UseInv'
  <2>1. \A q \in Uses : pc'[q] = "out" <=> pc[q] = "out"
    BY <1>u
  <2>2. blockno' = blockno /\ refcnt' = refcnt /\ want' = want /\ b' = b
    BY <1>1, Zenon
  <2>3. \A j : Users(j)' = Users(j)
    BY <2>2, Zenon DEF Users
  <2>4. UseInv
    BY Zenon DEF CacheInv
  <2>. QED BY <2>1, <2>2, <2>3, <2>4, Zenon DEF UseInv
<1>6. LockInv'
  <2>1. \A q \in Uses : /\ pc'[q] \in Held <=> pc[q] \in Held
                        /\ pc'[q] = "asleep" => pc[q] = "asleep"
    BY <1>u, Zenon DEF Held
  <2>2. \A j \in Buf : locked[j] \in Uses \cup {NoUse}
    BY <1>3, Zenon DEF TypeOK
  <2>. QED BY <1>1, <2>1, <2>2, Zenon DEF CacheInv, LockInv
<1>7. FlagInv'
  <2>1. \A j \in Buf : dirty'[j] => valid'[j]
    BY <1>f, Zenon DEF CacheInv, FlagInv
  <2>2. \A j \in Buf : valid'[j] => blockno'[j] \in Block
    <3>1. blockno[i] \in Block
      BY <1>1, Zenon
    <3>2. \A j \in Buf : valid[j] => blockno[j] \in Block
      BY Zenon DEF CacheInv, FlagInv
    <3>. QED BY <1>n, <1>f, <3>1, <3>2, Zenon
  <2>3. \A j \in Buf : Done(j)' => data'[j] = disk'[blockno'[j]]
    <3>1. SUFFICES ASSUME NEW j \in Buf, j # i, valid'[j], ~dirty'[j]
                   PROVE  data'[j] = disk'[blockno[j]]
      BY <1>d, <1>n, Zenon DEF Done
    <3>2. data[j] = disk[blockno[j]] /\ blockno[j] \in Block
      BY <1>f, <3>1, Zenon DEF CacheInv, FlagInv, Done
    <3>3. blockno[j] # blockno[i]
      BY <1>1, <3>1, <3>2, NoneAssumption, Zenon DEF CacheInv, UseInv
    <3>. QED BY <1>d, <3>1, <3>2, <3>3, Zenon
  <2>4. ASSUME NEW q \in Uses
        PROVE  /\ pc'[q] = "holds" => valid'[b'[q]]
               /\ pc'[q] = "tests" => Done(b[q])'
               /\ pc'[q] \in {"iderw", "waits"} => ~Done(b[q])'
    <3>1. CASE b[q] = i
      <4>1. pc[q] \in Held => q = u
        BY <1>1, <3>1, Zenon
      <4>2. pc[u] = "waits"
        BY <1>1, Zenon
      <4>. QED BY <1>n, <1>u, <1>f, <3>1, <4>1, <4>2 DEF Held, Done
    <3>2. CASE b[q] # i /\ pc[q] # "out"
      <4>1. b[q] \in Buf
        BY <3>2, BufInUse, Zenon
      <4>2. pc'[q] = pc[q]
        BY <1>u, <3>2, Zenon
      <4>3. valid'[b[q]] = valid[b[q]] /\ dirty'[b[q]] = dirty[b[q]]
        BY <1>f, <3>2, <4>1, Zenon
      <4>. QED BY <1>n, <4>2, <4>3 DEF CacheInv, FlagInv, Done
    <3>3. CASE pc[q] = "out"
      BY <1>u, <3>3
    <3>. QED BY <3>1, <3>2, <3>3, Zenon
  <2>. QED BY <2>1, <2>2, <2>3, <2>4, Zenon DEF FlagInv
<1>8. QueueInv'
  <2>. DEFINE N == Len(idequeue)
  <2>1. /\ N \in Nat \ {0} /\ Len(idequeue') = N - 1
        /\ \A n \in 1..(N - 1) : idequeue'[n] = idequeue[n + 1] /\ n + 1 \in 1..N
        /\ idequeue[1] = i
    BY <1>1, <1>3 DEF TypeOK
  <2>2. \A m \in 1..N : m = 1 \/ (m - 1 \in 1..(N - 1) /\ idequeue'[m - 1] = idequeue[m])
    BY <2>1
  <2>. HIDE DEF N
  <2>3. \A n \in 1..(N - 1) : idequeue'[n] # i
    BY <2>1 DEF CacheInv, QueueInv, N
  <2>4. ASSUME NEW m \in 1..(N - 1), NEW n \in 1..(N - 1), idequeue'[m] = idequeue'[n] PROVE m = n
    <3>1. m + 1 \in 1..N /\ n + 1 \in 1..N /\ idequeue[m + 1] = idequeue[n + 1]
      BY <2>1, <2>4
    <3>2. \A x, y \in 1..N : idequeue[x] = idequeue[y] => x = y
      BY DEF CacheInv, QueueInv, N
    <3>3. m + 1 = n + 1
      BY <3>1, <3>2, Zenon
    <3>. QED BY <2>1, <3>3
  <2>5. \A n \in 1..(N - 1) : \E q \in Uses : pc'[q] = "waits" /\ b'[q] = idequeue'[n]
    <3>1. SUFFICES ASSUME NEW n \in 1..(N - 1)
                   PROVE  \E q \in Uses : pc'[q] = "waits" /\ b[q] = idequeue'[n]
      BY <1>1, Zenon
    <3>2. PICK q \in Uses : pc[q] = "waits" /\ b[q] = idequeue[n + 1]
      BY <2>1, Zenon DEF CacheInv, QueueInv, N
    <3>. QED BY <1>u, <2>1, <2>3, <3>2, Zenon
  <2>6. \A q \in Uses : pc'[q] = "waits" => \E n \in 1..(N - 1) : idequeue'[n] = b'[q]
    <3>1. SUFFICES ASSUME NEW q \in Uses, pc'[q] = "waits"
                   PROVE  \E n \in 1..(N - 1) : idequeue'[n] = b[q]
      BY <1>1, Zenon
    <3>2. pc[q] = "waits" /\ b[q] # i
      BY <1>u, <3>1
    <3>3. PICK m \in 1..N : idequeue[m] = b[q]
      BY <3>2 DEF CacheInv, QueueInv, N
    <3>4. m # 1
      BY <2>1, <3>2, <3>3, Zenon
    <3>. QED BY <2>2, <3>3, <3>4, Zenon
  <2>7. command' = IF idequeue' = <<>> THEN <<>> ELSE Request(Head(idequeue))'
    <3>1. SUFFICES ASSUME idequeue' # <<>>
                   PROVE  Request(Head(idequeue)') = Request(Head(idequeue))'
      BY <1>1, Zenon
    <3>2. PICK j \in Buf : j = Head(idequeue') /\ j # i
      BY <1>4, <2>1, <2>3, <3>1 DEF TypeOK
    <3>. QED BY <1>1, <1>d, <1>f, <3>2, Zenon DEF Request
  <2>. QED BY <2>1, <2>4, <2>5, <2>6, <2>7, Zenon DEF QueueInv
<1>9. LruInv'
  BY <1>1, Zenon DEF CacheInv, LruInv
<1>10. PinInv'
  <2>1. Logged' \subseteq Logged
    <3>1. ASSUME NEW j \in Logged' PROVE j \in Logged
      <4>1. j \in Buf /\ dirty'[j] /\ \A q \in Uses : b'[q] = j => pc'[q] \notin {"iderw", "waits"}
        BY <3>1, Zenon DEF Logged
      <4>2. j # i /\ dirty[j]
        BY <1>f, <4>1, Zenon
      <4>. QED BY <1>n, <1>u, <4>1, <4>2, Zenon DEF Logged
    <3>. QED BY <3>1, Zenon
  <2>. QED BY <2>1, PinKept, Zenon
<1>. QED BY <1>4, <1>5, <1>6, <1>7, <1>8, <1>9, <1>10 DEF CacheInv
-----------------------------------------------------------------------------
\* The theorems, for any number of processes, blocks, values and buffers.

LEMMA CacheInvStep ==
  ASSUME Counting, CacheInv, [Next]_vars
  PROVE  CacheInv'
<1>1. CASE \E u \in Uses : Turn(u) /\ Step(u)
  BY <1>1, AcquiresleepStep, IderwStep, IderwTestStep, ReleasesleepStep, BrelseStep DEF Step
<1>2. CASE \E u \in Uses, k \in Block : Turn(u) /\ MayRead(u, k) /\ Bget(u, k)
  BY <1>2, BgetStep
<1>3. CASE \E u \in Uses, v \in Val : Turn(u) /\ (Change(u, v) \/ Bwrite(u, v))
  BY <1>3, ChangeStep, BwriteStep
<1>4. CASE Ideintr
  BY <1>4, IdeintrStep, Zenon
<1>5. CASE Halted \/ UNCHANGED vars
  <2>1. UNCHANGED vars
    BY <1>5, Zenon DEF Halted
  <2>2. UNCHANGED <<blockno, valid, dirty, refcnt, data, locked, lru, idequeue, command, disk, pc, want, b>>
    BY <2>1, Zenon DEF vars, buffers
  <2>3. TypeOK' /\ LruInv'
    BY <2>2 DEF CacheInv, TypeOK, LruInv
  <2>u. \A i : Users(i)' = Users(i)
    BY <2>2, Zenon DEF Users
  <2>v. UseInv'
    BY <2>2, <2>u, Zenon DEF CacheInv, UseInv
  <2>4. LockInv'
    BY <2>2, Zenon DEF CacheInv, LockInv
  <2>5. FlagInv' /\ PinInv'
    BY <2>2 DEF CacheInv, FlagInv, Done, PinInv, Logged
  <2>6. QueueInv'
    BY <2>2 DEF CacheInv, QueueInv, Request
  <2>. QED BY <2>3, <2>v, <2>4, <2>5, <2>6, Zenon DEF CacheInv
<1>. QED BY <1>1, <1>2, <1>3, <1>4, <1>5 DEF Next

\* What stopped the machine, and with how many logged blocks
Full ==
  panic # "none" =>
    /\ panic = "bget: no buffers"
    /\ Cardinality({u \in Uses : b[u] # 0}) + Cardinality(Logged) >= NBUF

LEMMA FullStep == ASSUME Counting, CacheInv, Full, [Next]_vars PROVE Full'
<1>1. CASE ~Running
  <2>1. UNCHANGED vars
    BY <1>1, Zenon DEF Next, Step, Acquiresleep, Iderw, IderwTest, Releasesleep, Brelse, Bget,
                Change, Bwrite, Ideintr, Halted
  <2>. QED BY <2>1, Zenon DEF vars, buffers, Full, Logged
<1>2. CASE Running
  <2>r. panic = "none"
    BY <1>2, Zenon DEF Running
  <2>1. ASSUME NEW u \in Uses, Acquiresleep(u) \/ IderwTest(u) \/ Brelse(u) PROVE panic' = panic
    BY <2>1 DEF Acquiresleep, IderwTest, Brelse
  <2>2. ASSUME NEW u \in Uses, Iderw(u) PROVE panic' = panic
    <3>1. holdingsleep(u) /\ ~Done(b[u])
      BY <2>2, Holder, Zenon DEF Iderw, Held, CacheInv, FlagInv
    <3>. QED BY <2>2, <3>1 DEF Iderw
  <2>3. ASSUME NEW u \in Uses, Releasesleep(u) PROVE panic' = panic
    <3>1. holdingsleep(u)
      BY <2>3, Holder, Zenon DEF Releasesleep, Held
    <3>. QED BY <2>3, <3>1, Zenon DEF Releasesleep
  <2>4. ASSUME NEW u \in Uses, NEW v \in Val, Change(u, v) \/ Bwrite(u, v) PROVE panic' = panic
    <3>1. holdingsleep(u)
      BY <2>4, Holder, Zenon DEF Change, Bwrite, Held
    <3>. QED BY <2>4, <3>1, Zenon DEF Change, Bwrite
  <2>5. ASSUME NEW u \in Uses, NEW k \in Block, Bget(u, k) PROVE Full'
    <3>1. CASE Hit(u, k) \/ Recycle(u, k)
      BY <2>r, <3>1, Zenon DEF Hit, Recycle, Full
    <3>2. CASE NoBuffers(u, k)
      <4>1. b' = b /\ Logged' = Logged /\ panic' = "bget: no buffers"
        BY <2>5, <3>2, Zenon DEF Bget, NoBuffers, Logged
      <4>2. Cardinality({q \in Uses : b[q] # 0}) + Cardinality(Logged) >= NBUF
        BY <2>5, <3>2, BuffersLeft, Zenon DEF Bget, NoBuffers
      <4>. QED BY <4>1, <4>2, Zenon DEF Full
    <3>. QED BY <2>5, <3>1, <3>2 DEF Bget
  <2>6. CASE Ideintr \/ Halted \/ UNCHANGED vars
    BY <2>6, <2>r, Zenon DEF Ideintr, Halted, vars, Full
  <2>7. panic' = panic => Full'
    BY <2>r DEF Full
  <2>. QED BY <2>1, <2>2, <2>3, <2>4, <2>5, <2>6, <2>7 DEF Next, Step
<1>. QED BY <1>1, <1>2

LEMMA LoggedCounts == ASSUME Counting PROVE /\ Cardinality(Pinned) \in Nat
                                            /\ Cardinality(Logged) <= Cardinality(Pinned)
<1>1. IsFiniteSet(Buf)
  BY SizeAssumption DEF Buf, Counting, Intervals
<1>2. Logged \subseteq Pinned /\ Pinned \subseteq Buf
  BY DEF Logged, Pinned
<1>3. IsFiniteSet(Pinned) /\ Cardinality(Pinned) \in Nat
  BY <1>1, <1>2, Zenon DEF Counting, Subsets, Sizes
<1>. QED BY <1>2, <1>3, Zenon DEF Counting, Subsets

LEMMA FullPanics == ASSUME Counting, Full PROVE PanicsOnlyFull
<1>. DEFINE InUse == {u \in Uses : b[u] # 0}
<1>1. SUFFICES ASSUME panic # "none" PROVE PanicsOnlyFull
  BY Zenon DEF PanicsOnlyFull
<1>2. panic = "bget: no buffers" /\ Cardinality(InUse) + Cardinality(Logged) >= NBUF
  BY <1>1, Zenon DEF Full
<1>3. Cardinality(InUse) \in Nat
  <2>1. InUse \in SUBSET Uses
    OBVIOUS
  <2>. QED BY <2>1, UsesFinite, Zenon DEF Counting, Subsets, Sizes
<1>. HIDE DEF InUse
<1>4. Cardinality(InUse) + Cardinality(Pinned) >= NBUF
  <2>1. \A l, m, n \in Nat : m <= n /\ l + m >= NBUF => l + n >= NBUF
    BY SizeAssumption
  <2>. QED BY <1>2, <1>3, <2>1, LoggedFinite, LoggedCounts, Zenon
<1>. QED BY <1>2, <1>4, Zenon DEF PanicsOnlyFull, InUse

\* A block is in at most one buffer, so Contents is what that buffer holds.
LEMMA ContentsIs ==
  ASSUME CacheInv, NEW x \in Block
  PROVE  /\ \A i \in Buf : blockno[i] = x /\ valid[i] => Contents[x] = data[i]
         /\ (\A i \in Buf : blockno[i] = x => ~valid[i]) => Contents[x] = disk[x]
<1>1. \A i, j \in Buf : blockno[i] = x /\ blockno[j] = x => i = j
  BY NoneAssumption, Zenon DEF CacheInv, UseInv
<1>2. Contents[x] = Lookup(blockno, valid, data, disk, x)
  BY DEF Contents
<1>3. /\ \A i \in Buf : blockno[i] = x /\ valid[i]
                       => Lookup(blockno, valid, data, disk, x) = data[i]
      /\ (\A i \in Buf : blockno[i] = x => ~valid[i])
           => Lookup(blockno, valid, data, disk, x) = disk[x]
  BY <1>1, Zenon DEF Lookup
<1>. QED BY <1>2, <1>3, Zenon

LEMMA ContentsNext ==
  ASSUME CacheInv', NEW x \in Block
  PROVE  /\ \A i \in Buf : blockno'[i] = x /\ valid'[i] => Contents'[x] = data'[i]
         /\ (\A i \in Buf : blockno'[i] = x => ~valid'[i]) => Contents'[x] = disk'[x]
<1>1. \A i, j \in Buf : blockno'[i] = x /\ blockno'[j] = x => i = j
  BY NoneAssumption, Zenon DEF CacheInv, UseInv
<1>2. Contents'[x] = Lookup(blockno', valid', data', disk', x)
  BY Zenon DEF Contents
<1>3. /\ \A i \in Buf : blockno'[i] = x /\ valid'[i]
                       => Lookup(blockno', valid', data', disk', x) = data'[i]
      /\ (\A i \in Buf : blockno'[i] = x => ~valid'[i])
           => Lookup(blockno', valid', data', disk', x) = disk'[x]
  BY <1>1, Zenon DEF Lookup
<1>. QED BY <1>2, <1>3, Zenon

LEMMA ContentsPointwise ==
  ASSUME \A x \in Block : Contents'[x] = Contents[x]
  PROVE  Contents' = Contents
BY DEF Contents

LEMMA OneBuffer ==
  ASSUME CacheInv
  PROVE  \A k \in Block : \A i, j \in Buf : blockno[i] = k /\ blockno[j] = k => i = j
BY NoneAssumption, Zenon DEF CacheInv, UseInv

LEMMA LocksIs == ASSUME CacheInv PROVE \A u \in Uses : Locks(u) <=> pc[u] \in Held
<1>1. SUFFICES ASSUME NEW u \in Uses PROVE Locks(u) <=> pc[u] \in Held
  OBVIOUS
<1>2. pc[u] \in Held => locked[b[u]] = u /\ b[u] \in Buf
  BY Holder, Zenon
<1>3. ASSUME NEW i \in Buf, locked[i] = u PROVE pc[u] \in Held
  BY <1>3, NoneAssumption, Zenon DEF CacheInv, LockInv
<1>. QED BY <1>2, <1>3, Zenon DEF Locks

\* A process owns the blocks of its uses that are inside.
LEMMA OwnedIs ==
  ASSUME CacheInv, NEW p \in Process, NEW x
  PROVE  x \in Owned[p] <=> \E u \in Uses : u[1] = p /\ pc[u] \in Held /\ want[u] = x
<1>1. Owned[p] = {want[u] : u \in {w \in Uses : w[1] = p /\ Locks(w)}}
  BY Zenon DEF Owned
<1>. QED BY <1>1, LocksIs, Zenon

LEMMA UsesOf == \A u \in Uses : u[1] \in Process
BY DEF Uses

LEMMA InitAbstract == ASSUME Init PROVE Abstract!Init
<1>1. Contents = [k \in Block |-> V0]
  BY Zenon DEF Init, Contents, Lookup
<1>2. \A u \in Uses : ~Locks(u)
  BY NoneAssumption, Zenon DEF Init, Locks
<1>3. Owned = [p \in Process |-> {}]
  BY <1>2, Zenon DEF Owned
<1>. QED BY <1>1, <1>3, Zenon DEF Abstract!Init

LEMMA OwnedKept ==
  ASSUME CacheInv, locked' = locked,
         \A q \in Uses : pc[q] \in Held => want'[q] = want[q]
  PROVE  Owned' = Owned
<1>1. \A q \in Uses : Locks(q)' <=> Locks(q)
  BY Zenon DEF Locks
<1>2. \A q \in Uses : Locks(q) => want'[q] = want[q]
  BY LocksIs, Zenon
<1>3. ASSUME NEW p \in Process
      PROVE  {want'[u] : u \in {w \in Uses : w[1] = p /\ Locks(w)'}}
               = {want[u] : u \in {w \in Uses : w[1] = p /\ Locks(w)}}
  BY <1>1, <1>2, Zenon
<1>. QED BY <1>3, Zenon DEF Owned

\* The owners of the blocks from who holds which lock, before and after
LEMMA OwnedAfter ==
  ASSUME NEW p \in Process, NEW x
  PROVE  /\ x \in Owned[p] <=> \E u \in Uses : u[1] = p /\ Locks(u) /\ want[u] = x
         /\ x \in Owned'[p] <=> \E u \in Uses : u[1] = p /\ Locks(u)' /\ want'[u] = x
<1>1. /\ Owned[p] = {want[u] : u \in {w \in Uses : w[1] = p /\ Locks(w)}}
      /\ Owned'[p] = {want'[u] : u \in {w \in Uses : w[1] = p /\ Locks(w)'}}
  BY Zenon DEF Owned
<1>. QED BY <1>1, Zenon

LEMMA ContentsKept ==
  ASSUME UNCHANGED <<blockno, valid, data, disk>> PROVE Contents' = Contents
BY DEF Contents

\* bget() drops a block only if the disk has it.
LEMMA RecycleContents ==
  ASSUME Counting, CacheInv, CacheInv', NEW u \in Uses, NEW k \in Block, Bget(u, k), Recycle(u, k)
  PROVE  Contents' = Contents
<1>1. PICK i \in Buf : i = Victim /\ refcnt[i] = 0 /\ ~dirty[i] /\ Cached(k) = {}
  BY VictimFound, Zenon DEF Recycle, Recyclable
<1>2. /\ blockno' = [blockno EXCEPT ![i] = k] /\ valid' = [valid EXCEPT ![i] = FALSE]
      /\ UNCHANGED <<data, disk>>
  BY <1>1, Zenon DEF Bget, Recycle
<1>3. blockno \in [Buf -> Block \cup {NoBlock}] /\ valid \in [Buf -> BOOLEAN]
  BY Zenon DEF CacheInv, TypeOK
<1>4. /\ ~valid'[i] /\ blockno'[i] = k
      /\ \A j \in Buf : j # i => blockno'[j] = blockno[j] /\ valid'[j] = valid[j]
  BY <1>2, <1>3
<1>5. valid[i] => data[i] = disk[blockno[i]]
  BY <1>1, Zenon DEF CacheInv, FlagInv, Done
<1>6. ASSUME NEW x \in Block
      PROVE  Contents'[x] = Contents[x]
  <2>1. CASE \E j \in Buf : j # i /\ blockno[j] = x /\ valid[j]
    <3>1. PICK j \in Buf : j # i /\ blockno[j] = x /\ valid[j]
      BY <2>1, Zenon
    <3>2. Contents[x] = data[j]
      BY <3>1, ContentsIs, Zenon
    <3>3. Contents'[x] = data'[j]
      BY <1>4, <3>1, ContentsNext, Zenon
    <3>. QED BY <1>2, <3>2, <3>3, Zenon
  <2>2. CASE ~\E j \in Buf : j # i /\ blockno[j] = x /\ valid[j]
    <3>1. Contents'[x] = disk'[x]
      BY <1>4, <2>2, ContentsNext, Zenon
    <3>2. Contents[x] = disk[x]
      BY <1>5, <2>2, ContentsIs, Zenon
    <3>. QED BY <1>2, <3>1, <3>2, Zenon
  <2>. QED BY <2>1, <2>2, ZenonT(30)
<1>. QED BY <1>6, ContentsPointwise, Zenon

\* A transfer between a buffer and the disk changes no block's contents.
LEMMA IdeintrContents ==
  ASSUME CacheInv, CacheInv', Ideintr
  PROVE  Contents' = Contents
<1>1. PICK i \in Buf, u \in Uses :
           /\ pc[u] = "waits" /\ b[u] = i /\ blockno[i] \in Block
           /\ disk' = IF dirty[i] THEN [disk EXCEPT ![blockno[i]] = data[i]] ELSE disk
           /\ data' = IF dirty[i] THEN data ELSE [data EXCEPT ![i] = disk[blockno[i]]]
           /\ valid' = [valid EXCEPT ![i] = TRUE]
           /\ blockno' = blockno
  BY IdeintrFacts, Zenon
<1>2. /\ disk \in [Block -> Val] /\ data \in [Buf -> Val] /\ valid \in [Buf -> BOOLEAN]
  BY Zenon DEF CacheInv, TypeOK
<1>3. /\ valid'[i] /\ \A j \in Buf : j # i => valid'[j] = valid[j] /\ data'[j] = data[j]
      /\ \A x \in Block : x # blockno[i] => disk'[x] = disk[x]
      /\ data'[i] = IF dirty[i] THEN data[i] ELSE disk[blockno[i]]
  BY <1>1, <1>2, Zenon
<1>b. \A j \in Buf : blockno'[j] = blockno[j]
  BY <1>1, Zenon
<1>4. IF dirty[i] THEN valid[i] ELSE ~valid[i]
  BY <1>1, Zenon DEF CacheInv, FlagInv, Done
<1>5. ASSUME NEW x \in Block
      PROVE  Contents'[x] = Contents[x]
  <2>1. CASE x = blockno[i]
    <3>1. Contents'[x] = data'[i]
      BY <1>b, <1>3, <2>1, ContentsNext, Zenon
    <3>2. dirty[i] => Contents[x] = data[i]
      BY <1>4, <2>1, ContentsIs, Zenon
    <3>3. ~dirty[i] => Contents[x] = disk[x]
      <4>1. \A j \in Buf : blockno[j] = x => j = i
        BY <2>1, OneBuffer, Zenon
      <4>. QED BY <1>4, <4>1, ContentsIs, Zenon
    <3>. QED BY <1>3, <2>1, <3>1, <3>2, <3>3, Zenon
  <2>2. CASE x # blockno[i] /\ \E j \in Buf : blockno[j] = x /\ valid[j]
    <3>1. PICK j \in Buf : j # i /\ blockno[j] = x /\ valid[j]
      BY <2>2, Zenon
    <3>2. Contents[x] = data[j]
      BY <3>1, ContentsIs, Zenon
    <3>3. Contents'[x] = data'[j]
      BY <1>b, <1>3, <3>1, ContentsNext, Zenon
    <3>. QED BY <1>3, <3>1, <3>2, <3>3, Zenon
  <2>3. CASE x # blockno[i] /\ ~\E j \in Buf : blockno[j] = x /\ valid[j]
    <3>1. Contents'[x] = disk'[x]
      <4>1. \A j \in Buf : blockno'[j] = x => ~valid'[j]
        BY <1>b, <1>3, <2>3, Zenon
      <4>. QED BY <4>1, ContentsNext, Zenon
    <3>2. Contents[x] = disk[x]
      BY <2>3, ContentsIs, Zenon
    <3>. QED BY <1>3, <2>3, <3>1, <3>2, Zenon
  <2>. QED BY <2>1, <2>2, <2>3, Zenon
<1>. QED BY <1>5, ContentsPointwise

LEMMA WriteContents ==
  ASSUME CacheInv, CacheInv', NEW u \in Uses, NEW v \in Val, pc[u] = "holds",
         blockno' = blockno, valid' = valid, disk' = disk,
         \A j \in Buf : data'[j] = IF j = b[u] THEN v ELSE data[j]
  PROVE  Contents' = [Contents EXCEPT ![want[u]] = v]
<1>1. PICK i \in Buf : i = b[u] /\ blockno[i] = want[u] /\ valid[i] /\ want[u] \in Block
  BY BufInUse, Zenon DEF CacheInv, UseInv, FlagInv
<1>3. data'[i] = v /\ \A j \in Buf : j # i => data'[j] = data[j]
  BY <1>1
<1>4. ASSUME NEW x \in Block
      PROVE  Contents'[x] = IF x = want[u] THEN v ELSE Contents[x]
  <2>1. CASE x = want[u]
    <3>1. Contents'[x] = data'[i]
      BY <1>1, <2>1, ContentsNext, Zenon
    <3>. QED BY <1>3, <2>1, <3>1, Zenon
  <2>2. CASE x # want[u] /\ \E j \in Buf : blockno[j] = x /\ valid[j]
    <3>1. PICK j \in Buf : j # i /\ blockno[j] = x /\ valid[j]
      BY <1>1, <2>2, Zenon
    <3>2. Contents[x] = data[j]
      BY <3>1, ContentsIs, Zenon
    <3>3. Contents'[x] = data'[j]
      BY <3>1, ContentsNext, Zenon
    <3>. QED BY <1>3, <2>2, <3>1, <3>2, <3>3, Zenon
  <2>3. CASE x # want[u] /\ ~\E j \in Buf : blockno[j] = x /\ valid[j]
    <3>1. Contents'[x] = disk[x]
      BY <2>3, ContentsNext, Zenon
    <3>2. Contents[x] = disk[x]
      BY <2>3, ContentsIs, Zenon
    <3>. QED BY <2>3, <3>1, <3>2, Zenon
  <2>. QED BY <2>1, <2>2, <2>3, Zenon
<1>. QED BY <1>4, Zenon DEF Contents
LEMMA SilentStep ==
  ASSUME Counting, CacheInv, CacheInv'
  PROVE  /\ \A u \in Uses, k \in Block : Bget(u, k) => Contents' = Contents /\ Owned' = Owned
         /\ \A u \in Uses : Iderw(u) \/ IderwTest(u) \/ Brelse(u) => Contents' = Contents /\ Owned' = Owned
         /\ Ideintr => Contents' = Contents /\ Owned' = Owned
<1>1. ASSUME NEW u \in Uses, NEW k \in Block, Bget(u, k)
      PROVE  Contents' = Contents /\ Owned' = Owned
  <2>1. /\ locked' = locked /\ \A q \in Uses : pc[q] \in Held => want'[q] = want[q]
    BY <1>1 DEF Bget, CacheInv, TypeOK, Held
  <2>2. CASE Hit(u, k)
    <3>1. UNCHANGED <<blockno, valid, data, disk>>
      BY <1>1, <2>2, Zenon DEF Bget, Hit
    <3>. QED BY <2>1, <3>1, OwnedKept, ContentsKept, Zenon
  <2>3. CASE Recycle(u, k)
    BY <1>1, <2>1, <2>3, OwnedKept, RecycleContents
  <2>4. CASE NoBuffers(u, k)
    <3>1. UNCHANGED <<blockno, valid, data, disk>>
      BY <1>1, <2>4, ZenonT(30) DEF Bget, NoBuffers
    <3>. QED BY <2>1, <3>1, OwnedKept, ContentsKept
  <2>. QED BY <1>1, <2>2, <2>3, <2>4 DEF Bget
<1>2. ASSUME NEW u \in Uses, Iderw(u) \/ IderwTest(u) \/ Brelse(u)
      PROVE  Contents' = Contents /\ Owned' = Owned
  <2>1. UNCHANGED <<blockno, valid, data, disk>> /\ locked' = locked
    BY <1>2, Zenon DEF Iderw, IderwTest, Brelse, buffers
  <2>2. \A q \in Uses : pc[q] \in Held => want'[q] = want[q]
    BY <1>2, Zenon DEF Iderw, IderwTest, Brelse, CacheInv, TypeOK, Held
  <2>. QED BY <2>1, <2>2, OwnedKept, ContentsKept, Zenon
<1>3. ASSUME Ideintr PROVE Contents' = Contents /\ Owned' = Owned
  <2>1. locked' = locked /\ want' = want
    BY <1>3, Zenon DEF Ideintr
  <2>. QED BY <1>3, <2>1, OwnedKept, IdeintrContents, Zenon
<1>. QED BY <1>1, <1>2, <1>3, Zenon

\* The lock is taken when the block has no other owner.
LEMMA AcquiresleepAbstract ==
  ASSUME CacheInv, NEW u \in Uses, Acquiresleep(u)
  PROVE  Abstract!Next \/ (Contents' = Contents /\ Owned' = Owned)
<1>1. Contents' = Contents /\ want' = want /\ pc[u] \in {"acquiresleep", "woken"}
  BY ContentsKept, Zenon DEF Acquiresleep, buffers
<1>2. CASE locked[b[u]] # NoUse
  BY <1>1, <1>2, OwnedKept, Zenon DEF Acquiresleep
<1>3. CASE locked[b[u]] = NoUse
  <2>1. PICK i \in Buf : i = b[u] /\ blockno[i] = want[u] /\ want[u] \in Block
    BY <1>1, BufInUse, Zenon DEF CacheInv, UseInv
  <2>2. locked' = [locked EXCEPT ![i] = u] /\ locked \in [Buf -> Uses \cup {NoUse}]
    BY <1>3, <2>1, Zenon DEF Acquiresleep, CacheInv, TypeOK
  <2>3. locked'[i] = u /\ \A j \in Buf : j # i => locked'[j] = locked[j]
    BY <2>2
  <2>4. u[1] \in Process
    BY UsesOf, Zenon
  <2>5. ASSUME NEW p \in Process, want[u] \in Owned[p] PROVE FALSE
    <3>1. PICK q \in Uses : pc[q] \in Held /\ want[q] = want[u]
      <4>1. \E q \in Uses : q[1] = p /\ Locks(q) /\ want[q] = want[u]
        BY <2>5, OwnedAfter
      <4>. QED BY <4>1, LocksIs, Zenon
    <3>2. b[q] \in Buf /\ locked[b[q]] = q /\ blockno[b[q]] = want[q]
      BY <3>1, Holder, Zenon DEF CacheInv, UseInv, Held
    <3>3. b[q] = i
      BY <2>1, <3>1, <3>2, OneBuffer, Zenon
    <3>. QED BY <1>3, <2>1, <3>2, <3>3, NoneAssumption, Zenon
  <2>6. \A q \in Uses : Locks(q)' <=> Locks(q) \/ q = u
    BY <1>3, <2>1, <2>3, NoneAssumption, Zenon DEF Locks
  <2>7. ASSUME NEW p \in Process
        PROVE  Owned'[p] = IF p = u[1] THEN Owned[p] \cup {want[u]} ELSE Owned[p]
    <3>1. ASSUME NEW x
          PROVE  x \in Owned'[p] <=> x \in Owned[p] \/ (p = u[1] /\ x = want[u])
      <4>1. x \in Owned'[p] <=> \E q \in Uses : q[1] = p /\ (Locks(q) \/ q = u) /\ want[q] = x
        <5>1. x \in Owned'[p] <=> \E q \in Uses : q[1] = p /\ Locks(q)' /\ want'[q] = x
          BY OwnedAfter
        <5>. QED BY <1>1, <2>6, <5>1, Zenon
      <4>2. x \in Owned[p] <=> \E q \in Uses : q[1] = p /\ Locks(q) /\ want[q] = x
        BY OwnedAfter
      <4>. QED BY <4>1, <4>2, Zenon
    <3>. QED BY <3>1, Zenon
  <2>8. Owned' = [Owned EXCEPT ![u[1]] = @ \cup {want[u]}]
    <3>1. /\ Owned = [p \in Process |-> Owned[p]]
          /\ Owned' = [p \in Process |-> Owned'[p]]
      BY Zenon DEF Owned
    <3>. QED BY <2>7, <3>1, Zenon
  <2>9. Abstract!Bread(u[1], want[u])
    BY <1>1, <2>5, <2>8, Zenon DEF Abstract!Bread
  <2>. QED BY <2>1, <2>4, <2>9, Zenon DEF Abstract!Next
<1>. QED BY <1>2, <1>3, Zenon

LEMMA WriteAbstract ==
  ASSUME CacheInv, CacheInv', NEW u \in Uses, NEW v \in Val, Change(u, v) \/ Bwrite(u, v)
  PROVE  Abstract!Next
<1>1. pc[u] = "holds"
  BY Zenon DEF Change, Bwrite
<1>2. holdingsleep(u) /\ b[u] \in Buf /\ want[u] \in Block
  BY <1>1, Holder, Zenon DEF Held, CacheInv, UseInv
<1>3. /\ data' = [data EXCEPT ![b[u]] = v] /\ data \in [Buf -> Val]
      /\ blockno' = blockno /\ valid' = valid /\ disk' = disk /\ locked' = locked /\ want' = want
  BY <1>2, Zenon DEF Change, Bwrite, CacheInv, TypeOK
<1>4. \A j \in Buf : data'[j] = IF j = b[u] THEN v ELSE data[j]
  BY <1>3
<1>5. Contents' = [Contents EXCEPT ![want[u]] = v]
  BY <1>1, <1>3, <1>4, WriteContents, Zenon
<1>6. Owned' = Owned
  BY <1>3, OwnedKept, Zenon
<1>7. u[1] \in Process /\ want[u] \in Owned[u[1]]
  BY <1>1, OwnedIs, UsesOf, Zenon DEF Held
<1>. QED BY <1>2, <1>5, <1>6, <1>7, Zenon DEF Abstract!Next, Abstract!Change

LEMMA ReleasesleepAbstract ==
  ASSUME CacheInv, NEW u \in Uses, Releasesleep(u)
  PROVE  Abstract!Next
<1>1. PICK i \in Buf : i = b[u] /\ locked[i] = u /\ holdingsleep(u) /\ pc[u] = "holds"
  BY Holder, Zenon DEF Releasesleep, Held
<1>2. /\ locked' = [locked EXCEPT ![i] = NoUse] /\ locked \in [Buf -> Uses \cup {NoUse}]
      /\ want' = want /\ Contents' = Contents
  BY <1>1, ContentsKept, Zenon DEF Releasesleep, buffers, CacheInv, TypeOK
<1>3. locked'[i] = NoUse /\ \A j \in Buf : j # i => locked'[j] = locked[j]
  BY <1>2, SMTT(20)
<1>4. \A j \in Buf : locked[j] = u => j = i
  <2>1. u # NoUse
    BY NoneAssumption, Zenon
  <2>2. \A j \in Buf : locked[j] # NoUse => b[locked[j]] = j
    BY Zenon DEF CacheInv, LockInv
  <2>. QED BY <1>1, <2>1, <2>2, Zenon
<1>5. \A q \in Uses : Locks(q)' <=> Locks(q) /\ q # u
  BY <1>1, <1>3, <1>4, NoneAssumption, Zenon DEF Locks
<1>6. \A q \in Uses : Locks(q) /\ q # u => want[q] # want[u]
  <2>1. SUFFICES ASSUME NEW q \in Uses, Locks(q), q # u, want[q] = want[u] PROVE FALSE
    BY Zenon
  <2>2. pc[q] \in Held /\ b[q] # b[u] /\ b[q] \in Buf
    BY <1>1, <2>1, LocksIs, Holder, Zenon DEF Held
  <2>3. blockno[b[q]] = want[q] /\ blockno[b[u]] = want[u] /\ want[u] \in Block
    BY <1>1, <2>2, Zenon DEF CacheInv, UseInv, Held
  <2>. QED BY <1>1, <2>1, <2>2, <2>3, OneBuffer, Zenon
<1>7. Locks(u) /\ want[u] \in Block /\ u[1] \in Process
  BY <1>1, UsesOf, Zenon DEF Locks, CacheInv, UseInv
<1>8. ASSUME NEW p \in Process
      PROVE  Owned'[p] = IF p = u[1] THEN Owned[p] \ {want[u]} ELSE Owned[p]
  <2>1. ASSUME NEW x
        PROVE  x \in Owned'[p] <=> x \in Owned[p] /\ ~(p = u[1] /\ x = want[u])
    <3>1. x \in Owned'[p] <=> \E q \in Uses : q[1] = p /\ Locks(q) /\ q # u /\ want[q] = x
      <4>1. x \in Owned'[p] <=> \E q \in Uses : q[1] = p /\ Locks(q)' /\ want'[q] = x
        BY OwnedAfter
      <4>2. want' = want
        BY <1>2, Zenon
      <4>. QED BY <1>5, <4>1, <4>2, Zenon
    <3>2. x \in Owned[p] <=> \E q \in Uses : q[1] = p /\ Locks(q) /\ want[q] = x
      BY OwnedAfter
    <3>3. CASE p = u[1] /\ x = want[u]
      BY <1>6, <3>1, <3>3, Zenon
    <3>4. CASE ~(p = u[1] /\ x = want[u])
      BY <3>1, <3>2, <3>4, Zenon
    <3>. QED BY <3>3, <3>4, Zenon
  <2>. QED BY <2>1, Zenon
<1>9. Owned' = [Owned EXCEPT ![u[1]] = @ \ {want[u]}]
  <2>1. /\ Owned = [p \in Process |-> Owned[p]]
        /\ Owned' = [p \in Process |-> Owned'[p]]
    BY Zenon DEF Owned
  <2>. QED BY <1>8, <2>1, Zenon
<1>10. want[u] \in Owned[u[1]]
  BY <1>7, OwnedAfter, Zenon
<1>11. Abstract!Brelse(u[1], want[u])
  BY <1>2, <1>9, <1>10, Zenon DEF Abstract!Brelse
<1>. QED BY <1>7, <1>11, Zenon DEF Abstract!Next

LEMMA AbstractStep ==
  ASSUME Counting, CacheInv, CacheInv', [Next]_vars
  PROVE  [Abstract!Next]_(Abstract!vars)
<1>1. CASE \E u \in Uses : Turn(u) /\ Step(u)
  BY <1>1, SilentStep, AcquiresleepAbstract, ReleasesleepAbstract, Zenon DEF Step, Abstract!vars
<1>2. CASE \E u \in Uses, k \in Block : Turn(u) /\ MayRead(u, k) /\ Bget(u, k)
  BY <1>2, SilentStep, Zenon DEF Abstract!vars
<1>3. CASE \E u \in Uses, v \in Val : Turn(u) /\ (Change(u, v) \/ Bwrite(u, v))
  BY <1>3, WriteAbstract, Zenon
<1>4. CASE Ideintr
  BY <1>4, SilentStep DEF Abstract!vars
<1>5. CASE Halted \/ UNCHANGED vars
  BY <1>5, Zenon DEF Halted, vars, buffers, Contents, Owned, Locks, Abstract!vars
<1>. QED BY <1>1, <1>2, <1>3, <1>4, <1>5, Zenon DEF Next

-----------------------------------------------------------------------------
\* The facts about finite sets, from the library.

FT == INSTANCE FiniteSetTheorems

LEMMA SetsAre ==
  /\ \A S : FT!IsFiniteSet(S) = IsFiniteSet(S)
  /\ \A S : FT!Cardinality(S) = Cardinality(S)
BY DEF FT!IsFiniteSet, IsFiniteSet, FT!Cardinality, Cardinality

LEMMA Counted == Counting
<1>1. Least
  <2>. SUFFICES ASSUME NEW T \in SUBSET Nat, T # {} PROVE \E x \in T : \A y \in T : x <= y
    BY Zenon DEF Least
  <2>1. PICK x \in T : \A y \in T : ~(<<y, x>> \in FT!OpToRel(<, Nat))
    BY FT!NatLessThanWellFounded, FT!WFMin, Zenon
  <2>2. \A y \in T : ~(y < x)
    BY <2>1, Zenon DEF FT!OpToRel
  <2>. QED BY <2>2
<1>2. Sizes
  BY FT!FS_CardinalityType, SetsAre, Zenon DEF Sizes
<1>3. EmptySets
  BY FT!FS_EmptySet, SetsAre, Zenon DEF EmptySets
<1>4. Singletons
  BY FT!FS_Singleton, SetsAre, Zenon DEF Singletons
<1>5. Intervals
  BY FT!FS_Interval, SetsAre DEF Intervals
<1>6. Subsets
  BY FT!FS_Subset, SetsAre, Zenon DEF Subsets
<1>7. Additions
  BY FT!FS_AddElement, SetsAre, Zenon DEF Additions
<1>8. Removals
  BY FT!FS_RemoveElement, SetsAre, Zenon DEF Removals
<1>9. Unions
  BY FT!FS_Union, SetsAre, Zenon DEF Unions
<1>10. Products
  BY FT!FS_Product, SetsAre, Zenon DEF Products
<1>11. Images
  <2>. SUFFICES ASSUME NEW S, NEW T, NEW f, IsFiniteSet(S), Onto(f, S, T)
                PROVE  /\ IsFiniteSet(T) /\ Cardinality(T) <= Cardinality(S)
                       /\ (\A x, y \in S : f[x] = f[y] => x = y) => Cardinality(T) = Cardinality(S)
    BY Zenon DEF Images
  <2>1. f \in FT!Surjection(S, T)
    BY Zenon DEF FT!Surjection, Onto
  <2>2. (\A x, y \in S : f[x] = f[y] => x = y) => f \in FT!Injection(S, T)
    BY Zenon DEF FT!Injection, FT!IsInjective, Onto
  <2>3. /\ IsFiniteSet(T) /\ Cardinality(T) <= Cardinality(S)
        /\ Cardinality(T) = Cardinality(S) <=> f \in FT!Injection(S, T)
    BY <2>1, FT!FS_Surjection, SetsAre, Zenon
  <2>. QED BY <2>2, <2>3, Zenon
<1>. QED BY <1>1, <1>2, <1>3, <1>4, <1>5, <1>6, <1>7, <1>8, <1>9, <1>10, <1>11, Zenon DEF Counting

-----------------------------------------------------------------------------
\* The theorems.

\* References, locks, flags, queue and list of the buffers stay consistent.
THEOREM CacheInvAlways == Spec => []CacheInv
<1>1. Init => CacheInv
  BY Counted, InitCacheInv
<1>2. CacheInv /\ [Next]_vars => CacheInv'
  BY Counted, CacheInvStep
<1>. QED BY <1>1, <1>2, PTL DEF Spec

\* bread() returns the buffer of the block asked for, filled and locked,
\* whatever bget() recycled meanwhile, and no block is in two buffers.
THEOREM OwnerHasBlockAlways == Spec => []OwnerHasBlock
<1>1. CacheInv => OwnerHasBlock
  BY Zenon DEF CacheInv, UseInv, LockInv, FlagInv, OwnerHasBlock, Held
<1>. QED BY <1>1, CacheInvAlways, PTL

\* A process asleep in acquiresleep() or iderw() is owed a wakeup().
THEOREM OwedAlways == Spec => []Owed
<1>1. CacheInv => Owed
  BY Zenon DEF CacheInv, LockInv, QueueInv, Owed
<1>. QED BY <1>1, CacheInvAlways, PTL


LEMMA FullAlways == Spec => []Full
<1>1. Init => Full
  BY DEF Init, Full
<1>2. CacheInv /\ Full /\ [Next]_vars => Full'
  BY Counted, FullStep, Zenon
<1>. QED BY <1>1, <1>2, CacheInvAlways, PTL DEF Spec

\* bget() gives up only when the buffers in use and those pinned by the
\* log are all there are, with one or two buffers in use by each process;
\* no check of a lock or of the flags in bio.c and iderw() fails.
THEOREM PanicsOnlyFullAlways == Spec => []PanicsOnlyFull
<1>1. Full => PanicsOnlyFull
  BY Counted, FullPanics, Zenon
<1>. QED BY <1>1, FullAlways, PTL

-----------------------------------------------------------------------------
\* The refinement: Contents and Owned behave as the variables of BlockStore.

\* The cache, its locks and the disk driver implement a store of blocks
\* with one owner at a time, from bread() to brelse(): caching, recycling
\* and the disk queue cannot be observed.
THEOREM CacheImplementsBlockStore == Spec => CacheTransparent
<1>1. Init => Abstract!Init
  BY InitAbstract
<1>2. CacheInv /\ CacheInv' /\ [Next]_vars => [Abstract!Next]_(Abstract!vars)
  BY Counted, AbstractStep
<1>. QED
  BY <1>1, <1>2, CacheInvAlways, PTL DEF Spec, CacheTransparent, Abstract!Spec
=============================================================================
