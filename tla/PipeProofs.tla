----------------------------- MODULE PipeProofs -----------------------------
(***************************************************************************)
(* Files and pipes, for any number of processes, files and descriptors and *)
(* any size of the ring: no reference is lost, the page of a pipe is freed *)
(* once and after its last use, no sleeper is forgotten, and the ring is a *)
(* queue of bytes.                                                         *)
(***************************************************************************)
EXTENDS PipeFiles

-----------------------------------------------------------------------------
\* pipeclose() and kfree().

LEMMA CallGoesOn ==
  ASSUME PipeType, CallInv, NEW p \in Process, ppc[p] \in Counters,
         ppc'[p] \in {"kfree", After(todo[p], ret[p])}, UNCHANGED <<got, todo, ofile, ret>>
  PROVE  CallOk(p)'
<1>. DEFINE n == Len(todo[p])
<1>1. CallOk(p) /\ n \in Nat /\ (todo[p] # <<>> => n # 0)
  BY ListLengths DEF CallInv
<1>2. got[p] = <<>> /\ n < 2
  BY <1>1 DEF CallOk, Creating, Counters
<1>. HIDE DEF n
<1>3. todo[p] # <<>> => n \in 1..2
  BY <1>1, <1>2
<1>4. ppc'[p] \in {"kfree", "fileclose", "exit", "user"}
  BY Proceeds
<1>5. /\ ppc'[p] = "fileclose" => todo[p] # <<>>
      /\ todo[p] # <<>> => ppc'[p] \in {"kfree", "fileclose"}
  BY DEF After
<1>. QED BY <1>1, <1>2, <1>3, <1>4, <1>5 DEF CallOk, Creating, Closing, InRead, InWrite, n

LEMMA PipeCloseInv ==
  ASSUME PipeInv, NEW p \in Process, PipeClose(p)
  PROVE  PipeInv'
<1>. USE DEF PipeInv
<1>1. /\ ppc[p] \in {"closer", "closew"} /\ \A q \in Process : ppc[q] \notin {"wfull", "rempty"}
      /\ readopen' = (readopen /\ ppc[p] = "closew") /\ writeopen' = (writeopen /\ ppc[p] = "closer")
      /\ UNCHANGED <<ftable, ofile, page, data, nread, nwrite, got, todo, buf, ret, killed>>
  BY Zenon DEF PipeClose, Unlocked, Sleeping, At, call
<1>2. PICK l \in {"kfree", After(todo[p], ret[p])} :
        /\ l = IF readopen' \/ writeopen' THEN After(todo[p], ret[p]) ELSE "kfree"
        /\ ppc' = [Woken(ppc, ppc[p]) EXCEPT ![p] = l]
  BY Zenon DEF PipeClose
<1>3. ppc' = [q \in Process |-> IF q = p THEN l
                                ELSE IF ppc[p] = "closew" THEN IF ppc[q] = "rsleep" THEN "read" ELSE ppc[q]
                                ELSE IF ppc[q] = "wsleep" THEN "write" ELSE ppc[q]]
  <2>1. CASE ppc[p] = "closew"
    <3>1. ppc' = [q \in Process |-> IF q = p THEN l ELSE IF ppc[q] = "rsleep" THEN "read" ELSE ppc[q]]
      BY <1>2, <2>1, WakeIs, Zenon DEF Woken
    <3>. QED BY <2>1, <3>1
  <2>2. CASE ppc[p] # "closew"
    <3>1. ppc' = [q \in Process |-> IF q = p THEN l ELSE IF ppc[q] = "wsleep" THEN "write" ELSE ppc[q]]
      BY <1>2, <2>2, WakeIs, Zenon DEF Woken
    <3>. QED BY <2>2, <3>1
  <2>. QED BY <2>1, <2>2
<1>4. l \in {"kfree", "fileclose", "exit", "user"} /\ (l = "kfree" <=> ~(readopen' \/ writeopen'))
  BY <1>2, Proceeds
<1>5. /\ ppc' \in [Process -> {"user", "dead", "exit"} \cup Creating \cup Closing \cup InRead \cup InWrite]
      /\ ppc'[p] = l
      /\ \A q \in Process : q # p =>
           ppc'[q] = IF ppc[p] = "closew" THEN IF ppc[q] = "rsleep" THEN "read" ELSE ppc[q]
                     ELSE IF ppc[q] = "wsleep" THEN "write" ELSE ppc[q]
  BY <1>3, <1>4, CallTypes DEF InRead, InWrite, Closing
<1>6. PipeType'
  <2>1. readopen' \in BOOLEAN /\ writeopen' \in BOOLEAN
    BY <1>1 DEF PipeType
  <2>. QED BY <1>1, <1>5, <2>1 DEF PipeType
<1>7. CallInv'
  <2>1. CallOk(p)'
    BY <1>1, <1>2, <1>5, CallGoesOn DEF Counters
  <2>2. ASSUME NEW q \in Process, q # p PROVE SameCall(q)
    BY <1>1, <1>5, <2>2 DEF SameCall, InRead, InWrite
  <2>. QED BY <2>1, <2>2, CallKept DEF CallInv
<1>8. FileRefs'
  BY <1>1, RefsKept
<1>9. KindInv'
  <2>1. \A q \in Process : ppc'[q] \in Creating => ppc'[q] = ppc[q]
    BY <1>4, <1>5 DEF Creating
  <2>. QED BY <1>1, <2>1, KindKept DEF Creating
<1>10. ASSUME NEW q \in Process, q # p
       PROVE  /\ At(q, "closer")' <=> At(q, "closer")
              /\ At(q, "closew")' <=> At(q, "closew")
              /\ At(q, "kfree")' <=> At(q, "kfree")
  BY <1>5, <1>10 DEF At
<1>11. ~At(p, "closer")' /\ ~At(p, "closew")' /\ (At(p, "kfree")' <=> ~(readopen' \/ writeopen'))
  BY <1>4, <1>5 DEF At
<1>12. \A q \in Process : ~At(q, "kfree")
  BY <1>1 DEF EndInv, End, At
<1>13. EndInv'
  <2>1. CASE ppc[p] = "closer"
    <3>1. readopen /\ page = "used" /\ At(p, "closer") /\ ~At(p, "closew") /\ ~readopen'
          /\ writeopen' = writeopen
      <4>1. At(p, "closer") /\ ~At(p, "closew") /\ (ppc[p] = "closer") = TRUE /\ (ppc[p] = "closew") = FALSE
        BY <2>1 DEF At
      <4>2. readopen /\ page # "free"
        BY <4>1 DEF EndInv, End
      <4>3. page = "used" /\ writeopen \in BOOLEAN
        BY <4>2, Zenon DEF PipeType
      <4>4. readopen' = (readopen /\ FALSE) /\ writeopen' = (writeopen /\ TRUE)
        BY <1>1, <4>1
      <4>. QED BY <4>1, <4>2, <4>3, <4>4, Zenon
    <3>2. End(readopen, "PIPE_R", "closer")'
      BY <1>1, <1>10, <1>11, <3>1, ZenonT(30) DEF EndInv, End
    <3>3. End(writeopen, "PIPE_W", "closew")'
      BY <1>1, <1>10, <1>11, <3>1, Zenon DEF EndInv, End
    <3>4. (\E q \in Process : At(q, "kfree")') <=> ~(readopen' \/ writeopen')
      BY <1>10, <1>11, <1>12, Zenon
    <3>5. \A q, r \in Process : At(q, "kfree")' /\ At(r, "kfree")' => q = r
      BY <1>10, <1>12
    <3>6. page' = "used"
      BY <1>1, <3>1
    <3>. QED BY <3>2, <3>3, <3>4, <3>5, <3>6 DEF EndInv
  <2>2. CASE ppc[p] = "closew"
    <3>1. writeopen /\ page = "used" /\ At(p, "closew") /\ ~At(p, "closer") /\ ~writeopen'
          /\ readopen' = readopen
      <4>1. At(p, "closew") /\ ~At(p, "closer") /\ (ppc[p] = "closew") = TRUE /\ (ppc[p] = "closer") = FALSE
        BY <2>2 DEF At
      <4>2. writeopen /\ page # "free"
        BY <4>1 DEF EndInv, End
      <4>3. page = "used" /\ readopen \in BOOLEAN
        BY <4>2 DEF PipeType
      <4>4. writeopen' = (writeopen /\ FALSE) /\ readopen' = (readopen /\ TRUE)
        BY <1>1, <4>1
      <4>. QED BY <4>1, <4>2, <4>3, <4>4, Zenon
    <3>2. End(readopen, "PIPE_R", "closer")'
      BY <1>1, <1>10, <1>11, <3>1, Zenon DEF EndInv, End
    <3>3. End(writeopen, "PIPE_W", "closew")'
      BY <1>1, <1>10, <1>11, <3>1, Zenon DEF EndInv, End
    <3>4. (\E q \in Process : At(q, "kfree")') <=> ~(readopen' \/ writeopen')
      BY <1>10, <1>11, <1>12
    <3>5. \A q, r \in Process : At(q, "kfree")' /\ At(r, "kfree")' => q = r
      BY <1>10, <1>12
    <3>6. page' = "used"
      BY <1>1, <3>1
    <3>. QED BY <3>2, <3>3, <3>4, <3>5, <3>6 DEF EndInv
  <2>. QED BY <1>1, <2>1, <2>2
<1>14. ASSUME NEW q \in Process PROVE UseOk(q)'
  <2>1. UseOk(q)
    BY Zenon DEF UseInv
  <2>2. ASSUME NEW d \in Fd, NEW t PROVE Opens(q, d, t)' <=> Opens(q, d, t)
    BY <1>1 DEF Opens
  <2>3. Room' = Room
    BY <1>1 DEF Room
  <2>4. CASE q = p
    BY <1>4, <1>5, <2>4 DEF UseOk, InRead, InWrite
  <2>5. CASE q # p /\ ppc[p] = "closew"
    <3>1. readopen' = readopen /\ ppc'[q] = IF ppc[q] = "rsleep" THEN "read" ELSE ppc[q]
      BY <1>1, <1>5, <2>5 DEF PipeType
    <3>2. /\ ppc'[q] \in InRead <=> ppc[q] \in InRead
          /\ ppc'[q] \in InWrite <=> ppc[q] \in InWrite
      BY <3>1, Zenon DEF InRead, InWrite
    <3>3. /\ ppc'[q] \notin {"rempty", "rsleep"}
          /\ ppc'[q] \in {"wfull", "wsleep"} => ppc[q] \in {"wfull", "wsleep"}
      BY <1>1, <3>1, Zenon
    <3>. QED BY <2>1, <2>2, <2>3, <3>1, <3>2, <3>3, Zenon DEF UseOk
  <2>6. CASE q # p /\ ppc[p] = "closer"
    <3>1. writeopen' = writeopen /\ ppc'[q] = IF ppc[q] = "wsleep" THEN "write" ELSE ppc[q]
      BY <1>1, <1>5, <2>6 DEF PipeType
    <3>2. /\ ppc'[q] \in InRead <=> ppc[q] \in InRead
          /\ ppc'[q] \in InWrite <=> ppc[q] \in InWrite
      BY <3>1, Zenon DEF InRead, InWrite
    <3>3. /\ ppc'[q] \notin {"wfull", "wsleep"}
          /\ ppc'[q] \in {"rempty", "rsleep"} => ppc[q] \in {"rempty", "rsleep"}
      BY <1>1, <3>1, Zenon
    <3>. QED BY <2>1, <2>2, <2>3, <3>1, <3>2, <3>3, Zenon DEF UseOk
  <2>. QED BY <1>1, <2>4, <2>5, <2>6
<1>. QED BY <1>1, <1>6, <1>7, <1>8, <1>9, <1>13, <1>14, AvailKept, Zenon DEF UseInv

LEMMA PipeFreeInv ==
  ASSUME PipeInv, NEW p \in Process, PipeFree(p)
  PROVE  PipeInv'
<1>. USE DEF PipeInv
<1>1. /\ ppc[p] = "kfree" /\ page' = "free" /\ data' = [i \in Ring |-> Junk] /\ nread' = Junk /\ nwrite' = Junk
      /\ ppc' = [ppc EXCEPT ![p] = After(todo[p], ret[p])]
      /\ UNCHANGED <<ftable, ofile, readopen, writeopen, got, todo, buf, ret, killed>>
  BY DEF PipeFree, Goto, At, call
<1>2. ppc' = [q \in Process |-> IF q = p THEN After(todo[p], ret[p]) ELSE ppc[q]]
  BY <1>1, GotoIs, Zenon
<1>3. /\ ppc' \in [Process -> {"user", "dead", "exit"} \cup Creating \cup Closing \cup InRead \cup InWrite]
      /\ ppc'[p] = After(todo[p], ret[p]) /\ ppc'[p] \in {"fileclose", "exit", "user"}
      /\ \A q \in Process : q # p => ppc'[q] = ppc[q]
  BY <1>2, Proceeds, CallTypes DEF Closing
<1>4. nread' \in Index /\ nwrite' \in Index /\ Avail' <= PIPESIZE
  <2>1. nread' = 1 /\ nwrite' = 1
    BY <1>1, Zenon DEF Junk
  <2>2. 1 \in 0..Uint - 1 /\ 0 % Uint = 0 /\ 0 <= PIPESIZE
    BY PipeSizes
  <2>. QED BY <2>1, <2>2 DEF Index, Avail
<1>5. PipeType'
  <2>1. data' \in [Ring -> Byte]
    BY <1>1 DEF Junk, Byte
  <2>. QED BY <1>1, <1>3, <1>4, <2>1 DEF PipeType
<1>6. CallInv'
  <2>1. CallOk(p)'
    BY <1>1, <1>3, CallGoesOn, ZenonT(30) DEF Counters
  <2>2. ASSUME NEW q \in Process, q # p PROVE SameCall(q)
    BY <1>1, <1>3, <2>2, Zenon DEF SameCall
  <2>. QED BY <2>1, <2>2, CallKept DEF CallInv
<1>7. FileRefs'
  BY <1>1, RefsKept, Zenon
<1>8. KindInv'
  <2>1. \A q \in Process : ppc'[q] \in Creating => ppc'[q] = ppc[q]
    BY <1>3 DEF Creating
  <2>. QED BY <1>1, <2>1, KindKept DEF Creating
<1>9. ~readopen /\ ~writeopen /\ \A q \in Process : At(q, "kfree") => q = p
  BY <1>1, Zenon DEF EndInv, At
<1>10. EndInv'
  <2>1. ASSUME NEW q \in Process
        PROVE  /\ At(q, "closer")' <=> At(q, "closer")
               /\ At(q, "closew")' <=> At(q, "closew")
               /\ ~At(q, "kfree")'
    BY <1>1, <1>3, <1>9 DEF At
  <2>2. End(readopen, "PIPE_R", "closer")'
    BY <1>1, <2>1, Zenon DEF EndInv, End
  <2>3. End(writeopen, "PIPE_W", "closew")'
    BY <1>1, <2>1, Zenon DEF EndInv, End
  <2>. QED BY <1>1, <1>9, <2>1, <2>2, <2>3, Zenon DEF EndInv
<1>11. ASSUME NEW q \in Process PROVE UseOk(q)'
  <2>1. UseOk(q)
    BY Zenon DEF UseInv
  <2>2. ASSUME NEW d \in Fd, NEW t PROVE Opens(q, d, t)' <=> Opens(q, d, t)
    BY <1>1, Zenon DEF Opens
  <2>. QED BY <1>1, <1>3, <1>9, <2>1, <2>2 DEF UseOk, InRead, InWrite
<1>. QED BY <1>4, <1>5, <1>6, <1>7, <1>8, <1>10, <1>11 DEF UseInv

-----------------------------------------------------------------------------
\* The invariant.

LEMMA PipeStartInv ==
  ASSUME Counting, NEW first \in Process, NEW n \in 1..NOFILE, PipeStart(first, n)
  PROVE  PipeInv
<1>. USE DEF PipeStart
<1>1. 1 \in File /\ None \notin File
  BY FileSizes, NoneNoFile DEF File
<1>2. PipeType
  <2>1. 1 \in Index /\ 1 \in Byte
    BY PipeSizes DEF Index, Byte
  <2>2. ftable \in [File -> FileRec]
    BY DEF FileRec, NoFile
  <2>3. ofile \in [Process -> [Fd -> File \cup {None}]]
    BY <1>1
  <2>4. data \in [Ring -> Byte] /\ nread \in Index /\ nwrite \in Index
    BY <2>1 DEF Junk
  <2>5. ppc \in [Process -> {"user", "dead", "exit"} \cup Creating \cup Closing \cup InRead \cup InWrite]
    OBVIOUS
  <2>6. /\ got \in [Process -> Seq(File)] /\ todo \in [Process -> Seq(File)]
        /\ buf \in [Process -> Seq(Byte)]
    OBVIOUS
  <2>7. /\ page \in {"free", "used"} /\ readopen \in BOOLEAN /\ writeopen \in BOOLEAN
        /\ ret \in [Process -> {"none", "eof", "err", "exit"}]
        /\ killed \in [Process -> BOOLEAN]
    BY Zenon
  <2>. QED BY <2>2, <2>3, <2>4, <2>5, <2>6, <2>7, Zenon DEF PipeType
<1>3. \A f \in File : ftable[f].type \in {"INODE", "NONE"} /\ (ftable[f].type = "NONE" <=> f # 1)
                      /\ ftable[f].ref = IF f = 1 THEN n ELSE 0
  BY Zenon DEF NoFile
<1>4. \A q \in Process : /\ got[q] = <<>> /\ todo[q] = <<>> /\ ret[q] = "none"
                         /\ ppc[q] = IF q = first THEN "user" ELSE "dead"
  BY Zenon
<1>5. \A q \in Process, d \in Fd : ofile[q][d] = IF q = first /\ d < n THEN 1 ELSE None
  BY Zenon
<1>6. CallInv
  BY <1>4, <1>5 DEF CallInv, CallOk, Creating, Closing, InRead, InWrite
<1>7. FileRefs
  <2>. SUFFICES ASSUME NEW f \in File PROVE ftable[f].ref = Cardinality(Holders(f))
    BY Zenon DEF FileRefs
  <2>1. Holders(f) = Holding(holds, f)
    BY <1>2, <1>6, HoldersAre
  <2>. DEFINE D == IF f = 1 THEN 0..n - 1 ELSE {}
              E == {<<first, "fd", d>> : d \in D}
  <2>2. D \in SUBSET Fd
    BY FileSizes DEF Fd
  <2>3. ASSUME NEW x \in Slot PROVE holds[x] = f <=> x \in E
    <3>1. CASE \E q \in Process, d \in Fd : x = <<q, "fd", d>>
      <4>1. PICK q \in Process, d \in Fd : x = <<q, "fd", d>>
        BY <3>1, Zenon
      <4>2. holds[x] = ofile[q][d]
        BY <4>1, HoldsFd, Zenon
      <4>3. x \in E <=> q = first /\ d \in D
        BY <4>1
      <4>4. d \in D <=> f = 1 /\ d < n
        BY FileSizes DEF Fd
      <4>. HIDE DEF D, E
      <4>. QED BY <1>1, <1>5, <4>2, <4>3, <4>4
    <3>2. CASE \E q \in Process, i \in {1, 2} : x = <<q, "todo", i>>
      <4>1. PICK q \in Process, i \in {1, 2} : x = <<q, "todo", i>>
        BY <3>2
      <4>2. holds[x] = Listed(todo[q], i)
        BY <4>1, HoldsTodo, Zenon
      <4>3. x \notin E
        BY <4>1
      <4>. HIDE DEF E
      <4>. QED BY <1>1, <1>4, <4>2, <4>3, ListedIs
    <3>3. CASE \E q \in Process, i \in {1, 2} : x = <<q, "got", i>>
      <4>1. PICK q \in Process, i \in {1, 2} : x = <<q, "got", i>>
        BY <3>3, Zenon
      <4>2. holds[x] = Listed(got[q], i)
        BY <4>1, HoldsGot, Zenon
      <4>3. x \notin E
        BY <4>1, Zenon
      <4>. HIDE DEF E
      <4>. QED BY <1>1, <1>4, <4>2, <4>3, ListedIs
    <3>. QED BY <3>1, <3>2, <3>3, SlotIs, Zenon
  <2>4. E \in SUBSET Slot
    <3>1. \A d \in Fd : <<first, "fd", d>> \in Slot
      BY HoldsFd, Zenon
    <3>. QED BY <2>2, <3>1
  <2>5. Cardinality(E) = Cardinality(D)
    BY <2>2, FdSlots, Zenon
  <2>. HIDE DEF E
  <2>6. Holders(f) = E
    BY <2>1, <2>3, <2>4 DEF Holding
  <2>7. Cardinality(D) = IF f = 1 THEN n ELSE 0
    <3>1. Cardinality(0..n - 1) = n
      BY DEF Counting, Intervals
    <3>. QED BY <3>1 DEF Counting, EmptySets
  <2>. QED BY <1>3, <2>5, <2>6, <2>7
<1>8. KindInv
  <2>1. ASSUME NEW f \in File PROVE FileOk(f)
    BY <1>1, <1>3, <1>5 DEF FileOk
  <2>2. ASSUME NEW q \in Process PROVE GotOk(q)
    BY <1>4, Zenon DEF GotOk
  <2>. QED BY <2>1, <2>2 DEF KindInv
<1>9. EndInv
  <2>1. \A q \in Process : ~At(q, "closer") /\ ~At(q, "closew") /\ ~At(q, "kfree")
    BY <1>4, Zenon DEF At
  <2>2. \A f \in File : ftable[f].type # "PIPE_R" /\ ftable[f].type # "PIPE_W"
    BY <1>3, Zenon
  <2>3. End(readopen, "PIPE_R", "closer") /\ End(writeopen, "PIPE_W", "closew")
    BY <2>1, <2>2 DEF End
  <2>. QED BY <2>1, <2>3 DEF EndInv
<1>10. UseInv
  BY <1>4, Zenon DEF UseInv, UseOk, InRead, InWrite
<1>11. Avail <= PIPESIZE
  <2>1. nread = 1 /\ nwrite = 1
    BY Zenon DEF Junk
  <2>2. 0 % Uint = 0 /\ 0 <= PIPESIZE /\ 1 - 1 = 0
    BY PipeSizes
  <2>. QED BY <2>1, <2>2 DEF Avail
<1>. QED BY <1>2, <1>6, <1>7, <1>8, <1>9, <1>10, <1>11 DEF PipeInv

LEMMA PipeNextInv ==
  ASSUME Counting, PipeInv, [PipeNext]_pipeVars
  PROVE  PipeInv'
<1>1. CASE UNCHANGED pipeVars
  <2>1. UNCHANGED <<ftable, ofile, page, data, nread, nwrite, readopen, writeopen, ppc, got, todo, buf, ret, killed>>
    BY <1>1 DEF pipeVars, pipe, call
  <2>2. PipeType' /\ CallInv'
    BY <2>1 DEF PipeInv, PipeType, CallInv, CallOk
  <2>3. FileRefs' /\ KindInv'
    BY <2>1, RefsKept, KindKept, Zenon DEF PipeInv
  <2>4. EndInv' /\ UseInv' /\ Avail' <= PIPESIZE
    BY <2>1, EndKept, UseKept, AvailKept DEF PipeInv, SameTypes, SameClosing, SameUses
  <2>. QED BY <2>2, <2>3, <2>4 DEF PipeInv
<1>2. ASSUME NEW p \in Process, PipeStep(p) PROVE PipeInv'
  <2>1. CASE FileAlloc(p) \/ PipeAlloc(p) \/ FdAlloc(p)
    BY <2>1, FileAllocInv, PipeAllocInv, FdAllocInv
  <2>2. CASE ExitMore(p)
    BY <2>2, ExitFilesInv, Zenon DEF ExitMore, At
  <2>3. CASE FileClose(p) \/ PipeClose(p) \/ PipeFree(p)
    BY <2>3, FileCloseInv, PipeCloseInv, PipeFreeInv
  <2>4. CASE PipeWrite(p) \/ PipeRead(p) \/ PipeSleep(p)
    BY <2>4, PipeWriteInv, PipeReadInv, PipeSleepInv
  <2>. QED BY <1>2, <2>1, <2>2, <2>3, <2>4 DEF PipeStep
<1>3. ASSUME NEW p \in Process, SysPipe(p) \/ Exit(p) \/ Kill(p) PROVE PipeInv'
  <2>1. CASE Exit(p)
    BY <2>1, ExitFilesInv DEF Exit, At
  <2>. QED BY <1>3, <2>1, SysPipeInv, KillInv
<1>4. ASSUME NEW p \in Process, NEW q \in Process, Fork(p, q) PROVE PipeInv'
  BY <1>4, ForkInv
<1>5. ASSUME NEW p \in Process, NEW d \in Fd,
             SysDup(p, d) \/ SysClose(p, d) \/ SysRead(p, d) \/ \E s \in Requests : SysWrite(p, d, s)
      PROVE  PipeInv'
  <2>1. CASE SysDup(p, d) \/ SysClose(p, d)
    BY <2>1, SysDupInv, SysCloseInv
  <2>2. CASE SysRead(p, d)
    <3>1. Opens(p, d, "PIPE_R") /\ Start(p, "read", <<>>) /\ <<>> \in Seq(Byte)
      BY <2>2 DEF SysRead
    <3>. QED BY <3>1, StartInv, Zenon
  <2>3. ASSUME NEW s \in Requests, SysWrite(p, d, s) PROVE PipeInv'
    <3>1. Opens(p, d, "PIPE_W") /\ Start(p, "write", s) /\ s \in Seq(Byte)
      BY <2>3, RequestBytes, Zenon DEF SysWrite
    <3>. QED BY <3>1, StartInv, Zenon
  <2>. QED BY <1>5, <2>1, <2>2, <2>3
<1>. QED BY <1>1, <1>2, <1>3, <1>4, <1>5 DEF PipeNext

-----------------------------------------------------------------------------
\* Nothing is leaked, and nothing is freed while in use.

LEMMA AliveIs ==
  ASSUME Counting, PipeInv
  PROVE  PipeAlive
<1>. USE DEF PipeInv
<1>1. \A f \in File : ftable[f].type \in {"PIPE_R", "PIPE_W"} => ftable[f].ref > 0
  <2>. SUFFICES ASSUME NEW f \in File, ftable[f].type \in {"PIPE_R", "PIPE_W"} PROVE ftable[f].ref > 0
    BY Zenon
  <2>1. ftable[f].ref # 0 /\ ftable[f].ref \in Nat
    BY Zenon DEF KindInv, FileOk, PipeType, FileRec
  <2>. QED BY <2>1
<1>2. HeldR <=> readopen
  BY <1>1 DEF HeldR, Held, EndInv, End
<1>3. HeldW <=> writeopen
  BY <1>1 DEF HeldW, Held, EndInv, End
<1>4. (readopen \/ writeopen) => page = "used"
  BY DEF EndInv, PipeType
<1>5. (page = "used" /\ readopen) = HeldR
  <2>1. HeldR \in BOOLEAN
    BY DEF HeldR, Held
  <2>. QED BY <1>2, <1>4, <2>1, Zenon
<1>6. (page = "used" /\ writeopen) = HeldW
  <2>1. HeldW \in BOOLEAN
    BY DEF HeldW, Held
  <2>. QED BY <1>3, <1>4, <2>1, Zenon
<1>7. ASSUME NEW p \in Process
      PROVE  /\ ppc[p] \in {"read", "rempty", "rsleep"} => HeldR
             /\ ppc[p] \in {"write", "wfull", "wsleep"} => HeldW
  <2>1. ASSUME NEW d \in Fd, NEW t, Opens(p, d, t) PROVE \E f \in File : ftable[f].type = t
    BY <2>1, OpenFile, Zenon DEF Opens
  <2>2. UseOk(p)
    BY Zenon DEF UseInv
  <2>3. ppc[p] \in InRead => readopen
    BY <2>1, <2>2, Zenon DEF UseOk, EndInv, End
  <2>4. ppc[p] \in InWrite => writeopen
    BY <2>1, <2>2, Zenon DEF UseOk, EndInv, End
  <2>. QED BY <1>2, <1>3, <2>3, <2>4 DEF InRead, InWrite
<1>8. Cardinality({p \in Process : At(p, "kfree")})
        = IF page = "used" /\ ~readopen /\ ~writeopen THEN 1 ELSE 0
  <2>. DEFINE K == {p \in Process : At(p, "kfree")}
  <2>1. CASE page = "used" /\ ~readopen /\ ~writeopen
    <3>1. PICK p \in Process : At(p, "kfree")
      BY <2>1, Zenon DEF EndInv
    <3>2. K = {p}
      BY <3>1, Zenon DEF EndInv
    <3>3. Cardinality(K) = 1
      BY <3>2, Zenon DEF Counting, Singletons
    <3>. QED BY <2>1, <3>3, Zenon
  <2>2. CASE ~(page = "used" /\ ~readopen /\ ~writeopen)
    <3>1. K = {}
      BY <2>2, Zenon DEF EndInv
    <3>2. Cardinality(K) = 0
      BY <3>1, Zenon DEF Counting, EmptySets
    <3>. QED BY <2>2, <3>2, Zenon
  <2>. QED BY <2>1, <2>2, Zenon
<1>. QED BY <1>5, <1>6, <1>7, <1>8 DEF PipeAlive

-----------------------------------------------------------------------------
\* Nobody sleeps over what the other side did.

LEMMA ReaderHolds ==
  ASSUME PipeInv, NEW p \in Process, ppc[p] \in InRead
  PROVE  readopen
<1>1. PICK d \in Fd : Opens(p, d, "PIPE_R")
  BY Zenon DEF PipeInv, UseInv, UseOk
<1>2. \E f \in File : ftable[f].type = "PIPE_R"
  BY <1>1, OpenFile, Zenon DEF Opens
<1>. QED BY <1>2, Zenon DEF PipeInv, EndInv, End

LEMMA SleepersStay ==
  ASSUME PipeInv
  PROVE  SleepersWait
<1>1. ASSUME NEW p \in Process
      PROVE  /\ At(p, "rsleep") => writeopen
             /\ At(p, "wsleep") => Room = 0 /\ readopen
  <2>1. UseOk(p)
    BY Zenon DEF PipeInv, UseInv
  <2>. QED BY <2>1, Zenon DEF UseOk, At
<1>. QED BY <1>1, Zenon DEF SleepersWait

\* A call that is no read or write, or one that has not begun.
LEMMA OtherLeaves ==
  ASSUME PipeInv, NEW r \in Process, ppc[r] \notin {"write", "wfull"},
         NEW l, ppc' = [ppc EXCEPT ![r] = l]
  PROVE  WriterLeaves
<1>1. ppc' = [q \in Process |-> IF q = r THEN l ELSE ppc[q]]
  BY GotoIs, Zenon DEF PipeInv
<1>. QED BY <1>1 DEF WriterLeaves

LEMMA LeavesStep ==
  ASSUME PipeInv, PipeNext
  PROVE  WriterLeaves
<1>1. ASSUME NEW r \in Process, PipeWrite(r) PROVE WriterLeaves
  <2>1. ppc[r] = "write"
    BY <1>1, Zenon DEF PipeWrite, At
  <2>2. \/ ppc' = [WakeReaders(ppc) EXCEPT ![r] = "user"]
        \/ (~readopen \/ killed[r]) /\ ppc' = [ppc EXCEPT ![r] = "user"]
        \/ ppc' = [ppc EXCEPT ![r] = "wfull"]
    BY <1>1, Zenon DEF PipeWrite, Finish, Goto
  <2>3. CASE ppc' = [WakeReaders(ppc) EXCEPT ![r] = "user"]
    <3>1. \A q \in Process : ppc'[q] # "rsleep"
      BY <2>3, Zenon DEF WakeReaders
    <3>. QED BY <3>1, Zenon DEF WriterLeaves
  <2>4. CASE (~readopen \/ killed[r]) /\ ppc' = [ppc EXCEPT ![r] = "user"]
    <3>1. ppc' = [q \in Process |-> IF q = r THEN "user" ELSE ppc[q]]
      BY <2>4, GotoIs, Zenon DEF PipeInv
    <3>2. ASSUME ~killed[r], NEW p \in Process PROVE ppc'[p] # "rsleep"
      BY <2>4, <3>1, <3>2, ReaderHolds, Zenon DEF InRead
    <3>3. ASSUME NEW q \in Process, ppc'[q] # ppc[q] PROVE q = r
      BY <3>1, <3>3, Zenon
    <3>. QED BY <3>2, <3>3, Zenon DEF WriterLeaves
  <2>5. CASE ppc' = [ppc EXCEPT ![r] = "wfull"]
    <3>1. ppc' = [q \in Process |-> IF q = r THEN "wfull" ELSE ppc[q]]
      BY <2>5, GotoIs, Zenon DEF PipeInv
    <3>. QED BY <3>1, Zenon DEF WriterLeaves
  <2>. QED BY <2>2, <2>3, <2>4, <2>5, Zenon
<1>2. ASSUME NEW r \in Process, PipeSleep(r) PROVE WriterLeaves
  <2>1. CASE ppc[r] = "wfull"
    <3>1. ppc' = [WakeReaders(ppc) EXCEPT ![r] = "wsleep"]
      BY <1>2, <2>1, Zenon DEF PipeSleep, At
    <3>2. \A q \in Process : ppc'[q] # "rsleep"
      BY <3>1 DEF WakeReaders
    <3>. QED BY <3>2 DEF WriterLeaves
  <2>2. CASE ppc[r] = "rempty"
    <3>1. ppc' = [ppc EXCEPT ![r] = "rsleep"]
      BY <1>2, <2>2, Zenon DEF PipeSleep, At
    <3>. QED BY <2>2, <3>1, OtherLeaves, Zenon
  <2>. QED BY <1>2, <2>1, <2>2, Zenon DEF PipeSleep, Sleeping
<1>3. ASSUME NEW r \in Process, PipeRead(r) PROVE WriterLeaves
  <2>1. ppc[r] = "read"
    BY <1>3, Zenon DEF PipeRead, At
  <2>2. \/ \E l : ppc' = [ppc EXCEPT ![r] = l]
        \/ ppc' = [WakeWriters(ppc) EXCEPT ![r] = "user"]
    BY <1>3, Zenon DEF PipeRead, Finish, Goto
  <2>3. CASE ppc' = [WakeWriters(ppc) EXCEPT ![r] = "user"]
    <3>1. \A q \in Process : ppc[q] \in {"write", "wfull"} => ppc'[q] = ppc[q]
      BY <2>1, <2>3, Zenon DEF WakeWriters
    <3>. QED BY <3>1, Zenon DEF WriterLeaves
  <2>. QED BY <2>1, <2>2, <2>3, OtherLeaves, Zenon
<1>4. ASSUME NEW r \in Process, PipeClose(r) PROVE WriterLeaves
  <2>1. PICK l : ppc' = [Woken(ppc, ppc[r]) EXCEPT ![r] = l]
    BY <1>4, Zenon DEF PipeClose
  <2>2. ppc[r] \in {"closer", "closew"}
    BY <1>4, Zenon DEF PipeClose
  <2>3. \A q \in Process : ppc[q] \in {"write", "wfull"} => ppc'[q] = ppc[q]
    BY <2>1, <2>2, Zenon DEF Woken, WakeWriters, WakeReaders
  <2>. QED BY <2>3 DEF WriterLeaves
<1>5. ASSUME NEW r \in Process, Kill(r) PROVE WriterLeaves
  <2>. DEFINE l == CASE ppc[r] = "rsleep" -> "read" [] ppc[r] = "wsleep" -> "write" [] OTHER -> ppc[r]
  <2>1. ppc' = [ppc EXCEPT ![r] = l]
    BY <1>5, Zenon DEF Kill
  <2>2. ppc' = [q \in Process |-> IF q = r THEN l ELSE ppc[q]]
    BY <2>1, GotoIs, Zenon DEF PipeInv
  <2>3. \A q \in Process : ppc[q] \in {"write", "wfull"} => ppc'[q] = ppc[q]
    BY <2>2
  <2>. QED BY <2>3 DEF WriterLeaves
<1>6. ASSUME NEW r \in Process, NEW l, ppc[r] \notin {"write", "wfull"}, Goto(r, l) PROVE WriterLeaves
  BY <1>6, OtherLeaves, Zenon DEF Goto
<1>7. ASSUME NEW r \in Process, FileAlloc(r) \/ PipeAlloc(r) \/ FdAlloc(r) PROVE WriterLeaves
  <2>1. ppc[r] \in {"filealloc", "kalloc", "fdalloc"} /\ \E l : Goto(r, l)
    BY <1>7, Zenon DEF FileAlloc, PipeAlloc, FdAlloc, Undo, CloseRest, Finish, At
  <2>. QED BY <1>6, <2>1, Zenon
<1>8. ASSUME NEW r \in Process, Exit(r) \/ ExitMore(r) PROVE WriterLeaves
  <2>1. ppc[r] \in {"user", "exit"} /\ \E l : Goto(r, l)
    BY <1>8, Zenon DEF Exit, ExitMore, ExitFiles, CloseRest, At
  <2>. QED BY <1>6, <2>1, Zenon
<1>9. ASSUME NEW r \in Process, FileClose(r) \/ PipeFree(r) PROVE WriterLeaves
  <2>1. ppc[r] \in {"fileclose", "kfree"} /\ \E l : Goto(r, l)
    BY <1>9, Zenon DEF FileClose, PipeFree, At
  <2>. QED BY <1>6, <2>1, Zenon
<1>10. ASSUME NEW r \in Process, SysPipe(r) PROVE WriterLeaves
  BY <1>6, <1>10, Zenon DEF SysPipe, MayCall, At
<1>11. ASSUME NEW r \in Process, NEW q \in Process, Fork(r, q) PROVE WriterLeaves
  BY <1>6, <1>11, Zenon DEF Fork, At
<1>12. ASSUME NEW r \in Process, NEW d \in Fd, SysDup(r, d) PROVE WriterLeaves
  BY <1>12, Zenon DEF SysDup, WriterLeaves
<1>13. ASSUME NEW r \in Process, NEW d \in Fd, SysClose(r, d) PROVE WriterLeaves
  <2>1. ppc[r] = "user" /\ \E l : Goto(r, l)
    BY <1>13, Zenon DEF SysClose, CloseRest, MayCall, At
  <2>. QED BY <1>6, <2>1, Zenon
<1>14. ASSUME NEW r \in Process, NEW l, NEW s, Start(r, l, s) PROVE WriterLeaves
  BY <1>6, <1>14, Zenon DEF Start, MayCall, At
<1>15. ASSUME NEW r \in Process, PipeStep(r) PROVE WriterLeaves
  BY <1>1, <1>2, <1>3, <1>4, <1>7, <1>8, <1>9, <1>15, Zenon DEF PipeStep
<1>16. ASSUME NEW r \in Process, NEW d \in Fd, NEW s \in Requests, SysWrite(r, d, s) PROVE WriterLeaves
  BY <1>14, <1>16, Zenon DEF SysWrite
<1>17. ASSUME NEW r \in Process, NEW d \in Fd, SysRead(r, d) PROVE WriterLeaves
  BY <1>14, <1>17, Zenon DEF SysRead
<1>. QED BY <1>5, <1>8, <1>10, <1>11, <1>12, <1>13, <1>15, <1>16, <1>17, Zenon DEF PipeNext

-----------------------------------------------------------------------------
\* The ring is a queue of bytes.

bytes == IF page = "used" /\ (readopen \/ writeopen) THEN Fetched(Avail) ELSE <<>>
open == (IF page = "used" /\ readopen THEN {"r"} ELSE {}) \cup (IF page = "used" /\ writeopen THEN {"w"} ELSE {})

QueueStep == Queue!Next \/ UNCHANGED Queue!vars

LEMMA QueueInit ==
  ASSUME PipeInit
  PROVE  Queue!Init
<1>1. page = "free" /\ buf = [p \in Process |-> <<>>] /\ ret = [p \in Process |-> "none"]
  BY Zenon DEF PipeInit, PipeStart
<1>2. bytes = <<>> /\ open = {}
  BY <1>1, Zenon DEF bytes, open
<1>. QED BY <1>1, <1>2, Zenon DEF Queue!Init, bytes, open

Rg == INSTANCE RingBuffer WITH Elem <- Byte, N <- PIPESIZE, U <- Uint

LEMMA MaxOne == ASSUME NEW a \in Int PROVE Max({a}) = a
BY DEF Max

\* n bytes that fit go to n places of their own.
LEMMA StoredIs ==
  ASSUME PipeType, NEW s \in Seq(Byte), NEW n \in 0..Len(s), n <= PIPESIZE
  PROVE  /\ \A m \in 1..n : Stored(s, n)[Rg!Place(nwrite + m - 1)] = s[m]
         /\ \A j \in Ring : (\A m \in 1..n : Rg!Place(nwrite + m - 1) # j) => Stored(s, n)[j] = data[j]
<1>. DEFINE is(j) == {i \in 1..n : Rg!Place(nwrite + i - 1) = j}
            c == Stored(s, n)
<1>0. Rg!Wraps /\ nwrite \in Int /\ n \in Nat /\ Len(s) \in Nat /\ PIPESIZE \in Nat
  BY PipeSizes, Counts DEF Rg!Wraps
<1>1. c = [j \in Ring |-> IF is(j) = {} THEN data[j] ELSE s[Max(is(j))]]
  BY Zenon DEF Stored, Rg!Place
<1>2. ASSUME NEW m \in 1..n, NEW i \in 1..n, Rg!Place(nwrite + i - 1) = Rg!Place(nwrite + m - 1)
      PROVE  i = m
  <2>. DEFINE a == nwrite + i - 1
              b == nwrite + m - 1
  <2>1. a \in Int /\ b \in Int /\ (a < b => b - a < PIPESIZE) /\ (b < a => a - b < PIPESIZE)
        /\ (a = b => i = m)
    BY <1>0
  <2>2. Rg!Place(a) = Rg!Place(b)
    BY <1>2, Zenon
  <2>. HIDE DEF a, b
  <2>3. ~(a < b) /\ ~(b < a)
    BY <1>0, <2>1, <2>2, Rg!PlaceDiffers
  <2>. QED BY <2>1, <2>3
<1>3. ASSUME NEW m \in 1..n PROVE Rg!Place(nwrite + m - 1) \in Ring
  <2>1. nwrite + m - 1 \in Int
    BY <1>0
  <2>2. Rg!Place(nwrite + m - 1) \in 0..PIPESIZE - 1
    BY <1>0, <2>1, Rg!PlaceType, Zenon
  <2>. QED BY <2>2, Zenon DEF Ring
<1>4. ASSUME NEW m \in 1..n PROVE c[Rg!Place(nwrite + m - 1)] = s[m]
  <2>. DEFINE j == Rg!Place(nwrite + m - 1)
  <2>1. is(j) = {m}
    BY <1>2, Zenon
  <2>2. j \in Ring
    BY <1>3, Zenon
  <2>. HIDE DEF j, is, c
  <2>3. Max(is(j)) = m /\ is(j) # {}
    BY <2>1, MaxOne
  <2>4. c[j] = s[m]
    BY <1>1, <2>2, <2>3, Zenon
  <2>. QED BY <2>4, Zenon DEF j
<1>5. ASSUME NEW j \in Ring, \A m \in 1..n : Rg!Place(nwrite + m - 1) # j PROVE c[j] = data[j]
  <2>1. is(j) = {}
    BY <1>5, Zenon
  <2>. HIDE DEF is, c
  <2>. QED BY <1>1, <2>1, Zenon
<1>. QED BY <1>4, <1>5, Zenon

LEMMA FetchedIs ==
  /\ Fetched(Avail) = Rg!Text(data, nread, nwrite)
  /\ Fetched(Avail)' = Rg!Text(data', nread', nwrite')
  /\ Avail = Rg!Dist(nread, nwrite)
BY Zenon DEF Fetched, Avail, Rg!Text, Rg!Dist, Rg!Place

LEMMA RingTypes ==
  ASSUME PipeType
  PROVE  /\ Rg!Wraps /\ data \in Rg!Rings /\ nread \in Rg!Index /\ nwrite \in Rg!Index
         /\ Fetched(Avail) \in Seq(Byte) /\ Len(Fetched(Avail)) = Avail /\ Avail \in Nat
<1>1. Rg!Wraps /\ data \in Rg!Rings /\ nread \in Rg!Index /\ nwrite \in Rg!Index
  BY PipeSizes, Zenon DEF Rg!Wraps, Rg!Rings, Rg!Index, PipeType, Ring, Index
<1>2. Rg!Text(data, nread, nwrite) \in Seq(Byte) /\ Len(Rg!Text(data, nread, nwrite)) = Rg!Dist(nread, nwrite)
  BY <1>1, Rg!TextSeq, Zenon
<1>. QED BY <1>1, <1>2, FetchedIs, AvailIs

LEMMA WriterHolds ==
  ASSUME PipeInv, NEW p \in Process, ppc[p] \in InWrite
  PROVE  writeopen
<1>1. PICK d \in Fd : Opens(p, d, "PIPE_W")
  BY Zenon DEF PipeInv, UseInv, UseOk
<1>2. \E f \in File : ftable[f].type = "PIPE_W"
  BY <1>1, OpenFile, Zenon DEF Opens
<1>. QED BY <1>2, Zenon DEF PipeInv, EndInv, End

LEMMA PipeWritePuts ==
  ASSUME Counting, PipeInv, NEW p \in Process, PipeWrite(p)
  PROVE  Queue!Put(p)
<1>. USE DEF PipeInv
<1>1. PICK n \in 0..Len(buf[p]) :
        /\ n \in 0..Room /\ Wrote(n) /\ data' = Stored(buf[p], n)
        /\ n # Len(buf[p]) => n = Room
        /\ \/ /\ n = Len(buf[p])
              /\ buf' = [buf EXCEPT ![p] = <<>>] /\ ret' = ret
           \/ /\ n # Len(buf[p]) /\ (~readopen \/ killed[p])
              /\ ret' = [ret EXCEPT ![p] = "err"]
              /\ buf' = [buf EXCEPT ![p] = <<>>]
           \/ /\ n # Len(buf[p]) /\ ret' = ret
              /\ buf' = [buf EXCEPT ![p] = SubSeq(@, n + 1, Len(@))]
  BY PipeWriteIs, Zenon
<1>2. /\ ppc[p] = "write" /\ UNCHANGED <<page, readopen, writeopen, killed>>
      /\ buf[p] \in Seq(Byte) /\ Len(buf[p]) \in Nat
  <2>1. ppc[p] = "write" /\ UNCHANGED <<page, readopen, writeopen, killed>>
    BY Zenon DEF PipeWrite, At
  <2>2. buf[p] \in Seq(Byte)
    BY Zenon DEF PipeType
  <2>3. Len(buf[p]) \in Nat
    BY <2>2
  <2>. QED BY <2>1, <2>2, <2>3, Zenon
<1>3. writeopen /\ page = "used" /\ ret[p] = "none"
  <2>1. ppc[p] \in InWrite
    BY <1>2, Zenon DEF InWrite
  <2>2. writeopen /\ ret[p] = "none"
    BY <2>1, WriterHolds, Zenon DEF CallInv, CallOk
  <2>. QED BY <2>2, Zenon DEF EndInv, PipeType
<1>4. bytes = Fetched(Avail) /\ bytes' = Fetched(Avail)' /\ open' = open
  BY <1>2, <1>3, Zenon DEF bytes, open
<1>5. Len(bytes) + n <= PIPESIZE
  BY <1>1, <1>4, RingTypes, RoomIs, Counts
<1>6. bytes' = bytes \o SubSeq(buf[p], 1, n)
  <2>. DEFINE v == buf[p]
              h == (nwrite + n) % Uint
  <2>1. n \in Nat /\ n <= PIPESIZE /\ n \in 0..Len(v) /\ v \in Seq(Byte)
    <3>1. PIPESIZE \in Nat /\ Room \in 0..PIPESIZE
      BY RoomIs, Counts, Zenon
    <3>2. \A x \in 0..PIPESIZE : \A y \in 0..x : y \in Nat /\ y <= PIPESIZE
      BY <3>1
    <3>. QED BY <1>1, <1>2, <3>1, <3>2, Zenon
  <2>2. Rg!Filled(data, data', nwrite, v, n) /\ data' \in Rg!Rings
    BY <1>1, <2>1, StoredIs, StoredType, Zenon DEF Ring, Rg!Rings, Rg!Filled
  <2>3. Rg!Dist(nread, nwrite) + n <= PIPESIZE
    BY <1>4, <1>5, RingTypes, FetchedIs
  <2>. HIDE DEF v
  <2>4. Rg!Text(data', nread, h) = Rg!Text(data, nread, nwrite) \o SubSeq(v, 1, n)
    BY <2>1, <2>2, <2>3, RingTypes, Rg!TextStored
  <2>5. nread' = nread /\ nwrite' = h
    BY <1>1 DEF Wrote
  <2>. HIDE DEF h
  <2>6. bytes' = Rg!Text(data', nread, h) /\ bytes = Rg!Text(data, nread, nwrite)
    BY <1>4, <2>5, FetchedIs, ZenonT(30)
  <2>. QED BY <2>4, <2>6 DEF v
<1>7. PICK r \in {"none", "err"} :
        /\ ret' = [ret EXCEPT ![p] = r]
        /\ buf' = [buf EXCEPT ![p] = IF r = "err" THEN <<>> ELSE SubSeq(@, n + 1, Len(@))]
        /\ r = "err" => "r" \notin open \/ killed[p]
  <2>1. ASSUME ret' = ret PROVE ret' = [ret EXCEPT ![p] = "none"]
    BY <1>3, <2>1 DEF PipeType
  <2>2. CASE n = Len(buf[p]) /\ buf' = [buf EXCEPT ![p] = <<>>] /\ ret' = ret
    <3>1. SubSeq(buf[p], n + 1, Len(buf[p])) = <<>>
      BY <1>2, <2>2
    <3>2. buf' = [buf EXCEPT ![p] = SubSeq(@, n + 1, Len(@))]
      BY <2>2, <3>1, Zenon
    <3>. QED BY <2>1, <2>2, <3>2, Zenon
  <2>3. CASE /\ ~readopen \/ killed[p]
             /\ ret' = [ret EXCEPT ![p] = "err"] /\ buf' = [buf EXCEPT ![p] = <<>>]
    <3>1. "r" \notin open \/ killed[p]
      BY <2>3, Zenon DEF open
    <3>. QED BY <2>3, <3>1, Zenon
  <2>4. CASE ret' = ret /\ buf' = [buf EXCEPT ![p] = SubSeq(@, n + 1, Len(@))]
    BY <2>1, <2>4, Zenon
  <2>. QED BY <1>1, <2>2, <2>3, <2>4, Zenon
<1>. QED BY <1>2, <1>4, <1>5, <1>6, <1>7, Zenon
     DEF Queue!Put, Queue!Prefix, Queue!Rest, bytes, open

LEMMA PipeReadGets ==
  ASSUME PipeInv, NEW p \in Process, PipeRead(p)
  PROVE  Queue!Get(p) \/ UNCHANGED Queue!vars
<1>. USE DEF PipeInv
<1>1. PICK n \in 0..Avail :
        /\ Took(n)
        /\ \/ /\ n = 0 /\ killed[p] /\ ret' = [ret EXCEPT ![p] = "err"]
           \/ n = 0 /\ ret' = ret
           \/ /\ n = 0 => Avail = 0 /\ ~writeopen
              /\ ret' = [ret EXCEPT ![p] = IF n = 0 THEN "eof" ELSE "none"]
  BY PipeReadIs, Zenon
<1>2. ppc[p] = "read" /\ UNCHANGED <<page, data, readopen, writeopen, buf, killed>>
  BY Zenon DEF PipeRead, At
<1>3. readopen /\ page = "used"
  BY <1>2, ReaderHolds DEF InRead, EndInv, PipeType
<1>4. bytes = Fetched(Avail) /\ bytes' = Fetched(Avail)' /\ open' = open
  BY <1>2, <1>3, Zenon DEF bytes, open
<1>5. Len(bytes) = Avail /\ Avail \in Nat /\ bytes \in Seq(Byte)
  BY <1>4, RingTypes, Zenon
<1>6. bytes' = SubSeq(bytes, n + 1, Len(bytes))
  <2>. DEFINE h == (nread + n) % Uint
  <2>1. n \in 0..Rg!Dist(nread, nwrite)
    BY <1>1, FetchedIs, Zenon
  <2>2. Rg!Text(data, h, nwrite) = SubSeq(Rg!Text(data, nread, nwrite), n + 1, Rg!Dist(nread, nwrite))
    BY <2>1, RingTypes, Rg!TextDrop, Zenon
  <2>3. nread' = h /\ nwrite' = nwrite
    BY <1>1, Zenon DEF Took
  <2>. HIDE DEF h
  <2>4. bytes' = Rg!Text(data, h, nwrite) /\ bytes = Rg!Text(data, nread, nwrite)
    BY <1>2, <1>4, <2>3, FetchedIs, Zenon
  <2>. QED BY <1>5, <2>2, <2>4, FetchedIs, Zenon
<1>7. CASE n = 0 /\ ret' = ret
  <2>1. bytes' = bytes
    BY <1>5, <1>6, <1>7
  <2>. QED BY <1>2, <1>4, <1>7, <2>1, Zenon DEF Queue!vars, bytes, open
<1>8. ASSUME NEW r \in {"none", "eof", "err"}, ret' = [ret EXCEPT ![p] = r], r = "none" <=> n > 0,
             r = "eof" => Avail = 0 /\ ~writeopen, r = "err" => killed[p]
      PROVE  Queue!Get(p)
  <2>1. n \in 0..Len(bytes)
    BY <1>1, <1>5
  <2>2. r = "eof" => bytes = <<>> /\ "w" \notin open
    BY <1>5, <1>8 DEF open
  <2>. QED BY <1>2, <1>4, <1>6, <1>8, <2>1, <2>2, Zenon DEF Queue!Get, Queue!Rest, bytes, open
<1>9. CASE n = 0 /\ killed[p] /\ ret' = [ret EXCEPT ![p] = "err"]
  BY <1>8, <1>9
<1>10. CASE /\ n = 0 => Avail = 0 /\ ~writeopen
            /\ ret' = [ret EXCEPT ![p] = IF n = 0 THEN "eof" ELSE "none"]
  <2>1. CASE n = 0
    <3>1. ret' = [ret EXCEPT ![p] = "eof"]
      BY <1>10, <2>1, Zenon
    <3>. QED BY <1>8, <1>10, <2>1, <3>1
  <2>2. CASE n # 0
    <3>1. ret' = [ret EXCEPT ![p] = "none"] /\ n > 0
      BY <1>1, <1>5, <1>10, <2>2, SMTT(20)
    <3>. QED BY <1>8, <3>1
  <2>. QED BY <2>1, <2>2
<1>. QED BY <1>1, <1>7, <1>9, <1>10

\* Steps that leave the pipe alone.
LEMMA CallStep ==
  ASSUME NEW p \in Process, UNCHANGED <<page, data, nread, nwrite, readopen, writeopen>>,
         NEW r \in {"none", "exit"}, ret' = [ret EXCEPT ![p] = r],
         \A q \in Process \ {p} : buf'[q] = buf[q]
  PROVE  QueueStep
<1>1. bytes' = bytes /\ open' = open
  BY DEF bytes, open, Fetched, Avail
<1>2. Queue!Call(p)
  BY <1>1, Zenon DEF Queue!Call, bytes, open
<1>. QED BY <1>2 DEF QueueStep, Queue!Next

LEMMA StutterStep ==
  ASSUME UNCHANGED <<page, data, nread, nwrite, readopen, writeopen, buf, ret, killed>>
  PROVE  QueueStep
<1>1. bytes' = bytes /\ open' = open
  BY DEF bytes, open, Fetched, Avail
<1>. QED BY <1>1, Zenon DEF QueueStep, Queue!vars, bytes, open

LEMMA UndoStep ==
  ASSUME NEW p \in Process, Undo(p), UNCHANGED <<page, data, nread, nwrite, readopen, writeopen, buf>>
  PROVE  QueueStep
<1>1. ret' = [ret EXCEPT ![p] = "none"]
  BY DEF Undo, CloseRest
<1>. QED BY <1>1, CallStep, Zenon

LEMMA CreateStep ==
  ASSUME Counting, PipeInv, NEW p \in Process, PipeAlloc(p)
  PROVE  QueueStep
<1>. USE DEF PipeInv
<1>1. UNCHANGED <<buf, killed>>
  BY DEF PipeAlloc
<1>2. CASE page = "used"
  <2>1. Undo(p) /\ UNCHANGED <<page, data, nread, nwrite, readopen, writeopen>>
    BY <1>2 DEF PipeAlloc, pipe
  <2>. QED BY <1>1, <2>1, UndoStep
<1>3. CASE page # "used"
  <2>1. /\ page' = "used" /\ readopen' = TRUE /\ writeopen' = TRUE /\ nread' = 0 /\ nwrite' = 0
        /\ UNCHANGED <<data, ret>>
    BY <1>3 DEF PipeAlloc
  <2>2. open = {} /\ open' = {"r", "w"}
    BY <1>3, <2>1 DEF open
  <2>3. bytes' = <<>>
    <3>1. 0 % Uint = 0 /\ 0 - 0 = 0
      BY PipeSizes
    <3>2. Avail' = 0
      BY <2>1, <3>1 DEF Avail
    <3>3. PipeType'
      BY PipeAllocInv
    <3>4. Len(Fetched(Avail)') = Avail' /\ Fetched(Avail)' \in Seq(Byte)
      <4>1. PipeType' => (Len(Fetched(Avail)) = Avail /\ Fetched(Avail) \in Seq(Byte))'
        BY RingTypes, PTL
      <4>. QED BY <3>3, <4>1
    <3>5. bytes' = Fetched(Avail)'
      BY <2>1 DEF bytes
    <3>. QED BY <3>2, <3>4, <3>5
  <2>4. Queue!Create
    BY <1>1, <2>1, <2>2, <2>3, Zenon DEF Queue!Create, bytes, open
  <2>. QED BY <2>4 DEF QueueStep, Queue!Next
<1>. QED BY <1>2, <1>3

LEMMA CloseStep ==
  ASSUME PipeInv, NEW p \in Process, PipeClose(p)
  PROVE  QueueStep
<1>. USE DEF PipeInv
<1>1. /\ ppc[p] \in {"closer", "closew"}
      /\ readopen' = (readopen /\ ppc[p] = "closew") /\ writeopen' = (writeopen /\ ppc[p] = "closer")
      /\ UNCHANGED <<page, data, nread, nwrite, buf, ret, killed>>
  BY DEF PipeClose, At, call
<1>2. readopen \in BOOLEAN /\ writeopen \in BOOLEAN
  BY DEF PipeType
<1>3. /\ ppc[p] = "closer" => readopen
      /\ ppc[p] = "closew" => writeopen
      /\ readopen \/ writeopen => page = "used"
  BY DEF EndInv, End, At, PipeType
<1>. DEFINE e == IF ppc[p] = "closer" THEN "r" ELSE "w"
<1>4. e \in open /\ open' = open \ {e}
  <2>1. CASE ppc[p] = "closer"
    <3>1. readopen' = FALSE /\ writeopen' = writeopen
      BY <1>1, <1>2, <2>1, Zenon
    <3>. QED BY <1>1, <1>3, <2>1, <3>1 DEF open
  <2>2. CASE ppc[p] = "closew"
    <3>1. writeopen' = FALSE /\ readopen' = readopen
      BY <1>1, <1>2, <2>2, Zenon
    <3>. QED BY <1>1, <1>3, <2>2, <3>1 DEF open
  <2>. QED BY <1>1, <2>1, <2>2
<1>5. open' = {} <=> ~readopen' /\ ~writeopen'
  BY <1>1, <1>3 DEF open
<1>6. bytes' = IF open' = {} THEN <<>> ELSE bytes
  <2>1. Fetched(Avail)' = Fetched(Avail)
    BY <1>1 DEF Fetched, Avail
  <2>2. bytes = Fetched(Avail) /\ page = "used"
    BY <1>1, <1>3 DEF bytes
  <2>. QED BY <1>1, <1>5, <2>1, <2>2 DEF bytes
<1>. HIDE DEF e
<1>7. Queue!Close(e)
  BY <1>1, <1>4, <1>6, Zenon DEF Queue!Close, bytes, open
<1>. QED BY <1>4, <1>7, Zenon DEF QueueStep, Queue!Next, open

LEMMA FreeStep ==
  ASSUME PipeInv, NEW p \in Process, PipeFree(p)
  PROVE  QueueStep
<1>1. ppc[p] = "kfree" /\ page' = "free" /\ UNCHANGED <<readopen, writeopen, buf, ret, killed>>
  BY DEF PipeFree, At, call
<1>2. ~readopen /\ ~writeopen
  BY <1>1 DEF PipeInv, EndInv, At
<1>3. bytes' = bytes /\ open' = open
  BY <1>1, <1>2 DEF bytes, open
<1>. QED BY <1>1, <1>3, Zenon DEF QueueStep, Queue!vars, bytes, open

LEMMA ExitStep ==
  ASSUME NEW p \in Process, ExitFiles(p)
  PROVE  QueueStep
<1>1. /\ UNCHANGED <<page, data, nread, nwrite, readopen, writeopen, buf>>
      /\ ret' = [ret EXCEPT ![p] = "exit"]
  BY Zenon DEF ExitFiles, CloseRest, pipe
<1>. QED BY <1>1, CallStep, Zenon

LEMMA FilesSteps ==
  ASSUME NEW p \in Process, FileAlloc(p) \/ FdAlloc(p) \/ FileClose(p)
  PROVE  QueueStep
<1>1. CASE FileAlloc(p)
  <2>1. /\ UNCHANGED <<page, data, nread, nwrite, readopen, writeopen, buf, killed>>
        /\ Undo(p) \/ UNCHANGED ret
    BY <1>1, Zenon DEF FileAlloc, pipe
  <2>. QED BY <2>1, UndoStep, StutterStep
<1>2. CASE FdAlloc(p)
  <2>1. /\ UNCHANGED <<page, data, nread, nwrite, readopen, writeopen, buf, killed>>
        /\ Undo(p) \/ ret' = [ret EXCEPT ![p] = "none"]
    BY <1>2, Zenon DEF FdAlloc, Finish, pipe
  <2>. QED BY <2>1, UndoStep, CallStep
<1>3. CASE FileClose(p)
  BY <1>3, StutterStep DEF FileClose, pipe
<1>. QED BY <1>1, <1>2, <1>3

LEMMA QueueSteps ==
  ASSUME Counting, PipeInv, [PipeNext]_pipeVars
  PROVE  QueueStep
<1>1. CASE UNCHANGED pipeVars
  BY <1>1, StutterStep DEF pipeVars, pipe, call
<1>2. ASSUME NEW p \in Process, PipeStep(p) PROVE QueueStep
  <2>1. CASE FileAlloc(p) \/ FdAlloc(p) \/ FileClose(p)
    BY <2>1, FilesSteps
  <2>2. CASE PipeAlloc(p) \/ PipeClose(p) \/ PipeFree(p)
    BY <2>2, CreateStep, CloseStep, FreeStep
  <2>3. CASE PipeWrite(p)
    BY <2>3, PipeWritePuts DEF QueueStep, Queue!Next
  <2>4. CASE PipeRead(p)
    BY <2>4, PipeReadGets DEF QueueStep, Queue!Next
  <2>5. CASE PipeSleep(p)
    BY <2>5, StutterStep DEF PipeSleep, pipe, call
  <2>6. CASE ExitMore(p)
    BY <2>6, ExitStep DEF ExitMore
  <2>. QED BY <1>2, <2>1, <2>2, <2>3, <2>4, <2>5, <2>6 DEF PipeStep
<1>3. ASSUME NEW p \in Process, SysPipe(p) PROVE QueueStep
  BY <1>3, CallStep, Zenon DEF SysPipe, pipe
<1>4. ASSUME NEW p \in Process, Exit(p) PROVE QueueStep
  BY <1>4, ExitStep DEF Exit
<1>5. ASSUME NEW p \in Process, Kill(p) PROVE QueueStep
  <2>1. UNCHANGED <<page, data, nread, nwrite, readopen, writeopen, buf, ret>>
    BY <1>5 DEF Kill, pipe, call
  <2>2. bytes' = bytes /\ open' = open
    BY <2>1 DEF bytes, open, Fetched, Avail
  <2>3. Queue!Kill
    BY <2>1, <2>2, Zenon DEF Queue!Kill, bytes, open
  <2>. QED BY <2>3 DEF QueueStep, Queue!Next
<1>6. ASSUME NEW p \in Process, NEW q \in Process, Fork(p, q) PROVE QueueStep
  BY <1>6, CallStep, Zenon DEF Fork, pipe
<1>7. ASSUME NEW p \in Process, NEW d \in Fd, SysDup(p, d) PROVE QueueStep
  BY <1>7, StutterStep DEF SysDup, pipe, call
<1>8. ASSUME NEW p \in Process, NEW d \in Fd, SysClose(p, d) PROVE QueueStep
  BY <1>8, CallStep, Zenon DEF SysClose, CloseRest, pipe
<1>9. ASSUME NEW p \in Process, NEW l, NEW s, Start(p, l, s) PROVE QueueStep
  <2>1. /\ UNCHANGED <<page, data, nread, nwrite, readopen, writeopen>>
        /\ buf' = [buf EXCEPT ![p] = s] /\ ret' = [ret EXCEPT ![p] = "none"]
    BY <1>9 DEF Start, pipe
  <2>2. \A q \in Process \ {p} : buf'[q] = buf[q]
    BY <2>1 DEF PipeInv, PipeType
  <2>. QED BY <2>1, <2>2, CallStep, Zenon
<1>10. ASSUME NEW p \in Process, NEW d \in Fd, SysRead(p, d) PROVE QueueStep
  BY <1>9, <1>10 DEF SysRead
<1>11. ASSUME NEW p \in Process, NEW d \in Fd, NEW s \in Requests, SysWrite(p, d, s) PROVE QueueStep
  BY <1>9, <1>11 DEF SysWrite
<1>. QED BY <1>1, <1>2, <1>3, <1>4, <1>5, <1>6, <1>7, <1>8, <1>10, <1>11, Zenon DEF PipeNext

-----------------------------------------------------------------------------
\* The theory of finite sets.

FT == INSTANCE FiniteSetTheorems

LEMMA SetsAre ==
  /\ \A S : FT!IsFiniteSet(S) = IsFiniteSet(S)
  /\ \A S : FT!Cardinality(S) = Cardinality(S)
BY DEF FT!IsFiniteSet, IsFiniteSet, FT!Cardinality, Cardinality

LEMMA Counted == Counting
<1>1. Least
  <2>. SUFFICES ASSUME NEW T \in SUBSET Nat, T # {} PROVE \E x \in T : \A y \in T : x <= y
    BY Zenon DEF Least
  <2>1. PICK x \in T : \A y \in T : ~(<<y, x>> \in FT!OpToRel(<, Nat))
    BY FT!NatLessThanWellFounded, FT!WFMin, Zenon
  <2>2. \A y \in T : ~(y < x)
    BY <2>1, Zenon DEF FT!OpToRel
  <2>. QED BY <2>2
<1>2. Sizes
  BY FT!FS_CardinalityType, SetsAre, Zenon DEF Sizes
<1>3. EmptySets
  BY FT!FS_EmptySet, SetsAre, Zenon DEF EmptySets
<1>4. Singletons
  BY FT!FS_Singleton, SetsAre, Zenon DEF Singletons
<1>5. Intervals
  BY FT!FS_Interval, SetsAre DEF Intervals
<1>6. Subsets
  BY FT!FS_Subset, SetsAre, Zenon DEF Subsets
<1>7. Additions
  BY FT!FS_AddElement, SetsAre, Zenon DEF Additions
<1>8. Removals
  BY FT!FS_RemoveElement, SetsAre, Zenon DEF Removals
<1>9. Unions
  BY FT!FS_Union, SetsAre, Zenon DEF Unions
<1>10. Products
  BY FT!FS_Product, SetsAre, Zenon DEF Products
<1>11. Images
  <2>. SUFFICES ASSUME NEW S, NEW T, NEW f, IsFiniteSet(S), Onto(f, S, T)
                PROVE  /\ IsFiniteSet(T) /\ Cardinality(T) <= Cardinality(S)
                       /\ (\A a, b \in S : f[a] = f[b] => a = b) => Cardinality(T) = Cardinality(S)
    BY Zenon DEF Images
  <2>1. f \in FT!Surjection(S, T)
    BY Zenon DEF FT!Surjection, Onto
  <2>2. (\A a, b \in S : f[a] = f[b] => a = b) => f \in FT!Injection(S, T)
    BY Zenon DEF FT!Injection, FT!IsInjective, Onto
  <2>3. /\ IsFiniteSet(T) /\ Cardinality(T) <= Cardinality(S)
        /\ Cardinality(T) = Cardinality(S) <=> f \in FT!Injection(S, T)
    BY <2>1, FT!FS_Surjection, SetsAre, Zenon
  <2>. QED BY <2>2, <2>3, Zenon
<1>. QED BY <1>1, <1>2, <1>3, <1>4, <1>5, <1>6, <1>7, <1>8, <1>9, <1>10, <1>11, Zenon DEF Counting

-----------------------------------------------------------------------------
\* The theorems.

\* Files, descriptors and the pipe stay consistent with each other and with
\* the calls that are half-way: counts, types and open ends of files, the
\* page, and the distance of the counters (file.c:26-80, pipe.c:22-121,
\* sysfile.c:422-444).
THEOREM PipeInvariant == PipeSpec => []PipeInv
<1>1. PipeInit => PipeInv
  BY PipeStartInv, Counted DEF PipeInit
<1>2. PipeInv /\ [PipeNext]_pipeVars => PipeInv'
  BY PipeNextInv, Counted
<1>. QED BY <1>1, <1>2, PTL DEF PipeSpec

\* ref counts the descriptors, the fileclose() calls to come and the files a
\* sys_pipe() has allocated; readopen and writeopen are exactly the ends
\* still held, and the page of a pipe is freed once, after the last end and
\* the last call (file.c:26-80, pipe.c:22-75, sysfile.c:422-444).
THEOREM PipeFilesHeld == PipeSpec => []FilesHeld
<1>1. PipeInv => FilesHeld
  BY AliveIs, Counted DEF FilesHeld, PipeInv
<1>. QED BY <1>1, PipeInvariant, PTL

\* No lost wakeup: a reader asleep has a writer to wait for, a writer asleep
\* a full ring and a reader, and a writer that stops writing leaves no reader
\* asleep, unless it was killed (pipe.c:59-121).
THEOREM PipeNoLostWakeup == PipeSpec => PipeSleepers
<1>1. PipeInv => SleepersWait
  BY SleepersStay
<1>2. PipeInv /\ [PipeNext]_pipeVars => [WriterLeaves]_pipeVars
  BY LeavesStep
<1>. QED BY <1>1, <1>2, PipeInvariant, PTL DEF PipeSpec, PipeSleepers

\* What is written to a pipe is read once and in order, across wrap-around of
\* the ring and of its counters, full and empty rings, closes and kills; a
\* read returns 0 only after the last byte and without a writer, a write fails
\* only without a reader or when killed (pipe.c:22-121).
THEOREM PipeImplementsQueue == PipeSpec => PipeQueue
<1>1. PipeInit => Queue!Init
  BY QueueInit
<1>2. PipeInv /\ [PipeNext]_pipeVars => [Queue!Next]_(Queue!vars)
  BY QueueSteps, Counted DEF QueueStep
<1>. QED BY <1>1, <1>2, PipeInvariant, PTL DEF PipeSpec, PipeQueue, Queue!Spec
=============================================================================
