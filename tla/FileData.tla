------------------------------ MODULE FileData ------------------------------
(***************************************************************************)
(* The contents of files (fs.c: balloc, bfree, bmap, itrunc, readi, writei *)
(* and file.c: fileread, filewrite) on the image that mkfs.c wrote.        *)
(*                                                                         *)
(* One action per buffer held: between two of them other processes run.    *)
(* The log is what its own module shows it to be: the operations that are  *)
(* outstanding together reach the disk together, when the last of them     *)
(* ends.  A transaction's log_write()s are the set logged.  Files are open *)
(* for reading and writing, the root directory for reading.  n < 2^31 and  *)
(* off <= MAXFILE * BSIZE, so that off + n never wraps around in this code.*)
(***************************************************************************)
EXTENDS Mkfs, FiniteSets, FiniteSetsExt

CONSTANTS
  Proc, File,     \* processes and the struct files they share or not
  MAXOPBLOCKS,
  Requests,       \* bound: what processes write, sequences of bytes
  ReadSizes,      \* bound: how many bytes they ask for
  Contents,       \* the files given to mkfs
  Opens,          \* what can be open: the inode of each file, the file of each process
  MaxCalls        \* bound: system calls, of all processes

VARIABLES
  disk,           \* blocks, dinode, bitmap: through the buffer cache
  committed,      \* the same, on the disk after recovery
  inode,          \* the in-memory inodes
  owner,          \* who holds ip->lock, 0 if nobody
  outstanding,    \* who is between begin_op() and end_op()
  logged,         \* blocks of the file system each one's operation has logged
  ip, fd, off,    \* struct file: its inode and offset; fd[p]: p's open file
  op,             \* what each process is doing
  calls,          \* how many calls were made
  panicked

fileVars == <<disk, committed, inode, owner, outstanding, logged, ip, fd, off, op, calls, panicked>>

Idle == [at |-> "user", src |-> <<>>, n1 |-> 0, tot |-> 0, b |-> 0]
Ip(p) == ip[fd[p]]

FileInit ==
  /\ disk = Mkfs(Contents) /\ committed = disk /\ inode = disk.dinode
  /\ owner = [i \in Inum |-> 0]
  /\ outstanding = {} /\ logged = [p \in Proc |-> {}]
  /\ \E o \in Opens : ip = o[1] /\ fd = o[2]
  /\ off = [f \in File |-> 0]
  /\ op = [p \in Proc |-> Idle] /\ calls = 0
  /\ panicked = FALSE

-----------------------------------------------------------------------------
At(p, l) == ~panicked /\ op[p].at = l
Call(p) == At(p, "user") /\ calls < MaxCalls /\ calls' = calls + 1
Goto(p, l) == op' = [op EXCEPT ![p].at = l]
LogWrite(p, bs) == logged' = [logged EXCEPT ![p] = @ \union bs]
Lesser(a, b) == IF a < b THEN a ELSE b
Acquiresleep(p, i) == owner[i] = 0 /\ owner' = [owner EXCEPT ![i] = p]
Releasesleep(i) == owner' = [owner EXCEPT ![i] = 0]

(* The last of the meta blocks, and the one block with all inodes          *)
BBLOCK == nmeta - 1
IBLOCK == nmeta - 2

Iupdate(p, i, di) == disk' = [disk EXCEPT !.dinode[i] = di] /\ LogWrite(p, {IBLOCK})

-----------------------------------------------------------------------------
(* filewrite(): a transaction for every chunk of at most `max' bytes       *)

MaxChunkAll == MAXFILE * BSIZE   \* (a mutant of MaxChunk) all in one transaction
MaxChunk == ((MAXOPBLOCKS - 1 - 1 - 2) \div 2) * BSIZE

FileWrite(p) ==
  /\ Call(p) /\ Ip(p) # ROOTINO
  /\ \E s \in Requests : op' = [op EXCEPT ![p] = [Idle EXCEPT !.at = "begin", !.src = s]]
  /\ UNCHANGED <<disk, committed, inode, owner, outstanding, logged, ip, fd, off, panicked>>

BeginOp(p) ==
  /\ At(p, "begin") /\ Goto(p, IF op[p].src = <<>> THEN "iput" ELSE "ilock")
  /\ outstanding' = outstanding \union {p}
  /\ UNCHANGED <<disk, committed, inode, owner, logged, ip, fd, off, panicked, calls>>

(* ilock(), and the tests with which writei() starts                       *)
Ilock(p) ==
  LET i  == Ip(p)
      n1 == Lesser(Len(op[p].src), MaxChunk)
  IN  /\ At(p, "ilock")
      /\ IF off[fd[p]] > inode[i].size \/ off[fd[p]] + n1 > MAXFILE * BSIZE
         THEN /\ op' = [op EXCEPT ![p] = [Idle EXCEPT !.at = "end"]]
              /\ owner[i] = 0 /\ UNCHANGED owner
         ELSE /\ op' = [op EXCEPT ![p].at = "write", ![p].n1 = n1]
              /\ Acquiresleep(p, i)
      /\ UNCHANGED <<disk, committed, inode, outstanding, logged, ip, fd, off, panicked, calls>>

-----------------------------------------------------------------------------
(* writei(), bmap(), balloc()                                              *)

Pos(p) == off[fd[p]] + op[p].tot
Bn(p) == Pos(p) \div BSIZE
Here(p) == Addr(disk.blocks, inode[Ip(p)], Bn(p))
Writing(p) == At(p, "write") /\ op[p].tot < op[p].n1

(* What bmap() has to allocate first: an entry of addrs[], or an entry of  *)
(* the indirect block (-1).                                                *)
Missing(p) ==
  IF Bn(p) < NDIRECT THEN Bn(p)
  ELSE IF inode[Ip(p)].addrs[NDIRECT] = 0 THEN NDIRECT ELSE -1

(* The j-th byte of what is left to write                                  *)
SrcUnmoved(p, j) == op[p].src[j]   \* (a mutant of Src) without src += m
Src(p, j) == op[p].src[op[p].tot + j]

Copy(p) ==
  LET k == Pos(p) % BSIZE
      m == Lesser(op[p].n1 - op[p].tot, BSIZE - k)
  IN  /\ Writing(p) /\ Here(p) # 0
      /\ disk' = [disk EXCEPT !.blocks[Here(p)] =
           [w \in 0..BSIZE - 1 |->
              IF w \in k..k + m - 1 THEN Src(p, w - k + 1) ELSE @[w]]]
      /\ LogWrite(p, {Here(p)})
      /\ op' = [op EXCEPT ![p].tot = @ + m]
      /\ UNCHANGED <<committed, inode, owner, outstanding, ip, fd, off, panicked, calls>>

FreeBlocks == (0..FSSIZE - 1) \ disk.bitmap

Balloc(p) ==
  /\ Writing(p) /\ Here(p) = 0 /\ FreeBlocks # {}
  /\ LET b == Min(FreeBlocks)
     IN  /\ disk' = [disk EXCEPT !.bitmap = @ \union {b}]
         /\ op' = [op EXCEPT ![p].at = "bzero", ![p].b = b]
  /\ LogWrite(p, {BBLOCK})
  /\ UNCHANGED <<committed, inode, owner, outstanding, ip, fd, off, panicked, calls>>

BallocPanic(p) ==
  /\ Writing(p) /\ Here(p) = 0 /\ FreeBlocks = {}
  /\ panicked' = TRUE
  /\ UNCHANGED <<disk, committed, inode, owner, outstanding, logged, ip, fd, off, op, calls>>

(* bzero(), which ends balloc(), and bmap() takes the block                *)
BzeroNot(blocks, b) == blocks   \* (a mutant of Bzero) the block as it was
Bzero(blocks, b) == [blocks EXCEPT ![b] = Zeroes]

Bmap(p) ==
  LET i == Ip(p)
      b == op[p].b
      k == Missing(p)
      a == inode[i].addrs[NDIRECT]
      z == Bzero(disk.blocks, b)
  IN  /\ At(p, "bzero")
      /\ IF k >= 0
         THEN /\ inode' = [inode EXCEPT ![i].addrs[k] = b]
              /\ disk' = [disk EXCEPT !.blocks = z]
              /\ LogWrite(p, {b})
         ELSE /\ disk' = [disk EXCEPT !.blocks = [z EXCEPT ![a][Bn(p) - NDIRECT] = b]]
              /\ LogWrite(p, {b, a}) /\ UNCHANGED inode
      /\ op' = [op EXCEPT ![p].at = "write", ![p].b = 0]
      /\ UNCHANGED <<committed, owner, outstanding, ip, fd, off, panicked, calls>>

(* The end of writei(), f->off += r and iunlock()                          *)
Written(p) ==
  LET i  == Ip(p)
      di == [inode[i] EXCEPT !.size = Max({@, Pos(p)})]
  IN  /\ At(p, "write") /\ op[p].tot = op[p].n1
      /\ inode' = [inode EXCEPT ![i] = di]
      /\ IF Pos(p) > inode[i].size
         THEN Iupdate(p, i, di)
         ELSE UNCHANGED <<disk, logged>>
      /\ off' = [off EXCEPT ![fd[p]] = Pos(p)]
      /\ op' = [op EXCEPT ![p] = [Idle EXCEPT !.at = "end",
                                   !.src = SubSeq(op[p].src, op[p].n1 + 1, Len(op[p].src))]]
      /\ Releasesleep(i)
      /\ UNCHANGED <<committed, outstanding, ip, fd, panicked, calls>>

EndOp(p) ==
  /\ At(p, "end")
  /\ outstanding' = outstanding \ {p}
  /\ logged' = [logged EXCEPT ![p] = {}]
  /\ committed' = IF outstanding' = {} THEN disk ELSE committed
  /\ Goto(p, IF op[p].src = <<>> THEN "user" ELSE "begin")
  /\ UNCHANGED <<disk, inode, owner, ip, fd, off, panicked, calls>>

-----------------------------------------------------------------------------
(* fileread(), readi().  A hole would make bmap() allocate, here outside   *)
(* any operation of p's own.                                               *)

Byte(blocks, d, k) == blocks[Addr(blocks, d, k \div BSIZE)][k % BSIZE]
Bytes(blocks, d, from, to) == [k \in 1..to - from |-> Byte(blocks, d, from + k - 1)]

FileRead(p, n) ==
  LET d  == inode[Ip(p)]
      o  == off[fd[p]]
      to == Lesser(o + n, d.size)
  IN  /\ Call(p) /\ owner[Ip(p)] = 0
      /\ o <= d.size
      /\ IF \A bn \in o \div BSIZE..(to - 1) \div BSIZE : Addr(disk.blocks, d, bn) # 0
         THEN /\ op' = [op EXCEPT ![p].at = "done", ![p].src = Bytes(disk.blocks, d, o, to)]
              /\ off' = [off EXCEPT ![fd[p]] = to]
              /\ UNCHANGED panicked
         ELSE panicked' = TRUE /\ UNCHANGED <<op, off>>
      /\ UNCHANGED <<disk, committed, inode, owner, outstanding, logged, ip, fd>>

ReturnRead(p) ==
  /\ At(p, "done") /\ op' = [op EXCEPT ![p] = Idle]
  /\ UNCHANGED <<disk, committed, inode, owner, outstanding, logged, ip, fd, off, panicked, calls>>

-----------------------------------------------------------------------------
(* The last close of a file without a name: iput() and itrunc().  The      *)
(* inode is then allocated again for the same process.                     *)

LastClose(p) ==
  /\ Call(p) /\ Ip(p) # ROOTINO
  /\ \A q \in Proc \ {p} : Ip(q) # Ip(p)
  /\ Goto(p, "begin")
  /\ UNCHANGED <<disk, committed, inode, owner, outstanding, logged, ip, fd, off, panicked>>

Iput(p) ==
  /\ At(p, "iput") /\ Goto(p, "itrunc")
  /\ Acquiresleep(p, Ip(p))
  /\ UNCHANGED <<disk, committed, inode, outstanding, logged, ip, fd, off, panicked, calls>>

(* itrunc() frees the blocks of the file in order, the indirect one last.  *)
Left(p) ==
  {bn \in op[p].tot..MAXFILE - 1 : Addr(disk.blocks, inode[Ip(p)], bn) # 0}
    \union (IF inode[Ip(p)].addrs[NDIRECT] # 0 THEN {MAXFILE} ELSE {})

Bfree(p) ==
  LET i == Ip(p)
      k == Min(Left(p))
      a == IF k < MAXFILE THEN Addr(disk.blocks, inode[i], k) ELSE inode[i].addrs[NDIRECT]
  IN  /\ At(p, "itrunc") /\ Left(p) # {}
      /\ disk' = [disk EXCEPT !.bitmap = @ \ {a}]
      /\ LogWrite(p, {BBLOCK})
      /\ inode' = IF k < NDIRECT THEN [inode EXCEPT ![i].addrs[k] = 0]
                  ELSE IF k = MAXFILE THEN [inode EXCEPT ![i].addrs[NDIRECT] = 0] ELSE inode
      /\ op' = [op EXCEPT ![p].tot = k + 1]
      /\ panicked' = (a \notin disk.bitmap)
      /\ UNCHANGED <<committed, owner, outstanding, ip, fd, off, calls>>

Truncated(p) ==
  LET i  == Ip(p)
      di == [inode[i] EXCEPT !.size = 0]
  IN  /\ At(p, "itrunc") /\ Left(p) = {}
      /\ inode' = [inode EXCEPT ![i] = di] /\ Iupdate(p, i, di)
      /\ off' = [off EXCEPT ![fd[p]] = 0]
      /\ op' = [op EXCEPT ![p] = [Idle EXCEPT !.at = "end"]]
      /\ Releasesleep(i)
      /\ UNCHANGED <<committed, outstanding, ip, fd, panicked, calls>>

-----------------------------------------------------------------------------
(* A crash, or the reboot after a panic; the files are opened again.       *)
Crash ==
  /\ disk' = committed /\ inode' = committed.dinode
  /\ owner' = [i \in Inum |-> 0]
  /\ outstanding' = {} /\ logged' = [p \in Proc |-> {}]
  /\ off' = [f \in File |-> 0]
  /\ op' = [p \in Proc |-> Idle]
  /\ panicked' = FALSE
  /\ UNCHANGED <<committed, ip, fd, calls>>

FileNext ==
  \/ \E p \in Proc :
       \/ FileWrite(p) \/ BeginOp(p) \/ Ilock(p) \/ Copy(p) \/ Balloc(p) \/ BallocPanic(p)
       \/ Bmap(p) \/ Written(p) \/ EndOp(p)
       \/ (\E n \in ReadSizes : FileRead(p, n)) \/ ReturnRead(p)
       \/ LastClose(p) \/ Iput(p) \/ Bfree(p) \/ Truncated(p)
  \/ Crash

-----------------------------------------------------------------------------
Owned(blocks, d) ==
  ({Addr(blocks, d, bn) : bn \in 0..MAXFILE - 1} \union {d.addrs[NDIRECT]}) \ {0}

Whole(img) ==
  LET own == [i \in Inum |-> Owned(img.blocks, img.dinode[i])]
  IN  /\ img.bitmap = (0..nmeta - 1) \union UNION {own[i] : i \in Inum}
      /\ \A i, j \in Inum : i < j => own[i] \intersect own[j] = {}
      /\ \A i \in Inum, bn \in 0..MAXFILE - 1 :
           bn * BSIZE < img.dinode[i].size => Addr(img.blocks, img.dinode[i], bn) # 0

(* The free map is exact: on the disk that recovery restores, and whenever *)
(* no operation is in progress, the blocks marked in use are those of the  *)
(* files, no block belongs to two files and no file has a hole below its   *)
(* size (balloc, bfree, bmap and itrunc keep it so, fs.c:57-434, and       *)
(* mkfs.c begins so).                                                      *)
BlocksOwned ==
  /\ Whole(committed)
  /\ outstanding = {} => Whole(disk) /\ inode = disk.dinode

(* No operation logs more blocks than begin_op() reserved for it: the      *)
(* chunks of filewrite() fit with their inode, indirect and bitmap blocks  *)
(* (file.c:127-133), and so does itrunc().                                 *)
OpFits == \A p \in Proc : Cardinality(logged[p]) <= MAXOPBLOCKS

Truncating(i) == \E p \in Proc : Ip(p) = i /\ op[p].at = "itrunc"
Size(i) ==
  IF owner[i] = 0 THEN inode[i].size
  ELSE Max({inode[i].size, off[fd[owner[i]]] + op[owner[i]].tot})

(* The bytes of the files, whatever blocks they are in: a write is seen    *)
(* block by block, a truncation at once.                                   *)
Files == INSTANCE ByteFiles WITH
  MaxSize <- MAXFILE * BSIZE,
  content <- [i \in Inum |-> IF Truncating(i) THEN <<>> ELSE Bytes(disk.blocks, inode[i], 0, Size(i))],
  saved   <- [i \in Inum |-> Bytes(committed.blocks, committed.dinode[i], 0, committed.dinode[i].size)],
  off     <- [f \in File |-> IF Truncating(ip[f]) THEN 0 ELSE off[f]],
  writer  <- [i \in Inum |-> IF Truncating(i) THEN 0 ELSE owner[i]],
  todo    <- [p \in Proc |-> IF op[p].at = "done" THEN <<>> ELSE op[p].src],
  put     <- [p \in Proc |-> IF op[p].at = "itrunc" THEN 0 ELSE op[p].tot],
  got     <- [p \in Proc |-> IF op[p].at = "done" THEN op[p].src ELSE <<>>]
=============================================================================
