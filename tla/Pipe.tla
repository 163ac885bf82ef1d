-------------------------------- MODULE Pipe --------------------------------
(***************************************************************************)
(* Pipes (pipe.c) under the file table (file.c) and the descriptors of     *)
(* processes (sysfile.c, and what fork() and exit() do to them).           *)
(*                                                                         *)
(* There is one page for a pipe, so sys_pipe() can fail in kalloc() and a  *)
(* freed pipe is soon another's.  p->lock is held between actions only by  *)
(* a process in Sleeping: the test of killed and the sleep() are two       *)
(* steps, with kill() possible in between.  Files that are no pipes have   *)
(* the type "INODE"; their iput() belongs to another module.               *)
(***************************************************************************)
EXTENDS Integers, Sequences, FiniteSets, FiniteSetsExt

CONSTANTS
  Process,       \* processes, alive or not yet forked
  NFILE, NOFILE,
  PIPESIZE,
  Uint,       \* 2^w: nread and nwrite count modulo this
  Requests,   \* bound: what processes write, sequences of bytes
  MaxRead     \* bound: how much they read at a time

(* 512 divides 2^32, so the place of a byte in the ring goes on where the  *)
(* counters wrap.                                                          *)
ASSUME PipeSizes ==
  /\ PIPESIZE \in Nat \ {0} /\ Uint \in Nat /\ PIPESIZE < Uint
  /\ Uint % PIPESIZE = 0
ASSUME FileSizes == NFILE \in Nat \ {0} /\ NOFILE \in Nat /\ MaxRead \in Nat
ASSUME Processes == IsFiniteSet(Process)

Byte == 0..255
ASSUME RequestBytes == Requests \subseteq Seq(Byte)

File == 1..NFILE
Fd == 0..NOFILE - 1
None == 0
Ring == 0..PIPESIZE - 1

VARIABLES
  ftable,     \* struct file: ref, and type, with writable for pipes
  ofile,      \* ofile[p][fd]
  page,       \* the page of the pipe: "free" or "used"
  data, nread, nwrite, readopen, writeopen,
  ppc,        \* where each process is: "user", "dead", a step of a call
  got,        \* files allocated by sys_pipe() so far
  todo,       \* files a process has still to pass to fileclose()
  buf, ret,   \* bytes still to write; "eof" or "err" when a call returned so
  killed

pipe == <<page, data, nread, nwrite, readopen, writeopen>>
call == <<got, todo, buf, ret>>
pipeVars == <<ftable, ofile, pipe, ppc, call, killed>>

Junk == 1   \* what kfree() fills a page with

NoFile == [ref |-> 0, type |-> "NONE"]

(* The first process has file 1, the console, open n times.                *)
PipeStart(first, n) ==
  /\ ftable = [f \in File |-> IF f = 1 THEN [ref |-> n, type |-> "INODE"] ELSE NoFile]
  /\ ofile = [p \in Process |-> [d \in Fd |-> IF p = first /\ d < n THEN 1 ELSE None]]
  /\ page = "free" /\ data = [i \in Ring |-> Junk]
  /\ nread = Junk /\ nwrite = Junk /\ readopen = FALSE /\ writeopen = FALSE
  /\ ppc = [p \in Process |-> IF p = first THEN "user" ELSE "dead"]
  /\ got = [p \in Process |-> <<>>] /\ todo = [p \in Process |-> <<>>]
  /\ buf = [p \in Process |-> <<>>] /\ ret = [p \in Process |-> "none"]
  /\ killed = [p \in Process |-> FALSE]

PipeInit == \E p \in Process, n \in 1..NOFILE : PipeStart(p, n)

-----------------------------------------------------------------------------
Sleeping == {"wfull", "rempty"}   \* inside p->lock, about to sleep
Unlocked == \A p \in Process : ppc[p] \notin Sleeping

At(p, l) == ppc[p] = l
Goto(p, l) == ppc' = [ppc EXCEPT ![p] = l]
Finish(p, r) == Goto(p, "user") /\ ret' = [ret EXCEPT ![p] = r]

(* wakeup(&pipe->nread) and wakeup(&pipe->nwrite) as a change of ppc       *)
WakeReaders(f) == [p \in Process |-> IF f[p] = "rsleep" THEN "read" ELSE f[p]]
WakeWriters(f) == [p \in Process |-> IF f[p] = "wsleep" THEN "write" ELSE f[p]]

(* A process in user space makes a call; a killed one exits instead.       *)
MayCall(p) == At(p, "user") /\ ~killed[p]

-----------------------------------------------------------------------------
(* sys_pipe(): filealloc() twice, kalloc(), fdalloc() twice                *)

SysPipe(p) ==
  /\ MayCall(p)
  /\ Goto(p, "filealloc")
  /\ got' = [got EXCEPT ![p] = <<>>]
  /\ ret' = [ret EXCEPT ![p] = "none"]
  /\ UNCHANGED <<ftable, ofile, pipe, todo, buf, killed>>

(* Where a call goes on that has the files fs to close and then returns r  *)
After(fs, r) == IF fs # <<>> THEN "fileclose" ELSE IF r = "exit" THEN "exit" ELSE "user"

CloseRest(p, fs, r) ==
  /\ todo' = [todo EXCEPT ![p] = fs]
  /\ ret' = [ret EXCEPT ![p] = r]
  /\ Goto(p, After(fs, r))

(* Variant: the first file is forgotten when a later step fails.           *)
UndoLast(p) ==
  CloseRest(p, IF got[p] = <<>> THEN <<>> ELSE Tail(got[p]), "none")
    /\ got' = [got EXCEPT ![p] = <<>>]

(* The bad: paths give every file allocated so far to fileclose().         *)
Undo(p) == CloseRest(p, got[p], "none") /\ got' = [got EXCEPT ![p] = <<>>]

FileAlloc(p) ==
  /\ At(p, "filealloc")
  /\ LET free == {f \in File : ftable[f].ref = 0} IN
       IF free = {}
       THEN Undo(p) /\ UNCHANGED ftable
       ELSE /\ ftable' = [ftable EXCEPT ![Min(free)].ref = 1]
            /\ got' = [got EXCEPT ![p] = Append(@, Min(free))]
            /\ Goto(p, IF got[p] = <<>> THEN "filealloc" ELSE "kalloc")
            /\ UNCHANGED <<todo, ret>>
  /\ UNCHANGED <<ofile, pipe, buf, killed>>

PipeAlloc(p) ==
  /\ At(p, "kalloc")
  /\ IF page = "used"
     THEN Undo(p) /\ UNCHANGED <<ftable, pipe>>
     ELSE /\ page' = "used"
          /\ readopen' = TRUE /\ writeopen' = TRUE
          /\ nread' = 0 /\ nwrite' = 0
          /\ ftable' = [ftable EXCEPT ![got[p][1]].type = "PIPE_R", ![got[p][2]].type = "PIPE_W"]
          /\ Goto(p, "fdalloc")
          /\ UNCHANGED <<data, got, todo, ret>>
  /\ UNCHANGED <<ofile, buf, killed>>

FreeFds(p) == {d \in Fd : ofile[p][d] = None}

FdAlloc(p) ==
  /\ At(p, "fdalloc")
  /\ IF Cardinality(FreeFds(p)) < 2
     THEN Undo(p) /\ UNCHANGED ofile
     ELSE LET d0 == Min(FreeFds(p))
              d1 == Min(FreeFds(p) \ {d0})
          IN /\ ofile' = [ofile EXCEPT ![p][d0] = got[p][1], ![p][d1] = got[p][2]]
             /\ got' = [got EXCEPT ![p] = <<>>]
             /\ Finish(p, "none")
             /\ UNCHANGED todo
  /\ UNCHANGED <<ftable, pipe, buf, killed>>

-----------------------------------------------------------------------------
(* sys_dup(), sys_close(), fork(), exit() and fileclose()                  *)

SysDup(p, d) ==
  /\ MayCall(p) /\ ofile[p][d] # None /\ FreeFds(p) # {}
  /\ ofile' = [ofile EXCEPT ![p][Min(FreeFds(p))] = ofile[p][d]]
  /\ ftable' = [ftable EXCEPT ![ofile[p][d]].ref = @ + 1]
  /\ UNCHANGED <<pipe, ppc, call, killed>>

SysClose(p, d) ==
  /\ MayCall(p) /\ ofile[p][d] # None
  /\ ofile' = [ofile EXCEPT ![p][d] = None]
  /\ CloseRest(p, <<ofile[p][d]>>, "none")
  /\ UNCHANGED <<ftable, pipe, got, buf, killed>>

Count(s, f) == Cardinality({i \in DOMAIN s : s[i] = f})

Fork(p, q) ==
  /\ MayCall(p) /\ At(q, "dead")
  /\ ofile' = [ofile EXCEPT ![q] = ofile[p]]
  /\ ftable' = [f \in File |-> [ftable[f] EXCEPT !.ref = @ + Count(ofile[p], f)]]
  /\ Goto(q, "user")
  /\ ret' = [ret EXCEPT ![q] = "none"]
  /\ UNCHANGED <<pipe, got, todo, buf, killed>>

OpenFds(p) == {d \in Fd : ofile[p][d] # None}

(* exit() passes its files to fileclose() one after the other.  When there *)
(* is none left, the rest of it and the parent's wait(), which clears      *)
(* killed, are one step.                                                   *)
ExitFiles(p) ==
  /\ IF OpenFds(p) = {}
     THEN /\ Goto(p, "dead")
          /\ ret' = [ret EXCEPT ![p] = "exit"]
          /\ killed' = [killed EXCEPT ![p] = FALSE]
          /\ UNCHANGED <<ofile, todo>>
     ELSE LET d == Min(OpenFds(p)) IN
          /\ ofile' = [ofile EXCEPT ![p][d] = None]
          /\ CloseRest(p, <<ofile[p][d]>>, "exit")
          /\ UNCHANGED killed
  /\ UNCHANGED <<ftable, pipe, got, buf>>

Exit(p) == At(p, "user") /\ ExitFiles(p)
ExitMore(p) == At(p, "exit") /\ ExitFiles(p)

IsPipe(f) == f.type \in {"PIPE_R", "PIPE_W"}

(* fileclose() under ftable.lock; the last close of a pipe goes on.        *)
FileClose(p) ==
  /\ At(p, "fileclose")
  /\ LET f == Head(todo[p])
         ff == ftable[f]
     IN /\ ftable' = [ftable EXCEPT ![f].ref = ff.ref - 1,
                                    ![f].type = IF ff.ref > 1 THEN @ ELSE "NONE"]
        /\ Goto(p, IF ff.ref > 1 \/ ~IsPipe(ff) THEN After(Tail(todo[p]), ret[p])
                   ELSE IF ff.type = "PIPE_W" THEN "closew" ELSE "closer")
        /\ todo' = [todo EXCEPT ![p] = Tail(@)]
  /\ UNCHANGED <<ofile, pipe, got, buf, ret, killed>>

(* pipeclose() wakes the other side.                                       *)
Woken(f, end) == IF end = "closew" THEN WakeReaders(f) ELSE WakeWriters(f)

(* pipeclose(), up to the release of p->lock; kfree() comes after it.      *)
PipeClose(p) ==
  /\ ppc[p] \in {"closer", "closew"} /\ Unlocked
  /\ readopen' = (readopen /\ At(p, "closew"))
  /\ writeopen' = (writeopen /\ At(p, "closer"))
  /\ ppc' = [Woken(ppc, ppc[p]) EXCEPT
                ![p] = IF readopen' \/ writeopen' THEN After(todo[p], ret[p]) ELSE "kfree"]
  /\ UNCHANGED <<ftable, ofile, page, data, nread, nwrite, call, killed>>

PipeFree(p) ==
  /\ At(p, "kfree")
  /\ page' = "free" /\ data' = [i \in Ring |-> Junk] /\ nread' = Junk /\ nwrite' = Junk
  /\ Goto(p, After(todo[p], ret[p]))
  /\ UNCHANGED <<ftable, ofile, readopen, writeopen, call, killed>>

-----------------------------------------------------------------------------
(* sys_write() and sys_read() of a pipe                                    *)

Start(p, l, s) ==
  /\ MayCall(p) /\ Goto(p, l)
  /\ buf' = [buf EXCEPT ![p] = s]
  /\ ret' = [ret EXCEPT ![p] = "none"]
  /\ UNCHANGED <<ftable, ofile, pipe, got, todo, killed>>

Opens(p, d, t) == ofile[p][d] # None /\ ftable[ofile[p][d]].type = t

SysWrite(p, d, s) == Opens(p, d, "PIPE_W") /\ Start(p, "write", s)
SysRead(p, d) == Opens(p, d, "PIPE_R") /\ Start(p, "read", <<>>)

(* Bytes until the test of pipewrite() finds the ring full, and until that *)
(* of piperead() finds it empty                                            *)
RoomOneMore == (nread + PIPESIZE + 1 - nwrite) % Uint   \* (a mutant of Room) the last byte overwritten
Room == (nread + PIPESIZE - nwrite) % Uint
Avail == (nwrite - nread) % Uint

(* n bytes of s go into the ring at nwrite; the n bytes at nread           *)
Stored(s, n) ==
  [j \in Ring |-> LET is == {i \in 1..n : ((nwrite + i - 1) % Uint) % PIPESIZE = j}
                  IN IF is = {} THEN data[j] ELSE s[Max(is)]]
Fetched(n) == [i \in 1..n |-> data[((nread + i - 1) % Uint) % PIPESIZE]]

(* The loop of pipewrite() until it is done or finds the ring full         *)
PipeWrite(p) ==
  /\ At(p, "write") /\ Unlocked
  /\ LET n == Min({Len(buf[p]), Room}) IN
       /\ data' = Stored(buf[p], n)
       /\ nwrite' = (nwrite + n) % Uint
       /\ IF n = Len(buf[p])
          THEN /\ ppc' = [WakeReaders(ppc) EXCEPT ![p] = "user"]
               /\ buf' = [buf EXCEPT ![p] = <<>>] /\ UNCHANGED ret
          ELSE IF ~readopen \/ killed[p]
          THEN Finish(p, "err") /\ buf' = [buf EXCEPT ![p] = <<>>]
          ELSE /\ Goto(p, "wfull")
               /\ buf' = [buf EXCEPT ![p] = SubSeq(@, n + 1, Len(@))] /\ UNCHANGED ret
  /\ UNCHANGED <<ftable, ofile, page, nread, readopen, writeopen, got, todo, killed>>

ReadWaits(p) == Avail = 0 /\ writeopen

PipeRead(p) ==
  /\ At(p, "read") /\ Unlocked
  /\ IF ReadWaits(p)
     THEN /\ IF killed[p] THEN Finish(p, "err") ELSE Goto(p, "rempty") /\ UNCHANGED ret
          /\ UNCHANGED nread
     ELSE \E n \in {Min({m, Avail}) : m \in 1..MaxRead} :
          /\ nread' = (nread + n) % Uint
          /\ ppc' = [WakeWriters(ppc) EXCEPT ![p] = "user"]
          /\ ret' = [ret EXCEPT ![p] = IF n = 0 THEN "eof" ELSE "none"]
  /\ UNCHANGED <<ftable, ofile, page, data, nwrite, readopen, writeopen, got, todo, buf, killed>>

(* (a mutant of PipeSleep) a full pipewrite() wakes nobody                 *)
PipeSleepQuiet(p) ==
  /\ ppc[p] \in Sleeping
  /\ Goto(p, IF At(p, "wfull") THEN "wsleep" ELSE "rsleep")
  /\ UNCHANGED <<ftable, ofile, pipe, call, killed>>

(* wakeup() of the other side and sleep(), which gives up p->lock          *)
PipeSleep(p) ==
  /\ ppc[p] \in Sleeping
  /\ ppc' = IF At(p, "wfull") THEN [WakeReaders(ppc) EXCEPT ![p] = "wsleep"]
            ELSE [ppc EXCEPT ![p] = "rsleep"]
  /\ UNCHANGED <<ftable, ofile, pipe, call, killed>>

(* kill() wakes its victim wherever it sleeps.                             *)
Kill(p) ==
  /\ ~At(p, "dead") /\ ~killed[p]
  /\ killed' = [killed EXCEPT ![p] = TRUE]
  /\ ppc' = [ppc EXCEPT ![p] = CASE @ = "rsleep" -> "read" [] @ = "wsleep" -> "write" [] OTHER -> @]
  /\ UNCHANGED <<ftable, ofile, pipe, call>>

-----------------------------------------------------------------------------
(* What a process does inside the kernel                                   *)
PipeStep(p) ==
  \/ FileAlloc(p) \/ PipeAlloc(p) \/ FdAlloc(p)
  \/ ExitMore(p) \/ FileClose(p) \/ PipeClose(p) \/ PipeFree(p)
  \/ PipeWrite(p) \/ PipeRead(p) \/ PipeSleep(p)

(* Processes that make any call at any time                                *)
PipeNext ==
  \E p \in Process :
    \/ PipeStep(p) \/ SysPipe(p) \/ Exit(p) \/ Kill(p)
    \/ \E q \in Process : Fork(p, q)
    \/ \E d \in Fd : \/ SysDup(p, d) \/ SysClose(p, d) \/ SysRead(p, d)
                     \/ \E s \in Requests : SysWrite(p, d, s)

PipeSpec == PipeInit /\ [][PipeNext]_pipeVars
-----------------------------------------------------------------------------
(* Properties                                                              *)

(* What holds file f: descriptors, fileclose() calls still to come and     *)
(* sys_pipe() calls in progress                                            *)
Places(g, l) == {x \in Process \X {l} \X {1, 2} : x[3] \in DOMAIN g[x[1]]}
Holders(f) ==
  {x \in Process \X {"fd"} \X Fd : ofile[x[1]][x[3]] = f}
    \cup {x \in Places(todo, "todo") : todo[x[1]][x[3]] = f}
    \cup {x \in Places(got, "got") : got[x[1]][x[3]] = f}

(* A file's count is the number of those that hold it.                     *)
FileRefs == \A f \in File : ftable[f].ref = Cardinality(Holders(f))

(* Some file, or a pipeclose() still to come, stands for an end of the pipe*)
Held(t, closing) ==
  (\E f \in File : ftable[f].ref > 0 /\ ftable[f].type = t) \/ \E p \in Process : At(p, closing)
HeldR == Held("PIPE_R", "closer")
HeldW == Held("PIPE_W", "closew")

(* The two flags are exactly the ends still held, a call in progress holds *)
(* its end, and the page is freed once, after the last end and the last    *)
(* call, although fileclose() and pipeclose() are separate steps.          *)
PipeAlive ==
  /\ (page = "used" /\ readopen) = HeldR
  /\ (page = "used" /\ writeopen) = HeldW
  /\ \A p \in Process :
       /\ ppc[p] \in {"read", "rempty", "rsleep"} => HeldR
       /\ ppc[p] \in {"write", "wfull", "wsleep"} => HeldW
  /\ Cardinality({p \in Process : At(p, "kfree")})
       = IF page = "used" /\ ~readopen /\ ~writeopen THEN 1 ELSE 0

(* No file is leaked by a failing sys_pipe() and none is freed while in    *)
(* use; nor is a pipe (filealloc, filedup, fileclose, file.c:26-80;        *)
(* pipealloc, pipeclose, pipe.c:22-75; sys_pipe, sysfile.c:422-444).       *)
FilesHeld == FileRefs /\ PipeAlive

SleepersWait ==
  \A p \in Process : /\ At(p, "rsleep") => writeopen
                    /\ At(p, "wsleep") => Room = 0 /\ readopen
WriterLeaves ==
  \A p, q \in Process :
    /\ ppc[q] \in {"write", "wfull"} /\ ppc'[q] \notin {"write", "wfull"}
    /\ ~killed[q]
    => ppc'[p] # "rsleep"

(* A reader asleep has a writer to wait for; a writer asleep has no room   *)
(* and a reader to wait for; and a writer that returns or goes to sleep    *)
(* leaves no reader asleep over the bytes it wrote, unless it was killed   *)
(* (pipeclose, pipewrite, piperead, pipe.c:59-121).                        *)
PipeSleepers == []SleepersWait /\ [][WriterLeaves]_pipeVars

Queue == INSTANCE ByteQueue WITH
  queue <- IF page = "used" /\ (readopen \/ writeopen) THEN Fetched(Avail) ELSE <<>>,
  ends <- (IF page = "used" /\ readopen THEN {"r"} ELSE {})
            \cup (IF page = "used" /\ writeopen THEN {"w"} ELSE {}),
  Capacity <- PIPESIZE

(* The ring with its wrapping counters is a queue of bytes: whatever is    *)
(* written is read once and in order, across wrap-around, full and empty   *)
(* rings, closes and kills; 0 is returned only at the end of the stream.   *)
PipeQueue == Queue!Spec
=============================================================================
