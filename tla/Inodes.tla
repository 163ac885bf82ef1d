------------------------------- MODULE Inodes -------------------------------
(***************************************************************************)
(* Inodes, directories and path names (fs.c) and the system calls on them  *)
(* (sysfile.c: open, create, mkdir, mknod, link, unlink, chdir; file.c:    *)
(* fileclose), with transactions and crashes.                              *)
(*                                                                         *)
(* A step is the code from one acquiresleep() to the next, cut where other *)
(* processes can see the difference: in iput(), and where a reference is   *)
(* dropped.  As in the log's own module, what the outstanding operations   *)
(* wrote is on the disk when the last of them has ended.  A process has at *)
(* most one file open.  Paths are sequences of names; they start at the    *)
(* root or (FALSE) at the current directory.                               *)
(***************************************************************************)
EXTENDS Integers, Sequences, FiniteSets, FiniteSetsExt

CONSTANTS
  Proc,
  NINODES,           \* inodes on the disk
  Names,
  Trees,             \* directory trees on the disk at the start
  Mixes              \* bounds: how many calls are made (max), which ones on
                     \* which paths, <<absolute, names>> (calls, a function),
                     \* and the slots of icache (NINODE)

Inum == 1..NINODES
ROOTINO == 1
Dots == {".", ".."}

VARIABLES
  dinode,            \* type, nlink and, of a directory, the entries
  committed,         \* the same, on the disk after recovery
  icache, lock,      \* struct inode; who holds its sleep lock (0: nobody)
  cwd, ofile,        \* slots of each process' directory and open file
  c,                 \* the call each process is in
  outstanding, panicked,
  strayed,           \* (history) a path went up to a directory without links
  mix, calls         \* the bounds of this behaviour; calls made so far

inodeVars == <<dinode, committed, icache, lock, cwd, ofile, c, outstanding, panicked, strayed,
               mix, calls>>

NINODE == mix.NINODE
Slot == 1..NINODE

NoEntries == [n \in Names \union Dots |-> 0]
FreeInode == [type |-> "NONE", nlink |-> 0, dir |-> NoEntries]
FreeSlot == [inum |-> 0, ref |-> 0, valid |-> FALSE, type |-> "NONE", nlink |-> 0]

(* The call, its next step, the path left and where it leads, the path of  *)
(* the new link; inum: the inode ialloc() took; dp, ip and old: its        *)
(* pointers; drop: the slot iput() is called for, then: what comes after.  *)
Idle == [call |-> "none", at |-> "user", path |-> <<>>, to |-> "", new |-> <<>>,
         inum |-> 0, dp |-> 0, ip |-> 0, old |-> 0, drop |-> 0, then |-> ""]

(* After boot every process is in the root directory.                      *)
Booted ==
  [icache |-> [s \in Slot |->
     IF s = 1 THEN [FreeSlot EXCEPT !.inum = ROOTINO, !.ref = Cardinality(Proc)] ELSE FreeSlot],
   cwd |-> [p \in Proc |-> 1]]

InodeInit ==
  /\ mix \in Mixes /\ calls = 0
  /\ dinode \in Trees /\ committed = dinode
  /\ icache = Booted.icache /\ lock = [s \in Slot |-> 0]
  /\ cwd = Booted.cwd /\ ofile = [p \in Proc |-> 0]
  /\ c = [p \in Proc |-> Idle]
  /\ outstanding = {} /\ panicked = "no" /\ strayed = FALSE

-----------------------------------------------------------------------------
At(p, l) == panicked = "no" /\ c[p].at = l
Become(p, r) == c' = [c EXCEPT ![p] = r]
ThenPut(r, s, next) == [r EXCEPT !.at = "iput", !.drop = s, !.then = next]

(* iget(): the slot of inode i, or 0, and the cache with one more          *)
(* reference to it; Got stops the machine if all slots are taken.          *)
SlotOf(ic, i) ==
  LET hit  == {s \in Slot : ic[s].ref > 0 /\ ic[s].inum = i}
      free == {s \in Slot : ic[s].ref = 0}
  IN  IF hit # {} THEN Min(hit) ELSE IF free # {} THEN Min(free) ELSE 0
Iget(ic, i) ==
  IF SlotOf(ic, i) = 0 THEN ic
  ELSE [ic EXCEPT ![SlotOf(ic, i)] = IF @.ref > 0 THEN [@ EXCEPT !.ref = @ + 1]
                                     ELSE [FreeSlot EXCEPT !.inum = i, !.ref = 1]]
Got(ic, i) ==
  /\ icache' = Iget(ic, i)
  /\ panicked' = IF SlotOf(ic, i) = 0 THEN "iget: no inodes" ELSE "no"
Idup(ic, s) == [ic EXCEPT ![s].ref = @ + 1]

(* ilock(): the copy as it is once locked; `no type' is a panic.           *)
Inode(s) ==
  IF icache[s].valid THEN icache[s]
  ELSE [icache[s] EXCEPT !.valid = TRUE, !.type = dinode[icache[s].inum].type,
                         !.nlink = dinode[icache[s].inum].nlink]
Ilock(s) == lock[s] = 0 /\ Inode(s).type # "NONE"
Loaded(s) == [icache EXCEPT ![s] = Inode(s)]
Entry(s, n) == dinode[icache[s].inum].dir[n]

(* The slot that a process locks next                                      *)
Target(p) ==
  CASE c[p].at = "iput" -> c[p].drop
    [] c[p].at \in {"create", "unlink", "link2"} -> c[p].dp
    [] c[p].at \in {"walk", "open", "exists", "new", "unlink2", "chdir", "link"} -> c[p].ip
    [] c[p].at = "linkbad" -> c[p].old
    [] OTHER -> 0

IlockPanic(p) ==
  /\ panicked = "no" /\ Target(p) # 0 /\ c[p].at # "iput"
  /\ lock[Target(p)] = 0 /\ Inode(Target(p)).type = "NONE"
  /\ panicked' = "ilock: no type"
  /\ UNCHANGED <<dinode, committed, icache, lock, cwd, ofile, c, outstanding, calls, strayed, mix>>

-----------------------------------------------------------------------------
(* Calls begin with begin_op(), namex() with iget() or idup().             *)

IsParent(to) == to \in {"create", "unlink", "link2"}
WalkTo(call) ==
  CASE call \in {"creat", "mkdir", "mknod"} -> "create"
    [] call \in {"open", "openwrite"} -> "open"
    [] call \in {"unlink", "link", "chdir"} -> call
From(p, path) == IF path[1] THEN SlotOf(icache, ROOTINO) ELSE cwd[p]

Begin(p, call, path, new) ==
  /\ At(p, "user") /\ calls < mix.max /\ calls' = calls + 1
  /\ outstanding' = outstanding \union {p}
  /\ Become(p, [Idle EXCEPT !.call = call, !.at = "walk", !.path = path[2], !.to = WalkTo(call),
                            !.new = new, !.ip = From(p, path)])
  /\ IF path[1] THEN Got(icache, ROOTINO)
     ELSE icache' = Idup(icache, cwd[p]) /\ UNCHANGED panicked
  /\ UNCHANGED <<dinode, committed, lock, cwd, ofile, strayed, mix>>

(* fileclose() of the last reference to a file                             *)
FileClose(p) ==
  /\ At(p, "user") /\ calls < mix.max /\ calls' = calls + 1
  /\ ofile[p] # 0 /\ ofile' = [ofile EXCEPT ![p] = 0]
  /\ outstanding' = outstanding \union {p}
  /\ Become(p, ThenPut([Idle EXCEPT !.call = "close"], ofile[p], "end"))
  /\ UNCHANGED <<dinode, committed, icache, lock, cwd, panicked, strayed, mix>>

EndOp(p) ==
  /\ At(p, "end")
  /\ outstanding' = outstanding \ {p}
  /\ committed' = IF outstanding' = {} THEN dinode ELSE committed
  /\ Become(p, Idle)
  /\ UNCHANGED <<dinode, icache, lock, cwd, ofile, calls, panicked, strayed, mix>>

-----------------------------------------------------------------------------
(* namex(), one path element                                               *)

ToNext(r, next) == [r EXCEPT !.ip = next, !.path = Tail(@)]
After(r) == IF Len(r.path) = 1 THEN r.to ELSE "walk"

DescendLocked(p, r, ic, next) ==   \* (a mutant of Descend) without iunlockput()
  /\ lock' = [lock EXCEPT ![r.ip] = p]
  /\ Become(p, [ToNext(r, SlotOf(ic, next)) EXCEPT !.at = After(r)])

Descend(p, r, ic, next) ==
  /\ UNCHANGED lock
  /\ Become(p, ThenPut(ToNext(r, SlotOf(ic, next)), r.ip, After(r)))

Walk(p) ==
  LET r    == c[p]
      s    == r.ip
      next == Entry(s, Head(r.path))
      fail == IF r.to = "link2" THEN "linkbad" ELSE "end"
      gone == ThenPut([r EXCEPT !.ip = 0], s, fail)
      ic   == Loaded(s)
  IN  /\ At(p, "walk") /\ Ilock(s)
      /\ \/ /\ Inode(s).type # "DIR"
            /\ icache' = ic /\ Become(p, gone) /\ UNCHANGED <<lock, panicked, strayed>>
         \/ /\ Inode(s).type = "DIR" /\ IsParent(r.to) /\ Len(r.path) = 1
            /\ icache' = ic /\ Become(p, [r EXCEPT !.at = r.to, !.dp = s, !.ip = 0])
            /\ UNCHANGED <<lock, panicked, strayed>>
         \/ /\ Inode(s).type = "DIR" /\ ~(IsParent(r.to) /\ Len(r.path) = 1)
            /\ IF next = 0 THEN icache' = ic /\ Become(p, gone) /\ UNCHANGED <<lock, panicked>>
               ELSE Got(ic, next) /\ Descend(p, r, ic, next)
            /\ strayed' = (strayed \/ (Head(r.path) = ".." /\ dinode[next].nlink = 0))
      /\ UNCHANGED <<dinode, committed, cwd, ofile, outstanding, calls, mix>>

-----------------------------------------------------------------------------
(* iput(): another process can come between the test of ref and ref--, and *)
(* between the inode being free on the disk and the slot being invalid.    *)

IputStale(p) ==   \* (a mutant of IputFreed) the slot stays valid
  /\ At(p, "iputfree")
  /\ lock' = [lock EXCEPT ![c[p].drop] = 0]
  /\ Become(p, [c[p] EXCEPT !.at = "ref--"])
  /\ UNCHANGED <<dinode, committed, icache, cwd, ofile, outstanding, calls, panicked, strayed, mix>>

LastRef(s) == icache[s].ref = 1

Iput(p) ==
  LET s == c[p].drop
      i == icache[s].inum
  IN  /\ At(p, "iput") /\ lock[s] = 0
      /\ IF icache[s].valid /\ icache[s].nlink = 0 /\ LastRef(s)
         THEN /\ dinode' = [dinode EXCEPT ![i] = FreeInode]
              /\ icache' = [icache EXCEPT ![s].type = "NONE"]
              /\ lock' = [lock EXCEPT ![s] = p]
              /\ Become(p, [c[p] EXCEPT !.at = "iputfree"])
         ELSE /\ UNCHANGED <<dinode, icache, lock>>
              /\ Become(p, [c[p] EXCEPT !.at = "ref--"])
      /\ UNCHANGED <<committed, cwd, ofile, outstanding, calls, panicked, strayed, mix>>

IputFreed(p) ==
  /\ At(p, "iputfree")
  /\ icache' = [icache EXCEPT ![c[p].drop].valid = FALSE]
  /\ lock' = [lock EXCEPT ![c[p].drop] = 0]
  /\ Become(p, [c[p] EXCEPT !.at = "ref--"])
  /\ UNCHANGED <<dinode, committed, cwd, ofile, outstanding, calls, panicked, strayed, mix>>

(* What a slot without references holds is never read again.               *)
DropRef(p) ==
  /\ At(p, "ref--")
  /\ icache' = [icache EXCEPT ![c[p].drop] =
                  IF @.ref = 1 THEN FreeSlot ELSE [@ EXCEPT !.ref = @ - 1]]
  /\ Become(p, [c[p] EXCEPT !.at = c[p].then, !.drop = 0, !.then = ""])
  /\ UNCHANGED <<dinode, committed, lock, cwd, ofile, outstanding, calls, panicked, strayed, mix>>

-----------------------------------------------------------------------------
(* sys_open() without O_CREATE, for reading ("open") or for writing, and   *)
(* the end of it with O_CREATE                                             *)

(* filealloc() and fdalloc(), iunlock(): a process that has a file open    *)
(* already gets no second one.                                             *)
OpenFile(p, r) ==
  IF ofile[p] # 0
  THEN Become(p, ThenPut([r EXCEPT !.ip = 0], r.ip, "end")) /\ UNCHANGED ofile
  ELSE Become(p, [r EXCEPT !.ip = 0, !.at = "end"]) /\ ofile' = [ofile EXCEPT ![p] = r.ip]

SysOpen(p) ==
  /\ At(p, "open") /\ Ilock(c[p].ip)
  /\ icache' = Loaded(c[p].ip)
  /\ IF c[p].call = "openwrite" /\ Inode(c[p].ip).type = "DIR"
     THEN Become(p, ThenPut([c[p] EXCEPT !.ip = 0], c[p].ip, "end")) /\ UNCHANGED ofile
     ELSE OpenFile(p, c[p])
  /\ UNCHANGED <<dinode, committed, lock, cwd, outstanding, calls, panicked, strayed, mix>>

-----------------------------------------------------------------------------
(* create(): for sys_open() with O_CREATE, sys_mkdir() and sys_mknod()     *)

TypeOf(call) == CASE call = "creat" -> "FILE" [] call = "mkdir" -> "DIR" [] call = "mknod" -> "DEV"
FreeInums == {i \in Inum : dinode[i].type = "NONE"}

Create(p) ==
  LET r  == c[p]
      e  == Entry(r.dp, Head(r.path))
      ic == Loaded(r.dp)
  IN  /\ At(p, "create") /\ Ilock(r.dp)
      /\ \/ /\ e # 0
            /\ Got(ic, e)
            /\ Become(p, ThenPut([r EXCEPT !.dp = 0, !.ip = SlotOf(ic, e)], r.dp, "exists"))
            /\ UNCHANGED <<dinode, lock>>
         \/ /\ e = 0 /\ FreeInums # {}   \* ialloc()
            /\ LET i == Min(FreeInums)
               IN  /\ dinode' = [dinode EXCEPT ![i] = [FreeInode EXCEPT !.type = TypeOf(r.call)]]
                   /\ Become(p, [r EXCEPT !.at = "ialloc", !.inum = i])
            /\ icache' = ic /\ lock' = [lock EXCEPT ![r.dp] = p]
            /\ UNCHANGED panicked
         \/ /\ e = 0 /\ FreeInums = {}
            /\ panicked' = "ialloc: no inodes"
            /\ UNCHANGED <<dinode, icache, lock, c>>
      /\ UNCHANGED <<committed, cwd, ofile, outstanding, calls, strayed, mix>>

(* ialloc() calls iget() when the inode is allocated on the disk already.  *)
Ialloc(p) ==
  /\ At(p, "ialloc")
  /\ Got(icache, c[p].inum)
  /\ Become(p, [c[p] EXCEPT !.at = "new", !.ip = SlotOf(icache, c[p].inum), !.inum = 0])
  /\ UNCHANGED <<dinode, committed, lock, cwd, ofile, outstanding, calls, strayed, mix>>

Exists(p) ==
  LET r == c[p]
  IN  /\ At(p, "exists") /\ Ilock(r.ip)
      /\ icache' = Loaded(r.ip)
      /\ IF r.call = "creat" /\ Inode(r.ip).type = "FILE"
         THEN OpenFile(p, r)
         ELSE Become(p, ThenPut([r EXCEPT !.ip = 0], r.ip, "end")) /\ UNCHANGED ofile
      /\ UNCHANGED <<dinode, committed, lock, cwd, outstanding, calls, panicked, strayed, mix>>

UpLinksNone(call) == 0   \* (a mutant of UpLinks) the link of ".." not counted
UpLinks(call) == IF call = "mkdir" THEN 1 ELSE 0

New(p) ==
  LET r   == c[p]
      i   == icache[r.ip].inum
      d   == icache[r.dp].inum
      dir == r.call = "mkdir"
      up  == UpLinks(r.call)
  IN  /\ At(p, "new") /\ Ilock(r.ip)
      /\ icache' = [icache EXCEPT ![r.ip] = [Inode(r.ip) EXCEPT !.nlink = 1],
                                  ![r.dp].nlink = @ + up]
      /\ dinode' = [dinode EXCEPT
           ![i].nlink = 1,
           ![i].dir = IF dir THEN [@ EXCEPT !["."] = i, ![".."] = d] ELSE @,
           ![d].nlink = @ + up, ![d].dir[Head(r.path)] = i]
      /\ lock' = [lock EXCEPT ![r.ip] = p, ![r.dp] = 0]
      /\ Become(p, ThenPut([r EXCEPT !.dp = 0], r.dp, "created"))
      /\ UNCHANGED <<committed, cwd, ofile, outstanding, calls, panicked, strayed, mix>>

Created(p) ==
  LET r == c[p]
  IN  /\ At(p, "created")
      /\ lock' = [lock EXCEPT ![r.ip] = 0]
      /\ IF r.call = "creat" THEN OpenFile(p, r)
         ELSE Become(p, ThenPut([r EXCEPT !.ip = 0], r.ip, "end")) /\ UNCHANGED ofile
      /\ UNCHANGED <<dinode, committed, icache, cwd, outstanding, calls, panicked, strayed, mix>>

-----------------------------------------------------------------------------
(* sys_unlink()                                                            *)

Unlink(p) ==
  LET r  == c[p]
      n  == Head(r.path)
      e  == Entry(r.dp, n)
      ic == Loaded(r.dp)
  IN  /\ At(p, "unlink") /\ Ilock(r.dp)
      /\ IF n \in Dots \/ e = 0
         THEN /\ icache' = ic /\ UNCHANGED <<lock, panicked>>
              /\ Become(p, ThenPut([r EXCEPT !.dp = 0], r.dp, "end"))
         ELSE /\ Got(ic, e) /\ lock' = [lock EXCEPT ![r.dp] = p]
              /\ Become(p, [r EXCEPT !.ip = SlotOf(ic, e), !.at = "unlink2"])
      /\ UNCHANGED <<dinode, committed, cwd, ofile, outstanding, calls, strayed, mix>>

IsDirEmpty(i) == \A n \in Names : dinode[i].dir[n] = 0

UnlinkName(p) ==
  LET r  == c[p]
      i  == icache[r.ip].inum
      d  == icache[r.dp].inum
      dn == IF Inode(r.ip).type = "DIR" THEN 1 ELSE 0
  IN  /\ At(p, "unlink2") /\ Ilock(r.ip)
      /\ \/ /\ Inode(r.ip).nlink < 1
            /\ panicked' = "unlink: nlink < 1" /\ UNCHANGED <<dinode, icache, lock, c>>
         \/ /\ Inode(r.ip).nlink >= 1 /\ Inode(r.ip).type = "DIR" /\ ~IsDirEmpty(i)
            /\ icache' = Loaded(r.ip)
            /\ Become(p, ThenPut([r EXCEPT !.ip = 0], r.ip, "bad"))
            /\ UNCHANGED <<dinode, lock, panicked>>
         \/ /\ Inode(r.ip).nlink >= 1 /\ (Inode(r.ip).type = "DIR" => IsDirEmpty(i))
            /\ dinode' = [dinode EXCEPT ![d].dir[Head(r.path)] = 0, ![d].nlink = @ - dn]
            /\ icache' = [Loaded(r.ip) EXCEPT ![r.dp].nlink = @ - dn]
            /\ lock' = [lock EXCEPT ![r.ip] = p, ![r.dp] = 0]
            /\ Become(p, ThenPut([r EXCEPT !.dp = 0], r.dp, "unlinked"))
            /\ UNCHANGED panicked
      /\ UNCHANGED <<committed, cwd, ofile, outstanding, calls, strayed, mix>>

Unlinked(p) ==
  LET s == c[p].ip
  IN  /\ At(p, "unlinked")
      /\ icache' = [icache EXCEPT ![s].nlink = @ - 1]
      /\ dinode' = [dinode EXCEPT ![icache[s].inum].nlink = @ - 1]
      /\ lock' = [lock EXCEPT ![s] = 0]
      /\ Become(p, ThenPut([c[p] EXCEPT !.ip = 0], s, "end"))
      /\ UNCHANGED <<committed, cwd, ofile, outstanding, calls, panicked, strayed, mix>>

(* iunlockput(dp) on the way out of sys_unlink() and sys_link()            *)
Bad(p) ==
  LET r == c[p]
  IN  /\ At(p, "bad")
      /\ lock' = [lock EXCEPT ![r.dp] = 0]
      /\ Become(p, ThenPut([r EXCEPT !.dp = 0], r.dp, IF r.call = "link" THEN "linkbad" ELSE "end"))
      /\ UNCHANGED <<dinode, committed, icache, cwd, ofile, outstanding, calls, panicked, strayed, mix>>

-----------------------------------------------------------------------------
(* sys_link(): ip->nlink first, then the name                              *)

Link(p) ==
  LET r  == c[p]
      ic == [Loaded(r.ip) EXCEPT ![r.ip].nlink = @ + 1]
  IN  /\ At(p, "link") /\ Ilock(r.ip)
      /\ IF Inode(r.ip).type = "DIR"
         THEN /\ icache' = Loaded(r.ip) /\ UNCHANGED <<dinode, panicked>>
              /\ Become(p, ThenPut([r EXCEPT !.ip = 0], r.ip, "end"))
         ELSE /\ dinode' = [dinode EXCEPT ![icache[r.ip].inum].nlink = @ + 1]
              /\ IF r.new[1] THEN Got(ic, ROOTINO)
                 ELSE icache' = Idup(ic, cwd[p]) /\ UNCHANGED panicked
              /\ Become(p, [r EXCEPT !.old = r.ip, !.ip = From(p, r.new), !.path = r.new[2],
                                     !.to = "link2", !.new = <<>>, !.at = "walk"])
      /\ UNCHANGED <<committed, lock, cwd, ofile, outstanding, calls, strayed, mix>>

LinkName(p) ==
  LET r  == c[p]
      n  == Head(r.path)
      e  == Entry(r.dp, n)
      ic == Loaded(r.dp)
  IN  /\ At(p, "link2") /\ Ilock(r.dp)
      /\ IF e # 0   \* dirlink() found the name
         THEN /\ Got(ic, e) /\ lock' = [lock EXCEPT ![r.dp] = p]
              /\ Become(p, ThenPut(r, SlotOf(ic, e), "bad")) /\ UNCHANGED dinode
         ELSE /\ dinode' = [dinode EXCEPT ![icache[r.dp].inum].dir[n] = icache[r.old].inum]
              /\ icache' = ic /\ UNCHANGED <<lock, panicked>>
              /\ Become(p, ThenPut([r EXCEPT !.dp = 0], r.dp, "linked"))
      /\ UNCHANGED <<committed, cwd, ofile, outstanding, calls, strayed, mix>>

Linked(p) ==
  /\ At(p, "linked")
  /\ Become(p, ThenPut([c[p] EXCEPT !.old = 0], c[p].old, "end"))
  /\ UNCHANGED <<dinode, committed, icache, lock, cwd, ofile, outstanding, calls, panicked, strayed, mix>>

LinkBad(p) ==
  LET s == c[p].old
  IN  /\ At(p, "linkbad") /\ Ilock(s)
      /\ dinode' = [dinode EXCEPT ![icache[s].inum].nlink = @ - 1]
      /\ icache' = [Loaded(s) EXCEPT ![s].nlink = @ - 1]
      /\ Become(p, ThenPut([c[p] EXCEPT !.old = 0], s, "end"))
      /\ UNCHANGED <<committed, lock, cwd, ofile, outstanding, calls, panicked, strayed, mix>>

-----------------------------------------------------------------------------
(* sys_chdir(); cwd, which only p uses, changes after iput() of the old one*)
Chdir(p) ==
  LET r == c[p]
  IN  /\ At(p, "chdir") /\ Ilock(r.ip)
      /\ icache' = Loaded(r.ip)
      /\ IF Inode(r.ip).type # "DIR"
         THEN Become(p, ThenPut([r EXCEPT !.ip = 0], r.ip, "end")) /\ UNCHANGED cwd
         ELSE /\ Become(p, ThenPut([r EXCEPT !.ip = 0], cwd[p], "end"))
              /\ cwd' = [cwd EXCEPT ![p] = r.ip]
      /\ UNCHANGED <<dinode, committed, lock, ofile, outstanding, calls, panicked, strayed, mix>>

-----------------------------------------------------------------------------
Crash ==
  /\ dinode' = committed
  /\ icache' = Booted.icache /\ lock' = [s \in Slot |-> 0]
  /\ cwd' = Booted.cwd /\ ofile' = [p \in Proc |-> 0]
  /\ c' = [p \in Proc |-> Idle]
  /\ outstanding' = {} /\ panicked' = "no" /\ strayed' = FALSE
  /\ UNCHANGED <<committed, calls, mix>>

InodeStep(p) ==
  \/ \E call \in DOMAIN mix.calls \ {"link", "close"} :
       \E path \in mix.calls[call] : Begin(p, call, path, <<>>)
  \/ "link" \in DOMAIN mix.calls /\ \E path, new \in mix.calls["link"] : Begin(p, "link", path, new)
  \/ "close" \in DOMAIN mix.calls /\ FileClose(p)
  \/ Walk(p) \/ Iput(p) \/ IputFreed(p) \/ DropRef(p) \/ IlockPanic(p) \/ EndOp(p)
  \/ SysOpen(p) \/ Create(p) \/ Ialloc(p) \/ Exists(p) \/ New(p) \/ Created(p)
  \/ Unlink(p) \/ UnlinkName(p) \/ Unlinked(p) \/ Bad(p)
  \/ Link(p) \/ LinkName(p) \/ Linked(p) \/ LinkBad(p) \/ Chdir(p)

InodeNext == (\E p \in Proc : InodeStep(p)) \/ Crash

-----------------------------------------------------------------------------
(* The pointers of the processes to a slot                                 *)
Pointers(s) ==
  Cardinality({x \in Proc \X {"dp", "ip", "old", "drop"} : c[x[1]][x[2]] = s})
    + Cardinality({p \in Proc : cwd[p] = s}) + Cardinality({p \in Proc : ofile[p] = s})

(* ip->ref is the number of pointers to the entry, an inode has one entry  *)
(* in the cache, and an entry that is valid and not locked is what is on   *)
(* the disk (iget, idup, iput, ilock, iupdate, fs.c:220-351), also while   *)
(* an inode is freed and allocated again under a process that waits for it.*)
CacheCoherent ==
  /\ \A s \in Slot : icache[s].ref = Pointers(s)
  /\ \A s, t \in Slot : s # t /\ icache[s].ref > 0 /\ icache[t].ref > 0
                           => icache[s].inum # icache[t].inum
  /\ \A s \in Slot : icache[s].valid /\ lock[s] = 0 =>
       /\ icache[s].type = dinode[icache[s].inum].type
       /\ icache[s].nlink = dinode[icache[s].inum].nlink

(* The inodes that names lead to from the root, in at most k steps         *)
Reach(img) ==
  LET R[k \in 0..NINODES] ==
        IF k = 0 THEN {ROOTINO}
        ELSE R[k - 1] \union ({img[d].dir[n] : d \in R[k - 1], n \in Names} \ {0})
  IN  R[NINODES]
NamesOf(img, dirs, i) ==
  Cardinality({x \in dirs \X ((Names \union Dots) \ {"."}) : img[x[1]].dir[x[2]] = i})

(* On the disk that recovery restores, every name leads to an allocated    *)
(* inode and no inode has more names than nlink says, whatever calls ran   *)
(* together and wherever the crash came (create, sys_link, sys_unlink,     *)
(* sysfile.c:119-283, each in one transaction).  It may have fewer: see    *)
(* create() in a directory that is being removed.                          *)
NamesLive ==
  LET reach == Reach(committed)
  IN  /\ \A i \in reach :
           /\ committed[i].type # "NONE"
           /\ \A n \in Names \union Dots :
                committed[i].dir[n] # 0 => committed[committed[i].dir[n]].type # "NONE"
      /\ \A i \in Inum : NamesOf(committed, reach, i) <= committed[i].nlink

(* Nobody waits for an inode that has been freed: ilock() finds one        *)
(* (fs.c:308) only after a path went up by ".." to a parent without links, *)
(* out of a directory that was removed while in use and before the parent. *)
(* A name never leads to an inode without links (sysfile.c:211).  The      *)
(* other panics say that the disk or icache is full (fs.c:212, 261).  And  *)
(* path lookup, which locks one inode at a time, is in no circle of waits  *)
(* for inode locks (namex, fs.c:624-656): a circle has a process in        *)
(* iput(), which sys_unlink() and sys_link() call with an inode locked.    *)
InodesMove ==
  /\ panicked \in {"no", "ialloc: no inodes", "iget: no inodes"}
       \union (IF strayed THEN {"ilock: no type"} ELSE {})
  /\ \A p, q \in Proc :
       Target(p) # 0 /\ Target(q) # 0 =>
         (lock[Target(p)] = q /\ lock[Target(q)] = p => "iput" \in {c[p].at, c[q].at})

(* iput() frees an inode once reference and link counts have fallen to     *)
(* zero (fs.c:117-119): an allocated inode has a link or a reference, or   *)
(* ialloc() is about to take one.                                          *)
FreedWhenUnused ==
  \A i \in Inum : panicked = "no" /\ dinode[i].type # "NONE" /\ dinode[i].nlink = 0 =>
    \/ \E s \in Slot : icache[s].ref > 0 /\ icache[s].inum = i
    \/ \E p \in Proc : c[p].inum = i
=============================================================================
