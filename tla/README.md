# Verification of the kernel with the EDF / round-robin / FCFS scheduler

The repository is xv6 for x86 with a three-queue scheduler. This directory holds
TLA+ models of it, the TLC configurations that check them, and proofs checked by
TLAPS. Every definition is a translation of source lines; `PROJECT.json` gives
the lines ("map"), the hazards of the code with the properties that watch them,
the runs, one mutation of the model for each property, and the theorems.

## The system

| part | source | state | operations | interacts with |
|---|---|---|---|---|
| process table, scheduler | proc.c, proc.h | ptable, nextpid, count_edf/rr/fcfs, per-CPU proc, round-robin cursor | allocproc, fork, exit, wait, kill, sleep, wakeup, yield, sched, scheduler, set_deadline_for_process, change_sched_level, update_wait_time, is_higher_waiting | everything that sleeps; timer; exec |
| traps, timer | trap.c | ticks, tickslock | system call entry/exit, tick, aging, quantum, killed checks | process table |
| process calls | sysproc.c, syscall.c | - | argument fetch and dispatch, sys_sleep | process table |
| spinlocks | spinlock.c | locked, cpu, ncli, intena | acquire, release, holding, pushcli, popcli | everything |
| sleep locks | sleeplock.c | locked, pid | acquiresleep, releasesleep | buffers, inodes |
| log | log.c | header (memory, disk), outstanding, committing | begin_op, log_write, end_op, commit, recovery | buffer cache, file system calls |
| buffer cache | bio.c | buffers, LRU list | bread, bwrite, brelse | log, disk |
| disk driver | ide.c | request queue | iderw, idestart, ideintr | buffer cache, interrupts |
| pipes | pipe.c | ring, nread, nwrite, two open flags | read, write, close | file table, sleep/wakeup |
| files | file.c | reference counts | alloc, dup, close, read, write | inodes, pipes |
| inodes, directories | fs.c | bitmap, inode cache, directories | ialloc, iget, iput, bmap, itrunc, dirlink, namex | log, buffer cache |
| file calls | sysfile.c | descriptors | open, link, unlink, mkdir, ... | inodes, files |
| memory | kalloc.c, vm.c | free list, page tables | kalloc, kfree, allocuvm, copyuvm, ... | fork, exec, sbrk |
| console, keyboard | console.c, kbd.c | input ring, modifier flags | consoleintr, consoleread, kbdgetc, printint | interrupts, sleep/wakeup |
| user allocator | umalloc.c | circular free list | malloc, free | sbrk |
| shell, grep | sh.c, grep.c | - | parsecmd, runcmd's pipelines, match, grep | pipes, fork, wait |
| library, mkfs | string.c, mkfs.c | - | memmove, strncmp, ...; the first disk image | everything |

What makes it hard: several CPUs share one table under one lock that is handed
through `swtch()`; a timer interrupt that ages, accounts and preempts; counters
kept by hand beside the table they count; system calls that look up pids in any
state; lock scopes broken in the middle of a scan; crashes between disk writes;
wakeups on shared channels.

Modules, and what each one models:

| module | code | checked in run |
|---|---|---|
| `Sched` | proc.c, timer and exits of trap.c, process calls | sched_*; on two CPUs, live |
| `Log`, promise `AtomicDisk` | log.c | log_crash, log_too_big, live |
| `Bcache`, promise `BlockStore` | bio.c, sleeplock.c, ide.c | bcache |
| `Mkfs`, `FileData`, promise `ByteFiles` | mkfs.c; fs.c below names; file.c | files |
| `Inodes` | fs.c and sysfile.c on names and inodes | files, inode_leak |
| `Pipe`, promise `ByteQueue` | pipe.c, file.c, descriptors of sysfile.c | parts, live |
| `Pipeline` | runcmd() of sh.c over `Pipe` | live |
| `Console`, promise `Tty`; `Kbd` | console.c; kbd.c | parts |
| `Memory` | kalloc.c, vm.c, exec.c, growproc | parts |
| `Locks` | spinlock.c and the code that nests locks | parts |
| `Umalloc` | umalloc.c | parts |
| `Grep`, `Shell`, `Klib` | grep.c; parser of sh.c; string.c and other pure functions | parts |

Several components share a run. The module of such a run (`MCLive`, `MCFiles`,
`MCParts`) has a variable `part` that is chosen in the initial state and never
changes; a step is a step of the chosen component and leaves the variables of the
others alone, and each property speaks of its own component. The behaviours are
those of the components one by one, not of their product.

Proofs are in modules of their own:

| module | proves |
|---|---|
| `SchedTable`, `SchedProofs` | `Sched`: types, the table on any number of CPUs, the counters, the results for one CPU |
| `LogProofs` | `Log`: space in the log, sleepers, refinement of `AtomicDisk` |
| `BcacheProofs` | `Bcache`: its invariants, refinement of `BlockStore` |
| `PipeFiles`, `PipeProofs` | `Pipe`: files and descriptors, sleepers, refinement of `ByteQueue` |
| `ConsoleProofs` | `Console`: the ring, sleepers, refinement of `Tty` |
| `RingBuffer` | lemmas on a ring with wrapping counters, used for pipes and console |
| `Counting` | (definitions only) the facts about finite sets that the proofs use |

The lemmas of the proofs take `Counting`, or the part of it they need, as a hypothesis,
so that a step sees those facts and not a whole library. The last module of each proof
shows that the hypothesis holds, from the library's theorems (`Counted`,
`LeastNatural`), before it states its theorems; no theorem has it as an assumption.

## Sched: the process table and the scheduler

`Sched` models proc.c, the timer and exit paths of trap.c and the process calls.

* State: one variable per field of `struct proc` that control depends on, indexed
  by slot; `context` is where `swtch()` resumes a process, `pc` where it is in the
  kernel; `cproc` is `cpu->proc`; `intr` is the progress of the timer handler;
  `ptlock` the holder of ptable.lock in states between actions; `count` the three
  counters; `panic` the message that stopped the machine.
* One critical section is one action. A lock that survives `swtch()` stays held
  from `Yield`, `Exit`, `Wait`, `Block` or `SysSleep` to `SwitchOut`, and from
  `Schedule` to `Resume`. Code that touches the table without the lock has steps
  of its own: `ForkFail`, `ExecClass`/`ExecLevel`, `AgeRead`, the counter reads of
  `TimerAccount` and `SysIsHigherWaiting`. `update_wait_time()` is `AgeScan`,
  `AgeRead`, `AgeChange`, because it drops the lock for each process it promotes.
* Time is relative: `age[p]` is `ticks - arrival_time` while p is RUNNABLE.
* `Calls` and `Corners` choose the calls programs make and the corner cases of
  their arguments and timing: a pid that belongs to a free slot, killing init, a
  level the process already has, the level of an EDF process, a deadline set for a
  process between the two stores of exec(). A run states what it leaves out by
  leaving it out of these sets.

### Runs

| run | instance | shows |
|---|---|---|
| sched_safety | 1 CPU, 2 slots, three queues | `OneCpuInv`, `WorkConserving`, `PriorityRespected` |
| live | 2 CPUs, 2 slots, processes that block, die and are reaped | `SmpTable`, `SmpReapedOffCpu` |
| sched_live | 1 CPU, 3 slots, no EDF | `KilledExits`, `AgingPromotes`, `RunnableRuns` |
| sched_sleep_panic | 1 CPU, sleep() | violated: the tick takes tickslock twice |
| sched_level_panic | 1 CPU, change_sched_level() | violated: an early return keeps ptable.lock |
| sched_idle | 1 CPU, an EDF process changes level | violated: a counter without a process idles the CPU |

sched_safety has the three queues on one CPU, with processes moved between them, exec(),
faults, sleep() and a pid that a failed fork left in a free slot, but without the
corners that break the counters (`edf_level`, `exec_race`). `SmpTable` is `TableInv` and
`CountsSum` of `Sched`, and `SmpReapedOffCpu` its `ReapedOffCpu`, on the two CPUs that it
takes to break them.

Bounds. Two or three slots give every pair of roles (parent and child, chosen and
waiting, killer and killed; init, parent and child); `MaxPid` above the number of
slots makes slots be reused; `AGING_THRESHOLD = 1` and `QUANTUM` 1 or 2 make aging
and the end of a quantum happen within a few ticks and ages saturate just above
the threshold, which is all the code compares; `MaxDrift` stops counters that a
sequence of mixed level and deadline calls would move without end; `NCHAN = 1` is
one wait channel for the rest of the kernel.

Fairness. `FairSpec` assumes nothing of processes: the hand-over through `swtch()`
and the timer handler run with interrupts off and go on (WF); a pending timer
interrupt is taken at the latest when interrupts are on again and again, and the
scheduler loop comes round (SF). `KernelFairSpec`, which sched_live uses for its
three properties, adds that a process inside the kernel gets on with its call (SF):
no code path of the kernel loops without sleeping or returning. A process in user
space may loop for ever, so `AgingPromotes` and `RunnableRuns` hold in spite of
programs that never give up the CPU.

### Proofs

`SchedTable` shows that every step keeps `TypeOK` and `TableInv`; `SchedProofs` adds the
counters and the results for one CPU, and states the theorems. All are for every number
of slots and CPUs (one CPU for the last three below), every set of calls and corners,
and every threshold, quantum and set of deadlines, from the assumptions
`SizeAssumption`, `AgeAssumption` and `DeadlineAssumption`.

* `TableInv` is the inductive invariant. `OnOneCpu` alone is not inductive: that a
  step of a process finds it RUNNING needs `CpuInv`; `fork()` giving back a slot
  needs `ForkInv` (the slot is an EMBRYO of that fork alone); `NoLostExit` needs
  `ParentInv` (init stays, nobody is its own parent); the promotion by pid needs
  `PidInv`; that a RUNNABLE process is in some counter needs `QueueInv`.
* `CountsSum` follows from `QueueInv`: each enqueue and dequeue moves one counter.
* `ReapedOffCpu` is an action property: wait() can reap a zombie only after the lock
  that exit() took went through `swtch()`, so `TableInv` leaves no CPU on its stack.
* On one CPU, when no EDF process changes level and none is given a deadline inside
  exec() (`OneCpu`), `WindowInv` shows the window in `update_wait_time()` closed,
  `LevelInv` keeps EDF processes at level 0, and with them each counter is exact;
  `WorkConserving` and `PriorityRespected` follow from exactness.

Liveness (`AgingPromotes`, `RunnableRuns`, `KilledExits`) is model-checked only.

### Known deviations

The three violated runs are findings of `PROJECT.json`. Two more follow from the
same model and are not separate runs: on two CPUs `change_sched_level()` by a
process can come between `AgeRead` and `AgeChange`, and the promotion then keeps
the lock as in sched_level_panic (`Locks` has this case too); and `kill()` of a pid that a failed fork left in
a free slot sets `killed` there, which allocproc() does not clear, so the next
process in that slot exits at once. EDF processes are not preempted by the clock,
so `RunnableRuns` is checked without them.

Not modelled in this part: the user-visible `update_wait_time(ticks)` with a value
other than the clock's, and `procdump` and `print_sched_info` (output; the locks the
latter takes are in `Locks`). `growproc` is in `Memory`; the wrap-around of `ticks`
under sys_sleep() is in `Klib`.

## Log: the write-ahead log

`Log` models log.c over a disk (`home`, `logblk`, `head`) that keeps its contents
when `Crash` takes the memory. A process is at a point of log.c (`pc`): outside,
asleep or woken in begin_op(), inside its call (`op`), between the unlocked size
test and the locked part of log_write(), or at one of the steps of commit(). One
block write is one step, in commit() and in recovery alike; what runs under
log.lock is one step. The cache appears as its users see it: `data`, `dirty` (not
recyclable), `held` (locked buffer), and `Evict` for bget()'s recycling. A call may
add up to `OpBlocks` blocks to the log; `NLOG` is the size of the log area that
mkfs makes, header included.

`AtomicDisk` is the promise: contents `mem` that reads see, contents `stable` that
a crash leaves, and a commit that makes `mem` stable only while no call is half
done. `CrashAtomic` says that `Log` implements it, `stable` being what recovery
would make of the disk at that moment. It also says that eviction and commit never
change what a read returns.

| run | instance | shows |
|---|---|---|
| log_crash | 2 processes, calls of up to 2 of 3 blocks, 2 values | `CrashAtomic`, `NoPanic`, `SleeperOwed` |
| live | 3 processes, room for 2 calls, log filled to the reserve | `SleeperWakes` |
| log_too_big | calls that use all of MAXOPBLOCKS, NLOG = LOGSIZE | violated: `LogFits` |

Bounds. Two calls of two blocks overlap in every way, share blocks (absorption) and
leave a header of up to three entries for a crash to find; two values tell old from
new contents. Crashes are not bounded. In live contents do not matter (one
value) and calls add one block each, so that all the log's space is reserved and
a third process must wait.

Fairness. A call that has begun ends (SF on `EndOp`: a call makes finitely many
log_write() calls), the disk answers (WF on the committer's steps), a woken process
runs (WF). Nothing is assumed about crashes.

### Proofs

For any processes, blocks and values, under `Room`: OpBlocks < MAXOPBLOCKS <
LOGSIZE <= NLOG. The kernel's numbers are 10 for MAXOPBLOCKS and 30 for both
LOGSIZE and NLOG; the largest call, a chunk of filewrite(), adds seven blocks (four
data blocks, bitmap, indirect block, inode).

* `LogInv` is inductive. `SpaceInv` counts, as a finite set (`Budget`),
  the blocks that calls in progress may still add: together with those logged they
  are at most one call's, or leave twice the slack MAXOPBLOCKS - OpBlocks. The
  second case is why a log area one block short of LOGSIZE is enough. `CallInv`
  carries the result of the unlocked test to the locked part; `ControlInv` says
  that one process commits, and only between calls. `LogFits`, `NoPanic` and
  `SleeperOwed` follow.
* `CrashInv` relates cache, log and disk at every step of commit()
  and of recovery. The first write_head() is the only step that changes the stable
  contents; `LogImplementsAtomicDisk` follows.

`SleeperWakes` is model-checked only. `LogFits` under `Room` is left to its proof
(`LogFitsAlways`); the run log_too_big shows why `Room` is needed.

log_too_big is a finding: param.h calls LOGSIZE the data blocks of the on-disk log,
mkfs gives the log LOGSIZE blocks with the header among them, and log_write() tests
the size without the lock. Calls that used all of MAXOPBLOCKS could log one block
more than the area holds. The kernel's calls stay below.

## Bcache: buffer cache, sleep locks and disk driver

`Bcache` models bio.c, sleeplock.c on the buffers' locks, and ide.c. The state is
the fields of `struct buf`, the list in order of use, the request queue, what the
disk was last told (`command`), and for each of the two buffers a process may have
(`Uses`) its block, its buffer and where the process is with it (`pc`): outside, before
or asleep in acquiresleep(), holding, in iderw(), waiting for the disk, or between the
two halves of brelse(). What runs under one spinlock is one step. A holder may change its block and write it with
bwrite(), or leave it to the log as log_write() does (`Change`), which pins it until
a later bwrite(). `Halted` is the endless loop of panic().

A process asks for a second block only with the first in hand, as commit() does with a
log block and its home block (log.c:75-76, 183-184) and bmap() and itrunc() with an
indirect block and the bitmap (fs.c:388-391). `Nested` says which block is asked for under
which; that no two processes wait for each other's is the caller's affair.

`BlockStore` is the promise: blocks with contents and at most one owner, from the
return of bread() to brelse(); a process owns up to two. `CacheTransparent` says that
`Bcache` implements it, the contents of a block being those of its filled buffer, or else the disk's.

Run `bcache`: 2 processes, 4 blocks, one of which is held while others are read, 2 values,
2 buffers, which the log may pin. There are more blocks than buffers, so that buffers are
recycled while a process waits for one, and the buffers in use and pinned ones can use up
the cache, so that the panic of bget() is reached. The processes are symmetric, and so are
the three blocks that are not held around others.

### Proofs

`BcacheProofs` proves the four properties of the run, the refinement `CacheTransparent`
among them, for any processes, blocks, values and buffers. `CacheInv` is inductive:
`UseInv` (refcnt is the number of uses of a buffer, and each is at the block it
asked for) is why recycling never takes a buffer someone waits for; `LockInv` makes the
holder unique; `FlagInv` relates the flags to the contents of cache and disk; `QueueInv`
says that the queue holds the buffers of the waiting processes, once each, and that the
disk works on the first; `LruInv` that the list loses no buffer; `PinInv` counts pinned
blocks.

bget() can panic only if the buffers in use, counted once for each use, and the pinned
ones are together at least NBUF, and the assertions of bwrite(), brelse() and iderw() on
the lock and the flags of a buffer do not fail (`PanicsOnlyFull`). Nothing rules the panic
out for the kernel's sizes: NBUF is 30, and so is LOGSIZE, the number of blocks the log
may pin.

Assumptions: the disk is there and carries every command out, and block numbers are
within it, so that the panics of ide.c:76-85 and 146 and the read error of ide.c:118 do not
occur; an interrupt with an empty queue does nothing and is left out.

## Mkfs and FileData: the contents of files

`Mkfs` computes the image that mkfs.c writes: the inodes, the blocks of each file,
the free map. It is the initial disk of `FileData`, which models balloc, bzero, bfree,
bmap, itrunc, readi and writei, and above them fileread() and filewrite() with its
loop over chunks. A block holds `BSIZE` words: bytes of a file, directory entries, or
the block numbers of an indirect block. There is one action for each stretch of code
that holds one buffer. The log is taken as `AtomicDisk` shows it: what the
outstanding calls wrote becomes stable when the last of them ends, and `Crash` goes
back to the last such moment.

* `BlocksOwned`: on the disk that recovery restores, and whenever no operation is in
  progress, the blocks marked in the free map are those of the files, no two files
  share one, and no file has a hole below its size. It relates the bitmap, all inodes
  and all indirect blocks, and fails also when a reused block is not cleared.
* `OpFits`: no transaction of one call logs more than MAXOPBLOCKS blocks, which is
  what the arithmetic in filewrite() is for (file.c:127).
* `FilesKeepBytes`: the machine implements `ByteFiles`, where a file is a sequence of
  bytes. Chunks of concurrent writes through one struct file or two interleave, but
  no read sees the middle of a chunk and no crash leaves one.

Bounds: two processes and three calls, with every way of sharing a file or not;
files that reach into the indirect block, a write that extends one, and fewer free
blocks than two such files need, so that balloc() runs out. In this build the free
map is one block, which mkfs asserts.

## Inodes: names, links and the inode cache

`Inodes` models iget, idup, ilock, iunlock, iput, ialloc, dirlookup, dirlink and namex
of fs.c, and open, create, mkdir, mknod, link, unlink, chdir and close of sysfile.c and
file.c. A step is the code from one acquiresleep() to the next; iput() is cut where
it gives up icache.lock, and ialloc() between the inode on the disk and iget(). A
directory is a function from names to inode numbers.

* `CacheCoherent`: ref counts the pointers to an entry, no inode has two entries, and
  an entry that is valid and not locked agrees with the disk, also while the inode
  is freed and allocated again.
* `NamesLive`: after a crash at any point, names lead to allocated inodes and no
  inode has more names than links.
* `InodesMove`: fs.c and sysfile.c panic only for want of free inodes on the disk or of
  entries in the cache, or with "ilock: no type" after a path has gone up by ".." from a
  removed directory to a removed one; and there is no circle of waits for inode locks
  unless one of the waiting processes is in iput().
* inode_leak is a finding: `FreedWhenUnused`, the comment of fs.c:117-119, is violated
  when two processes drop the last two references to an unlinked inode together.

Bounds: two processes with one of three mixes of calls on a tree of a root, a directory
and what is in it (a file, a directory, or nothing): any two calls; three of open,
create, unlink and close, which fight over one file with as few entries in the inode
cache as they may need at once, so that iget() runs out of them; four of chdir, unlink and
open on two nested directories. Four inodes, and a tree that uses all of them, so that
creations find none. The processes are symmetric.

### Known deviations

* sys_unlink() (225) and create() (280) call iput() for the parent with the child locked,
  so two processes can wait for each other's inodes for ever; the comment at fs.c:149-150
  speaks of avoiding deadlock during pathname lookup, which does not cover this.
  sys_link() to "." or ".." waits for a lock its own process holds (dirlink(), fs.c:559).
* A removed directory keeps its "..". A process whose current directory it is can go up to
  a parent that has been removed too; once that is freed, ilock() panics (fs.c:308). The
  history variable `strayed` records such a step, for `InodesMove` to tell this way into
  the panic from all others.
* create() in a directory that another process is removing leaves an inode with a link
  and no name. A crash with a removed file still open leaves its inode allocated: there
  is no pass that frees such inodes.

## Pipe and Pipeline

`Pipe` models pipe.c under the file table and the descriptors of processes. There is
one page for pipes, so that pipealloc() fails and a freed page is reused. The test of
killed and the sleep() in piperead() and pipewrite() are separate steps.

* `FilesHeld`: a file's count is the number of descriptors and kernel pointers to it,
  and a pipe is there exactly as long as it has an open end, on each error path of
  sys_pipe() too (that for want of a descriptor is not reached with the two files of
  parts, and is left to the proof).
* `PipeSleepers`: a reader asleep has a writer to wait for, a writer asleep a full ring
  and a reader, and no step in which a writer stops writing leaves a reader asleep. A
  killed writer that finds the ring full returns (pipe.c:86-88) without
  wakeup(&p->nread), so a reader may sleep beside a full ring; the property exempts
  exactly this.
* `PipeQueue`: the ring with its wrapping counters implements the bounded queue
  `ByteQueue`. Run live checks it for the two sides of a pipeline, with a ring of two
  bytes, counters modulo 4 and two writes of three bytes, so that full and empty,
  and the first and the second byte of the ring, are told apart across the wrap-around;
  the proof has every size.

`Pipeline` puts "left | right" as runcmd() starts it on top of `Pipe`. `PipelineEnds` (run
live) says that the shell always gets its prompt back, whichever side stops early or
is killed, under weak fairness of the steps of each process: the scheduler runs a
RUNNABLE process (`RunnableRuns`), and the programs concerned do not loop.

Bounds: in parts two files, so that sys_pipe() fails while the console is open, two
descriptors, a ring of one byte and counters modulo 2 (every read and write meets a full
or an empty ring and a wrap-around); in live three files, four descriptors, a ring of two
and counters modulo 4. The two processes of parts are symmetric.

### Proofs

For any number of processes, files and descriptors, any requests, and any ring whose
size divides the range of its counters and is smaller than it (`PipeSizes`; the kernel's
are 512 and 2^32), `PipeFiles` and `PipeProofs` prove `FilesHeld`, `PipeSleepers` and
`PipeQueue`. The inductive invariant `PipeInv` says more than they do:

* `CallInv`: what each step of sys_pipe(), close() and exit() has allocated and has still
  to close;
* `FileRefs` counts what holds a file. The proof sees the descriptors of all processes,
  and the files their calls have in hand, as one finite set of slots (`Slot`); a step
  fills or empties one slot, or moves a file from one slot to another;
* `KindInv`: a file without a type is held by one call only, so nobody can read or write
  it before pipealloc() is done;
* `EndInv`: an open end is exactly one file, or one call between the release of
  ftable.lock in fileclose() and pipeclose(); the page is freed by one call, after both;
* `UseInv`: a call in the middle of piperead() or pipewrite() holds its end by a
  descriptor, which is why pipeclose() of that end cannot come in between;
* `Avail <= PIPESIZE`: the counters stay within one ring of each other. That they may
  wrap around is `RingBuffer`'s part: distances modulo the counters' range, and the
  contents between two counters as a sequence.

The refinement maps the queue of `ByteQueue` to the contents of the ring between the two
counters. A byte taken by piperead() is the head of the sequence, one stored by
pipewrite() is appended, and all other steps leave it alone.

## Console and Kbd

`Console` models consoleintr() and consoleread() on the input ring with its three
unsigned indices. `ConsoleLines`: it implements `Tty`, in which a line can be edited until
it ends, and comes out once and in order, and each ^D makes one read return 0.
`ConsoleSleepers`: no reader sleeps beside a finished line. Two readers, a ring of two,
indices modulo 4, reads longer than the lines.

`ConsoleProofs` proves both for any readers, characters and requests, and any ring whose
size divides the range of its indices and is smaller than it (`RingSizes`; the kernel's
are 128 and 2^32). `ConsoleInv` is inductive: `RingInv` has r, w and e in this order, at
most a ring apart, and no end of line between w and e, so that ^U and backspace stop at
w without looking for one; `ReadInv` has a reader sleep only when r = w, in spite of
the readers that return with part of a line. The refinement maps the finished lines
of `Tty` to the ring between r and w, the line being edited to that between w and e.

`Kbd` models the flags of kbdgetc() against a keyboard that sends make and release
codes, prefixes and the fake shifts around grey keys. `KbdModifiers`: when all codes
are read, no prefix is left over, and a modifier is on only while a key of it is held,
and on when all its keys are. (With one of two control keys released and the other
held, the code turns the modifier off.) Both control keys, a shift key,
Home and Caps Lock; up to four bytes wait.

## Memory: pages and address spaces

`Memory` models kalloc.c, vm.c (setupkvm, allocuvm, deallocuvm, copyuvm, freevm,
switchuvm) and their users: allocproc's stack, fork, exec, growproc, exit, wait. An
address space maps roles (directory, tables, user pages) to pages. Each kalloc() is a
step and may fail, so memory runs out between any two of them. `loaded[p]` is what the
CPU uses: the directory of the last lcr3() and the pages in the TLB.

`MemorySound`: each page is in the free list once or has one owner, on each error
path; no CPU runs on a directory, or keeps a translation of a user page, that has been
given back; copyuvm() panics only in the case below.

sbrk() that gives back all memory is the exception the property names: growproc() takes
the 0 that deallocuvm() returns for an error (proc.c:202-203), so sz and the TLB stay
as they were, and a later fork() panics in copyuvm().

Bounds: two slots, twelve pages, page tables of two entries, images of up to two pages
besides the stack and its guard: one process with its exec() fits, or two processes,
but not both.

## Locks: spinlocks, interrupts, lock order

`Locks` models acquire, release, pushcli and popcli on CPUs with an interrupt flag,
interrupt handlers and kernel threads that switch in sched(). Code is a sequence of
instructions on locks, taken from scheduler(), the timer, keyboard and disk handlers,
and the calls that nest locks. What the process table holds is left open: where it
decides, any branch may be taken. change_sched_level() has its return with ptable.lock
held, both as a call and from update_wait_time(); `kept` remembers that it happened.

* `InterruptsMasked`: interrupts are off while a lock is held, and are as before once
  the last is released, also when the thread goes on on another CPU; ncli counts the
  locks. No assertion of acquire(), release(), popcli() or sched() fails but "acquire",
  and that only where the timer interrupt wakes a process from sleep() (trap.c:52-56,
  proc.c:637), or on a CPU that has kept ptable.lock. Both are findings, of sched_sleep_panic
  and sched_level_panic; this property says that they are the only ones.
* `CircularWaits`: two CPUs spin for each other's locks only over ptable.lock, tickslock
  and cons.lock, or over ptable.lock and any other after change_sched_level() has kept
  the former. `idelock` stands for the locks that are held around sleep() and wakeup(),
  outside ptable.lock; `kmem` is taken under ptable.lock in wait() (proc.c:345-347). Neither
  is in a circle unless ptable.lock was kept.

Known deviations: ptable.lock, tickslock and cons.lock are taken in both orders.
scheduler() takes tickslock under ptable.lock (proc.c:476) and the tick the other way
round (trap.c:52-55); set_deadline_for_process() prints under ptable.lock (proc.c:772) and
consoleintr() calls wakeup() under cons.lock (console.c:223). With more than one CPU the
kernel can therefore stop; the Makefile's default is one.

Bounds: two CPUs and one process besides the two schedulers, with the calls that nest
two locks. Both are model-checked only.

## Umalloc, Grep, Shell, Klib

`HeapSound`: each step of malloc(), free() and morecore() keeps the heap a partition
into blocks in use, the program's own memory and a sorted circular list of free blocks
that do not touch, and malloc() asks for more memory or gives up only when no free
block is large enough, also when the program calls sbrk() itself and when sbrk() fails. Twelve units of memory, three sizes.

`AlgorithmsRight` compares pure functions with reference definitions on all small
inputs, which are initial states of parts: grep's matcher with the language of the
pattern (patterns and texts of up to three characters), its loop with the lines of the
file (up to six characters, a buffer of four), the parser with the grammar of commands (up to
five tokens), memmove() with overlap, the string functions, skipelem(), printint(),
the argument checks of syscall.c with 4-bit unsigned numbers, and the test in
sys_sleep() across the wrap-around of ticks.

Limits that the references state: grep() is right for files whose lines fit the
buffer, read() filling it (a read that brings no newline at all makes it forget what
it has, grep.c:30-31); sys_sleep() with a negative argument waits for almost 2^32 ticks.

## What is proved and what is only checked

The proofs cover `Sched`, `Log`, `Bcache`, `Pipe` and `Console`: the properties listed above
as proved hold for every value of the constants that the named assumptions allow.

| proved for all constants | checked in run |
|---|---|
| `OneCpuInv`, `WorkConserving`, `PriorityRespected` | sched_safety |
| `TableInv`, `CountsSum`, `ReapedOffCpu` (`SmpTable`, `SmpReapedOffCpu` on two CPUs) | live |
| `PipeQueue` | live |
| `NoPanic`, `CrashAtomic`, `SleeperOwed` (under `Room`) | log_crash |
| `OwnerHasBlock`, `Owed`, `PanicsOnlyFull`, `CacheTransparent` | bcache |
| `FilesHeld`, `PipeSleepers` | parts |
| `ConsoleSleepers`, `ConsoleLines` | parts |

Model-checked only, on the instances given above:

* liveness (`KilledExits`, `AgingPromotes`, `RunnableRuns`, `SleeperWakes`,
  `PipelineEnds`): the prover does not reason about fairness;
* `AlgorithmsRight`: what recursive functions compute, as the prover has no induction
  over data; and, for the same reason, all of `FileData` (`BlocksOwned`, `OpFits`,
  `FilesKeepBytes`), whose initial disk `Mkfs` computes by folding over the files, and
  `HeapSound`, whose list of free blocks is followed by recursion;
* `CacheCoherent`, `NamesLive` and `InodesMove` of `Inodes`, `MemorySound` of `Memory`,
  `KbdModifiers` of `Kbd`, `InterruptsMasked` and `CircularWaits` of `Locks`: no inductive
  invariant of these has been written yet.

## Not modelled

* Boot: bootasm.S, bootmain.c, entry.S, entryother.S, main.c, mp.c. They run once and
  sequentially; their result is the initial state of the models.
* Device programming: lapic.c, ioapic.c, picirq.c, uart.c, the display half of console.c,
  the start-up probe and error bits of ide.c, memide.c (not linked into the kernel).
* Machine level: trapasm.S, swtch.S, vectors.pl, segment descriptors, permission bits.
  A switch and a trap are single steps.
* Bytes moved without control: the ELF contents, exec()'s argument stack, copyout(),
  loaduvm(), fstat(), printf().
* The shell's redirections, background jobs and cd at run time; the test programs
  (usertests, stressfs, forktest) and the remaining small programs, which are
  sequential clients of the calls modelled here; sign.pl, pr.pl and other build
  scripts.
* Crossings of components beyond those above. `FileData` and `Inodes` take the log as
  `AtomicDisk` has it instead of running over `Log` and `Bcache`. Disk errors do not occur.
