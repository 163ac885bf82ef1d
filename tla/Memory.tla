------------------------------- MODULE Memory -------------------------------
(***************************************************************************)
(* Physical pages (kalloc.c), the address spaces made of them (vm.c), and  *)
(* fork(), exec(), sbrk(), exit() and wait() as their users.               *)
(*                                                                         *)
(* An address space maps roles to pages: the page directory, KTABS tables  *)
(* of the kernel part, the tables of the user part, and user pages 0, 1,   *)
(* ...  Every kalloc() is a step, so that processes run out of memory      *)
(* between any two of them; loops that only free are one step.  What pages *)
(* contain is left out.  loaded[p] is what the CPU that runs p uses: the   *)
(* directory of the last lcr3() and, in its TLB, the user pages that the   *)
(* program has touched since.                                              *)
(***************************************************************************)
EXTENDS Integers, FiniteSets, FiniteSetsExt, Functions

CONSTANTS
  Proc, init,  \* slots of the process table; the first process
  NPAGE,
  KTABS,       \* page tables of the kernel part
  NPTE,        \* user pages per page table
  KERNBASE,    \* first page number that is not a user page
  MaxImage     \* bound: pages of a program that exec() loads

Page == 1..NPAGE
None == 0

VARIABLES
  free,        \* free[pg]: how often pg is in kmem.freelist
  state,       \* "UNUSED", "EMBRYO", "LIVE" or "ZOMBIE"
  kstack, pgdir, sz,
  mpc,         \* at: "user", or the call or the step of it that is next;
               \* fork()'s child; the size in pages that the call is to reach
  new, mem,    \* the address space being built; a page not yet in it
  old,         \* exec()'s oldpgdir
  loaded,
  oops         \* copyuvm() found a page missing, and panicked

memoryVars == <<free, state, kstack, pgdir, sz, mpc, new, mem, old, loaded, oops>>

Dir == <<"dir", 0>>
Kern == {<<"kern", i>> : i \in 1..KTABS}
Tab(a) == <<"tab", a \div NPTE>>
User(a) == <<"user", a>>
Users == {User(a) : a \in 0..KERNBASE - 1}

NoSpace == <<>>
Has(s, r) == r \in DOMAIN s
Put(s, r, pg) == [x \in DOMAIN s \cup {r} |-> IF x = r THEN pg ELSE s[x]]

Uses(s, pg) == Cardinality({r \in DOMAIN s : s[r] = pg})

Only(s, R) == Restrict(s, DOMAIN s \cap R)
Above(n) == {User(a) : a \in n..KERNBASE - 1}
KernPart == {Dir} \cup Kern

(* lcr3() flushes the TLB.                                                 *)
Lcr3(s) == Only(s, KernPart)

(* init has a directory, its tables, one user page and a kernel stack.     *)
InitSpace ==
  [r \in {Dir, Tab(0), User(0)} \cup Kern |->
     CASE r = Dir -> 1 [] r = Tab(0) -> 2 [] r = User(0) -> 3 [] OTHER -> 3 + r[2]]

InUser == [at |-> "user", child |-> init, size |-> 0]

MemoryInit ==
  /\ free = [pg \in Page |-> IF pg <= 4 + KTABS THEN 0 ELSE 1]
  /\ state = [p \in Proc |-> IF p = init THEN "LIVE" ELSE "UNUSED"]
  /\ kstack = [p \in Proc |-> IF p = init THEN 4 + KTABS ELSE None]
  /\ pgdir = [p \in Proc |-> IF p = init THEN InitSpace ELSE NoSpace]
  /\ sz = [p \in Proc |-> IF p = init THEN 1 ELSE 0]
  /\ mpc = [p \in Proc |-> InUser]
  /\ new = [p \in Proc |-> NoSpace] /\ mem = [p \in Proc |-> None]
  /\ old = [p \in Proc |-> NoSpace]
  /\ loaded = [p \in Proc |-> Lcr3(pgdir[p])] /\ oops = FALSE

-----------------------------------------------------------------------------
(* kalloc() takes the head of the list; which page that is does not matter.*)
Avail == {pg \in Page : free[pg] > 0}
Kalloc(pg) == Avail # {} /\ pg = Min(Avail) /\ free' = [free EXCEPT ![pg] = @ - 1]

(* kfree() of every page of the spaces in ss, and of the pages in pgs      *)
Kfree(ss, pgs) ==
  free' = [pg \in Page |-> free[pg] + MapThenSumSet(LAMBDA s : Uses(s, pg), ss)
                           + IF pg \in pgs THEN 1 ELSE 0]

In(p, l) == state[p] = "LIVE" /\ ~oops /\ mpc[p].at = l
Start(p, l, q, n) == mpc' = [mpc EXCEPT ![p] = [at |-> l, child |-> q, size |-> n]]
Goto(p, l) == mpc' = [mpc EXCEPT ![p].at = l]
Return(p) == mpc' = [mpc EXCEPT ![p] = InUser]

-----------------------------------------------------------------------------
(* Calls                                                                   *)

(* A program runs while it has its first page.  Without it, a stale TLB    *)
(* may let it run on; here it then calls no more than fork() and exit().   *)
Whole(p) == Has(pgdir[p], User(0))
Runs(p) == In(p, "user") /\ Whole(p)
Lingers(p) == In(p, "user") /\ Has(loaded[p], User(0))

(* fork(): allocproc() takes a slot, and then a page for the kernel stack. *)
Fork(p, q) ==
  /\ Runs(p) \/ Lingers(p)
  /\ state[q] = "UNUSED"
  /\ state' = [state EXCEPT ![q] = "EMBRYO"]
  /\ Start(p, "kstack", q, sz[p])
  /\ UNCHANGED <<free, kstack, pgdir, sz, new, mem, old, loaded, oops>>

AllocKstack(p) ==
  /\ In(p, "kstack")
  /\ \/ /\ Avail = {}
        /\ state' = [state EXCEPT ![mpc[p].child] = "UNUSED"]
        /\ Return(p) /\ UNCHANGED <<free, kstack>>
     \/ \E pg \in Page :
        /\ Kalloc(pg)
        /\ kstack' = [kstack EXCEPT ![mpc[p].child] = pg]
        /\ Goto(p, "fork") /\ UNCHANGED state
  /\ UNCHANGED <<pgdir, sz, new, mem, old, loaded, oops>>

(* exec() of a program of n pages: two more for the stack                  *)
Exec(p, n) ==
  /\ Runs(p) /\ n + 2 < KERNBASE
  /\ Start(p, "exec", init, n + 2)
  /\ UNCHANGED <<free, state, kstack, pgdir, sz, new, mem, old, loaded, oops>>

Grow(p, n) ==
  /\ Runs(p) /\ sz[p] + n < KERNBASE
  /\ Start(p, "sbrk", init, sz[p] + n)
  /\ UNCHANGED <<free, state, kstack, pgdir, sz, new, mem, old, loaded, oops>>

(* growproc() of a negative number of pages.  The new size 0 looks like an *)
(* error of deallocuvm() and skips the rest of growproc().                 *)
Shrink(p, n) ==
  /\ Runs(p) /\ n <= sz[p]
  /\ LET gone == Only(pgdir[p], Above(sz[p] - n)) IN
       /\ Kfree({gone}, {})
       /\ pgdir' = [pgdir EXCEPT ![p] = Restrict(@, DOMAIN @ \ DOMAIN gone)]
  /\ IF n = sz[p] THEN UNCHANGED <<sz, mpc>>
     ELSE sz' = [sz EXCEPT ![p] = @ - n] /\ Goto(p, "switch")
  /\ UNCHANGED <<state, kstack, new, mem, old, loaded, oops>>

-----------------------------------------------------------------------------
(* setupkvm(), allocuvm() and copyuvm(): one page after the other          *)

Building == {"fork", "exec", "sbrk"}
Space(p) == IF mpc[p].at = "sbrk" THEN pgdir[p] ELSE new[p]
SetSpace(p, s) ==
  IF mpc[p].at = "sbrk" THEN pgdir' = [pgdir EXCEPT ![p] = s] /\ UNCHANGED new
  ELSE new' = [new EXCEPT ![p] = s] /\ UNCHANGED pgdir

First(p) == IF mpc[p].at = "sbrk" THEN sz[p] ELSE 0
Todo(p) == {a \in First(p)..mpc[p].size - 1 : ~Has(Space(p), User(a))}
Built(p) == KernPart \subseteq DOMAIN Space(p) /\ Todo(p) = {}

(* One kalloc() that succeeds: the directory, a kernel table, a user page, *)
(* or the table that mappages() needs for it.  copyuvm() reads the         *)
(* parent's page first.                                                    *)
Build(p) ==
  /\ mpc[p].at \in Building /\ In(p, mpc[p].at) /\ ~Built(p)
  /\ LET s == Space(p)
         a == Min(Todo(p))
         k == CHOOSE r \in Kern : ~Has(s, r)
     IN \E pg \in Page :
          /\ Kalloc(pg)
          /\ CASE ~Has(s, Dir) -> SetSpace(p, Put(s, Dir, pg)) /\ UNCHANGED <<mem, oops>>
               [] ~(KernPart \subseteq DOMAIN s) ->
                    SetSpace(p, Put(s, k, pg)) /\ UNCHANGED <<mem, oops>>
               [] OTHER ->
                    IF mem[p] = None /\ ~Has(s, Tab(a))
                    THEN /\ mem' = [mem EXCEPT ![p] = pg]
                         /\ oops' = (mpc[p].at = "fork" /\ ~Has(pgdir[p], User(a)))
                         /\ UNCHANGED <<pgdir, new>>
                    ELSE /\ SetSpace(p, IF mem[p] = None THEN Put(s, User(a), pg)
                                        ELSE Put(Put(s, Tab(a), pg), User(a), mem[p]))
                         /\ mem' = [mem EXCEPT ![p] = None]
                         /\ oops' = (mpc[p].at = "fork" /\ ~Has(pgdir[p], User(a)))
  /\ UNCHANGED <<state, kstack, sz, mpc, old, loaded>>

InHand(p) == {mem[p]} \ {None}

(* Variant: allocuvm() forgets the page it could not map.                  *)
GiveUpSbrkLeak(p) ==
  LET fresh == Only(pgdir[p], Above(sz[p])) IN
    /\ Kfree({fresh}, {})
    /\ pgdir' = [pgdir EXCEPT ![p] = Restrict(@, DOMAIN @ \ DOMAIN fresh)]
    /\ UNCHANGED <<state, kstack, new>>

(* allocuvm() undoes what it did; a page table that it added stays.        *)
GiveUpSbrk(p) ==
  LET fresh == Only(pgdir[p], Above(sz[p])) IN
    /\ Kfree({fresh}, InHand(p))
    /\ pgdir' = [pgdir EXCEPT ![p] = Restrict(@, DOMAIN @ \ DOMAIN fresh)]
    /\ UNCHANGED <<state, kstack, new>>

(* copyuvm(), then fork(); the error path of exec()                        *)
GiveUpFork(p) ==
  /\ Kfree({new[p]}, InHand(p) \cup {kstack[mpc[p].child]})
  /\ kstack' = [kstack EXCEPT ![mpc[p].child] = None]
  /\ state' = [state EXCEPT ![mpc[p].child] = "UNUSED"]
  /\ new' = [new EXCEPT ![p] = NoSpace] /\ UNCHANGED pgdir

GiveUpExec(p) ==
  /\ Kfree({new[p]}, InHand(p))
  /\ new' = [new EXCEPT ![p] = NoSpace] /\ UNCHANGED <<state, kstack, pgdir>>

(* kalloc() fails; exec() also fails for the sake of the file it reads.    *)
Fail(p) ==
  /\ ~oops /\ state[p] = "LIVE"
  /\ \/ In(p, "sbrk") /\ Avail = {} /\ ~Built(p) /\ GiveUpSbrk(p)
     \/ In(p, "fork") /\ Avail = {} /\ ~Built(p) /\ GiveUpFork(p)
     \/ In(p, "exec") /\ GiveUpExec(p)
  /\ mem' = [mem EXCEPT ![p] = None]
  /\ Return(p)
  /\ UNCHANGED <<sz, old, loaded, oops>>

ForkDone(p) ==
  /\ In(p, "fork") /\ Built(p)
  /\ pgdir' = [pgdir EXCEPT ![mpc[p].child] = new[p]]
  /\ sz' = [sz EXCEPT ![mpc[p].child] = mpc[p].size]
  /\ state' = [state EXCEPT ![mpc[p].child] = "LIVE"]
  /\ loaded' = [loaded EXCEPT ![mpc[p].child] = Lcr3(new[p])]
  /\ new' = [new EXCEPT ![p] = NoSpace]
  /\ Return(p)
  /\ UNCHANGED <<free, kstack, mem, old, oops>>

SbrkDone(p) ==
  /\ In(p, "sbrk") /\ Built(p)
  /\ sz' = [sz EXCEPT ![p] = mpc[p].size]
  /\ Goto(p, "switch")
  /\ UNCHANGED <<free, state, kstack, pgdir, new, mem, old, loaded, oops>>

(* exec() commits to the new image, then switchuvm(), then freevm().       *)
ExecDone(p) ==
  /\ In(p, "exec") /\ Built(p)
  /\ old' = [old EXCEPT ![p] = pgdir[p]]
  /\ pgdir' = [pgdir EXCEPT ![p] = new[p]]
  /\ sz' = [sz EXCEPT ![p] = mpc[p].size]
  /\ new' = [new EXCEPT ![p] = NoSpace]
  /\ Goto(p, "switch")
  /\ UNCHANGED <<free, state, kstack, mem, loaded, oops>>

FreeOld(p) ==
  /\ In(p, "free")
  /\ Kfree({old[p]}, {})
  /\ old' = [old EXCEPT ![p] = NoSpace]
  /\ Return(p)
  /\ UNCHANGED <<state, kstack, pgdir, sz, new, mem, loaded, oops>>

SwitchUvm(p) ==
  /\ In(p, "switch")
  /\ loaded' = [loaded EXCEPT ![p] = Lcr3(pgdir[p])]
  /\ IF old[p] = NoSpace THEN Return(p) ELSE Goto(p, "free")
  /\ UNCHANGED <<free, state, kstack, pgdir, sz, new, mem, old, oops>>

(* The scheduler calls switchuvm() whenever p runs again.                  *)
Resched(p) ==
  /\ state[p] = "LIVE" /\ ~oops
  /\ loaded' = [loaded EXCEPT ![p] = Lcr3(pgdir[p])]
  /\ UNCHANGED <<free, state, kstack, pgdir, sz, mpc, new, mem, old, oops>>

(* A program uses its memory: the TLB keeps the pages it has.              *)
Touch(p) ==
  /\ Runs(p)
  /\ loaded' = [loaded EXCEPT ![p] =
       [r \in DOMAIN @ \cup (DOMAIN pgdir[p] \cap Users) |-> IF Has(@, r) THEN @[r] ELSE pgdir[p][r]]]
  /\ UNCHANGED <<free, state, kstack, pgdir, sz, mpc, new, mem, old, oops>>

(* exit(), also of a program that faults, up to the switchkvm() of the     *)
(* scheduler; wait() by its parent                                         *)
Exit(p) ==
  /\ In(p, "user") /\ p # init
  /\ state' = [state EXCEPT ![p] = "ZOMBIE"]
  /\ loaded' = [loaded EXCEPT ![p] = NoSpace]
  /\ UNCHANGED <<free, kstack, pgdir, sz, mpc, new, mem, old, oops>>

Wait(p, q) ==
  /\ Runs(p) /\ state[q] = "ZOMBIE"
  /\ Kfree({pgdir[q]}, {kstack[q]})
  /\ pgdir' = [pgdir EXCEPT ![q] = NoSpace]
  /\ kstack' = [kstack EXCEPT ![q] = None]
  /\ sz' = [sz EXCEPT ![q] = 0]
  /\ state' = [state EXCEPT ![q] = "UNUSED"]
  /\ UNCHANGED <<mpc, new, mem, old, loaded, oops>>

MemoryNext ==
  \E p \in Proc :
    \/ AllocKstack(p) \/ Build(p) \/ Fail(p) \/ ForkDone(p) \/ SbrkDone(p) \/ ExecDone(p)
    \/ SwitchUvm(p) \/ FreeOld(p) \/ Resched(p) \/ Touch(p) \/ Exit(p)
    \/ \E n \in 1..MaxImage : Exec(p, n) \/ Grow(p, n) \/ Shrink(p, n)
    \/ \E q \in Proc : Fork(p, q) \/ Wait(p, q)
-----------------------------------------------------------------------------
(* Every page is in the free list once or has one owner: a kernel stack, a *)
(* role in one address space, or the call that is about to map it.         *)
PagesOwned ==
  \A pg \in Page :
    1 = free[pg]
        + MapThenSumSet(LAMBDA p : Uses(pgdir[p], pg) + Uses(new[p], pg) + Uses(old[p], pg), Proc)
        + Cardinality({p \in Proc : mem[p] = pg}) + Cardinality({p \in Proc : kstack[p] = pg})

(* The directory and the kernel tables a CPU runs on are never free, even  *)
(* while exec() replaces them; in user space the TLB holds nothing that is *)
(* not in the process's own address space, and its memory is all mapped.   *)
(* A process that has given back all of its memory is an exception: sbrk() *)
(* took the new size 0 for a failure and changed neither sz nor the TLB    *)
(* (proc.c:202-203); its fork() is the only one that copyuvm() panics in.  *)
SpaceLoaded ==
  \A p \in Proc : state[p] = "LIVE" =>
    /\ \A r \in KernPart : free[loaded[p][r]] = 0
    /\ Runs(p) =>
         /\ \A r \in DOMAIN loaded[p] : Has(pgdir[p], r) /\ pgdir[p][r] = loaded[p][r]
         /\ \A a \in 0..sz[p] - 1 : Has(pgdir[p], User(a))
    /\ oops => \E q \in Proc : state[q] = "LIVE" /\ ~Whole(q)

(* No error path of fork(), exec() or sbrk() leaks a page or frees it      *)
(* twice, wherever the memory runs out (vm.c:118-345, exec.c:123-130,      *)
(* proc.c:112-117, 222-227), and no CPU runs on pages that were freed      *)
(* (vm.c:156-178, exec.c:113-121).                                         *)
MemorySound == PagesOwned /\ SpaceLoaded
=============================================================================
