------------------------------- MODULE Umalloc -------------------------------
(***************************************************************************)
(* The user programs' allocator (umalloc.c).  Addresses count Headers; the *)
(* heap h holds the header at each address (only those of blocks matter),  *)
(* the free list's entry point and the end of the memory that sbrk() gave. *)
(* A program is one thread, so every call is one step.                     *)
(***************************************************************************)
EXTENDS Integers, FiniteSets

CONSTANTS Top,      \* sbrk() fails beyond this address
          MinCore,  \* morecore()'s 4096
          Sizes     \* numbers of bytes asked for

VARIABLES h,        \* [ptr, size, freep, brk]
          used,     \* blocks the program holds
          foreign   \* blocks it took with sbrk() itself

heapVars == <<h, used, foreign>>

Base == 0           \* &base, below the heap and apart from it
Bottom == 2
NULL == -1

HeapInit ==
  /\ h = [ptr |-> [a \in Base .. Top |-> NULL], size |-> [a \in Base .. Top |-> 0],
          freep |-> NULL, brk |-> Bottom]
  /\ used = {} /\ foreign = {}

-----------------------------------------------------------------------------
\* The entry of the free list that bp goes behind.
RECURSIVE Place(_, _, _)
Place(g, bp, p) ==
  LET n == g.ptr[p]
  IN  IF (bp > p /\ bp < n) \/ (p >= n /\ (bp > p \/ bp < n)) THEN p ELSE Place(g, bp, n)

\* (a mutant of JoinUpper) the size of the block above is forgotten
JoinUpperSize(g, bp, n) == g.size[bp]
JoinUpper(g, bp, n) == g.size[bp] + g.size[n]

\* free() of the block at bp.  Headers that stop being one are wiped.
Free(g, bp) ==
  LET p     == Place(g, bp, g.freep)
      n     == g.ptr[p]
      upper == bp + g.size[bp] = n
      lower == p + g.size[p] = bp
      size  == IF upper THEN JoinUpper(g, bp, n) ELSE g.size[bp]
      next  == IF upper THEN g.ptr[n] ELSE n
      one   == [g EXCEPT !.freep = p,
                         !.ptr[n] = IF upper THEN NULL ELSE @,
                         !.size[n] = IF upper THEN 0 ELSE @]
  IN  IF lower
      THEN [one EXCEPT !.size[p] = @ + size, !.ptr[p] = next, !.size[bp] = 0]
      ELSE [one EXCEPT !.size[bp] = size, !.ptr[bp] = next, !.ptr[p] = bp]

Core(nu) == IF nu < MinCore THEN MinCore ELSE nu

Morecore(g, nu) ==
  Free([g EXCEPT !.size[g.brk] = Core(nu), !.brk = @ + Core(nu)], g.brk)

\* Takes nu units from the block at p, behind prevp: the heap and the result.
Take(g, nu, prevp, p) ==
  IF g.size[p] = nu
  THEN <<[g EXCEPT !.ptr[prevp] = g.ptr[p], !.ptr[p] = NULL, !.freep = prevp], p>>
  ELSE LET a == p + g.size[p] - nu
       IN  <<[g EXCEPT !.size[p] = @ - nu, !.size[a] = nu, !.freep = prevp], a>>

RECURSIVE Search(_, _, _, _)
Search(g, nu, prevp, p) ==
  IF g.size[p] >= nu THEN Take(g, nu, prevp, p)
  ELSE IF p # g.freep THEN Search(g, nu, p, g.ptr[p])
  ELSE IF g.brk + Core(nu) > Top THEN <<g, NULL>>
  ELSE LET m == Morecore(g, nu) IN Search(m, nu, m.freep, m.ptr[m.freep])

Started == IF h.freep = NULL THEN [h EXCEPT !.ptr[Base] = Base, !.freep = Base] ELSE h

\* (nbytes + sizeof(Header) - 1)/sizeof(Header) + 1
Nunits(nbytes) == (nbytes + 8 - 1) \div 8 + 1

malloc(nbytes) ==
  LET nu == Nunits(nbytes)
      r  == Search(Started, nu, Started.freep, Started.ptr[Started.freep])
  IN  /\ h' = r[1] /\ UNCHANGED foreign
      /\ used' = IF r[2] = NULL THEN used ELSE used \union {<<r[2], nu>>}

free(b) == b \in used /\ h' = Free(h, b[1]) /\ used' = used \ {b} /\ UNCHANGED foreign

\* The program grows its memory without malloc().
Sbrk ==
  /\ h.brk < Top /\ h' = [h EXCEPT !.brk = @ + 1]
  /\ foreign' = foreign \union {<<h.brk, 1>>} /\ UNCHANGED used

HeapNext == (\E n \in Sizes : malloc(n)) \/ (\E b \in used : free(b)) \/ Sbrk

-----------------------------------------------------------------------------
FreeAddr == {a \in Base .. Top : h.ptr[a] # NULL}
Blocks == {<<a, h.size[a]>> : a \in FreeAddr \ {Base}} \union used \union foreign
Span(b) == b[1] .. (b[1] + b[2] - 1)

Tiled ==
  /\ \A x \in Bottom .. (h.brk - 1) : Cardinality({b \in Blocks : x \in Span(b)}) = 1
  /\ \A b \in Blocks : b[2] > 0 /\ Span(b) \subseteq Bottom .. (h.brk - 1)

Ordered ==
  h.freep # NULL =>
    /\ h.freep \in FreeAddr
    /\ \A a \in FreeAddr :
         LET above == {b \in FreeAddr : b > a}
         IN  /\ h.ptr[a] = IF above = {} THEN Base ELSE CHOOSE b \in above : \A c \in above : b <= c
             /\ a # Base => a + h.size[a] \notin FreeAddr

Frugal ==
  \A n \in Sizes : malloc(n) /\ (h'.brk # h.brk \/ used' = used)
                     => \A a \in FreeAddr : h.size[a] < Nunits(n)

(* Every call leaves the blocks in use, the free ones and the program's    *)
(* own memory tiling what sbrk() gave, without a gap or an overlap, and    *)
(* the free list running through all free blocks by address and back, no   *)
(* two of them touching; and malloc() asks for more memory, or gives up,   *)
(* only when no free block is large enough (umalloc.c:25-44, 63-90: the    *)
(* list is searched from where the last call left off, and morecore()      *)
(* moves that place).                                                      *)
HeapStep == Tiled' /\ Ordered' /\ Frugal
=============================================================================
