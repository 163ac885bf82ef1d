------------------------------ MODULE PipeFiles ------------------------------
(***************************************************************************)
(* Files and descriptors, for any number of processes, files and           *)
(* descriptors: what every state of them satisfies, and that the steps     *)
(* that open, share and close files, and those that write and read the     *)
(* ring, keep it so.                                                       *)
(***************************************************************************)
EXTENDS Pipe, Counting, TLAPS

InRead == {"read", "rempty", "rsleep"}
InWrite == {"write", "wfull", "wsleep"}
Creating == {"filealloc", "kalloc", "fdalloc"}
Closing == {"fileclose", "closer", "closew", "kfree"}

Index == 0..Uint - 1

FileRec == [ref : Nat, type : {"NONE", "INODE", "PIPE_R", "PIPE_W"}]

PipeType ==
  /\ ftable \in [File -> FileRec]
  /\ ofile \in [Process -> [Fd -> File \cup {None}]]
  /\ page \in {"free", "used"} /\ data \in [Ring -> Byte]
  /\ nread \in Index /\ nwrite \in Index
  /\ readopen \in BOOLEAN /\ writeopen \in BOOLEAN
  /\ ppc \in [Process -> {"user", "dead", "exit"} \cup Creating \cup Closing \cup InRead \cup InWrite]
  /\ got \in [Process -> Seq(File)] /\ todo \in [Process -> Seq(File)]
  /\ buf \in [Process -> Seq(Byte)]
  /\ ret \in [Process -> {"none", "eof", "err", "exit"}]
  /\ killed \in [Process -> BOOLEAN]

\* What a call has allocated and has still to close at each of its steps.
CallOk(p) ==
  /\ got[p] # <<>> => ppc[p] \in Creating
  /\ ppc[p] = "filealloc" => Len(got[p]) < 2
  /\ ppc[p] \in {"kalloc", "fdalloc"} => Len(got[p]) = 2
  /\ todo[p] # <<>> => ppc[p] \in Closing
  /\ ppc[p] = "fileclose" => Len(todo[p]) \in 1..2
  /\ ppc[p] \in {"closer", "closew", "kfree"} => Len(todo[p]) < 2
  /\ ppc[p] = "dead" => \A d \in Fd : ofile[p][d] = None
  /\ ppc[p] \in InRead \cup InWrite => ret[p] = "none"

CallInv == \A p \in Process : CallOk(p)

\* A file without a type is held by at most one call, and by no descriptor.
FileOk(f) ==
  /\ ftable[f].ref = 0 => ftable[f].type = "NONE"
  /\ ftable[f].type = "NONE" => ftable[f].ref < 2 /\ \A p \in Process, d \in Fd : ofile[p][d] # f

GotOk(p) ==
  /\ ppc[p] \in {"filealloc", "kalloc"} =>
       \A i \in 1..Len(got[p]) : ftable[got[p][i]].type = "NONE"
  /\ ppc[p] = "fdalloc" => ftable[got[p][1]].type = "PIPE_R" /\ ftable[got[p][2]].type = "PIPE_W"

KindInv == (\A f \in File : FileOk(f)) /\ (\A p \in Process : GotOk(p))

\* An open end is one file, or one call that is about to close it.
End(open, t, closing) ==
  /\ open <=> (\E f \in File : ftable[f].type = t) \/ (\E p \in Process : At(p, closing))
  /\ \A f, g \in File : ftable[f].type = t /\ ftable[g].type = t => f = g
  /\ \A p, q \in Process : At(p, closing) /\ At(q, closing) => p = q
  /\ \A f \in File, p \in Process : ~(ftable[f].type = t /\ At(p, closing))

EndInv ==
  /\ page = "free" => ~readopen /\ ~writeopen
  /\ End(readopen, "PIPE_R", "closer") /\ End(writeopen, "PIPE_W", "closew")
  /\ (\E p \in Process : At(p, "kfree")) <=> (page = "used" /\ ~readopen /\ ~writeopen)
  /\ \A p, q \in Process : At(p, "kfree") /\ At(q, "kfree") => p = q

\* A call on the pipe holds its end; one that sleeps, or is about to, has a
\* reason to.
UseOk(p) ==
  /\ ppc[p] \in InRead => \E d \in Fd : Opens(p, d, "PIPE_R")
  /\ ppc[p] \in InWrite => \E d \in Fd : Opens(p, d, "PIPE_W")
  /\ ppc[p] \in {"rempty", "rsleep"} => writeopen
  /\ ppc[p] \in {"wfull", "wsleep"} => Room = 0 /\ readopen

UseInv == \A p \in Process : UseOk(p)

PipeInv == PipeType /\ CallInv /\ FileRefs /\ KindInv /\ EndInv /\ UseInv /\ Avail <= PIPESIZE

-----------------------------------------------------------------------------
\* What holds a file, as a function of the places where a file can be held.

Slot == (Process \X {"fd"} \X Fd) \cup (Process \X {"todo", "got"} \X {1, 2})

Listed(s, i) == IF i \in 1..Len(s) THEN s[i] ELSE None

holds ==
  [x \in Slot |-> CASE x[2] = "fd" -> ofile[x[1]][x[3]]
                    [] x[2] = "todo" -> Listed(todo[x[1]], x[3])
                    [] OTHER -> Listed(got[x[1]], x[3])]

Holding(h, f) == {x \in Slot : h[x] = f}

LEMMA SlotIs ==
  /\ \A p \in Process, d \in Fd : <<p, "fd", d>> \in Slot
  /\ \A p \in Process, i \in {1, 2} : <<p, "todo", i>> \in Slot /\ <<p, "got", i>> \in Slot
  /\ \A x \in Slot : \/ \E p \in Process, d \in Fd : x = <<p, "fd", d>>
                     \/ \E p \in Process, i \in {1, 2} : x = <<p, "todo", i>>
                     \/ \E p \in Process, i \in {1, 2} : x = <<p, "got", i>>
BY DEF Slot

LEMMA HoldsFd ==
  ASSUME NEW p \in Process, NEW d \in Fd
  PROVE  /\ <<p, "fd", d>> \in Slot
         /\ holds[<<p, "fd", d>>] = ofile[p][d] /\ holds'[<<p, "fd", d>>] = ofile'[p][d]
BY SlotIs DEF holds

LEMMA HoldsTodo ==
  ASSUME NEW p \in Process, NEW i \in {1, 2}
  PROVE  /\ <<p, "todo", i>> \in Slot
         /\ holds[<<p, "todo", i>>] = Listed(todo[p], i)
         /\ holds'[<<p, "todo", i>>] = Listed(todo'[p], i)
BY SlotIs, Zenon DEF holds, Listed

LEMMA HoldsGot ==
  ASSUME NEW p \in Process, NEW i \in {1, 2}
  PROVE  /\ <<p, "got", i>> \in Slot
         /\ holds[<<p, "got", i>>] = Listed(got[p], i)
         /\ holds'[<<p, "got", i>>] = Listed(got'[p], i)
BY SlotIs, Zenon DEF holds, Listed

-----------------------------------------------------------------------------
LEMMA SlotFinite == ASSUME Counting PROVE IsFiniteSet(Slot)
<1>. DEFINE Kind == {"fd", "todo", "got"}
            Place == Fd \cup {1, 2}
            Pair == (Process \X Kind) \X Place
            All == Process \X Kind \X Place
            F == [x \in Pair |-> <<x[1][1], x[1][2], x[2]>>]
<1>1. IsFiniteSet(Kind)
  <2>1. Kind = (({} \cup {"fd"}) \cup {"todo"}) \cup {"got"}
    OBVIOUS
  <2>2. IsFiniteSet({} \cup {"fd"})
    BY Zenon DEF Counting, EmptySets, Additions
  <2>3. IsFiniteSet(({} \cup {"fd"}) \cup {"todo"})
    BY <2>2, Zenon DEF Counting, Additions
  <2>4. IsFiniteSet((({} \cup {"fd"}) \cup {"todo"}) \cup {"got"})
    BY <2>3, Zenon DEF Counting, Additions
  <2>. QED BY <2>1, <2>4, Zenon
<1>2. IsFiniteSet(Place)
  <2>1. IsFiniteSet(Fd)
    BY FileSizes DEF Fd, Counting, Intervals
  <2>2. Place = (Fd \cup {1}) \cup {2}
    OBVIOUS
  <2>. QED BY <2>1, <2>2, Zenon DEF Counting, Additions
<1>3. IsFiniteSet(Pair)
  BY <1>1, <1>2, Processes, Zenon DEF Counting, Products
<1>4. Onto(F, Pair, All)
  <2>1. F \in [Pair -> All]
    OBVIOUS
  <2>2. ASSUME NEW t \in All PROVE \E x \in Pair : F[x] = t
    <3>1. <<<<t[1], t[2]>>, t[3]>> \in Pair /\ F[<<<<t[1], t[2]>>, t[3]>>] = t
      OBVIOUS
    <3>. QED BY <3>1
  <2>. QED BY <2>1, <2>2, Zenon DEF Onto
<1>5. IsFiniteSet(All)
  <2>. HIDE DEF Pair, All, F
  <2>. QED BY <1>3, <1>4, Zenon DEF Counting, Images
<1>6. Slot \in SUBSET All
  BY DEF Slot
<1>. QED BY <1>5, <1>6 DEF Counting, Subsets

\* Descriptors of one process, as slots.
LEMMA FdSlots ==
  ASSUME Counting, NEW q \in Process, NEW D \in SUBSET Fd
  PROVE  LET E == {<<q, "fd", d>> : d \in D}
         IN IsFiniteSet(E) /\ Cardinality(E) = Cardinality(D) /\ Cardinality(D) \in Nat
<1>. DEFINE E == {<<q, "fd", d>> : d \in D}
            F == [d \in D |-> <<q, "fd", d>>]
<1>1. IsFiniteSet(D) /\ Cardinality(D) \in Nat
  <2>1. IsFiniteSet(Fd)
    BY FileSizes DEF Fd, Counting, Intervals
  <2>. QED BY <2>1 DEF Counting, Subsets, Sizes
<1>2. Onto(F, D, E) /\ \A a, b \in D : F[a] = F[b] => a = b
  <2>0. \A d \in D : F[d] = <<q, "fd", d>> /\ <<q, "fd", d>> \in E
    OBVIOUS
  <2>1. F \in [D -> E]
    OBVIOUS
  <2>2. \A a, b \in D : F[a] = F[b] => a = b
    BY <2>0
  <2>3. \A t \in E : \E s \in D : F[s] = t
    <3>1. ASSUME NEW t \in E PROVE \E s \in D : F[s] = t
      <4>1. PICK s \in D : t = <<q, "fd", s>>
        BY Zenon
      <4>. QED BY <2>0, <4>1, Zenon
    <3>. QED BY <3>1, Zenon
  <2>. HIDE DEF E, F
  <2>. QED BY <2>1, <2>2, <2>3, Zenon DEF Onto
<1>3. IsFiniteSet(E) /\ Cardinality(E) = Cardinality(D)
  <2>. HIDE DEF E, F
  <2>. QED BY <1>1, <1>2, Zenon DEF Counting, Images
<1>. QED BY <1>1, <1>3

LEMMA MinIs ==
  ASSUME Counting, NEW T \in SUBSET Nat, T # {}
  PROVE  Min(T) \in T /\ \A y \in T : Min(T) <= y
<1>1. \E x \in T : \A y \in T : x <= y
  BY Zenon DEF Counting, Least
<1>. QED BY <1>1, Zenon DEF Min

-----------------------------------------------------------------------------
\* How often a file is held.

LEMMA HoldingFinite ==
  ASSUME Counting, NEW h, NEW f
  PROVE  IsFiniteSet(Holding(h, f)) /\ Cardinality(Holding(h, f)) \in Nat
<1>1. Holding(h, f) \in SUBSET Slot
  BY DEF Holding
<1>. QED BY <1>1, SlotFinite DEF Counting, Subsets, Sizes

\* The lists of a call have at most two files.
LEMMA ListLengths ==
  ASSUME PipeType, CallInv, NEW p \in Process
  PROVE  /\ todo[p] \in Seq(File) /\ got[p] \in Seq(File)
         /\ Len(todo[p]) \in 0..2 /\ Len(got[p]) \in 0..2
<1>0. CallOk(p)
  BY DEF CallInv
<1>1. todo[p] \in Seq(File) /\ got[p] \in Seq(File)
  BY DEF PipeType
<1>2. Len(todo[p]) \in 0..2
  <2>. DEFINE n == Len(todo[p])
  <2>1. n \in Nat /\ (todo[p] = <<>> => n = 0)
    BY <1>1
  <2>2. /\ todo[p] # <<>> => ppc[p] \in Closing
        /\ ppc[p] = "fileclose" => n \in 1..2
        /\ ppc[p] \in {"closer", "closew", "kfree"} => n < 2
    BY <1>0, Zenon DEF CallOk
  <2>. HIDE DEF n
  <2>3. n \in 0..2
    BY <2>1, <2>2 DEF Closing
  <2>. QED BY <2>3 DEF n
<1>3. Len(got[p]) \in 0..2
  <2>. DEFINE n == Len(got[p])
  <2>1. n \in Nat /\ (got[p] = <<>> => n = 0)
    BY <1>1
  <2>2. /\ got[p] # <<>> => ppc[p] \in Creating
        /\ ppc[p] = "filealloc" => n < 2
        /\ ppc[p] \in {"kalloc", "fdalloc"} => n = 2
    BY <1>0, Zenon DEF CallOk
  <2>. HIDE DEF n
  <2>3. n \in 0..2
    BY <2>1, <2>2 DEF Creating
  <2>. QED BY <2>3 DEF n
<1>. QED BY <1>1, <1>2, <1>3

LEMMA HoldersAre ==
  ASSUME PipeType, CallInv, NEW f \in File
  PROVE  Holders(f) = Holding(holds, f)
<1>0. f # None
  BY FileSizes DEF File, None
<1>1. ASSUME NEW p \in Process
      PROVE  Len(todo[p]) \in 0..2 /\ Len(got[p]) \in 0..2
             /\ DOMAIN todo[p] = 1..Len(todo[p]) /\ DOMAIN got[p] = 1..Len(got[p])
  BY ListLengths
<1>2. ASSUME NEW p \in Process, NEW d \in Fd
      PROVE  <<p, "fd", d>> \in Holders(f) <=> ofile[p][d] = f
  BY DEF Holders, Places
<1>3. ASSUME NEW p \in Process, NEW i \in {1, 2}
      PROVE  /\ <<p, "todo", i>> \in Holders(f) <=> Listed(todo[p], i) = f
             /\ <<p, "got", i>> \in Holders(f) <=> Listed(got[p], i) = f
  BY <1>0, <1>1 DEF Holders, Places, Listed
<1>4. Holders(f) \subseteq Slot
  BY DEF Holders, Places, Slot
<1>5. ASSUME NEW x \in Slot PROVE x \in Holders(f) <=> holds[x] = f
  <2>1. CASE \E p \in Process, d \in Fd : x = <<p, "fd", d>>
    BY <1>2, <2>1, HoldsFd, Zenon
  <2>2. CASE \E p \in Process, i \in {1, 2} : x = <<p, "todo", i>>
    <3>1. PICK p \in Process, i \in {1, 2} : x = <<p, "todo", i>>
      BY <2>2
    <3>2. holds[<<p, "todo", i>>] = Listed(todo[p], i)
      BY HoldsTodo, Zenon
    <3>3. <<p, "todo", i>> \in Holders(f) <=> Listed(todo[p], i) = f
      BY <1>3, Zenon
    <3>. QED BY <3>1, <3>2, <3>3, Zenon
  <2>3. CASE \E p \in Process, i \in {1, 2} : x = <<p, "got", i>>
    <3>1. PICK p \in Process, i \in {1, 2} : x = <<p, "got", i>>
      BY <2>3
    <3>2. holds[<<p, "got", i>>] = Listed(got[p], i)
      BY HoldsGot, Zenon
    <3>3. <<p, "got", i>> \in Holders(f) <=> Listed(got[p], i) = f
      BY <1>3, Zenon
    <3>. QED BY <3>1, <3>2, <3>3, Zenon
  <2>. QED BY <2>1, <2>2, <2>3, SlotIs, Zenon
<1>. QED BY <1>4, <1>5 DEF Holding

OnSlots(h) == h = [x \in Slot |-> h[x]]

LEMMA HoldsOnSlots == OnSlots(holds) /\ OnSlots(holds')
BY DEF holds, OnSlots

Tally(h, f) == Cardinality(Holding(h, f))

LEMMA TallyNat == ASSUME Counting PROVE \A h, f : Tally(h, f) \in Nat
BY HoldingFinite DEF Tally

\* One slot changes.
Point(h, g, a) == \A x \in Slot : x # a => g[x] = h[x]

LEMMA PointCount ==
  ASSUME Counting, NEW h, NEW g, NEW a \in Slot, NEW f \in File, Point(h, g, a)
  PROVE  Tally(g, f) = Tally(h, f) + (IF g[a] = f THEN 1 ELSE 0) - (IF h[a] = f THEN 1 ELSE 0)
<1>. DEFINE G == Holding(g, f)
            H == Holding(h, f)
<1>1. IsFiniteSet(H) /\ Cardinality(H) \in Nat
  BY HoldingFinite
<1>2. a \in H <=> h[a] = f
  BY DEF Holding, Point
<1>3. CASE g[a] = f
  <2>1. G = H \cup {a}
    BY <1>3 DEF Holding, Point
  <2>. HIDE DEF H, G
  <2>2. Cardinality(H \cup {a}) = IF a \in H THEN Cardinality(H) ELSE Cardinality(H) + 1
    BY <1>1, Zenon DEF Counting, Additions
  <2>3. Cardinality(G) = Cardinality(H) + 1 - (IF h[a] = f THEN 1 ELSE 0)
    BY <1>1, <1>2, <2>1, <2>2
  <2>. QED BY <1>1, <1>3, <2>3 DEF G, H, Tally
<1>4. CASE g[a] # f
  <2>1. G = H \ {a}
    BY <1>4 DEF Holding, Point
  <2>. HIDE DEF H, G
  <2>2. Cardinality(H \ {a}) = IF a \in H THEN Cardinality(H) - 1 ELSE Cardinality(H)
    BY <1>1, Zenon DEF Counting, Removals
  <2>3. Cardinality(G) = Cardinality(H) + 0 - (IF h[a] = f THEN 1 ELSE 0)
    BY <1>1, <1>2, <2>1, <2>2
  <2>. QED BY <1>1, <1>4, <2>3 DEF G, H, Tally
<1>. QED BY <1>3, <1>4

\* Lists of at most two files, element by element.
LEMMA ListedIs ==
  /\ \A i \in {1, 2} : Listed(<<>>, i) = None
  /\ \A f : Listed(<<f>>, 1) = f /\ Listed(<<f>>, 2) = None
BY DEF Listed

LEMMA ListedAppend ==
  ASSUME NEW S, NEW s \in Seq(S), NEW m \in S, NEW i \in {1, 2}
  PROVE  Listed(Append(s, m), i) = IF i = Len(s) + 1 THEN m ELSE Listed(s, i)
<1>. DEFINE n == Len(s)
            t == Append(s, m)
<1>1. n \in Nat /\ Len(t) = n + 1 /\ t[n + 1] = m /\ \A k \in 1..n : t[k] = s[k]
  OBVIOUS
<1>. HIDE DEF n, t
<1>2. Listed(t, i) = IF i \in 1..n + 1 THEN t[i] ELSE None
  BY <1>1 DEF Listed
<1>3. Listed(s, i) = IF i \in 1..n THEN s[i] ELSE None
  BY DEF Listed, n
<1>4. Listed(t, i) = IF i = n + 1 THEN m ELSE Listed(s, i)
  BY <1>1, <1>2, <1>3
<1>. QED BY <1>4 DEF n, t

LEMMA ListedTail ==
  ASSUME NEW S, NEW s \in Seq(S), Len(s) \in 1..2
  PROVE  /\ Head(s) = Listed(s, 1) /\ Head(s) \in S
         /\ Tail(s) \in Seq(S) /\ Len(Tail(s)) = Len(s) - 1
         /\ Listed(Tail(s), 1) = Listed(s, 2) /\ Listed(Tail(s), 2) = None
<1>. DEFINE n == Len(s)
            t == Tail(s)
<1>0. n \in 1..2 /\ s # <<>>
  OBVIOUS
<1>1. /\ Head(s) = s[1] /\ Head(s) \in S /\ t \in Seq(S) /\ Len(t) = n - 1
      /\ \A i \in 1..n - 1 : t[i] = s[i + 1]
  BY <1>0
<1>. HIDE DEF n, t
<1>2. \A i \in {1, 2} : Listed(t, i) = IF i \in 1..n - 1 THEN t[i] ELSE None
  BY <1>1 DEF Listed
<1>3. \A i \in {1, 2} : Listed(s, i) = IF i \in 1..n THEN s[i] ELSE None
  BY DEF Listed, n
<1>4. Head(s) = Listed(s, 1) /\ Listed(t, 1) = Listed(s, 2) /\ Listed(t, 2) = None
  BY <1>0, <1>1, <1>2, <1>3
<1>. QED BY <1>1, <1>4 DEF n, t

LEMMA ListedShort ==
  ASSUME NEW s \in Seq(File), NEW i \in {1, 2}
  PROVE  /\ Listed(s, i) \in File \cup {None}
         /\ Listed(s, i) # None <=> i \in 1..Len(s)
         /\ Listed(s, i) # None => Listed(s, i) = s[i]
<1>1. \A k \in 1..Len(s) : s[k] \in File
  OBVIOUS
<1>2. None \notin File
  BY FileSizes DEF File, None
<1>. QED BY <1>1, <1>2 DEF Listed

-----------------------------------------------------------------------------
\* References and holders.

\* Two functions on the slots are equal when they hold the same at each.
LEMMA SameHolds ==
  ASSUME NEW h, NEW g, OnSlots(h), OnSlots(g),
         \A p \in Process, d \in Fd : h[<<p, "fd", d>>] = g[<<p, "fd", d>>],
         \A p \in Process, i \in {1, 2} : h[<<p, "todo", i>>] = g[<<p, "todo", i>>],
         \A p \in Process, i \in {1, 2} : h[<<p, "got", i>>] = g[<<p, "got", i>>]
  PROVE  h = g
<1>1. ASSUME NEW x \in Slot PROVE h[x] = g[x]
  <2>1. CASE \E p \in Process, d \in Fd : x = <<p, "fd", d>>
    BY <2>1, Zenon
  <2>2. CASE \E p \in Process, i \in {1, 2} : x = <<p, "todo", i>>
    <3>1. PICK p \in Process, i \in {1, 2} : x = <<p, "todo", i>>
      BY <2>2
    <3>2. h[<<p, "todo", i>>] = g[<<p, "todo", i>>]
      BY Zenon
    <3>. QED BY <3>1, <3>2, Zenon
  <2>3. CASE \E p \in Process, i \in {1, 2} : x = <<p, "got", i>>
    <3>1. PICK p \in Process, i \in {1, 2} : x = <<p, "got", i>>
      BY <2>3
    <3>2. h[<<p, "got", i>>] = g[<<p, "got", i>>]
      BY Zenon
    <3>. QED BY <3>1, <3>2, Zenon
  <2>. QED BY <2>1, <2>2, <2>3, SlotIs, Zenon
<1>. QED BY <1>1 DEF OnSlots

LEMMA HeldOnce ==
  ASSUME Counting, PipeType, CallInv, FileRefs, NEW a \in Slot, NEW f \in File, holds[a] = f
  PROVE  ftable[f].ref > 0
<1>. DEFINE H == Holding(holds, f)
<1>1. a \in H
  BY DEF Holding
<1>2. IsFiniteSet(H) /\ Cardinality(H) \in Nat
  BY HoldingFinite, Zenon
<1>3. ftable[f].ref = Cardinality(H)
  BY HoldersAre DEF FileRefs
<1>. HIDE DEF H
<1>4. Cardinality(H) # 0
  BY <1>1, <1>2, Zenon DEF Counting, EmptySets
<1>. QED BY <1>2, <1>3, <1>4

LEMMA HeldTwice ==
  ASSUME Counting, PipeType, CallInv, FileRefs, NEW a \in Slot, NEW b \in Slot, a # b, NEW f \in File,
         holds[a] = f, holds[b] = f
  PROVE  ftable[f].ref > 1
<1>. DEFINE H == Holding(holds, f)
            G == H \ {a}
<1>1. a \in H /\ b \in G /\ IsFiniteSet(H) /\ Cardinality(H) \in Nat
  BY HoldingFinite DEF Holding
<1>. HIDE DEF H
<1>2. IsFiniteSet(G) /\ Cardinality(G) = Cardinality(H) - 1
  BY <1>1, Zenon DEF Counting, Removals
<1>3. Cardinality(G) \in Nat /\ Cardinality(G) # 0
  BY <1>1, <1>2 DEF Counting, EmptySets, Sizes
<1>4. ftable[f].ref = Cardinality(H)
  BY HoldersAre DEF FileRefs, H
<1>. QED BY <1>1, <1>2, <1>3, <1>4

\* The file held at a is held at b instead.
Shift(h, a, b) == [x \in Slot |-> IF x = a THEN None ELSE IF x = b THEN h[a] ELSE h[x]]

LEMMA ShiftCount ==
  ASSUME Counting, NEW h, NEW a \in Slot, NEW b \in Slot, a # b, h[b] = None, NEW f \in File
  PROVE  Tally(Shift(h, a, b), f) = Tally(h, f)
<1>. DEFINE g == [x \in Slot |-> IF x = b THEN h[a] ELSE h[x]]
            k == Shift(h, a, b)
<1>1. g[a] = h[a] /\ g[b] = h[a] /\ Point(h, g, b) /\ k[a] = None /\ Point(g, k, a)
  BY DEF Shift, Point
<1>2. None # f
  BY FileSizes DEF File, None
<1>. HIDE DEF g, k
<1>3. Tally(g, f) = Tally(h, f) + (IF g[b] = f THEN 1 ELSE 0) - (IF h[b] = f THEN 1 ELSE 0)
  BY <1>1, PointCount
<1>4. Tally(k, f) = Tally(g, f) + (IF k[a] = f THEN 1 ELSE 0) - (IF g[a] = f THEN 1 ELSE 0)
  BY <1>1, PointCount
<1>5. Tally(g, f) \in Nat /\ Tally(h, f) \in Nat
  BY TallyNat
<1>6. Tally(k, f) = Tally(h, f)
  BY <1>1, <1>2, <1>3, <1>4, <1>5
<1>. QED BY <1>6 DEF k

\* References stay right when what holds the files changes as they do.
LEMMA RefsStep ==
  ASSUME Counting, PipeType, CallInv, FileRefs, PipeType', CallInv',
         \A f \in File : Tally(holds', f) - Tally(holds, f)
                           = ftable'[f].ref - ftable[f].ref
  PROVE  FileRefs'
<1>. SUFFICES ASSUME NEW f \in File PROVE ftable'[f].ref = Cardinality(Holders(f))'
  BY DEF FileRefs
<1>1. Holders(f)' = Holding(holds', f)
  <2>1. PipeType' /\ CallInv' => (Holders(f) = Holding(holds, f))'
    BY HoldersAre, PTL
  <2>2. Holding(holds, f)' = Holding(holds', f)
    BY DEF Holding
  <2>. QED BY <2>1, <2>2
<1>2. ftable[f].ref = Tally(holds, f)
  BY HoldersAre DEF FileRefs, Tally
<1>3. /\ Tally(holds', f) \in Nat /\ Tally(holds, f) \in Nat
      /\ ftable[f].ref \in Nat /\ ftable'[f].ref \in Nat
  BY TallyNat DEF PipeType, FileRec
<1>. QED BY <1>1, <1>2, <1>3 DEF Tally

\* What a failing sys_pipe() does to the holders.
LEMMA UndoHolds ==
  ASSUME PipeType, CallInv, NEW p \in Process, ppc[p] \in Creating, Undo(p), UNCHANGED ofile
  PROVE  holds' = Shift(Shift(holds, <<p, "got", 1>>, <<p, "todo", 1>>), <<p, "got", 2>>, <<p, "todo", 2>>)
<1>. DEFINE h == Shift(holds, <<p, "got", 1>>, <<p, "todo", 1>>)
            g == Shift(h, <<p, "got", 2>>, <<p, "todo", 2>>)
<1>1. todo' = [todo EXCEPT ![p] = got[p]] /\ got' = [got EXCEPT ![p] = <<>>]
  BY DEF Undo, CloseRest
<1>2. todo \in [Process -> Seq(File)] /\ got \in [Process -> Seq(File)]
  BY DEF PipeType
<1>3. OnSlots(g)
  BY DEF Shift, OnSlots
<1>5. ASSUME NEW q \in Process, NEW d \in Fd PROVE g[<<q, "fd", d>>] = holds[<<q, "fd", d>>]
  BY HoldsFd DEF Shift
<1>6. ASSUME NEW q \in Process, NEW i \in {1, 2}
      PROVE g[<<q, "todo", i>>] = IF q = p THEN holds[<<p, "got", i>>] ELSE holds[<<q, "todo", i>>]
  <2>1. <<q, "todo", i>> \in Slot /\ <<p, "got", i>> \in Slot
    BY HoldsTodo, HoldsGot, Zenon
  <2>. QED BY <2>1 DEF Shift
<1>7. ASSUME NEW q \in Process, NEW i \in {1, 2}
      PROVE g[<<q, "got", i>>] = IF q = p THEN None ELSE holds[<<q, "got", i>>]
  <2>1. <<q, "got", i>> \in Slot
    BY HoldsGot, Zenon
  <2>. QED BY <2>1 DEF Shift
<1>. HIDE DEF g, h
<1>8. \A q \in Process, d \in Fd : holds'[<<q, "fd", d>>] = g[<<q, "fd", d>>]
  BY <1>5, HoldsFd, Zenon
<1>9. \A q \in Process, i \in {1, 2} : holds'[<<q, "todo", i>>] = g[<<q, "todo", i>>]
  <2>. SUFFICES ASSUME NEW q \in Process, NEW i \in {1, 2}
                PROVE  holds'[<<q, "todo", i>>] = g[<<q, "todo", i>>]
    BY Zenon
  <2>1. todo'[q] = IF q = p THEN got[p] ELSE todo[q]
    BY <1>1, <1>2
  <2>2. holds'[<<q, "todo", i>>] = Listed(todo'[q], i) /\ holds[<<q, "todo", i>>] = Listed(todo[q], i)
    BY HoldsTodo, Zenon
  <2>3. holds[<<p, "got", i>>] = Listed(got[p], i)
    BY HoldsGot, Zenon
  <2>4. g[<<q, "todo", i>>] = IF q = p THEN holds[<<p, "got", i>>] ELSE holds[<<q, "todo", i>>]
    BY <1>6, Zenon
  <2>. QED BY <2>1, <2>2, <2>3, <2>4, Zenon
<1>10. \A q \in Process, i \in {1, 2} : holds'[<<q, "got", i>>] = g[<<q, "got", i>>]
  <2>. SUFFICES ASSUME NEW q \in Process, NEW i \in {1, 2}
                PROVE  holds'[<<q, "got", i>>] = g[<<q, "got", i>>]
    BY Zenon
  <2>1. got'[q] = IF q = p THEN <<>> ELSE got[q]
    BY <1>1, <1>2
  <2>2. holds'[<<q, "got", i>>] = Listed(got'[q], i) /\ holds[<<q, "got", i>>] = Listed(got[q], i)
    BY HoldsGot, Zenon
  <2>3. g[<<q, "got", i>>] = IF q = p THEN None ELSE holds[<<q, "got", i>>]
    BY <1>7, Zenon
  <2>4. Listed(<<>>, i) = None
    BY ListedIs, Zenon
  <2>. QED BY <2>1, <2>2, <2>3, <2>4, Zenon
<1>11. holds' = g
  BY <1>3, <1>8, <1>9, <1>10, HoldsOnSlots, SameHolds, Zenon
<1>. QED BY <1>11 DEF h, g

-----------------------------------------------------------------------------
\* What most steps leave alone.

Counters == {"closer", "closew", "kfree"}

LEMMA NoneNoFile == None \notin File
BY FileSizes DEF File, None

\* A call goes on as before, or is woken.
SameCall(q) ==
  /\ \/ ppc'[q] = ppc[q]
     \/ ppc[q] \in InRead /\ ppc'[q] \in InRead
     \/ ppc[q] \in InWrite /\ ppc'[q] \in InWrite
  /\ got'[q] = got[q] /\ todo'[q] = todo[q] /\ ofile'[q] = ofile[q] /\ ret'[q] = ret[q]

LEMMA CallKept ==
  ASSUME NEW q \in Process, CallOk(q), SameCall(q)
  PROVE  CallOk(q)'
<1>1. CASE ppc'[q] = ppc[q]
  BY <1>1 DEF CallOk, SameCall
<1>2. CASE \/ ppc[q] \in InRead /\ ppc'[q] \in InRead
           \/ ppc[q] \in InWrite /\ ppc'[q] \in InWrite
  <2>1. got[q] = <<>> /\ todo[q] = <<>> /\ ret[q] = "none"
    BY <1>2 DEF CallOk, InRead, InWrite, Creating, Closing
  <2>2. got'[q] = <<>> /\ todo'[q] = <<>> /\ ret'[q] = "none"
    BY <2>1 DEF SameCall
  <2>. QED BY <1>2, <2>2 DEF CallOk, InRead, InWrite, Creating, Closing
<1>. QED BY <1>1, <1>2 DEF SameCall

LEMMA RefsKept ==
  ASSUME FileRefs, UNCHANGED <<ftable, ofile, got, todo>>
  PROVE  FileRefs'
<1>1. ASSUME NEW f \in File PROVE Holders(f)' = Holders(f)
  BY DEF Holders, Places
<1>. QED BY <1>1 DEF FileRefs

LEMMA KindKept ==
  ASSUME KindInv, UNCHANGED <<ftable, ofile, got>>,
         \A q \in Process : ppc'[q] \in Creating /\ got[q] # <<>> => ppc'[q] = ppc[q],
         \A q \in Process : ppc'[q] = "fdalloc" => ppc[q] = "fdalloc"
  PROVE  KindInv'
<1>1. ASSUME NEW f \in File PROVE FileOk(f)'
  BY DEF KindInv, FileOk
<1>2. ASSUME NEW q \in Process PROVE GotOk(q)'
  <2>1. GotOk(q)
    BY DEF KindInv
  <2>2. CASE got[q] = <<>>
    <3>1. Len(got'[q]) = 0
      BY <2>2, Zenon
    <3>. QED BY <2>1, <3>1 DEF GotOk
  <2>3. CASE got[q] # <<>> /\ ppc'[q] \in Creating
    BY <2>1, <2>3 DEF GotOk
  <2>4. CASE ppc'[q] \notin Creating
    BY <2>4 DEF GotOk, Creating
  <2>. QED BY <2>2, <2>3, <2>4
<1>. QED BY <1>1, <1>2 DEF KindInv

SameTypes == \A f \in File : ftable'[f].type = ftable[f].type
SameClosing == \A q \in Process, l \in Counters : ppc'[q] = l <=> ppc[q] = l

LEMMA EndKept ==
  ASSUME EndInv, SameTypes, SameClosing, UNCHANGED <<page, readopen, writeopen>>
  PROVE  EndInv'
<1>1. ASSUME NEW q \in Process
      PROVE  /\ At(q, "closer")' <=> At(q, "closer")
             /\ At(q, "closew")' <=> At(q, "closew")
             /\ At(q, "kfree")' <=> At(q, "kfree")
  BY Zenon DEF SameClosing, Counters, At
<1>2. End(readopen, "PIPE_R", "closer")'
  BY <1>1, Zenon DEF EndInv, End, SameTypes
<1>3. End(writeopen, "PIPE_W", "closew")'
  BY <1>1, Zenon DEF EndInv, End, SameTypes
<1>. QED BY <1>1, <1>2, <1>3 DEF EndInv

\* No call on the pipe starts.
SameUses ==
  \A q \in Process : ppc'[q] \in InRead \cup InWrite => ppc'[q] = ppc[q] /\ ofile'[q] = ofile[q]

LEMMA UseKept ==
  ASSUME PipeType, UseInv, SameTypes, SameUses, UNCHANGED <<nread, nwrite, readopen, writeopen>>
  PROVE  UseInv'
<1>. SUFFICES ASSUME NEW q \in Process, ppc'[q] \in InRead \cup InWrite PROVE UseOk(q)'
  BY DEF UseInv, UseOk, InRead, InWrite
<1>1. ppc'[q] = ppc[q] /\ ofile'[q] = ofile[q] /\ UseOk(q)
  BY Zenon DEF SameUses, UseInv
<1>2. ASSUME NEW d \in Fd, NEW t PROVE Opens(q, d, t) => Opens(q, d, t)'
  BY <1>1, NoneNoFile DEF Opens, SameTypes, PipeType
<1>. QED BY <1>1, <1>2, Zenon DEF UseOk, Room

LEMMA AvailKept ==
  ASSUME Avail <= PIPESIZE, UNCHANGED <<nread, nwrite>>
  PROVE  Avail' <= PIPESIZE
BY DEF Avail

-----------------------------------------------------------------------------
\* Calls that start.

LEMMA CallTypes ==
  ASSUME PipeType, NEW p \in Process
  PROVE  /\ ppc \in [Process -> {"user", "dead", "exit"} \cup Creating \cup Closing \cup InRead \cup InWrite]
         /\ got \in [Process -> Seq(File)] /\ todo \in [Process -> Seq(File)]
         /\ buf \in [Process -> Seq(Byte)]
         /\ ret \in [Process -> {"none", "eof", "err", "exit"}]
         /\ killed \in [Process -> BOOLEAN]
BY Zenon DEF PipeType

\* A process in user space has no call in progress.
LEMMA UserIdle ==
  ASSUME CallInv, NEW p \in Process, ppc[p] \in {"user", "exit", "dead"}
  PROVE  got[p] = <<>> /\ todo[p] = <<>>
BY DEF CallInv, CallOk, Creating, Closing

LEMMA ExceptIs ==
  ASSUME NEW S, NEW g, g = [q \in S |-> g[q]], NEW p \in S, NEW l
  PROVE  [g EXCEPT ![p] = l] = [q \in S |-> IF q = p THEN l ELSE g[q]]
OBVIOUS

LEMMA FunctionIn ==
  ASSUME NEW S, NEW T, NEW g, g = [x \in S |-> g[x]], \A x \in S : g[x] \in T
  PROVE  g \in [S -> T]
OBVIOUS

LEMMA GotoIs ==
  ASSUME PipeType, NEW p \in Process, NEW l
  PROVE  [ppc EXCEPT ![p] = l] = [q \in Process |-> IF q = p THEN l ELSE ppc[q]]
<1>1. ppc = [q \in Process |-> ppc[q]]
  BY DEF PipeType
<1>. QED BY <1>1, ExceptIs, Zenon

LEMMA Proceeds == \A fs, r : After(fs, r) \in {"fileclose", "exit", "user"}
BY DEF After

-----------------------------------------------------------------------------
\* sys_pipe().

\* A step that only moves references, or counts what it adds.
LEMMA FilesStep ==
  ASSUME Counting, PipeInv, PipeType', CallInv', KindInv', SameTypes, SameClosing, SameUses,
         UNCHANGED <<page, data, nread, nwrite, readopen, writeopen>>,
         \A f \in File : Tally(holds', f) - Tally(holds, f) = ftable'[f].ref - ftable[f].ref
  PROVE  PipeInv'
<1>. USE DEF PipeInv
<1>1. FileRefs'
  BY RefsStep
<1>2. EndInv'
  BY EndKept
<1>3. UseInv'
  BY UseKept, Zenon
<1>. QED BY <1>1, <1>2, <1>3, AvailKept, Zenon

LEMMA GotKept ==
  ASSUME NEW q \in Process, GotOk(q), CallOk(q), ppc'[q] = ppc[q], got'[q] = got[q],
         \A i \in 1..Len(got[q]) : ftable'[got[q][i]].type = ftable[got[q][i]].type
  PROVE  GotOk(q)'
<1>. DEFINE g == got[q]
            l == ppc[q]
<1>1. l = "fdalloc" => Len(g) = 2
  BY Zenon DEF CallOk
<1>2. /\ l \in {"filealloc", "kalloc"} => \A i \in 1..Len(g) : ftable[g[i]].type = "NONE"
      /\ l = "fdalloc" => ftable[g[1]].type = "PIPE_R" /\ ftable[g[2]].type = "PIPE_W"
  BY DEF GotOk
<1>. HIDE DEF g, l
<1>3. \A i \in 1..Len(g) : ftable'[g[i]].type = ftable[g[i]].type
  BY DEF g
<1>4. l = "fdalloc" => 1 \in 1..Len(g) /\ 2 \in 1..Len(g)
  <2>1. 1 \in 1..2 /\ 2 \in 1..2
    OBVIOUS
  <2>. QED BY <1>1, <2>1, Zenon
<1>5. /\ l \in {"filealloc", "kalloc"} => \A i \in 1..Len(g) : ftable'[g[i]].type = "NONE"
      /\ l = "fdalloc" => ftable'[g[1]].type = "PIPE_R" /\ ftable'[g[2]].type = "PIPE_W"
  BY <1>2, <1>3, <1>4, Zenon
<1>6. ppc'[q] = l /\ got'[q] = g
  BY DEF l, g
<1>7. ppc'[q] \in {"filealloc", "kalloc"} => \A i \in 1..Len(got'[q]) : ftable'[got'[q][i]].type = "NONE"
  BY <1>5, <1>6, Zenon
<1>8. ppc'[q] = "fdalloc" => ftable'[got'[q][1]].type = "PIPE_R" /\ ftable'[got'[q][2]].type = "PIPE_W"
  BY <1>5, <1>6, Zenon
<1>. QED BY <1>7, <1>8, Zenon DEF GotOk

LEMMA UndoInv ==
  ASSUME Counting, PipeInv, NEW p \in Process, ppc[p] \in Creating, Undo(p),
         UNCHANGED <<ftable, ofile, page, data, nread, nwrite, readopen, writeopen, buf, killed>>
  PROVE  PipeInv'
<1>. USE DEF PipeInv
<1>1. /\ todo' = [todo EXCEPT ![p] = got[p]] /\ got' = [got EXCEPT ![p] = <<>>]
      /\ ret' = [ret EXCEPT ![p] = "none"] /\ ppc' = [ppc EXCEPT ![p] = After(got[p], "none")]
  BY DEF Undo, CloseRest, Goto
<1>2. ppc' = [q \in Process |-> IF q = p THEN After(got[p], "none") ELSE ppc[q]]
  BY <1>1, GotoIs, Zenon
<1>3. /\ ppc' \in [Process -> {"user", "dead", "exit"} \cup Creating \cup Closing \cup InRead \cup InWrite]
      /\ ppc'[p] = IF got[p] # <<>> THEN "fileclose" ELSE "user"
      /\ \A q \in Process : q # p => ppc'[q] = ppc[q]
  <2>1. After(got[p], "none") = IF got[p] # <<>> THEN "fileclose" ELSE "user"
    BY Zenon DEF After
  <2>. QED BY <1>2, <2>1, CallTypes, Zenon DEF Closing
<1>4. /\ todo' \in [Process -> Seq(File)] /\ got' \in [Process -> Seq(File)]
      /\ ret' \in [Process -> {"none", "eof", "err", "exit"}]
      /\ todo'[p] = got[p] /\ got'[p] = <<>> /\ ret'[p] = "none"
      /\ \A q \in Process : q # p => todo'[q] = todo[q] /\ got'[q] = got[q] /\ ret'[q] = ret[q]
  BY <1>1, CallTypes
<1>5. PipeType'
  BY <1>3, <1>4, Zenon DEF PipeType
<1>6. got[p] # <<>> => Len(got[p]) \in 1..2
  BY ListLengths
<1>7. CallInv'
  <2>1. CallOk(p)'
    BY <1>3, <1>4, <1>6, Zenon DEF CallOk, Creating, Closing, InRead, InWrite
  <2>2. ASSUME NEW q \in Process, q # p PROVE SameCall(q)
    BY <1>3, <1>4, <2>2, Zenon DEF SameCall
  <2>. QED BY <2>1, <2>2, CallKept, Zenon DEF CallInv
<1>8. KindInv'
  <2>1. ASSUME NEW f \in File PROVE FileOk(f)'
    BY DEF KindInv, FileOk
  <2>2. ASSUME NEW q \in Process PROVE GotOk(q)'
    <3>1. CASE q = p
      BY <1>3, <3>1, Zenon DEF GotOk
    <3>2. CASE q # p
      BY <1>3, <1>4, <3>2, GotKept, Zenon DEF KindInv, CallInv
    <3>. QED BY <3>1, <3>2, Zenon
  <2>. QED BY <2>1, <2>2, Zenon DEF KindInv
<1>9. ASSUME NEW f \in File PROVE Tally(holds', f) = Tally(holds, f)
  <2>. DEFINE g1 == <<p, "got", 1>>
              g2 == <<p, "got", 2>>
              t1 == <<p, "todo", 1>>
              t2 == <<p, "todo", 2>>
              h == Shift(holds, g1, t1)
  <2>1. todo[p] = <<>>
    BY Zenon DEF CallInv, CallOk, Creating, Closing
  <2>2. holds[t1] = None /\ holds[t2] = None
    BY <2>1, HoldsTodo, ListedIs, Zenon
  <2>3. g1 \in Slot /\ g2 \in Slot /\ t1 \in Slot /\ t2 \in Slot /\ g1 # t1 /\ g2 # t2 /\ t1 # t2 /\ t2 # g1
    BY SlotIs
  <2>4. h[t2] = None
    BY <2>2, <2>3, Zenon DEF Shift
  <2>5. holds' = Shift(h, g2, t2)
    BY UndoHolds, Zenon
  <2>. HIDE DEF g1, g2, t1, t2, h
  <2>6. Tally(h, f) = Tally(holds, f)
    BY <2>2, <2>3, ShiftCount, Zenon DEF h
  <2>7. Tally(Shift(h, g2, t2), f) = Tally(h, f)
    BY <2>3, <2>4, ShiftCount, Zenon
  <2>. QED BY <2>5, <2>6, <2>7, Zenon
<1>10. \A f \in File : Tally(holds', f) - Tally(holds, f) = ftable'[f].ref - ftable[f].ref
  BY <1>9, TallyNat DEF PipeType, FileRec
<1>11. SameTypes /\ SameClosing /\ SameUses
  BY <1>3, Zenon DEF SameTypes, SameClosing, SameUses, Counters, Creating, InRead, InWrite
<1>. QED BY <1>5, <1>7, <1>8, <1>10, <1>11, FilesStep, Zenon

\* Every slot but one stays.
LEMMA SlotCount ==
  ASSUME Counting, PipeType, NEW a \in Slot, NEW m \in File, Point(holds, holds', a),
         holds[a] = None, holds'[a] = m, NEW f \in File
  PROVE  Tally(holds', f) - Tally(holds, f) = IF f = m THEN 1 ELSE 0
<1>1. Tally(holds', f) = Tally(holds, f) + (IF holds'[a] = f THEN 1 ELSE 0) - (IF holds[a] = f THEN 1 ELSE 0)
  BY PointCount
<1>2. None # f /\ Tally(holds', f) \in Nat /\ Tally(holds, f) \in Nat
  BY NoneNoFile, TallyNat
<1>. QED BY <1>1, <1>2

\* Which slots hold the same, list by list.
LEMMA PointIs ==
  ASSUME NEW a \in Slot,
         \A q \in Process, d \in Fd : <<q, "fd", d>> # a => ofile'[q][d] = ofile[q][d],
         \A q \in Process, i \in {1, 2} : <<q, "todo", i>> # a => Listed(todo'[q], i) = Listed(todo[q], i),
         \A q \in Process, i \in {1, 2} : <<q, "got", i>> # a => Listed(got'[q], i) = Listed(got[q], i)
  PROVE  Point(holds, holds', a)
<1>. SUFFICES ASSUME NEW x \in Slot, x # a PROVE holds'[x] = holds[x]
  BY DEF Point
<1>1. CASE \E q \in Process, d \in Fd : x = <<q, "fd", d>>
  <2>1. PICK q \in Process, d \in Fd : x = <<q, "fd", d>>
    BY <1>1
  <2>2. holds[<<q, "fd", d>>] = ofile[q][d] /\ holds'[<<q, "fd", d>>] = ofile'[q][d]
    BY HoldsFd, Zenon
  <2>. QED BY <2>1, <2>2, Zenon
<1>2. CASE \E q \in Process, i \in {1, 2} : x = <<q, "todo", i>>
  <2>1. PICK q \in Process, i \in {1, 2} : x = <<q, "todo", i>>
    BY <1>2
  <2>2. /\ holds[<<q, "todo", i>>] = Listed(todo[q], i)
        /\ holds'[<<q, "todo", i>>] = Listed(todo'[q], i)
    BY HoldsTodo, Zenon
  <2>. QED BY <2>1, <2>2, Zenon
<1>3. CASE \E q \in Process, i \in {1, 2} : x = <<q, "got", i>>
  <2>1. PICK q \in Process, i \in {1, 2} : x = <<q, "got", i>>
    BY <1>3
  <2>2. /\ holds[<<q, "got", i>>] = Listed(got[q], i)
        /\ holds'[<<q, "got", i>>] = Listed(got'[q], i)
    BY HoldsGot, Zenon
  <2>. QED BY <2>1, <2>2, Zenon
<1>. QED BY <1>1, <1>2, <1>3, SlotIs, Zenon

LEMMA FileAllocInv ==
  ASSUME Counting, PipeInv, NEW p \in Process, FileAlloc(p)
  PROVE  PipeInv'
<1>. USE DEF PipeInv
<1>. DEFINE free == {f \in File : ftable[f].ref = 0}
            m == Min(free)
            k == Len(got[p]) + 1
<1>1. ppc[p] = "filealloc" /\ UNCHANGED <<ofile, page, data, nread, nwrite, readopen, writeopen, buf, killed>>
  BY DEF FileAlloc, At, pipe
<1>2. CASE free = {}
  <2>1. Undo(p) /\ UNCHANGED ftable
    BY <1>2, Zenon DEF FileAlloc
  <2>. QED BY <1>1, <2>1, UndoInv DEF Creating
<1>3. CASE free # {}
  <2>1. /\ ftable' = [ftable EXCEPT ![m].ref = 1]
        /\ got' = [got EXCEPT ![p] = Append(@, m)]
        /\ ppc' = [ppc EXCEPT ![p] = IF got[p] = <<>> THEN "filealloc" ELSE "kalloc"]
        /\ UNCHANGED <<todo, ret>>
    BY <1>3 DEF FileAlloc, Goto
  <2>2. m \in File /\ ftable[m].ref = 0
    <3>1. free \in SUBSET Nat
      BY DEF File
    <3>2. m \in free
      BY <1>3, <3>1, MinIs
    <3>. QED BY <3>2
  <2>. HIDE DEF m
  <2>3. CallOk(p) /\ got[p] \in Seq(File) /\ k \in 1..2 /\ (got[p] = <<>> => k = 1) /\ (got[p] # <<>> => k = 2)
    BY <1>1, ListLengths DEF CallInv, CallOk
  <2>4. /\ got' \in [Process -> Seq(File)]
        /\ got'[p] = Append(got[p], m) /\ Len(got'[p]) = k
        /\ \A q \in Process : q # p => got'[q] = got[q]
    BY <2>1, <2>2, <2>3, CallTypes
  <2>5. ppc' = [q \in Process |-> IF q = p THEN IF got[p] = <<>> THEN "filealloc" ELSE "kalloc" ELSE ppc[q]]
    BY <2>1, GotoIs, Zenon
  <2>6. /\ ppc' \in [Process -> {"user", "dead", "exit"} \cup Creating \cup Closing \cup InRead \cup InWrite]
        /\ ppc'[p] = IF got[p] = <<>> THEN "filealloc" ELSE "kalloc"
        /\ \A q \in Process : q # p => ppc'[q] = ppc[q]
    BY <2>5, CallTypes DEF Creating
  <2>7. /\ ftable' \in [File -> FileRec]
        /\ \A f \in File : /\ ftable'[f].type = ftable[f].type
                           /\ ftable'[f].ref = IF f = m THEN 1 ELSE ftable[f].ref
    <3>1. ftable'[m] = [ftable[m] EXCEPT !.ref = 1] /\ \A f \in File : f # m => ftable'[f] = ftable[f]
      BY <2>1, <2>2, Zenon DEF PipeType
    <3>2. ftable[m] \in FileRec
      BY <2>2 DEF PipeType
    <3>3. /\ ftable'[m] \in FileRec
          /\ ftable'[m].ref = 1 /\ ftable'[m].type = ftable[m].type
      BY <3>1, <3>2 DEF FileRec
    <3>4. ftable' = [f \in File |-> ftable'[f]]
      <4>1. ftable = [f \in File |-> ftable[f]]
        BY DEF PipeType
      <4>2. ftable' = [f \in File |-> IF f = m THEN [ftable[m] EXCEPT !.ref = 1] ELSE ftable[f]]
        BY <2>1, <2>2, <4>1, ExceptIs, Zenon
      <4>. QED BY <4>2, Zenon
    <3>5. ASSUME NEW f \in File
          PROVE  ftable'[f] \in FileRec
      <4>1. ftable[f] \in FileRec
        BY DEF PipeType
      <4>. QED BY <3>1, <3>3, <4>1, Zenon
    <3>6. ftable' \in [File -> FileRec]
      BY <3>4, <3>5, FunctionIn, Zenon
    <3>. QED BY <3>1, <3>3, <3>6, Zenon
  <2>8. PipeType'
    BY <1>1, <2>1, <2>4, <2>6, <2>7 DEF PipeType
  <2>9. todo[p] = <<>>
    BY <1>1, <2>3 DEF CallOk, Closing
  <2>10. CallInv'
    <3>1. CallOk(p)'
      <4>. DEFINE n == Len(got'[p])
      <4>1. n = k
        BY <2>4, Zenon
      <4>2. k \in 1..2 /\ (ppc'[p] = "filealloc" => k = 1) /\ (ppc'[p] # "filealloc" => k = 2)
        BY <2>3, <2>6, Zenon
      <4>. HIDE DEF n, k
      <4>3. ppc'[p] \in {"filealloc", "kalloc"} /\ (ppc'[p] = "filealloc" => n < 2)
            /\ (ppc'[p] \in {"kalloc", "fdalloc"} => n = 2)
        BY <2>6, <4>1, <4>2
      <4>4. todo'[p] = <<>>
        BY <2>1, <2>9
      <4>. QED BY <4>3, <4>4 DEF CallOk, Creating, Closing, InRead, InWrite, n
    <3>2. ASSUME NEW q \in Process, q # p PROVE SameCall(q)
      BY <1>1, <2>1, <2>4, <2>6, <3>2, Zenon DEF SameCall
    <3>. QED BY <3>1, <3>2, CallKept DEF CallInv
  <2>11. FileOk(m) /\ ftable[m].type = "NONE"
    BY <2>2 DEF KindInv, FileOk
  <2>12. KindInv'
    <3>1. ASSUME NEW f \in File PROVE FileOk(f)'
      <4>1. FileOk(f)
        BY Zenon DEF KindInv
      <4>2. CASE f = m
        BY <1>1, <2>7, <2>11, <4>2 DEF FileOk
      <4>3. CASE f # m
        BY <1>1, <2>7, <4>1, <4>3, Zenon DEF FileOk
      <4>. QED BY <4>2, <4>3
    <3>2. ASSUME NEW q \in Process, q # p PROVE GotOk(q)'
      <4>1. \A i \in 1..Len(got[q]) : got[q][i] \in File
        BY ListLengths
      <4>2. \A i \in 1..Len(got[q]) : ftable'[got[q][i]].type = ftable[got[q][i]].type
        BY <2>7, <4>1, Zenon
      <4>3. ppc'[q] = ppc[q] /\ got'[q] = got[q]
        BY <2>4, <2>6, <3>2, Zenon
      <4>4. GotOk(q) /\ CallOk(q)
        BY Zenon DEF KindInv, CallInv
      <4>. QED BY <4>2, <4>3, <4>4, GotKept, Zenon
    <3>3. GotOk(p)'
      <4>1. \A i \in 1..Len(got[p]) : got[p][i] \in File /\ ftable[got[p][i]].type = "NONE"
        BY <1>1, <2>3 DEF KindInv, GotOk
      <4>2. ASSUME NEW i \in 1..Len(got'[p]) PROVE ftable'[got'[p][i]].type = "NONE"
        <5>1. i = k => got'[p][i] = m
          BY <2>2, <2>3, <2>4
        <5>2. i # k => i \in 1..Len(got[p]) /\ got'[p][i] = got[p][i]
          BY <2>2, <2>3, <2>4
        <5>. QED BY <2>2, <2>7, <2>11, <4>1, <5>1, <5>2, Zenon
      <4>3. ppc'[p] # "fdalloc"
        BY <2>6
      <4>. QED BY <4>2, <4>3, Zenon DEF GotOk
    <3>. QED BY <3>1, <3>2, <3>3, Zenon DEF KindInv
  <2>13. \A f \in File : Tally(holds', f) - Tally(holds, f) = ftable'[f].ref - ftable[f].ref
    <3>. DEFINE a == <<p, "got", k>>
    <3>1. a \in Slot /\ k \in {1, 2}
      <4>1. k \in {1, 2}
        BY <2>3, Zenon
      <4>. HIDE DEF k
      <4>. QED BY <4>1, HoldsGot, Zenon
    <3>2. ASSUME NEW i \in {1, 2} PROVE Listed(got'[p], i) = IF i = k THEN m ELSE Listed(got[p], i)
      BY <2>2, <2>3, <2>4, ListedAppend
    <3>3. Listed(got[p], k) = None
      BY <2>3, ListedShort
    <3>4. holds[a] = None /\ holds'[a] = m
      <4>1. holds[a] = Listed(got[p], k) /\ holds'[a] = Listed(got'[p], k)
        BY <3>1, HoldsGot, Zenon
      <4>. QED BY <3>1, <3>2, <3>3, <4>1, Zenon
    <3>5. Point(holds, holds', a)
      <4>1. \A q \in Process, i \in {1, 2} : <<q, "got", i>> # a => Listed(got'[q], i) = Listed(got[q], i)
        <5>. SUFFICES ASSUME NEW q \in Process, NEW i \in {1, 2}, <<q, "got", i>> # a
                      PROVE  Listed(got'[q], i) = Listed(got[q], i)
          BY Zenon
        <5>1. CASE q = p
          <6>1. i # k
            BY <5>1, Zenon
          <6>. QED BY <3>2, <5>1, <6>1
        <5>2. CASE q # p
          BY <2>4, <5>2, Zenon
        <5>. QED BY <5>1, <5>2, Zenon
      <4>. HIDE DEF a
      <4>. QED BY <1>1, <2>1, <3>1, <4>1, PointIs
    <3>. HIDE DEF a
    <3>6. \A f \in File : Tally(holds', f) - Tally(holds, f) = IF f = m THEN 1 ELSE 0
      BY <2>2, <3>1, <3>4, <3>5, SlotCount
    <3>7. \A f \in File : ftable'[f].ref - ftable[f].ref = IF f = m THEN 1 ELSE 0
      BY <2>2, <2>7 DEF PipeType, FileRec
    <3>. QED BY <3>6, <3>7
  <2>14. SameTypes /\ SameClosing /\ SameUses
    BY <1>1, <2>6, <2>7, Zenon DEF SameTypes, SameClosing, SameUses, Counters, InRead, InWrite
  <2>. QED BY <1>1, <2>8, <2>10, <2>12, <2>13, <2>14, FilesStep, Zenon
<1>. QED BY <1>2, <1>3

\* Files without a type that two calls have allocated are different.
LEMMA NoTypeOnce ==
  ASSUME Counting, PipeInv, NEW a \in Slot, NEW b \in Slot, a # b, NEW f \in File, ftable[f].type = "NONE",
         holds[a] = f
  PROVE  holds[b] # f /\ ftable[f].ref = 1
<1>1. ftable[f].ref < 2
  BY Zenon DEF PipeInv, KindInv, FileOk
<1>2. ftable[f].ref \in Nat
  BY Zenon DEF PipeInv, PipeType, FileRec
<1>3. ftable[f].ref > 0
  BY HeldOnce DEF PipeInv
<1>4. holds[b] = f => ftable[f].ref > 1
  BY HeldTwice DEF PipeInv
<1>. QED BY <1>1, <1>2, <1>3, <1>4

LEMMA GotSlots ==
  ASSUME NEW p \in Process
  PROVE  <<p, "got", 1>> \in Slot /\ <<p, "got", 2>> \in Slot /\ <<p, "got", 1>> # <<p, "got", 2>>
<1>1. 1 \in {1, 2} /\ 2 \in {1, 2} /\ <<p, "got", 1>> # <<p, "got", 2>>
  OBVIOUS
<1>. QED BY <1>1, HoldsGot, Zenon

\* The files of a sys_pipe() that has two.
LEMMA GotTwo ==
  ASSUME PipeInv, NEW p \in Process, ppc[p] \in {"kalloc", "fdalloc"}
  PROVE  /\ got[p] \in Seq(File) /\ Len(got[p]) = 2
         /\ got[p][1] \in File /\ got[p][2] \in File
         /\ holds[<<p, "got", 1>>] = got[p][1] /\ holds[<<p, "got", 2>>] = got[p][2]
         /\ todo[p] = <<>> /\ ret[p] \in {"none", "eof", "err", "exit"}
<1>1. CallOk(p) /\ got[p] \in Seq(File)
  BY Zenon DEF PipeInv, PipeType, CallInv
<1>2. Len(got[p]) = 2 /\ todo[p] = <<>>
  BY <1>1, Zenon DEF CallOk, Closing
<1>3. got[p][1] \in File /\ got[p][2] \in File
  BY <1>1, <1>2
<1>4. Listed(got[p], 1) = got[p][1] /\ Listed(got[p], 2) = got[p][2]
  BY <1>2 DEF Listed
<1>5. holds[<<p, "got", 1>>] = Listed(got[p], 1) /\ holds[<<p, "got", 2>>] = Listed(got[p], 2)
  BY HoldsGot, Zenon
<1>. QED BY <1>1, <1>2, <1>3, <1>4, <1>5 DEF PipeInv, PipeType

LEMMA PipeAllocInv ==
  ASSUME Counting, PipeInv, NEW p \in Process, PipeAlloc(p)
  PROVE  PipeInv'
<1>. USE DEF PipeInv
<1>1. ppc[p] = "kalloc" /\ UNCHANGED <<ofile, buf, killed>>
  BY Zenon DEF PipeAlloc, At
<1>2. CASE page = "used"
  <2>1. Undo(p) /\ UNCHANGED <<ftable, page, data, nread, nwrite, readopen, writeopen>>
    BY <1>2, Zenon DEF PipeAlloc, pipe
  <2>. QED BY <1>1, <2>1, UndoInv DEF Creating
<1>3. CASE page # "used"
  <2>. DEFINE a == got[p][1]
              b == got[p][2]
  <2>1. /\ page' = "used" /\ readopen' = TRUE /\ writeopen' = TRUE /\ nread' = 0 /\ nwrite' = 0
        /\ ftable' = [ftable EXCEPT ![a].type = "PIPE_R", ![b].type = "PIPE_W"]
        /\ ppc' = [ppc EXCEPT ![p] = "fdalloc"]
        /\ UNCHANGED <<data, got, todo, ret>>
    BY <1>3 DEF PipeAlloc, Goto
  <2>2. /\ a \in File /\ b \in File /\ Len(got[p]) = 2
        /\ holds[<<p, "got", 1>>] = a /\ holds[<<p, "got", 2>>] = b
    BY <1>1, GotTwo
  <2>3. ftable[a].type = "NONE" /\ ftable[b].type = "NONE"
    <3>1. GotOk(p) /\ 1 \in 1..Len(got[p]) /\ 2 \in 1..Len(got[p])
      BY <2>2 DEF KindInv
    <3>. QED BY <1>1, <3>1 DEF GotOk
  <2>4. <<p, "got", 1>> \in Slot /\ <<p, "got", 2>> \in Slot /\ <<p, "got", 1>> # <<p, "got", 2>>
    BY GotSlots, Zenon
  <2>. HIDE DEF a, b
  <2>5. a # b /\ ftable[a].ref = 1 /\ ftable[b].ref = 1
    BY <2>2, <2>3, <2>4, NoTypeOnce
  <2>6. /\ ftable' \in [File -> FileRec]
        /\ \A f \in File : /\ ftable'[f].ref = ftable[f].ref
                           /\ ftable'[f].type = IF f = a THEN "PIPE_R" ELSE IF f = b THEN "PIPE_W" ELSE ftable[f].type
    <3>1. ftable \in [File -> FileRec]
      BY DEF PipeType
    <3>2. /\ ftable'[a] = [ftable[a] EXCEPT !.type = "PIPE_R"] /\ ftable'[b] = [ftable[b] EXCEPT !.type = "PIPE_W"]
          /\ \A f \in File : f # a /\ f # b => ftable'[f] = ftable[f]
      BY <2>1, <2>2, <2>5, <3>1
    <3>3. ftable[a] \in FileRec /\ ftable[b] \in FileRec
      BY <2>2, <3>1
    <3>4. /\ ftable'[a] \in FileRec /\ ftable'[a].ref = ftable[a].ref /\ ftable'[a].type = "PIPE_R"
          /\ ftable'[b] \in FileRec /\ ftable'[b].ref = ftable[b].ref /\ ftable'[b].type = "PIPE_W"
      BY <3>2, <3>3 DEF FileRec
    <3>5. ASSUME NEW f \in File PROVE ftable'[f] \in FileRec
      <4>1. ftable[f] \in FileRec
        BY <3>1
      <4>. QED BY <3>2, <3>4, <4>1, Zenon
    <3>6. ftable' = [f \in File |-> ftable'[f]]
      BY <2>1, <3>1, Zenon
    <3>7. ftable' \in [File -> FileRec]
      BY <3>5, <3>6, FunctionIn, Zenon
    <3>. QED BY <2>5, <3>2, <3>4, <3>7, Zenon
  <2>7. ppc' = [q \in Process |-> IF q = p THEN "fdalloc" ELSE ppc[q]]
    BY <2>1, GotoIs, Zenon
  <2>8. /\ ppc' \in [Process -> {"user", "dead", "exit"} \cup Creating \cup Closing \cup InRead \cup InWrite]
        /\ ppc'[p] = "fdalloc" /\ \A q \in Process : q # p => ppc'[q] = ppc[q]
    BY <2>7, CallTypes DEF Creating
  <2>9. PipeType'
    <3>1. 0 \in Index
      BY PipeSizes DEF Index
    <3>. QED BY <1>1, <2>1, <2>6, <2>8, <3>1, Zenon DEF PipeType
  <2>10. CallInv'
    <3>1. CallOk(p)'
      BY <1>1, <2>1, <2>8 DEF CallInv, CallOk, Creating, Closing, InRead, InWrite
    <3>2. ASSUME NEW q \in Process, q # p PROVE SameCall(q)
      BY <1>1, <2>1, <2>8, <3>2 DEF SameCall
    <3>. QED BY <3>1, <3>2, CallKept DEF CallInv
  <2>11. FileRefs'
    <3>1. ASSUME NEW f \in File PROVE Holders(f)' = Holders(f)
      BY <1>1, <2>1 DEF Holders, Places
    <3>. QED BY <2>6, <3>1 DEF FileRefs
  <2>12. KindInv'
    <3>1. ASSUME NEW f \in File PROVE FileOk(f)'
      <4>1. FileOk(f)
        BY DEF KindInv
      <4>2. ftable'[f].type = "NONE" => f # a /\ f # b /\ ftable[f].type = "NONE"
        BY <2>6
      <4>3. ftable'[f].ref = 0 => f # a /\ f # b
        BY <2>5, <2>6
      <4>. QED BY <1>1, <2>6, <4>1, <4>2, <4>3 DEF FileOk
    <3>2. ASSUME NEW q \in Process, q # p PROVE GotOk(q)'
      <4>1. ASSUME NEW i \in 1..Len(got[q]) PROVE got[q][i] # a /\ got[q][i] # b /\ got[q][i] \in File
        <5>1. i \in {1, 2} /\ got[q] \in Seq(File)
          <6>. DEFINE n == Len(got[q])
          <6>1. n \in 0..2 /\ got[q] \in Seq(File)
            BY ListLengths, Zenon
          <6>. HIDE DEF n
          <6>2. i \in 1..n
            BY DEF n
          <6>. QED BY <6>1, <6>2
        <5>2. <<q, "got", i>> \in Slot /\ holds[<<q, "got", i>>] = Listed(got[q], i)
          BY <5>1, HoldsGot, Zenon
        <5>3. Listed(got[q], i) = got[q][i] /\ got[q][i] \in File
          BY <5>1 DEF Listed
        <5>4. <<q, "got", i>> # <<p, "got", 1>> /\ <<q, "got", i>> # <<p, "got", 2>>
          BY <3>2
        <5>. QED BY <2>2, <2>3, <2>4, <5>2, <5>3, <5>4, NoTypeOnce
      <4>2. \A i \in 1..Len(got[q]) : ftable'[got[q][i]].type = ftable[got[q][i]].type
        BY <2>6, <4>1
      <4>3. ppc'[q] = ppc[q] /\ got'[q] = got[q]
        BY <2>1, <2>8, <3>2
      <4>. QED BY <4>2, <4>3, GotKept, Zenon DEF KindInv, CallInv
    <3>3. GotOk(p)'
      <4>1. got'[p][1] = a /\ got'[p][2] = b
        BY <2>1 DEF a, b
      <4>. QED BY <2>2, <2>5, <2>6, <2>8, <4>1 DEF GotOk
    <3>. QED BY <3>1, <3>2, <3>3 DEF KindInv
  <2>13. /\ page = "free" /\ ~readopen /\ ~writeopen
         /\ \A f \in File : ftable[f].type \notin {"PIPE_R", "PIPE_W"}
         /\ \A q \in Process : ~At(q, "closer") /\ ~At(q, "closew") /\ ~At(q, "kfree")
    BY <1>3 DEF PipeType, EndInv, End
  <2>14. \A q \in Process : ~At(q, "closer")' /\ ~At(q, "closew")' /\ ~At(q, "kfree")'
    BY <2>8, <2>13 DEF At
  <2>15. EndInv'
    <3>1. End(readopen, "PIPE_R", "closer")'
      <4>1. \A f \in File : ftable'[f].type = "PIPE_R" <=> f = a
        BY <2>6, <2>13
      <4>. QED BY <2>1, <2>2, <2>14, <4>1, Zenon DEF End
    <3>2. End(writeopen, "PIPE_W", "closew")'
      <4>1. \A f \in File : ftable'[f].type = "PIPE_W" <=> f = b
        BY <2>5, <2>6, <2>13
      <4>. QED BY <2>1, <2>2, <2>14, <4>1, Zenon DEF End
    <3>. QED BY <2>1, <2>14, <3>1, <3>2, Zenon DEF EndInv
  <2>16. UseInv'
    <3>1. ASSUME NEW q \in Process PROVE ppc[q] \notin InRead \cup InWrite
      <4>1. ASSUME NEW d \in Fd PROVE ~Opens(q, d, "PIPE_R") /\ ~Opens(q, d, "PIPE_W")
        BY <2>13, NoneNoFile DEF Opens, PipeType
      <4>. QED BY <4>1, Zenon DEF UseInv, UseOk
    <3>2. ASSUME NEW q \in Process PROVE ppc'[q] \notin InRead \cup InWrite
      BY <2>8, <3>1 DEF InRead, InWrite
    <3>. QED BY <3>2, Zenon DEF UseInv, UseOk, InRead, InWrite
  <2>17. Avail' <= PIPESIZE
    <3>1. 0 % Uint = 0 /\ 0 - 0 = 0 /\ 0 <= PIPESIZE
      BY PipeSizes
    <3>. QED BY <2>1, <3>1 DEF Avail
  <2>. QED BY <2>9, <2>10, <2>11, <2>12, <2>15, <2>16, <2>17
<1>. QED BY <1>2, <1>3

LEMMA FreeFdsAre ==
  ASSUME Counting, NEW p \in Process
  PROVE  /\ FreeFds(p) \in SUBSET Fd /\ IsFiniteSet(FreeFds(p)) /\ Fd \in SUBSET Nat
         /\ \A T \in SUBSET Fd : T # {} => Min(T) \in T
<1>1. FreeFds(p) \in SUBSET Fd /\ Fd \in SUBSET Nat
  BY FileSizes DEF FreeFds, Fd
<1>2. IsFiniteSet(Fd)
  BY FileSizes DEF Fd, Counting, Intervals
<1>3. IsFiniteSet(FreeFds(p))
  BY <1>1, <1>2 DEF Counting, Subsets
<1>4. ASSUME NEW T \in SUBSET Fd, T # {} PROVE Min(T) \in T
  <2>1. T \in SUBSET Nat
    BY <1>1
  <2>. QED BY <1>4, <2>1, MinIs, Zenon
<1>. QED BY <1>1, <1>3, <1>4

\* The two descriptors that sys_pipe() takes.
LEMMA TwoFds ==
  ASSUME Counting, NEW p \in Process, ~(Cardinality(FreeFds(p)) < 2)
  PROVE  LET d0 == Min(FreeFds(p))
             d1 == Min(FreeFds(p) \ {d0})
         IN /\ d0 \in Fd /\ d1 \in Fd /\ d0 # d1
            /\ ofile[p][d0] = None /\ ofile[p][d1] = None
<1>. DEFINE D == FreeFds(p)
            d0 == Min(FreeFds(p))
            E == D \ {d0}
            d1 == Min(E)
<1>1. D \in SUBSET Fd /\ IsFiniteSet(D) /\ \A T \in SUBSET Fd : T # {} => Min(T) \in T
  BY FreeFdsAre, Zenon
<1>2. Cardinality(D) \in Nat /\ ~(Cardinality(D) < 2)
  BY <1>1, Zenon DEF Counting, Sizes
<1>3. \A x \in D : ofile[p][x] = None
  BY DEF FreeFds
<1>. HIDE DEF D
<1>4. D # {}
  BY <1>2 DEF Counting, EmptySets
<1>5. d0 \in D
  BY <1>1, <1>4 DEF D
<1>. HIDE DEF d0
<1>6. Cardinality(E) = Cardinality(D) - 1
  BY <1>1, <1>5, Zenon DEF Counting, Removals
<1>7. E # {}
  BY <1>2, <1>6 DEF Counting, EmptySets
<1>8. E \in SUBSET Fd
  BY <1>1
<1>9. d1 \in E
  BY <1>1, <1>7, <1>8
<1>. HIDE DEF d1
<1>10. d0 \in Fd /\ d1 \in Fd /\ d0 # d1 /\ ofile[p][d0] = None /\ ofile[p][d1] = None
  BY <1>1, <1>3, <1>5, <1>9
<1>. QED BY <1>10 DEF d0, d1, E, D

\* What a sys_pipe() that returns does to the holders.
LEMMA FdAllocHolds ==
  ASSUME PipeType, CallInv, NEW p \in Process, NEW d0 \in Fd, NEW d1 \in Fd, d0 # d1,
         ppc[p] = "fdalloc", UNCHANGED todo,
         ofile' = [ofile EXCEPT ![p][d0] = got[p][1], ![p][d1] = got[p][2]],
         got' = [got EXCEPT ![p] = <<>>]
  PROVE  holds' = Shift(Shift(holds, <<p, "got", 1>>, <<p, "fd", d0>>), <<p, "got", 2>>, <<p, "fd", d1>>)
<1>. DEFINE h == Shift(holds, <<p, "got", 1>>, <<p, "fd", d0>>)
            g == Shift(h, <<p, "got", 2>>, <<p, "fd", d1>>)
<1>0. holds[<<p, "got", 1>>] = got[p][1] /\ holds[<<p, "got", 2>>] = got[p][2]
  <2>1. CallOk(p)
    BY Zenon DEF CallInv
  <2>2. Len(got[p]) = 2
    BY <2>1, Zenon DEF CallOk
  <2>3. Listed(got[p], 1) = got[p][1] /\ Listed(got[p], 2) = got[p][2]
    BY <2>2 DEF Listed
  <2>4. holds[<<p, "got", 1>>] = Listed(got[p], 1) /\ holds[<<p, "got", 2>>] = Listed(got[p], 2)
    BY HoldsGot, Zenon
  <2>. QED BY <2>3, <2>4
<1>1. OnSlots(g)
  BY DEF Shift, OnSlots
<1>2. ASSUME NEW q \in Process, NEW d \in Fd
      PROVE  g[<<q, "fd", d>>] = IF q = p /\ d = d0 THEN got[p][1]
                                 ELSE IF q = p /\ d = d1 THEN got[p][2] ELSE holds[<<q, "fd", d>>]
  <2>1. <<q, "fd", d>> \in Slot /\ <<p, "got", 2>> \in Slot /\ <<p, "got", 1>> \in Slot
    BY HoldsFd, GotSlots
  <2>2. <<p, "got", 2>> # <<p, "got", 1>>
    OBVIOUS
  <2>3. h[<<p, "got", 2>>] = got[p][2]
    BY <1>0, <2>1, <2>2 DEF Shift
  <2>4. h[<<q, "fd", d>>] = IF q = p /\ d = d0 THEN got[p][1] ELSE holds[<<q, "fd", d>>]
    BY <1>0, <2>1 DEF Shift
  <2>. HIDE DEF h
  <2>. QED BY <2>1, <2>3, <2>4 DEF Shift
<1>3. ASSUME NEW q \in Process, NEW i \in {1, 2} PROVE g[<<q, "todo", i>>] = holds[<<q, "todo", i>>]
  <2>1. <<q, "todo", i>> \in Slot
    BY HoldsTodo, Zenon
  <2>. QED BY <2>1 DEF Shift
<1>4. ASSUME NEW q \in Process, NEW i \in {1, 2}
      PROVE g[<<q, "got", i>>] = IF q = p THEN None ELSE holds[<<q, "got", i>>]
  <2>1. <<q, "got", i>> \in Slot
    BY HoldsGot, Zenon
  <2>. QED BY <2>1 DEF Shift
<1>. HIDE DEF g, h
<1>5. ASSUME NEW q \in Process, NEW d \in Fd PROVE holds'[<<q, "fd", d>>] = g[<<q, "fd", d>>]
  <2>1. ofile'[q][d] = IF q = p /\ d = d0 THEN got[p][1] ELSE IF q = p /\ d = d1 THEN got[p][2] ELSE ofile[q][d]
    BY DEF PipeType
  <2>2. holds[<<q, "fd", d>>] = ofile[q][d] /\ holds'[<<q, "fd", d>>] = ofile'[q][d]
    BY HoldsFd, Zenon
  <2>. QED BY <1>2, <2>1, <2>2
<1>6. ASSUME NEW q \in Process, NEW i \in {1, 2} PROVE holds'[<<q, "todo", i>>] = g[<<q, "todo", i>>]
  <2>1. holds[<<q, "todo", i>>] = Listed(todo[q], i) /\ holds'[<<q, "todo", i>>] = Listed(todo'[q], i)
    BY HoldsTodo, Zenon
  <2>. QED BY <1>3, <2>1, Zenon
<1>7. ASSUME NEW q \in Process, NEW i \in {1, 2} PROVE holds'[<<q, "got", i>>] = g[<<q, "got", i>>]
  <2>1. got'[q] = IF q = p THEN <<>> ELSE got[q]
    BY DEF PipeType
  <2>2. holds'[<<q, "got", i>>] = Listed(got'[q], i) /\ holds[<<q, "got", i>>] = Listed(got[q], i)
    BY HoldsGot, Zenon
  <2>3. Listed(<<>>, i) = None
    BY ListedIs, Zenon
  <2>. QED BY <1>4, <2>1, <2>2, <2>3, Zenon
<1>8. holds' = g
  BY <1>1, <1>5, <1>6, <1>7, HoldsOnSlots, SameHolds, Zenon
<1>. QED BY <1>8, Zenon DEF h, g

LEMMA FdAllocInv ==
  ASSUME Counting, PipeInv, NEW p \in Process, FdAlloc(p)
  PROVE  PipeInv'
<1>. USE DEF PipeInv
<1>1. ppc[p] = "fdalloc" /\ UNCHANGED <<ftable, page, data, nread, nwrite, readopen, writeopen, buf, killed>>
  BY Zenon DEF FdAlloc, At, pipe
<1>2. CASE Cardinality(FreeFds(p)) < 2
  <2>1. Undo(p) /\ UNCHANGED ofile
    BY <1>2, Zenon DEF FdAlloc
  <2>. QED BY <1>1, <2>1, UndoInv DEF Creating
<1>3. CASE ~(Cardinality(FreeFds(p)) < 2)
  <2>. DEFINE a == got[p][1]
              b == got[p][2]
              d0 == Min(FreeFds(p))
              d1 == Min(FreeFds(p) \ {d0})
  <2>1. /\ ofile' = [ofile EXCEPT ![p][d0] = a, ![p][d1] = b]
        /\ got' = [got EXCEPT ![p] = <<>>] /\ ret' = [ret EXCEPT ![p] = "none"]
        /\ ppc' = [ppc EXCEPT ![p] = "user"] /\ UNCHANGED todo
    BY <1>3, Zenon DEF FdAlloc, Finish, Goto
  <2>2. /\ d0 \in Fd /\ d1 \in Fd /\ d0 # d1
        /\ ofile[p][d0] = None /\ ofile[p][d1] = None
    BY <1>3, TwoFds, Zenon
  <2>3. a \in File /\ b \in File /\ todo[p] = <<>>
    BY <1>1, GotTwo, Zenon
  <2>4. ftable[a].type = "PIPE_R" /\ ftable[b].type = "PIPE_W"
    BY <1>1 DEF KindInv, GotOk
  <2>. HIDE DEF d0, d1
  <2>5. /\ ofile' \in [Process -> [Fd -> File \cup {None}]]
        /\ \A q \in Process : q # p => ofile'[q] = ofile[q]
        /\ \A d \in Fd : ofile'[p][d] = IF d = d0 THEN a ELSE IF d = d1 THEN b ELSE ofile[p][d]
    BY <2>1, <2>2, <2>3, Zenon DEF PipeType
  <2>6. holds' = Shift(Shift(holds, <<p, "got", 1>>, <<p, "fd", d0>>), <<p, "got", 2>>, <<p, "fd", d1>>)
    BY <1>1, <2>1, <2>2, FdAllocHolds, Zenon
  <2>. HIDE DEF a, b
  <2>7. /\ got' \in [Process -> Seq(File)] /\ ret' \in [Process -> {"none", "eof", "err", "exit"}]
        /\ got'[p] = <<>> /\ ret'[p] = "none"
        /\ \A q \in Process : q # p => got'[q] = got[q] /\ ret'[q] = ret[q]
    BY <2>1, CallTypes
  <2>8. ppc' = [q \in Process |-> IF q = p THEN "user" ELSE ppc[q]]
    BY <2>1, GotoIs, Zenon
  <2>9. /\ ppc' \in [Process -> {"user", "dead", "exit"} \cup Creating \cup Closing \cup InRead \cup InWrite]
        /\ ppc'[p] = "user" /\ \A q \in Process : q # p => ppc'[q] = ppc[q]
    BY <2>8, CallTypes
  <2>10. PipeType'
    BY <1>1, <2>1, <2>5, <2>7, <2>9, Zenon DEF PipeType
  <2>11. CallInv'
    <3>1. CallOk(p)'
      BY <2>1, <2>3, <2>7, <2>9 DEF CallOk, Creating, Closing, InRead, InWrite
    <3>2. ASSUME NEW q \in Process, q # p PROVE SameCall(q)
      BY <2>1, <2>5, <2>7, <2>9, <3>2 DEF SameCall
    <3>. QED BY <3>1, <3>2, CallKept DEF CallInv
  <2>12. KindInv'
    <3>1. ASSUME NEW f \in File PROVE FileOk(f)'
      <4>1. FileOk(f)
        BY DEF KindInv
      <4>2. ftable[f].type = "NONE" => f # a /\ f # b
        BY <2>4, Zenon
      <4>3. ASSUME NEW q \in Process, NEW d \in Fd, ftable[f].type = "NONE" PROVE ofile'[q][d] # f
        <5>1. ofile[q][d] # f
          BY <4>1, <4>3 DEF FileOk
        <5>. QED BY <2>5, <4>2, <4>3, <5>1
      <4>. QED BY <1>1, <4>1, <4>3 DEF FileOk
    <3>2. ASSUME NEW q \in Process PROVE GotOk(q)'
      <4>1. CASE q = p
        BY <2>9, <4>1 DEF GotOk
      <4>2. CASE q # p
        BY <1>1, <2>7, <2>9, <4>2, GotKept DEF KindInv, CallInv
      <4>. QED BY <4>1, <4>2
    <3>. QED BY <3>1, <3>2 DEF KindInv
  <2>13. ASSUME NEW f \in File PROVE Tally(holds', f) = Tally(holds, f)
    <3>. DEFINE g1 == <<p, "got", 1>>
                g2 == <<p, "got", 2>>
                f0 == <<p, "fd", d0>>
                f1 == <<p, "fd", d1>>
                h == Shift(holds, g1, f0)
    <3>1. g1 \in Slot /\ g2 \in Slot /\ f0 \in Slot /\ f1 \in Slot
      BY <2>2, GotSlots, HoldsFd, Zenon
    <3>2. g1 # f0 /\ g2 # f1 /\ f1 # f0 /\ f1 # g1
      BY <2>2
    <3>3. holds[f0] = None /\ holds[f1] = None
      BY <2>2, HoldsFd, Zenon
    <3>4. h[f1] = None
      BY <3>1, <3>2, <3>3 DEF Shift
    <3>5. holds' = Shift(h, g2, f1)
      BY <2>6, Zenon
    <3>. HIDE DEF g1, g2, f0, f1, h
    <3>6. Tally(h, f) = Tally(holds, f)
      BY <3>1, <3>2, <3>3, ShiftCount DEF h
    <3>7. Tally(Shift(h, g2, f1), f) = Tally(h, f)
      BY <3>1, <3>2, <3>4, ShiftCount
    <3>. QED BY <3>5, <3>6, <3>7
  <2>14. \A f \in File : Tally(holds', f) - Tally(holds, f) = ftable'[f].ref - ftable[f].ref
    BY <1>1, <2>13, TallyNat DEF PipeType, FileRec
  <2>15. SameTypes /\ SameClosing /\ SameUses
    BY <1>1, <2>5, <2>9 DEF SameTypes, SameClosing, SameUses, Counters, Creating, InRead, InWrite
  <2>. QED BY <1>1, <2>10, <2>11, <2>12, <2>14, <2>15, FilesStep
<1>. QED BY <1>2, <1>3

-----------------------------------------------------------------------------
\* dup(), close(), exit() and fork().

\* A file in a descriptor has a type and a reference.
LEMMA OpenFile ==
  ASSUME PipeInv, NEW p \in Process, NEW d \in Fd, ofile[p][d] # None
  PROVE  /\ ofile[p][d] \in File /\ ftable[ofile[p][d]].type # "NONE"
         /\ ftable[ofile[p][d]].ref \in Nat /\ ftable[ofile[p][d]].ref > 0
<1>. DEFINE f == ofile[p][d]
<1>1. f \in File
  BY DEF PipeInv, PipeType
<1>. HIDE DEF f
<1>2. FileOk(f) /\ ftable[f].ref \in Nat
  BY <1>1 DEF PipeInv, KindInv, PipeType, FileRec
<1>3. ofile[p][d] = f
  BY Zenon DEF f
<1>4. ftable[f].type # "NONE" /\ ftable[f].ref # 0
  BY <1>1, <1>2, <1>3, Zenon DEF FileOk
<1>. QED BY <1>1, <1>2, <1>4 DEF f

LEMMA SysDupInv ==
  ASSUME Counting, PipeInv, NEW p \in Process, NEW d \in Fd, SysDup(p, d)
  PROVE  PipeInv'
<1>. USE DEF PipeInv
<1>. DEFINE m == ofile[p][d]
            e == Min(FreeFds(p))
            a == <<p, "fd", e>>
<1>1. /\ ppc[p] = "user" /\ m # None /\ FreeFds(p) # {}
      /\ ofile' = [ofile EXCEPT ![p][e] = m]
      /\ ftable' = [ftable EXCEPT ![m].ref = @ + 1]
      /\ UNCHANGED <<page, data, nread, nwrite, readopen, writeopen, ppc, got, todo, buf, ret, killed>>
  BY Zenon DEF SysDup, MayCall, At, pipe, call
<1>2. e \in Fd /\ ofile[p][e] = None
  <2>1. e \in FreeFds(p)
    BY <1>1, FreeFdsAre, Zenon
  <2>. QED BY <2>1 DEF FreeFds
<1>3. m \in File /\ ftable[m].type # "NONE" /\ ftable[m].ref \in Nat
  BY <1>1, OpenFile, Zenon
<1>. HIDE DEF m, e
<1>4. /\ ofile' \in [Process -> [Fd -> File \cup {None}]]
      /\ \A q \in Process : q # p => ofile'[q] = ofile[q]
      /\ \A x \in Fd : ofile'[p][x] = IF x = e THEN m ELSE ofile[p][x]
  BY <1>1, <1>2, <1>3 DEF PipeType
<1>5. /\ ftable' \in [File -> FileRec]
      /\ \A f \in File : /\ ftable'[f].type = ftable[f].type
                         /\ ftable'[f].ref = IF f = m THEN ftable[m].ref + 1 ELSE ftable[f].ref
  <2>1. /\ ftable'[m] = [ftable[m] EXCEPT !.ref = ftable[m].ref + 1]
        /\ \A f \in File : f # m => ftable'[f] = ftable[f]
    BY <1>1, <1>3 DEF PipeType
  <2>2. ftable[m] \in FileRec
    BY <1>3 DEF PipeType
  <2>3. ftable'[m] \in FileRec /\ ftable'[m].ref = ftable[m].ref + 1 /\ ftable'[m].type = ftable[m].type
    BY <2>1, <2>2 DEF FileRec
  <2>4. ftable' = [f \in File |-> ftable'[f]]
    <3>1. ftable = [f \in File |-> ftable[f]]
      BY DEF PipeType
    <3>2. ftable' = [f \in File |-> IF f = m THEN [ftable[m] EXCEPT !.ref = ftable[m].ref + 1] ELSE ftable[f]]
      BY <1>1, <1>3, <3>1, ExceptIs, Zenon
    <3>. QED BY <3>2
  <2>5. ASSUME NEW f \in File PROVE ftable'[f] \in FileRec
    <3>1. ftable[f] \in FileRec
      BY DEF PipeType
    <3>. QED BY <2>1, <2>3, <3>1, Zenon
  <2>6. ftable' \in [File -> FileRec]
    BY <2>4, <2>5, FunctionIn, Zenon
  <2>. QED BY <2>1, <2>3, <2>6, Zenon
<1>6. PipeType'
  BY <1>1, <1>4, <1>5, Zenon DEF PipeType
<1>7. CallInv'
  <2>1. CallOk(p)'
    BY <1>1 DEF CallInv, CallOk, InRead, InWrite
  <2>2. ASSUME NEW q \in Process, q # p PROVE SameCall(q)
    BY <1>1, <1>4, <2>2 DEF SameCall
  <2>. QED BY <2>1, <2>2, CallKept DEF CallInv
<1>8. KindInv'
  <2>1. ASSUME NEW f \in File PROVE FileOk(f)'
    <3>1. FileOk(f) /\ (ftable[f].type = "NONE" => f # m)
      BY <1>3, Zenon DEF KindInv
    <3>2. CASE f = m
      BY <1>3, <1>5, <3>2 DEF FileOk
    <3>3. CASE f # m
      <4>1. ftable[f].type = "NONE" => \A q \in Process, x \in Fd : ofile'[q][x] # f
        BY <1>4, <3>1, <3>3, Zenon DEF FileOk
      <4>. QED BY <1>5, <3>1, <3>3, <4>1, Zenon DEF FileOk
    <3>. QED BY <3>2, <3>3, Zenon
  <2>2. ASSUME NEW q \in Process PROVE GotOk(q)'
    <3>1. \A i \in 1..Len(got[q]) : got[q][i] \in File
      BY ListLengths
    <3>. QED BY <1>1, <1>5, <3>1, GotKept, Zenon DEF KindInv, CallInv
  <2>. QED BY <2>1, <2>2, Zenon DEF KindInv
<1>9. \A f \in File : Tally(holds', f) - Tally(holds, f) = ftable'[f].ref - ftable[f].ref
  <2>1. a \in Slot /\ holds[a] = None /\ holds'[a] = m
    <3>1. a \in Slot /\ holds[a] = ofile[p][e] /\ holds'[a] = ofile'[p][e]
      BY <1>2, HoldsFd, Zenon
    <3>. QED BY <1>2, <1>4, <3>1, Zenon
  <2>2. ASSUME NEW q \in Process, NEW x \in Fd, <<q, "fd", x>> # a PROVE ofile'[q][x] = ofile[q][x]
    <3>1. q = p => x # e
      BY <2>2
    <3>. QED BY <1>4, <3>1, Zenon
  <2>. HIDE DEF a
  <2>3. Point(holds, holds', a)
    BY <1>1, <2>1, <2>2, PointIs, Zenon
  <2>4. \A f \in File : Tally(holds', f) - Tally(holds, f) = IF f = m THEN 1 ELSE 0
    BY <1>3, <2>1, <2>3, SlotCount
  <2>5. \A f \in File : ftable'[f].ref - ftable[f].ref = IF f = m THEN 1 ELSE 0
    BY <1>3, <1>5 DEF PipeType, FileRec
  <2>. QED BY <2>4, <2>5, Zenon
<1>10. SameTypes /\ SameClosing /\ SameUses
  BY <1>1, <1>4, <1>5, Zenon DEF SameTypes, SameClosing, SameUses, InRead, InWrite
<1>. QED BY <1>1, <1>6, <1>7, <1>8, <1>9, <1>10, FilesStep

\* A descriptor is emptied and its file is passed to fileclose().
LEMMA CloseOneInv ==
  ASSUME Counting, PipeInv, NEW p \in Process, ppc[p] \in {"user", "exit"}, NEW d \in Fd, ofile[p][d] # None,
         NEW r \in {"none", "exit"}, ofile' = [ofile EXCEPT ![p][d] = None],
         CloseRest(p, <<ofile[p][d]>>, r),
         UNCHANGED <<ftable, page, data, nread, nwrite, readopen, writeopen, got, buf, killed>>
  PROVE  PipeInv'
<1>. USE DEF PipeInv
<1>. DEFINE m == ofile[p][d]
            a == <<p, "fd", d>>
            b == <<p, "todo", 1>>
<1>1. m \in File /\ ftable[m].type # "NONE"
  BY OpenFile, Zenon
<1>2. todo[p] = <<>> /\ got[p] = <<>>
  BY UserIdle, Zenon
<1>3. /\ todo' = [todo EXCEPT ![p] = <<m>>] /\ ret' = [ret EXCEPT ![p] = r]
      /\ ppc' = [ppc EXCEPT ![p] = "fileclose"]
  BY DEF CloseRest, Goto, After
<1>4. /\ ofile' \in [Process -> [Fd -> File \cup {None}]]
      /\ \A q \in Process : q # p => ofile'[q] = ofile[q]
      /\ \A x \in Fd : ofile'[p][x] = IF x = d THEN None ELSE ofile[p][x]
  BY DEF PipeType
<1>5. holds[a] = m /\ a \in Slot
  BY HoldsFd, Zenon
<1>. HIDE DEF m
<1>6. <<m>> \in Seq(File) /\ Len(<<m>>) = 1 /\ <<m>> # <<>>
  BY <1>1
<1>7. /\ todo' \in [Process -> Seq(File)] /\ ret' \in [Process -> {"none", "eof", "err", "exit"}]
      /\ todo'[p] = <<m>>
      /\ \A q \in Process : q # p => todo'[q] = todo[q] /\ ret'[q] = ret[q]
  BY <1>3, <1>6, CallTypes, Zenon
<1>8. ppc' = [q \in Process |-> IF q = p THEN "fileclose" ELSE ppc[q]]
  BY <1>3, GotoIs, Zenon
<1>9. /\ ppc' \in [Process -> {"user", "dead", "exit"} \cup Creating \cup Closing \cup InRead \cup InWrite]
      /\ ppc'[p] = "fileclose" /\ \A q \in Process : q # p => ppc'[q] = ppc[q]
  BY <1>8, CallTypes DEF Closing
<1>10. PipeType'
  BY <1>4, <1>7, <1>9, Zenon DEF PipeType
<1>11. CallInv'
  <2>1. CallOk(p)'
    BY <1>2, <1>6, <1>7, <1>9 DEF CallOk, Creating, Closing, InRead, InWrite
  <2>2. ASSUME NEW q \in Process, q # p PROVE SameCall(q)
    BY <1>4, <1>7, <1>9, <2>2, Zenon DEF SameCall
  <2>. QED BY <2>1, <2>2, CallKept, Zenon DEF CallInv
<1>12. KindInv'
  <2>1. ASSUME NEW f \in File PROVE FileOk(f)'
    <3>1. FileOk(f)
      BY Zenon DEF KindInv
    <3>2. \A q \in Process, x \in Fd : ofile'[q][x] = f => ofile[q][x] = f
      BY <1>4, NoneNoFile, Zenon
    <3>. QED BY <3>1, <3>2, Zenon DEF FileOk
  <2>2. ASSUME NEW q \in Process PROVE GotOk(q)'
    <3>1. CASE q = p
      BY <1>9, <3>1, Zenon DEF GotOk
    <3>2. CASE q # p
      BY <1>9, <3>2, GotKept, Zenon DEF KindInv, CallInv
    <3>. QED BY <3>1, <3>2, Zenon
  <2>. QED BY <2>1, <2>2, Zenon DEF KindInv
<1>13. holds' = Shift(holds, a, b)
  <2>. DEFINE g == Shift(holds, a, b)
  <2>1. OnSlots(g)
    BY DEF Shift, OnSlots
  <2>2. ASSUME NEW q \in Process, NEW x \in Fd PROVE holds'[<<q, "fd", x>>] = g[<<q, "fd", x>>]
    <3>1. <<q, "fd", x>> \in Slot /\ holds[<<q, "fd", x>>] = ofile[q][x] /\ holds'[<<q, "fd", x>>] = ofile'[q][x]
      BY HoldsFd, Zenon
    <3>2. g[<<q, "fd", x>>] = IF q = p /\ x = d THEN None ELSE holds[<<q, "fd", x>>]
      BY <3>1 DEF Shift
    <3>. HIDE DEF g
    <3>. QED BY <1>4, <3>1, <3>2, Zenon
  <2>3. ASSUME NEW q \in Process, NEW i \in {1, 2} PROVE holds'[<<q, "todo", i>>] = g[<<q, "todo", i>>]
    <3>1. /\ <<q, "todo", i>> \in Slot /\ holds[<<q, "todo", i>>] = Listed(todo[q], i)
          /\ holds'[<<q, "todo", i>>] = Listed(todo'[q], i)
      BY HoldsTodo, Zenon
    <3>2. g[<<q, "todo", i>>] = IF q = p /\ i = 1 THEN m ELSE holds[<<q, "todo", i>>]
      BY <1>5, <3>1, Zenon DEF Shift
    <3>. HIDE DEF g
    <3>3. CASE q # p
      BY <1>7, <3>1, <3>2, <3>3
    <3>4. CASE q = p
      <4>1. Listed(<<m>>, i) = IF i = 1 THEN m ELSE None
        BY ListedIs
      <4>2. Listed(<<>>, i) = None
        BY ListedIs, Zenon
      <4>. QED BY <1>2, <1>7, <3>1, <3>2, <3>4, <4>1, <4>2
    <3>. QED BY <3>3, <3>4
  <2>4. ASSUME NEW q \in Process, NEW i \in {1, 2} PROVE holds'[<<q, "got", i>>] = g[<<q, "got", i>>]
    <3>1. /\ <<q, "got", i>> \in Slot /\ holds[<<q, "got", i>>] = Listed(got[q], i)
          /\ holds'[<<q, "got", i>>] = Listed(got'[q], i)
      BY HoldsGot, Zenon
    <3>2. g[<<q, "got", i>>] = holds[<<q, "got", i>>]
      BY <3>1 DEF Shift
    <3>. QED BY <3>1, <3>2
  <2>. HIDE DEF g
  <2>5. holds' = g
    BY <2>1, <2>2, <2>3, <2>4, HoldsOnSlots, SameHolds, Zenon
  <2>. QED BY <2>5 DEF g
<1>14. ASSUME NEW f \in File PROVE Tally(holds', f) = Tally(holds, f)
  <2>1. b \in Slot /\ holds[b] = None /\ a # b
    <3>1. 1 \in {1, 2} /\ a # b
      OBVIOUS
    <3>2. b \in Slot /\ holds[b] = Listed(todo[p], 1)
      BY <3>1, HoldsTodo, Zenon
    <3>. QED BY <1>2, <3>1, <3>2, ListedIs
  <2>. HIDE DEF a, b
  <2>. QED BY <1>5, <1>13, <2>1, ShiftCount
<1>15. \A f \in File : Tally(holds', f) - Tally(holds, f) = ftable'[f].ref - ftable[f].ref
  <2>. SUFFICES ASSUME NEW f \in File
                PROVE  Tally(holds', f) - Tally(holds, f) = ftable'[f].ref - ftable[f].ref
    BY Zenon
  <2>1. Tally(holds', f) = Tally(holds, f) /\ ftable'[f].ref = ftable[f].ref
    BY <1>4, <1>14, Zenon
  <2>2. Tally(holds, f) \in Nat
    BY TallyNat, Zenon
  <2>3. ftable[f].ref \in Nat
    BY DEF PipeType, FileRec
  <2>4. \A x, y \in Nat : x - x = y - y
    OBVIOUS
  <2>. QED BY <2>1, <2>2, <2>3, <2>4, Zenon
<1>16. SameTypes /\ SameClosing /\ SameUses
  BY <1>4, <1>9, Zenon DEF SameTypes, SameClosing, SameUses, Counters, Closing, InRead, InWrite
<1>. QED BY <1>10, <1>11, <1>12, <1>15, <1>16, FilesStep

LEMMA SysCloseInv ==
  ASSUME Counting, PipeInv, NEW p \in Process, NEW d \in Fd, SysClose(p, d)
  PROVE  PipeInv'
BY CloseOneInv, Zenon DEF SysClose, MayCall, At, pipe

LEMMA ExitFilesInv ==
  ASSUME Counting, PipeInv, NEW p \in Process, ppc[p] \in {"user", "exit"}, ExitFiles(p)
  PROVE  PipeInv'
<1>. USE DEF PipeInv
<1>1. UNCHANGED <<ftable, page, data, nread, nwrite, readopen, writeopen, got, buf>>
  BY DEF ExitFiles, pipe
<1>2. CASE OpenFds(p) # {}
  <2>. DEFINE d == Min(OpenFds(p))
  <2>1. /\ ofile' = [ofile EXCEPT ![p][d] = None] /\ CloseRest(p, <<ofile[p][d]>>, "exit")
        /\ UNCHANGED killed
    BY <1>2, Zenon DEF ExitFiles
  <2>2. OpenFds(p) \in SUBSET Fd
    BY DEF OpenFds
  <2>3. d \in OpenFds(p)
    BY <1>2, <2>2, FreeFdsAre, Zenon
  <2>4. d \in Fd /\ ofile[p][d] # None
    BY <2>3, Zenon DEF OpenFds
  <2>. HIDE DEF d
  <2>. QED BY <1>1, <2>1, <2>4, CloseOneInv, Zenon
<1>3. CASE OpenFds(p) = {}
  <2>1. /\ ppc' = [ppc EXCEPT ![p] = "dead"] /\ ret' = [ret EXCEPT ![p] = "exit"]
        /\ killed' = [killed EXCEPT ![p] = FALSE] /\ UNCHANGED <<ofile, todo>>
    BY <1>3 DEF ExitFiles, Goto
  <2>2. ppc' = [q \in Process |-> IF q = p THEN "dead" ELSE ppc[q]]
    BY <2>1, GotoIs, Zenon
  <2>3. /\ ppc' \in [Process -> {"user", "dead", "exit"} \cup Creating \cup Closing \cup InRead \cup InWrite]
        /\ ppc'[p] = "dead" /\ \A q \in Process : q # p => ppc'[q] = ppc[q]
    BY <2>2, CallTypes, Zenon
  <2>4. /\ ret' \in [Process -> {"none", "eof", "err", "exit"}] /\ killed' \in [Process -> BOOLEAN]
        /\ \A q \in Process : q # p => ret'[q] = ret[q]
    BY <2>1, CallTypes
  <2>5. PipeType'
    BY <1>1, <2>1, <2>3, <2>4 DEF PipeType
  <2>6. CallInv'
    <3>1. \A d \in Fd : ofile[p][d] = None
      BY <1>3, Zenon DEF OpenFds
    <3>2. got[p] = <<>> /\ todo[p] = <<>>
      BY UserIdle, Zenon
    <3>3. CallOk(p)'
      BY <1>1, <2>1, <2>3, <3>1, <3>2 DEF CallOk, Creating, Closing, InRead, InWrite
    <3>4. ASSUME NEW q \in Process, q # p PROVE SameCall(q)
      BY <1>1, <2>1, <2>3, <2>4, <3>4 DEF SameCall
    <3>. QED BY <3>3, <3>4, CallKept, Zenon DEF CallInv
  <2>7. FileRefs'
    BY <1>1, <2>1, RefsKept
  <2>8. KindInv'
    <3>1. \A q \in Process : ppc'[q] \in Creating => ppc'[q] = ppc[q]
      BY <2>3, Zenon DEF Creating
    <3>. QED BY <1>1, <2>1, <3>1, KindKept DEF Creating
  <2>9. SameTypes /\ SameClosing /\ SameUses
    BY <1>1, <2>1, <2>3 DEF SameTypes, SameClosing, SameUses, Counters, InRead, InWrite
  <2>. QED BY <1>1, <2>5, <2>6, <2>7, <2>8, <2>9, EndKept, UseKept, AvailKept
<1>. QED BY <1>2, <1>3

\* fork() makes the child hold every file as often as its parent.
LEMMA ForkTally ==
  ASSUME Counting, PipeType, NEW p \in Process, NEW q \in Process, p # q, NEW f \in File,
         \A d \in Fd : ofile[q][d] = None,
         ofile' = [ofile EXCEPT ![q] = ofile[p]], UNCHANGED <<got, todo>>
  PROVE  Tally(holds', f) = Tally(holds, f) + Count(ofile[p], f) /\ Count(ofile[p], f) \in Nat
<1>. DEFINE D == {d \in Fd : ofile[p][d] = f}
            E == {<<q, "fd", d>> : d \in D}
            H == Holding(holds, f)
            G == Holding(holds', f)
<1>1. Count(ofile[p], f) = Cardinality(D)
  <2>1. DOMAIN ofile[p] = Fd
    BY DEF PipeType
  <2>. QED BY <2>1, Zenon DEF Count
<1>2. IsFiniteSet(E) /\ Cardinality(E) = Cardinality(D) /\ Cardinality(D) \in Nat
  BY FdSlots, Zenon
<1>3. \A r \in Process : ofile'[r] = IF r = q THEN ofile[p] ELSE ofile[r]
  BY DEF PipeType
<1>4. ASSUME NEW x \in Slot PROVE x \in G <=> x \in H \cup E
  <2>1. CASE \E r \in Process, d \in Fd : x = <<r, "fd", d>>
    <3>1. PICK r \in Process, d \in Fd : x = <<r, "fd", d>>
      BY <2>1
    <3>2. holds[x] = ofile[r][d] /\ holds'[x] = ofile'[r][d]
      BY <3>1, HoldsFd, Zenon
    <3>3. x \in E <=> r = q /\ ofile[p][d] = f
      BY <3>1, Zenon
    <3>4. x \in G <=> ofile'[r][d] = f
      BY <3>2, Zenon DEF Holding
    <3>5. x \in H <=> ofile[r][d] = f
      BY <3>2, Zenon DEF Holding
    <3>. HIDE DEF E, G, H
    <3>. QED BY <1>3, <3>3, <3>4, <3>5, NoneNoFile
  <2>2. CASE \E r \in Process, i \in {1, 2} : x = <<r, "todo", i>>
    <3>1. PICK r \in Process, i \in {1, 2} : x = <<r, "todo", i>>
      BY <2>2
    <3>2. holds[x] = Listed(todo[r], i) /\ holds'[x] = Listed(todo'[r], i)
      BY <3>1, HoldsTodo, Zenon
    <3>3. x \notin E
      BY <3>1, Zenon
    <3>. HIDE DEF E
    <3>. QED BY <3>2, <3>3, Zenon DEF Holding
  <2>3. CASE \E r \in Process, i \in {1, 2} : x = <<r, "got", i>>
    <3>1. PICK r \in Process, i \in {1, 2} : x = <<r, "got", i>>
      BY <2>3
    <3>2. holds[x] = Listed(got[r], i) /\ holds'[x] = Listed(got'[r], i)
      BY <3>1, HoldsGot, Zenon
    <3>3. x \notin E
      BY <3>1, Zenon
    <3>. HIDE DEF E
    <3>. QED BY <3>2, <3>3, Zenon DEF Holding
  <2>. QED BY <2>1, <2>2, <2>3, SlotIs, Zenon
<1>5. E \in SUBSET Slot /\ G \in SUBSET Slot /\ H \in SUBSET Slot
  <2>1. \A d \in Fd : <<q, "fd", d>> \in Slot
    BY HoldsFd, Zenon
  <2>. QED BY <2>1 DEF Holding
<1>6. H \cap E = {}
  <2>1. ASSUME NEW x \in E PROVE holds[x] = None
    <3>1. PICK d \in D : x = <<q, "fd", d>>
      BY Zenon
    <3>2. holds[x] = ofile[q][d]
      BY <3>1, HoldsFd, Zenon
    <3>. QED BY <3>2, Zenon
  <2>2. \A x \in H : holds[x] = f
    BY Zenon DEF Holding
  <2>. HIDE DEF E, H
  <2>. QED BY <2>1, <2>2, NoneNoFile, Zenon
<1>7. IsFiniteSet(H) /\ Cardinality(H) \in Nat
  BY HoldingFinite, Zenon
<1>. HIDE DEF D, E, G, H
<1>8. G = H \cup E
  BY <1>4, <1>5
<1>9. Cardinality(H \cup E) = Cardinality(H) + Cardinality(E) - Cardinality(H \cap E)
  BY <1>2, <1>7, Zenon DEF Counting, Unions
<1>10. Cardinality(H \cap E) = 0
  BY <1>6, Zenon DEF Counting, EmptySets
<1>11. Cardinality(G) = Cardinality(H \cup E)
  BY <1>8, Zenon
<1>12. Cardinality(G) = Cardinality(H) + Cardinality(D)
  BY <1>2, <1>7, <1>9, <1>10, <1>11
<1>. QED BY <1>1, <1>2, <1>12 DEF Tally, G, H

LEMMA ForkInv ==
  ASSUME Counting, PipeInv, NEW p \in Process, NEW q \in Process, Fork(p, q)
  PROVE  PipeInv'
<1>. USE DEF PipeInv
<1>1. /\ ppc[p] = "user" /\ ppc[q] = "dead" /\ p # q
      /\ ofile' = [ofile EXCEPT ![q] = ofile[p]]
      /\ ftable' = [f \in File |-> [ftable[f] EXCEPT !.ref = @ + Count(ofile[p], f)]]
      /\ ppc' = [ppc EXCEPT ![q] = "user"] /\ ret' = [ret EXCEPT ![q] = "none"]
      /\ UNCHANGED <<page, data, nread, nwrite, readopen, writeopen, got, todo, buf, killed>>
  BY DEF Fork, MayCall, At, Goto, pipe
<1>2. /\ \A d \in Fd : ofile[q][d] = None
      /\ got[q] = <<>> /\ todo[q] = <<>>
  BY <1>1, UserIdle DEF CallInv, CallOk
<1>3. \A f \in File : Tally(holds', f) = Tally(holds, f) + Count(ofile[p], f) /\ Count(ofile[p], f) \in Nat
  BY <1>1, <1>2, ForkTally, Zenon
<1>4. /\ ofile' \in [Process -> [Fd -> File \cup {None}]]
      /\ \A r \in Process : ofile'[r] = IF r = q THEN ofile[p] ELSE ofile[r]
  BY <1>1 DEF PipeType
<1>5. /\ ftable' \in [File -> FileRec]
      /\ \A f \in File : /\ ftable'[f].type = ftable[f].type
                         /\ ftable'[f].ref = ftable[f].ref + Count(ofile[p], f)
  <2>1. ASSUME NEW f \in File
        PROVE  /\ ftable'[f] \in FileRec /\ ftable'[f].type = ftable[f].type
               /\ ftable'[f].ref = ftable[f].ref + Count(ofile[p], f)
    <3>. DEFINE n == Count(ofile[p], f)
                c == ftable[f]
    <3>1. n \in Nat /\ c \in FileRec
      BY <1>3 DEF PipeType
    <3>2. ftable'[f] = [c EXCEPT !.ref = c.ref + n]
      BY <1>1
    <3>. HIDE DEF n, c
    <3>3. ftable'[f] \in FileRec /\ ftable'[f].type = c.type /\ ftable'[f].ref = c.ref + n
      BY <3>1, <3>2 DEF FileRec
    <3>. QED BY <3>3 DEF n, c
  <2>2. ftable' = [f \in File |-> ftable'[f]]
    BY <1>1, Zenon
  <2>3. ftable' \in [File -> FileRec]
    BY <2>1, <2>2, FunctionIn, Zenon
  <2>. QED BY <2>1, <2>3, Zenon
<1>6. ppc' = [r \in Process |-> IF r = q THEN "user" ELSE ppc[r]]
  BY <1>1, GotoIs, Zenon
<1>7. /\ ppc' \in [Process -> {"user", "dead", "exit"} \cup Creating \cup Closing \cup InRead \cup InWrite]
      /\ ppc'[q] = "user" /\ \A r \in Process : r # q => ppc'[r] = ppc[r]
  BY <1>6, CallTypes
<1>8. /\ ret' \in [Process -> {"none", "eof", "err", "exit"}]
      /\ \A r \in Process : r # q => ret'[r] = ret[r]
  BY <1>1, CallTypes
<1>9. PipeType'
  BY <1>1, <1>4, <1>5, <1>7, <1>8, Zenon DEF PipeType
<1>10. CallInv'
  <2>1. CallOk(q)'
    BY <1>1, <1>2, <1>7 DEF CallOk, Creating, Closing, InRead, InWrite
  <2>2. ASSUME NEW r \in Process, r # q PROVE SameCall(r)
    BY <1>1, <1>4, <1>7, <1>8, <2>2 DEF SameCall
  <2>. QED BY <2>1, <2>2, CallKept DEF CallInv
<1>11. KindInv'
  <2>1. ASSUME NEW f \in File PROVE FileOk(f)'
    <3>1. FileOk(f) /\ ftable[f].ref \in Nat /\ Count(ofile[p], f) \in Nat
      BY <1>3, Zenon DEF KindInv, PipeType, FileRec
    <3>2. CASE ftable[f].type = "NONE"
      <4>1. \A r \in Process, d \in Fd : ofile[r][d] # f
        BY <3>1, <3>2 DEF FileOk
      <4>2. {d \in DOMAIN ofile[p] : ofile[p][d] = f} = {}
        BY <4>1, Zenon DEF PipeType
      <4>3. Count(ofile[p], f) = 0
        BY <4>2, Zenon DEF Count, Counting, EmptySets
      <4>4. \A r \in Process, d \in Fd : ofile'[r][d] # f
        BY <1>4, <4>1, Zenon
      <4>. QED BY <1>5, <3>1, <3>2, <4>3, <4>4 DEF FileOk
    <3>3. CASE ftable[f].type # "NONE"
      <4>. DEFINE n == Count(ofile[p], f)
      <4>1. ftable[f].ref # 0
        BY <3>1, <3>3, Zenon DEF FileOk
      <4>2. ftable'[f].ref = ftable[f].ref + n /\ n \in Nat
        BY <1>5, <3>1, Zenon
      <4>. HIDE DEF n
      <4>3. ftable'[f].ref # 0
        <5>1. \A x, y \in Nat : x # 0 => x + y # 0
          OBVIOUS
        <5>. QED BY <3>1, <4>1, <4>2, <5>1, Zenon
      <4>4. ftable'[f].type = ftable[f].type
        BY <1>5, Zenon
      <4>. QED BY <3>3, <4>3, <4>4, Zenon DEF FileOk
    <3>. QED BY <3>2, <3>3, Zenon
  <2>2. ASSUME NEW r \in Process PROVE GotOk(r)'
    <3>1. CASE r = q
      BY <1>7, <3>1, Zenon DEF GotOk
    <3>2. CASE r # q
      <4>1. \A i \in 1..Len(got[r]) : got[r][i] \in File
        BY ListLengths
      <4>. QED BY <1>1, <1>5, <1>7, <3>2, <4>1, GotKept DEF KindInv, CallInv
    <3>. QED BY <3>1, <3>2, Zenon
  <2>. QED BY <2>1, <2>2, Zenon DEF KindInv
<1>12. ASSUME NEW f \in File PROVE Tally(holds', f) - Tally(holds, f) = ftable'[f].ref - ftable[f].ref
  <2>. DEFINE n == Count(ofile[p], f)
              c == ftable[f].ref
  <2>1. ftable'[f].ref = c + n /\ n \in Nat /\ Tally(holds', f) = Tally(holds, f) + n
    BY <1>3, <1>5, Zenon
  <2>2. Tally(holds, f) \in Nat /\ c \in Nat
    BY TallyNat, Zenon DEF PipeType, FileRec
  <2>. HIDE DEF n, c
  <2>3. Tally(holds', f) - Tally(holds, f) = ftable'[f].ref - c
    BY <2>1, <2>2
  <2>. QED BY <2>3 DEF c
<1>13. SameTypes /\ SameClosing /\ SameUses
  BY <1>1, <1>4, <1>5, <1>7 DEF SameTypes, SameClosing, SameUses, Counters, InRead, InWrite
<1>. QED BY <1>1, <1>9, <1>10, <1>11, <1>12, <1>13, FilesStep

-----------------------------------------------------------------------------
\* fileclose().

LEMMA TodoSlots ==
  ASSUME NEW p \in Process
  PROVE  <<p, "todo", 1>> \in Slot /\ <<p, "todo", 2>> \in Slot /\ <<p, "todo", 1>> # <<p, "todo", 2>>
<1>1. 1 \in {1, 2} /\ 2 \in {1, 2} /\ <<p, "todo", 1>> # <<p, "todo", 2>>
  OBVIOUS
<1>. QED BY <1>1, HoldsTodo, Zenon

\* The first of the files to close, which the call holds.
LEMMA TodoHead ==
  ASSUME Counting, PipeInv, NEW p \in Process, ppc[p] = "fileclose"
  PROVE  /\ Head(todo[p]) \in File /\ holds[<<p, "todo", 1>>] = Head(todo[p])
         /\ Tail(todo[p]) \in Seq(File) /\ Len(Tail(todo[p])) \in 0..1
         /\ ftable[Head(todo[p])].ref \in Nat /\ ftable[Head(todo[p])].ref > 0
         /\ Listed(Tail(todo[p]), 1) = Listed(todo[p], 2) /\ Listed(Tail(todo[p]), 2) = None
<1>. USE DEF PipeInv
<1>. DEFINE f == Head(todo[p])
            n == Len(todo[p])
            t == Tail(todo[p])
            a == <<p, "todo", 1>>
<1>1. n \in 1..2 /\ todo[p] \in Seq(File)
  <2>1. CallOk(p)
    BY DEF CallInv
  <2>2. n \in 1..2
    BY <2>1, Zenon DEF CallOk
  <2>. QED BY <2>2, ListLengths, Zenon
<1>2. f = Listed(todo[p], 1) /\ f \in File /\ t \in Seq(File) /\ Len(t) = n - 1
      /\ Listed(t, 1) = Listed(todo[p], 2) /\ Listed(t, 2) = None
  BY <1>1, ListedTail, Zenon
<1>3. Len(t) \in 0..1
  <2>. HIDE DEF n, t
  <2>1. n \in 1..2 /\ Len(t) = n - 1
    BY <1>1, <1>2
  <2>. QED BY <2>1
<1>4. a \in Slot /\ holds[a] = Listed(todo[p], 1)
  <2>1. 1 \in {1, 2}
    OBVIOUS
  <2>. QED BY <2>1, HoldsTodo, Zenon
<1>5. holds[a] = f
  BY <1>2, <1>4, Zenon
<1>. HIDE DEF f, a
<1>6. ftable[f].ref \in Nat /\ ftable[f].ref > 0
  BY <1>2, <1>4, <1>5, HeldOnce, Zenon DEF PipeType, FileRec
<1>. QED BY <1>2, <1>3, <1>5, <1>6 DEF f, a

LEMMA FileCloseTally ==
  ASSUME Counting, PipeInv, NEW p \in Process, ppc[p] = "fileclose", NEW f \in File,
         todo' = [todo EXCEPT ![p] = Tail(@)], UNCHANGED <<ofile, got>>
  PROVE  Tally(holds', f) - Tally(holds, f) = IF f = Head(todo[p]) THEN -1 ELSE 0
<1>. USE DEF PipeInv
<1>. DEFINE f0 == Head(todo[p])
            t1 == <<p, "todo", 1>>
            t2 == <<p, "todo", 2>>
            g == [x \in Slot |-> IF x = t1 THEN holds[t2] ELSE holds[x]]
<1>1. f0 \in File /\ holds[t1] = f0
  BY TodoHead, Zenon
<1>2. t1 \in Slot /\ t2 \in Slot /\ t1 # t2
  BY TodoSlots
<1>3. holds'[t1] = holds[t2] /\ holds'[t2] = None
  <2>1. todo'[p] = Tail(todo[p])
    BY DEF PipeType
  <2>2. 1 \in {1, 2} /\ 2 \in {1, 2}
    OBVIOUS
  <2>3. /\ holds'[t1] = Listed(todo'[p], 1) /\ holds'[t2] = Listed(todo'[p], 2)
        /\ holds[t2] = Listed(todo[p], 2)
    BY <2>2, HoldsTodo, Zenon
  <2>4. Listed(Tail(todo[p]), 1) = Listed(todo[p], 2) /\ Listed(Tail(todo[p]), 2) = None
    BY TodoHead, Zenon
  <2>. QED BY <2>1, <2>3, <2>4, Zenon
<1>4. ASSUME NEW x \in Slot, x # t1, x # t2 PROVE holds'[x] = holds[x]
  <2>1. CASE \E q \in Process, d \in Fd : x = <<q, "fd", d>>
    <3>1. PICK q \in Process, d \in Fd : x = <<q, "fd", d>>
      BY <2>1
    <3>2. holds[x] = ofile[q][d] /\ holds'[x] = ofile'[q][d]
      BY <3>1, HoldsFd, Zenon
    <3>. QED BY <3>2, Zenon
  <2>2. CASE \E q \in Process, i \in {1, 2} : x = <<q, "todo", i>>
    <3>1. PICK q \in Process, i \in {1, 2} : x = <<q, "todo", i>>
      BY <2>2
    <3>2. holds[x] = Listed(todo[q], i) /\ holds'[x] = Listed(todo'[q], i)
      BY <3>1, HoldsTodo, Zenon
    <3>3. q # p
      BY <1>4, <3>1, Zenon
    <3>4. todo'[q] = todo[q]
      BY <3>3, Zenon DEF PipeType
    <3>. QED BY <3>2, <3>4, Zenon
  <2>3. CASE \E q \in Process, i \in {1, 2} : x = <<q, "got", i>>
    <3>1. PICK q \in Process, i \in {1, 2} : x = <<q, "got", i>>
      BY <2>3
    <3>2. holds[x] = Listed(got[q], i) /\ holds'[x] = Listed(got'[q], i)
      BY <3>1, HoldsGot, Zenon
    <3>. QED BY <3>2, Zenon
  <2>. QED BY <2>1, <2>2, <2>3, SlotIs, Zenon
<1>. HIDE DEF f0, t1, t2
<1>5. Point(holds, g, t1) /\ g[t1] = holds[t2]
  BY <1>2, Zenon DEF Point
<1>6. Point(g, holds', t2) /\ g[t2] = holds[t2]
  BY <1>2, <1>3, <1>4, Zenon DEF Point
<1>. HIDE DEF g
<1>7. Tally(g, f) = Tally(holds, f) + (IF g[t1] = f THEN 1 ELSE 0) - (IF holds[t1] = f THEN 1 ELSE 0)
  BY <1>2, <1>5, PointCount
<1>8. Tally(holds', f) = Tally(g, f) + (IF holds'[t2] = f THEN 1 ELSE 0) - (IF g[t2] = f THEN 1 ELSE 0)
  BY <1>2, <1>6, PointCount
<1>9. None # f /\ Tally(holds', f) \in Nat /\ Tally(holds, f) \in Nat /\ Tally(g, f) \in Nat
  BY NoneNoFile, TallyNat, Zenon
<1>10. Tally(holds', f) - Tally(holds, f) = IF f = f0 THEN -1 ELSE 0
  BY <1>1, <1>3, <1>5, <1>6, <1>7, <1>8, <1>9
<1>. QED BY <1>10, Zenon DEF f0

\* The last reference to an end of the pipe becomes a pipeclose() to come.
LEMMA EndMoves ==
  ASSUME NEW t, NEW c, NEW f \in File, NEW p \in Process,
         End(TRUE, t, c), ftable[f].type = t, ftable'[f].type # t, At(p, c)',
         \A g \in File : g # f => ftable'[g].type = ftable[g].type,
         \A q \in Process : q # p => (At(q, c)' <=> At(q, c))
  PROVE  End(TRUE, t, c)'
<1>1. \A g \in File : ftable'[g].type # t
  BY Zenon DEF End
<1>2. \A q \in Process : At(q, c)' <=> q = p
  BY Zenon DEF End
<1>. QED BY <1>1, <1>2, Zenon DEF End

LEMMA FileCloseInv ==
  ASSUME Counting, PipeInv, NEW p \in Process, FileClose(p)
  PROVE  PipeInv'
<1>. USE DEF PipeInv
<1>. DEFINE m == Head(todo[p])
            n == ftable[m].ref
            k == ftable[m].type
            t == Tail(todo[p])
            last == IF k = "PIPE_W" THEN "closew" ELSE "closer"
            l == IF n > 1 \/ k \notin {"PIPE_R", "PIPE_W"} THEN After(t, ret[p]) ELSE last
<1>1. /\ ppc[p] = "fileclose"
      /\ ftable' = [ftable EXCEPT ![m].ref = n - 1, ![m].type = IF n > 1 THEN @ ELSE "NONE"]
      /\ ppc' = [ppc EXCEPT ![p] = l]
      /\ todo' = [todo EXCEPT ![p] = Tail(@)]
      /\ UNCHANGED <<ofile, page, data, nread, nwrite, readopen, writeopen, got, buf, ret, killed>>
  BY Zenon DEF FileClose, At, Goto, IsPipe, pipe
<1>2. /\ m \in File /\ holds[<<p, "todo", 1>>] = m /\ n \in Nat /\ n > 0
      /\ t \in Seq(File) /\ Len(t) \in 0..1
  BY <1>1, TodoHead
<1>3. \A f \in File : Tally(holds', f) - Tally(holds, f) = IF f = m THEN -1 ELSE 0
  BY <1>1, FileCloseTally, Zenon
<1>4. todo' \in [Process -> Seq(File)] /\ todo'[p] = t /\ \A q \in Process : q # p => todo'[q] = todo[q]
  BY <1>1, <1>2, CallTypes, Zenon
<1>5. l \in {"fileclose", "exit", "user", "closew", "closer"}
  BY Proceeds
<1>. HIDE DEF m, t
<1>6. /\ ftable' \in [File -> FileRec]
      /\ \A f \in File : f # m => ftable'[f] = ftable[f]
      /\ ftable'[m].ref = n - 1 /\ ftable'[m].type = IF n > 1 THEN k ELSE "NONE"
  <2>. DEFINE c == ftable[m]
  <2>1. c \in FileRec /\ n = c.ref /\ k = c.type
    BY <1>2, Zenon DEF PipeType
  <2>0. ftable \in [File -> FileRec]
    BY DEF PipeType
  <2>. HIDE DEF n, k
  <2>2. /\ ftable'[m] = [c EXCEPT !.ref = n - 1, !.type = IF n > 1 THEN @ ELSE "NONE"]
        /\ \A f \in File : f # m => ftable'[f] = ftable[f]
    BY <1>1, <1>2, <2>0
  <2>. HIDE DEF c
  <2>3. /\ ftable'[m] \in FileRec /\ ftable'[m].ref = n - 1
        /\ ftable'[m].type = IF n > 1 THEN k ELSE "NONE"
    <3>1. n - 1 \in Nat /\ n \in Nat
      BY <1>2 DEF n
    <3>2. CASE n > 1
      <4>1. ftable'[m] = [c EXCEPT !.ref = n - 1, !.type = c.type]
        BY <2>1, <2>2, <3>2, Zenon
      <4>. QED BY <2>1, <3>1, <3>2, <4>1, Zenon DEF FileRec
    <3>3. CASE ~(n > 1)
      <4>1. ftable'[m] = [c EXCEPT !.ref = n - 1, !.type = "NONE"]
        BY <2>1, <2>2, <3>3, Zenon
      <4>. QED BY <2>1, <3>1, <3>3, <4>1, Zenon DEF FileRec
    <3>. QED BY <3>2, <3>3, Zenon
  <2>4. ASSUME NEW f \in File PROVE ftable'[f] \in FileRec
    <3>1. ftable[f] \in FileRec
      BY DEF PipeType
    <3>. QED BY <2>2, <2>3, <3>1, Zenon
  <2>5. ftable' = [f \in File |-> ftable'[f]]
    <3>1. ftable \in [File -> FileRec]
      BY DEF PipeType
    <3>. QED BY <1>1, <3>1, Zenon
  <2>6. ftable' \in [File -> FileRec]
    BY <2>4, <2>5, FunctionIn, Zenon
  <2>. QED BY <2>2, <2>3, <2>6, Zenon
<1>7. ppc' = [q \in Process |-> IF q = p THEN l ELSE ppc[q]]
  BY <1>1, GotoIs, Zenon
<1>8. /\ ppc' \in [Process -> {"user", "dead", "exit"} \cup Creating \cup Closing \cup InRead \cup InWrite]
      /\ ppc'[p] = l /\ \A q \in Process : q # p => ppc'[q] = ppc[q]
  <2>. HIDE DEF l
  <2>. QED BY <1>5, <1>7, CallTypes, Zenon DEF Closing
<1>9. PipeType'
  BY <1>1, <1>4, <1>6, <1>8, Zenon DEF PipeType
<1>10. CallOk(p) /\ got[p] = <<>>
  BY <1>1, Zenon DEF CallInv, CallOk, Creating
<1>11. CallInv'
  <2>1. CallOk(p)'
    <3>. DEFINE j == Len(t)
    <3>1. j \in 0..1 /\ (t # <<>> => j = 1)
      BY <1>2
    <3>2. /\ l = "fileclose" => t # <<>>
          /\ t # <<>> => l \in {"fileclose", "closew", "closer"}
      BY Zenon DEF After
    <3>. HIDE DEF l, j
    <3>3. /\ l = "fileclose" => j \in 1..2
          /\ j < 2 /\ (t # <<>> => l \in Closing)
      BY <3>1, <3>2 DEF Closing
    <3>4. /\ l = "fileclose" => Len(t) \in 1..2
          /\ Len(t) < 2
      BY <3>3, Zenon DEF j
    <3>5. got'[p] = <<>> /\ todo'[p] = t /\ ppc'[p] = l
      BY <1>1, <1>4, <1>8, <1>10, Zenon
    <3>. QED BY <1>5, <3>3, <3>4, <3>5, Zenon DEF CallOk, Creating, InRead, InWrite
  <2>2. ASSUME NEW q \in Process, q # p PROVE SameCall(q)
    BY <1>1, <1>4, <1>8, <2>2, Zenon DEF SameCall
  <2>. QED BY <2>1, <2>2, CallKept DEF CallInv
<1>12. FileRefs'
  <2>1. ASSUME NEW f \in File PROVE ftable'[f].ref - ftable[f].ref = IF f = m THEN -1 ELSE 0
    <3>1. ftable[f].ref \in Nat
      BY Zenon DEF PipeType, FileRec
    <3>2. f = m => ftable'[f].ref = ftable[f].ref - 1
      BY <1>6, Zenon
    <3>3. f # m => ftable'[f].ref = ftable[f].ref
      BY <1>6
    <3>. QED BY <3>1, <3>2, <3>3
  <2>. QED BY <1>3, <1>9, <1>11, <2>1, RefsStep, Zenon
\* Nothing else holds a file whose count goes to 0.
<1>13. ASSUME ~(n > 1), NEW x \in Slot, x # <<p, "todo", 1>> PROVE holds[x] # m
  BY <1>2, <1>13, TodoSlots, HeldTwice, Zenon
<1>14. ASSUME ~(n > 1), NEW q \in Process, NEW d \in Fd PROVE ofile[q][d] # m
  <2>1. <<q, "fd", d>> \in Slot /\ holds[<<q, "fd", d>>] = ofile[q][d]
    BY HoldsFd, Zenon
  <2>2. <<q, "fd", d>> # <<p, "todo", 1>>
    BY Zenon
  <2>. QED BY <1>13, <1>14, <2>1, <2>2, Zenon
<1>15. ASSUME NEW q \in Process, NEW i \in 1..Len(got[q])
       PROVE  ftable'[got[q][i]].type = ftable[got[q][i]].type
  <2>. DEFINE g == got[q][i]
  <2>1. i \in {1, 2} /\ got[q] \in Seq(File)
    <3>. DEFINE j == Len(got[q])
    <3>1. j \in 0..2 /\ got[q] \in Seq(File)
      BY ListLengths, Zenon
    <3>. HIDE DEF j
    <3>2. i \in 1..j
      BY DEF j
    <3>. QED BY <3>1, <3>2
  <2>2. <<q, "got", i>> \in Slot /\ holds[<<q, "got", i>>] = Listed(got[q], i)
    BY <2>1, HoldsGot, Zenon
  <2>3. Listed(got[q], i) = g /\ g \in File
    BY <2>1 DEF Listed
  <2>4. <<q, "got", i>> # <<p, "todo", 1>>
    BY Zenon
  <2>. HIDE DEF g
  <2>5. ~(n > 1) => g # m
    BY <1>13, <2>2, <2>3, <2>4, Zenon
  <2>6. ftable'[g].type = ftable[g].type
    BY <1>6, <2>3, <2>5, Zenon
  <2>. QED BY <2>6, Zenon DEF g
<1>16. KindInv'
  <2>1. ASSUME NEW f \in File PROVE FileOk(f)'
    <3>1. FileOk(f)
      BY DEF KindInv
    <3>2. CASE f # m
      BY <1>1, <1>6, <3>1, <3>2, Zenon DEF FileOk
    <3>3. CASE f = m /\ n > 1
      <4>1. k # "NONE"
        BY <1>2, <3>1, <3>3 DEF FileOk
      <4>2. n - 1 # 0
        BY <1>2, <3>3
      <4>. QED BY <1>6, <3>3, <4>1, <4>2, Zenon DEF FileOk
    <3>4. CASE f = m /\ ~(n > 1)
      <4>1. n - 1 < 2
        BY <1>2, <3>4
      <4>. QED BY <1>1, <1>6, <1>14, <3>4, <4>1, Zenon DEF FileOk
    <3>. QED BY <3>2, <3>3, <3>4, Zenon
  <2>2. ASSUME NEW q \in Process PROVE GotOk(q)'
    <3>1. CASE q = p
      <4>1. ppc'[p] \notin Creating
        BY <1>5, <1>8, Zenon DEF Creating
      <4>. QED BY <3>1, <4>1, Zenon DEF GotOk, Creating
    <3>2. CASE q # p
      BY <1>1, <1>8, <1>15, <3>2, GotKept, Zenon DEF KindInv, CallInv
    <3>. QED BY <3>1, <3>2
  <2>. QED BY <2>1, <2>2 DEF KindInv
<1>17. UseInv'
  <2>. SUFFICES ASSUME NEW q \in Process, ppc'[q] \in InRead \cup InWrite PROVE UseOk(q)'
    BY Zenon DEF UseInv, UseOk, InRead, InWrite
  <2>1. q # p
    BY <1>5, <1>8, Zenon DEF InRead, InWrite
  <2>2. ppc'[q] = ppc[q] /\ UseOk(q)
    BY <1>8, <2>1, Zenon DEF UseInv
  <2>3. ASSUME NEW d \in Fd, NEW ty, Opens(q, d, ty) PROVE Opens(q, d, ty)'
    <3>. DEFINE f == ofile[q][d]
    <3>1. f \in File /\ ftable[f].type = ty /\ ofile'[q][d] = f /\ f # None
      BY <1>1, <2>3, OpenFile, Zenon DEF Opens
    <3>2. ~(n > 1) => f # m
      BY <1>14, Zenon
    <3>. HIDE DEF f
    <3>3. ftable'[f].type = ty
      BY <1>6, <3>1, <3>2, Zenon
    <3>. QED BY <3>1, <3>3, Zenon DEF Opens
  <2>. QED BY <1>1, <2>2, <2>3, Zenon DEF UseOk, Room
<1>18. \A q \in Process, c \in Counters : q # p => (At(q, c)' <=> At(q, c))
  BY <1>8, Zenon DEF At
<1>19. \A c \in Counters : ~At(p, c)
  BY <1>1 DEF At, Counters
<1>20. CASE n > 1 \/ k \notin {"PIPE_R", "PIPE_W"}
  <2>1. l \in {"fileclose", "exit", "user"}
    BY <1>20, Proceeds, Zenon
  <2>. HIDE DEF l
  <2>2. \A q \in Process, c \in Counters : At(q, c)' <=> At(q, c)
    <3>1. \A c \in Counters : ~At(p, c)'
      BY <1>8, <2>1, Zenon DEF At, Counters
    <3>. QED BY <1>18, <1>19, <3>1, Zenon
  <2>3. ASSUME NEW f \in File, NEW ty \in {"PIPE_R", "PIPE_W"} PROVE ftable'[f].type = ty <=> ftable[f].type = ty
    <3>1. CASE f # m
      BY <1>6, <3>1, Zenon
    <3>2. CASE f = m
      BY <1>6, <1>20, <3>2, Zenon
    <3>. QED BY <3>1, <3>2, Zenon
  <2>4. End(readopen, "PIPE_R", "closer")'
    BY <1>1, <2>2, <2>3, Zenon DEF EndInv, End, Counters
  <2>5. End(writeopen, "PIPE_W", "closew")'
    BY <1>1, <2>2, <2>3, Zenon DEF EndInv, End, Counters
  <2>6. EndInv'
    BY <1>1, <2>2, <2>4, <2>5, Zenon DEF EndInv, Counters
  <2>. QED BY <1>1, <1>9, <1>11, <1>12, <1>16, <1>17, <2>6, AvailKept, Zenon
<1>21. CASE ~(n > 1) /\ k = "PIPE_R"
  <2>1. l = "closer"
    BY <1>21, Zenon
  <2>. HIDE DEF l
  <2>2. /\ ftable'[m].type = "NONE" /\ At(p, "closer")' /\ ~At(p, "closew")' /\ ~At(p, "kfree")'
        /\ \A f \in File : f # m => ftable'[f].type = ftable[f].type
    BY <1>6, <1>8, <1>21, <2>1, Zenon DEF At
  <2>3. readopen = TRUE
    BY <1>2, <1>21, Zenon DEF EndInv, End, PipeType
  <2>4. End(TRUE, "PIPE_R", "closer")'
    <3>1. End(TRUE, "PIPE_R", "closer")
      BY <2>3, Zenon DEF EndInv
    <3>2. \A q \in Process : q # p => (At(q, "closer")' <=> At(q, "closer"))
      BY <1>18, Zenon DEF Counters
    <3>. QED BY <1>2, <1>21, <2>2, <3>1, <3>2, EndMoves, Zenon
  <2>5. \A f \in File : ftable'[f].type = "PIPE_W" <=> ftable[f].type = "PIPE_W"
    BY <1>21, <2>2, Zenon
  <2>6. \A q \in Process, c \in {"closew", "kfree"} : At(q, c)' <=> At(q, c)
    BY <1>18, <1>19, <2>2, Zenon DEF Counters
  <2>7. End(writeopen, "PIPE_W", "closew")'
    BY <1>1, <2>5, <2>6, Zenon DEF EndInv, End
  <2>8. End(readopen, "PIPE_R", "closer")'
    BY <1>1, <2>3, <2>4, Zenon DEF End
  <2>9. EndInv'
    BY <1>1, <2>6, <2>7, <2>8, Zenon DEF EndInv
  <2>. QED BY <1>1, <1>9, <1>11, <1>12, <1>16, <1>17, <2>9, AvailKept
<1>22. CASE ~(n > 1) /\ k = "PIPE_W"
  <2>1. l = "closew"
    BY <1>22, Zenon
  <2>. HIDE DEF l
  <2>2. /\ ftable'[m].type = "NONE" /\ At(p, "closew")' /\ ~At(p, "closer")' /\ ~At(p, "kfree")'
        /\ \A f \in File : f # m => ftable'[f].type = ftable[f].type
    BY <1>6, <1>8, <1>22, <2>1, Zenon DEF At
  <2>3. writeopen = TRUE
    BY <1>2, <1>22, Zenon DEF EndInv, End, PipeType
  <2>4. End(TRUE, "PIPE_W", "closew")'
    <3>1. End(TRUE, "PIPE_W", "closew")
      BY <2>3, Zenon DEF EndInv
    <3>2. \A q \in Process : q # p => (At(q, "closew")' <=> At(q, "closew"))
      BY <1>18, Zenon DEF Counters
    <3>. QED BY <1>2, <1>22, <2>2, <3>1, <3>2, EndMoves, Zenon
  <2>5. \A f \in File : ftable'[f].type = "PIPE_R" <=> ftable[f].type = "PIPE_R"
    BY <1>22, <2>2, Zenon
  <2>6. \A q \in Process, c \in {"closer", "kfree"} : At(q, c)' <=> At(q, c)
    BY <1>18, <1>19, <2>2, Zenon DEF Counters
  <2>7. End(readopen, "PIPE_R", "closer")'
    BY <1>1, <2>5, <2>6, Zenon DEF EndInv, End
  <2>8. End(writeopen, "PIPE_W", "closew")'
    BY <1>1, <2>3, <2>4, Zenon DEF End
  <2>9. EndInv'
    BY <1>1, <2>6, <2>7, <2>8, Zenon DEF EndInv
  <2>. QED BY <1>1, <1>9, <1>11, <1>12, <1>16, <1>17, <2>9, AvailKept
<1>. QED BY <1>20, <1>21, <1>22, Zenon

-----------------------------------------------------------------------------
\* sys_pipe(), read() and write() start.

LEMMA SysPipeInv ==
  ASSUME PipeInv, NEW p \in Process, SysPipe(p)
  PROVE  PipeInv'
<1>. USE DEF PipeInv
<1>0. got[p] = <<>> /\ todo[p] = <<>>
  BY UserIdle DEF SysPipe, MayCall, At
<1>1. /\ ppc[p] = "user" /\ ppc' = [ppc EXCEPT ![p] = "filealloc"]
      /\ got' = got /\ ret' = [ret EXCEPT ![p] = "none"]
      /\ UNCHANGED <<ftable, ofile, page, data, nread, nwrite, readopen, writeopen, todo, buf, killed>>
  BY <1>0, CallTypes DEF SysPipe, MayCall, At, Goto, pipe
<1>2. \A q \in Process : /\ q # p => ppc'[q] = ppc[q] /\ ret'[q] = ret[q]
                         /\ q = p => ppc'[q] = "filealloc" /\ ret'[q] = "none"
  BY <1>1, CallTypes, Zenon
<1>3. PipeType'
  BY <1>1 DEF PipeType, Creating
<1>4. CallInv'
  <2>1. CallOk(p)'
    BY <1>0, <1>1, <1>2 DEF CallOk, Creating, Closing, InRead, InWrite
  <2>2. ASSUME NEW q \in Process, q # p PROVE CallOk(q)'
    BY <1>1, <1>2, <2>2, CallKept, Zenon DEF SameCall, CallInv
  <2>. QED BY <2>1, <2>2 DEF CallInv
<1>5. FileRefs'
  BY <1>1, RefsKept
<1>6. KindInv'
  BY <1>0, <1>1, <1>2, KindKept, Zenon
<1>7. EndInv'
  BY <1>1, <1>2, EndKept DEF SameTypes, SameClosing, Counters
<1>8. UseInv'
  BY <1>1, <1>2, UseKept DEF SameTypes, SameUses, InRead, InWrite
<1>. QED BY <1>1, <1>3, <1>4, <1>5, <1>6, <1>7, <1>8, AvailKept, Zenon

LEMMA StartInv ==
  ASSUME PipeInv, NEW p \in Process, NEW d \in Fd, NEW l \in {"read", "write"}, NEW s \in Seq(Byte),
         Opens(p, d, IF l = "read" THEN "PIPE_R" ELSE "PIPE_W"), Start(p, l, s)
  PROVE  PipeInv'
<1>. USE DEF PipeInv
<1>0. got[p] = <<>> /\ todo[p] = <<>>
  BY UserIdle DEF Start, MayCall, At
<1>1. /\ ppc[p] = "user" /\ ppc' = [ppc EXCEPT ![p] = l]
      /\ buf' = [buf EXCEPT ![p] = s] /\ ret' = [ret EXCEPT ![p] = "none"]
      /\ UNCHANGED <<ftable, ofile, page, data, nread, nwrite, readopen, writeopen, got, todo, killed>>
  BY DEF Start, MayCall, At, Goto, pipe
<1>2. \A q \in Process : /\ q # p => ppc'[q] = ppc[q] /\ ret'[q] = ret[q]
                         /\ q = p => ppc'[q] = l /\ ret'[q] = "none"
  BY <1>1, CallTypes, Zenon
<1>3. PipeType'
  BY <1>1 DEF PipeType, InRead, InWrite
<1>4. CallInv'
  <2>1. CallOk(p)'
    BY <1>0, <1>1, <1>2, Zenon DEF CallOk, Creating, Closing, InRead, InWrite
  <2>2. ASSUME NEW q \in Process, q # p PROVE CallOk(q)'
    BY <1>1, <1>2, <2>2, CallKept, Zenon DEF SameCall, CallInv
  <2>. QED BY <2>1, <2>2, Zenon DEF CallInv
<1>5. FileRefs'
  BY <1>1, RefsKept, Zenon
<1>6. KindInv'
  BY <1>0, <1>1, <1>2, KindKept, Zenon DEF Creating
<1>7. EndInv'
  BY <1>1, <1>2, EndKept DEF SameTypes, SameClosing, Counters
<1>8. UseInv'
  <2>1. UseOk(p)'
    BY <1>1, <1>2, Zenon DEF UseOk, InRead, InWrite, Opens
  <2>2. ASSUME NEW q \in Process, q # p PROVE UseOk(q)'
    BY <1>1, <1>2, <2>2 DEF UseInv, UseOk, Opens, Room
  <2>. QED BY <2>1, <2>2, Zenon DEF UseInv
<1>. QED BY <1>1, <1>3, <1>4, <1>5, <1>6, <1>7, <1>8, AvailKept, Zenon

-----------------------------------------------------------------------------
\* Steps of calls on the pipe: the ring, and who waits for it.

LEMMA Counts ==
  ASSUME PipeType
  PROVE  /\ PIPESIZE \in Nat /\ Uint \in Nat \ {0} /\ PIPESIZE < Uint
         /\ nread \in 0..Uint - 1 /\ nwrite \in 0..Uint - 1
         /\ nread \in Int /\ nwrite \in Int
BY PipeSizes DEF PipeType, Index

LEMMA Modulo ==
  ASSUME PipeType, NEW x \in Int
  PROVE  /\ x \in 0..Uint - 1 => x % Uint = x
         /\ x \in Uint..Uint + Uint - 1 => x % Uint = x - Uint
         /\ x \in -Uint..-1 => x % Uint = x + Uint
BY Counts

LEMMA AvailIs ==
  ASSUME PipeType
  PROVE  Avail = (IF nread <= nwrite THEN nwrite - nread ELSE nwrite - nread + Uint) /\ Avail \in Nat
<1>1. nwrite - nread \in Int
  BY Counts
<1>2. /\ nread <= nwrite => nwrite - nread \in 0..Uint - 1
      /\ ~(nread <= nwrite) => nwrite - nread \in -Uint..-1
  BY Counts
<1>3. Avail = IF nread <= nwrite THEN nwrite - nread ELSE nwrite - nread + Uint
  BY <1>1, <1>2, Counts, Modulo, Zenon DEF Avail
<1>. QED BY <1>3, Counts

LEMMA RoomIs ==
  ASSUME PipeType, Avail <= PIPESIZE
  PROVE  Room = PIPESIZE - Avail /\ Room \in 0..PIPESIZE
<1>1. nread + PIPESIZE - nwrite \in Int
  BY Counts
<1>2. /\ nread <= nwrite => nread + PIPESIZE - nwrite \in 0..Uint - 1
      /\ ~(nread <= nwrite) => nread + PIPESIZE - nwrite \in Uint..Uint + Uint - 1
  BY AvailIs, Counts
<1>3. Room = IF nread <= nwrite THEN nread + PIPESIZE - nwrite ELSE nread + PIPESIZE - nwrite - Uint
  <2>. DEFINE x == nread + PIPESIZE - nwrite
  <2>1. Room = x % Uint /\ x \in Int
    BY <1>1 DEF Room
  <2>2. /\ nread <= nwrite => x \in 0..Uint - 1
        /\ ~(nread <= nwrite) => x \in Uint..Uint + Uint - 1
    BY <1>2
  <2>. HIDE DEF x
  <2>3. Room = IF nread <= nwrite THEN x ELSE x - Uint
    BY <2>1, <2>2, Modulo, Zenon
  <2>. QED BY <2>3, Counts DEF x
<1>. QED BY <1>3, AvailIs, Counts

LEMMA StepIs ==
  ASSUME PipeType, NEW i \in 0..Uint - 1, NEW n \in Nat, n < Uint
  PROVE  /\ (i + n) % Uint = IF i + n < Uint THEN i + n ELSE i + n - Uint
         /\ (i + n) % Uint \in 0..Uint - 1
<1>1. /\ i + n \in Int
      /\ i + n < Uint => i + n \in 0..Uint - 1
      /\ ~(i + n < Uint) => i + n \in Uint..Uint + Uint - 1
  BY Counts
<1>2. (i + n) % Uint = IF i + n < Uint THEN i + n ELSE i + n - Uint
  <2>. DEFINE x == i + n
  <2>. HIDE DEF x
  <2>1. /\ x \in Int
        /\ x < Uint => x \in 0..Uint - 1
        /\ ~(x < Uint) => x \in Uint..Uint + Uint - 1
    BY <1>1 DEF x
  <2>2. x % Uint = IF x < Uint THEN x ELSE x - Uint
    BY <2>1, Modulo, Zenon
  <2>. QED BY <2>2, Counts DEF x
<1>. QED BY <1>1, <1>2, Counts

Wrote(n) == nread' = nread /\ nwrite' = (nwrite + n) % Uint
Took(n) == nwrite' = nwrite /\ nread' = (nread + n) % Uint

LEMMA WriteAvail ==
  ASSUME PipeType, Avail <= PIPESIZE, NEW n \in 0..Room, Wrote(n)
  PROVE  /\ nwrite' \in Index /\ Avail' = Avail + n /\ Avail' <= PIPESIZE
         /\ n = 0 => nwrite' = nwrite
         /\ n = Room => Room' = 0
<1>0. nread' = nread
  BY DEF Wrote
<1>1. Avail + n <= PIPESIZE /\ n < Uint /\ Avail \in Nat /\ n \in Nat
  BY RoomIs, AvailIs, Counts
<1>2. /\ nwrite' = IF nwrite + n < Uint THEN nwrite + n ELSE nwrite + n - Uint
      /\ nwrite' \in 0..Uint - 1
  BY <1>1, Counts, StepIs, Zenon DEF Wrote
<1>3. Avail' = IF nread <= nwrite' THEN nwrite' - nread ELSE nwrite' - nread + Uint
  <2>1. nwrite' - nread \in Int
    BY <1>2, Counts
  <2>2. /\ nread <= nwrite' => nwrite' - nread \in 0..Uint - 1
        /\ ~(nread <= nwrite') => nwrite' - nread \in -Uint..-1
    BY <1>2, Counts
  <2>3. Avail' = (nwrite' - nread) % Uint
    BY <1>0 DEF Avail
  <2>. DEFINE x == nwrite' - nread
  <2>. HIDE DEF x
  <2>4. /\ x \in Int /\ Avail' = x % Uint
        /\ nread <= nwrite' => x \in 0..Uint - 1
        /\ ~(nread <= nwrite') => x \in -Uint..-1
    BY <2>1, <2>2, <2>3, Zenon DEF x
  <2>5. Avail' = IF nread <= nwrite' THEN x ELSE x + Uint
    BY <2>4, Modulo
  <2>. QED BY <2>5 DEF x
<1>4. Avail' = Avail + n
  BY <1>0, <1>1, <1>2, <1>3, AvailIs, Counts
<1>5. ASSUME n = Room PROVE Room' = 0
  <2>1. Avail' = PIPESIZE
    BY <1>4, <1>5, RoomIs, AvailIs, Counts
  <2>2. nread + PIPESIZE - nwrite' = IF nread <= nwrite' THEN 0 ELSE Uint
    BY <1>2, <1>3, <2>1, Counts
  <2>3. Room' = (nread + PIPESIZE - nwrite') % Uint
    BY <1>0 DEF Room
  <2>4. 0 % Uint = 0 /\ Uint % Uint = 0
    BY Counts
  <2>. QED BY <2>2, <2>3, <2>4, Zenon
<1>. QED BY <1>1, <1>2, <1>4, <1>5, Counts DEF Index

LEMMA ReadAvail ==
  ASSUME PipeType, Avail <= PIPESIZE, NEW n \in 0..Avail, Took(n)
  PROVE  nread' \in Index /\ Avail' = Avail - n /\ Avail' <= PIPESIZE
<1>0. nwrite' = nwrite
  BY DEF Took
<1>1. n < Uint /\ Avail \in Nat /\ n \in Nat
  BY AvailIs, Counts
<1>2. /\ nread' = IF nread + n < Uint THEN nread + n ELSE nread + n - Uint
      /\ nread' \in 0..Uint - 1
  BY <1>1, Counts, StepIs, Zenon DEF Took
<1>3. Avail' = IF nread' <= nwrite THEN nwrite - nread' ELSE nwrite - nread' + Uint
  <2>1. nwrite - nread' \in Int
    BY <1>2, Counts
  <2>2. /\ nread' <= nwrite => nwrite - nread' \in 0..Uint - 1
        /\ ~(nread' <= nwrite) => nwrite - nread' \in -Uint..-1
    BY <1>2, Counts
  <2>3. Avail' = (nwrite - nread') % Uint
    BY <1>0 DEF Avail
  <2>. DEFINE x == nwrite - nread'
  <2>. HIDE DEF x
  <2>4. /\ x \in Int /\ Avail' = x % Uint
        /\ nread' <= nwrite => x \in 0..Uint - 1
        /\ ~(nread' <= nwrite) => x \in -Uint..-1
    BY <2>1, <2>2, <2>3, Zenon DEF x
  <2>5. Avail' = IF nread' <= nwrite THEN x ELSE x + Uint
    BY <2>4, Modulo, Zenon
  <2>. QED BY <2>5 DEF x
<1>4. Avail' = Avail - n
  BY <1>1, <1>2, <1>3, AvailIs, Counts
<1>. QED BY <1>1, <1>2, <1>4, Counts DEF Index

\* A call ends, or goes on; others go on or are woken.
Moves(p) ==
  /\ ppc' \in [Process -> {"user", "dead", "exit"} \cup Creating \cup Closing \cup InRead \cup InWrite]
  /\ ret' \in [Process -> {"none", "eof", "err", "exit"}]
  /\ UNCHANGED <<ftable, ofile, page, readopen, writeopen, got, todo>>
  /\ ppc[p] \in InRead => ppc'[p] \in InRead \cup {"user"}
  /\ ppc[p] \in InWrite => ppc'[p] \in InWrite \cup {"user"}
  /\ ppc[p] \in InRead \cup InWrite
  /\ ppc'[p] # "user" => ret'[p] = ret[p]
  /\ \A q \in Process \ {p} : SameCall(q)

LEMMA MovesInv ==
  ASSUME PipeType, CallInv, FileRefs, KindInv, EndInv, NEW p \in Process, Moves(p)
  PROVE  CallInv' /\ FileRefs' /\ KindInv' /\ EndInv'
<1>0. CallOk(p)
  BY Zenon DEF CallInv
<1>1. got[p] = <<>> /\ todo[p] = <<>> /\ ret[p] = "none"
  BY <1>0 DEF CallOk, Moves, InRead, InWrite, Creating, Closing
<1>2. CallInv'
  <2>1. CallOk(p)'
    BY <1>1, Zenon DEF CallOk, Moves, InRead, InWrite, Creating, Closing
  <2>2. ASSUME NEW q \in Process, q # p PROVE CallOk(q)'
    BY <2>2, CallKept, Zenon DEF Moves, CallInv
  <2>. QED BY <2>1, <2>2, Zenon DEF CallInv
<1>3. FileRefs'
  BY RefsKept, Zenon DEF Moves
<1>4. ASSUME NEW q \in Process, NEW l \in Creating \cup Counters PROVE ppc'[q] = l <=> ppc[q] = l
  BY DEF Moves, SameCall, InRead, InWrite, Creating, Counters
<1>5. KindInv'
  <2>1. UNCHANGED <<ftable, ofile, got>>
    BY DEF Moves
  <2>2. \A q \in Process : ppc'[q] \in Creating => ppc'[q] = ppc[q]
    BY <1>4, Zenon
  <2>. QED BY <2>1, <2>2, KindKept, Zenon DEF Creating
<1>6. EndInv'
  BY <1>4, EndKept, Zenon DEF Moves, SameTypes, SameClosing
<1>. QED BY <1>2, <1>3, <1>5, <1>6, Zenon

LEMMA MinTwo ==
  ASSUME NEW a \in Nat, NEW b \in Nat
  PROVE  Min({a, b}) = IF a <= b THEN a ELSE b
<1>. DEFINE m == IF a <= b THEN a ELSE b
<1>1. m \in {a, b} /\ \A y \in {a, b} : m <= y
  OBVIOUS
<1>2. ASSUME NEW x \in {a, b}, \A y \in {a, b} : x <= y PROVE x = m
  BY <1>2
<1>. HIDE DEF m
<1>3. Min({a, b}) = m
  BY <1>1, <1>2 DEF Min
<1>. QED BY <1>3 DEF m

LEMMA MaxIs ==
  ASSUME Counting, NEW n \in Nat, NEW T \in SUBSET (1..n), T # {}
  PROVE  Max(T) \in T
<1>. DEFINE U == {n - x : x \in T}
<1>1. U \in SUBSET Nat /\ U # {}
  <2>1. \A x \in T : x \in Int /\ n - x \in Nat
    OBVIOUS
  <2>2. \E x \in T : TRUE
    BY Zenon
  <2>. QED BY <2>1, <2>2
<1>2. PICK u \in U : \A y \in U : u <= y
  BY <1>1, Zenon DEF Counting, Least
<1>3. PICK x \in T : u = n - x
  OBVIOUS
<1>4. ASSUME NEW y \in T PROVE x >= y
  <2>1. n - y \in U
    OBVIOUS
  <2>2. n - x <= n - y
    BY <1>2, <1>3, <2>1, Zenon
  <2>. QED BY <2>2
<1>. QED BY <1>4, Zenon DEF Max

\* What pipewrite() leaves in the ring are bytes.
LEMMA StoredType ==
  ASSUME Counting, PipeType, NEW s \in Seq(Byte), NEW n \in 0..Len(s)
  PROVE  Stored(s, n) \in [Ring -> Byte]
<1>. DEFINE is(j) == {i \in 1..n : ((nwrite + i - 1) % Uint) % PIPESIZE = j}
<1>1. Stored(s, n) = [j \in Ring |-> IF is(j) = {} THEN data[j] ELSE s[Max(is(j))]]
  BY Zenon DEF Stored
<1>2. ASSUME NEW j \in Ring, is(j) # {} PROVE Max(is(j)) \in 1..Len(s)
  <2>1. n \in Nat /\ Len(s) \in Nat /\ n <= Len(s)
    OBVIOUS
  <2>2. is(j) \in SUBSET (1..n)
    BY Zenon
  <2>. HIDE DEF is
  <2>3. Max(is(j)) \in is(j)
    BY <1>2, <2>1, <2>2, MaxIs, Zenon
  <2>4. Max(is(j)) \in 1..n
    BY <2>2, <2>3, Zenon
  <2>. QED BY <2>1, <2>4
<1>. HIDE DEF is
<1>3. ASSUME NEW j \in Ring PROVE (IF is(j) = {} THEN data[j] ELSE s[Max(is(j))]) \in Byte
  <2>1. data[j] \in Byte
    BY Zenon DEF PipeType
  <2>2. is(j) # {} => s[Max(is(j))] \in Byte
    BY <1>2
  <2>. QED BY <2>1, <2>2, Zenon
<1>. QED BY <1>1, <1>3

\* What pipewrite() has written when it returns or finds the ring full.
LEMMA PipeWriteIs ==
  ASSUME PipeInv, NEW p \in Process, PipeWrite(p)
  PROVE  \E n \in 0..Len(buf[p]) :
           /\ n \in 0..Room /\ Wrote(n) /\ data' = Stored(buf[p], n)
           /\ n # Len(buf[p]) => n = Room
           /\ \/ /\ n = Len(buf[p]) /\ ppc' = [WakeReaders(ppc) EXCEPT ![p] = "user"]
                 /\ buf' = [buf EXCEPT ![p] = <<>>] /\ ret' = ret
              \/ /\ n # Len(buf[p]) /\ (~readopen \/ killed[p])
                 /\ ppc' = [ppc EXCEPT ![p] = "user"] /\ ret' = [ret EXCEPT ![p] = "err"]
                 /\ buf' = [buf EXCEPT ![p] = <<>>]
              \/ /\ n # Len(buf[p]) /\ readopen /\ ~killed[p]
                 /\ ppc' = [ppc EXCEPT ![p] = "wfull"] /\ ret' = ret
                 /\ buf' = [buf EXCEPT ![p] = SubSeq(@, n + 1, Len(@))]
<1>. DEFINE l == Len(buf[p])
            n == Min({Len(buf[p]), Room})
<1>1. PipeType /\ Avail <= PIPESIZE /\ buf[p] \in Seq(Byte)
  BY DEF PipeInv, PipeType
<1>2. l \in Nat /\ Room \in Nat
  BY <1>1, RoomIs, Counts
<1>3. n = IF l <= Room THEN l ELSE Room
  BY <1>2, MinTwo, Zenon
<1>4. n \in 0..l /\ n \in 0..Room /\ (n # l => n = Room)
  <2>. HIDE DEF n, l
  <2>. QED BY <1>2, <1>3
<1>5. nread' = nread /\ nwrite' = (nwrite + n) % Uint /\ data' = Stored(buf[p], n)
  BY DEF PipeWrite
<1>6. \/ /\ n = l /\ ppc' = [WakeReaders(ppc) EXCEPT ![p] = "user"]
         /\ buf' = [buf EXCEPT ![p] = <<>>] /\ ret' = ret
      \/ /\ n # l /\ (~readopen \/ killed[p])
         /\ ppc' = [ppc EXCEPT ![p] = "user"] /\ ret' = [ret EXCEPT ![p] = "err"]
         /\ buf' = [buf EXCEPT ![p] = <<>>]
      \/ /\ n # l /\ readopen /\ ~killed[p]
         /\ ppc' = [ppc EXCEPT ![p] = "wfull"] /\ ret' = ret
         /\ buf' = [buf EXCEPT ![p] = SubSeq(@, n + 1, Len(@))]
  <2>1. readopen \in BOOLEAN /\ killed[p] \in BOOLEAN
    BY <1>1, Zenon DEF PipeType
  <2>2. IF n = l
        THEN /\ ppc' = [WakeReaders(ppc) EXCEPT ![p] = "user"]
             /\ buf' = [buf EXCEPT ![p] = <<>>] /\ ret' = ret
        ELSE IF ~readopen \/ killed[p]
        THEN /\ ppc' = [ppc EXCEPT ![p] = "user"] /\ ret' = [ret EXCEPT ![p] = "err"]
             /\ buf' = [buf EXCEPT ![p] = <<>>]
        ELSE /\ ppc' = [ppc EXCEPT ![p] = "wfull"] /\ ret' = ret
             /\ buf' = [buf EXCEPT ![p] = SubSeq(@, n + 1, Len(@))]
    BY Zenon DEF PipeWrite, Finish, Goto
  <2>. HIDE DEF n, l
  <2>. QED BY <2>1, <2>2, Zenon
<1>. HIDE DEF n
<1>. QED BY <1>4, <1>5, <1>6, Zenon DEF Wrote

LEMMA PipeWriteInv ==
  ASSUME Counting, PipeInv, NEW p \in Process, PipeWrite(p)
  PROVE  PipeInv'
<1>. USE DEF PipeInv
<1>1. PICK n \in 0..Len(buf[p]) :
        /\ n \in 0..Room /\ Wrote(n) /\ data' = Stored(buf[p], n)
        /\ n # Len(buf[p]) => n = Room
        /\ \/ /\ n = Len(buf[p]) /\ ppc' = [WakeReaders(ppc) EXCEPT ![p] = "user"]
              /\ buf' = [buf EXCEPT ![p] = <<>>] /\ ret' = ret
           \/ /\ n # Len(buf[p]) /\ (~readopen \/ killed[p])
              /\ ppc' = [ppc EXCEPT ![p] = "user"] /\ ret' = [ret EXCEPT ![p] = "err"]
              /\ buf' = [buf EXCEPT ![p] = <<>>]
           \/ /\ n # Len(buf[p]) /\ readopen /\ ~killed[p]
              /\ ppc' = [ppc EXCEPT ![p] = "wfull"] /\ ret' = ret
              /\ buf' = [buf EXCEPT ![p] = SubSeq(@, n + 1, Len(@))]
  BY PipeWriteIs, Zenon
<1>2. /\ ppc[p] = "write" /\ \A q \in Process : ppc[q] \notin {"wfull", "rempty"}
      /\ UNCHANGED <<ftable, ofile, page, nread, readopen, writeopen, got, todo, killed>>
  BY Zenon DEF PipeWrite, At, Unlocked, Sleeping
<1>3. /\ nwrite' \in Index /\ Avail' <= PIPESIZE /\ (n = 0 => nwrite' = nwrite)
      /\ (n = Room => Room' = 0)
  BY <1>1, WriteAvail, Zenon
<1>4. data' \in [Ring -> Byte]
  <2>1. buf[p] \in Seq(Byte) /\ n <= PIPESIZE
    <3>1. Room \in 0..PIPESIZE /\ PIPESIZE \in Nat /\ buf[p] \in Seq(Byte)
      BY RoomIs, Counts, Zenon DEF PipeType
    <3>2. \A x \in 0..PIPESIZE : \A y \in 0..x : y <= PIPESIZE
      BY <3>1
    <3>. QED BY <1>1, <3>1, <3>2, Zenon
  <2>. QED BY <1>1, <2>1, StoredType, Zenon
<1>5. buf' \in [Process -> Seq(Byte)]
  <2>1. buf[p] \in Seq(Byte) /\ Len(buf[p]) \in Nat
    BY DEF PipeType
  <2>2. <<>> \in Seq(Byte) /\ SubSeq(buf[p], n + 1, Len(buf[p])) \in Seq(Byte)
    BY <2>1
  <2>3. \E v \in Seq(Byte) : buf' = [buf EXCEPT ![p] = v]
    BY <1>1, <2>2, Zenon
  <2>. QED BY <2>3, CallTypes
<1>6. /\ ppc' \in [Process -> {"user", "dead", "exit"} \cup Creating \cup Closing \cup InRead \cup InWrite]
      /\ ret' \in [Process -> {"none", "eof", "err", "exit"}]
      /\ ppc'[p] \in {"user", "wfull"} /\ (ppc'[p] # "user" => ret'[p] = ret[p])
      /\ \A q \in Process : q # p =>
           ret'[q] = ret[q] /\ (ppc'[q] = ppc[q] \/ (ppc[q] = "rsleep" /\ ppc'[q] = "read"))
  <2>1. CASE ppc' = [WakeReaders(ppc) EXCEPT ![p] = "user"] /\ ret' = ret
    BY <2>1, CallTypes, Zenon DEF WakeReaders, InRead, InWrite
  <2>2. CASE ppc' = [ppc EXCEPT ![p] = "user"] /\ ret' = [ret EXCEPT ![p] = "err"]
    BY <2>2, CallTypes, Zenon DEF InRead, InWrite
  <2>3. CASE ppc' = [ppc EXCEPT ![p] = "wfull"] /\ ret' = ret
    BY <2>3, CallTypes, Zenon DEF InRead, InWrite
  <2>. QED BY <1>1, <2>1, <2>2, <2>3
<1>7. PipeType'
  BY <1>2, <1>3, <1>4, <1>5, <1>6 DEF PipeType
<1>8. Moves(p)
  BY <1>2, <1>6, Zenon DEF Moves, SameCall, InRead, InWrite
<1>9. CallInv' /\ FileRefs' /\ KindInv' /\ EndInv'
  BY <1>8, MovesInv, Zenon
<1>10. ppc'[p] = "wfull" => Room' = 0 /\ readopen
  <2>1. ppc'[p] = "wfull" => n # Len(buf[p]) /\ readopen
    BY <1>1, CallTypes, Zenon DEF WakeReaders
  <2>. QED BY <1>1, <1>3, <2>1
<1>11. ASSUME NEW q \in Process PROVE UseOk(q)'
  <2>1. UseOk(q) /\ UseOk(p)
    BY Zenon DEF UseInv
  <2>2. ASSUME NEW d \in Fd, NEW t PROVE Opens(q, d, t)' <=> Opens(q, d, t)
    BY <1>2, Zenon DEF Opens
  <2>3. CASE q = p
    BY <1>2, <1>6, <1>10, <2>1, <2>2, <2>3 DEF UseOk, InRead, InWrite
  <2>4. CASE q # p
    <3>1. ppc'[q] = "wsleep" => Room' = 0
      <4>1. ppc'[q] = "wsleep" => Room = 0
        BY <1>6, <2>1, <2>4 DEF UseOk
      <4>2. Room = 0 => n = 0
        BY <1>1
      <4>. QED BY <1>2, <1>3, <4>1, <4>2 DEF Room
    <3>. QED BY <1>2, <1>6, <2>1, <2>2, <2>4, <3>1 DEF UseOk, InRead, InWrite
  <2>. QED BY <2>3, <2>4
<1>. QED BY <1>3, <1>7, <1>9, <1>11 DEF UseInv

LEMMA WakeIs ==
  ASSUME NEW p \in Process, NEW l
  PROVE  /\ [WakeReaders(ppc) EXCEPT ![p] = l]
              = [q \in Process |-> IF q = p THEN l ELSE IF ppc[q] = "rsleep" THEN "read" ELSE ppc[q]]
         /\ [WakeWriters(ppc) EXCEPT ![p] = l]
              = [q \in Process |-> IF q = p THEN l ELSE IF ppc[q] = "wsleep" THEN "write" ELSE ppc[q]]
<1>1. ASSUME NEW g, g = [q \in Process |-> g[q]]
      PROVE  [g EXCEPT ![p] = l] = [q \in Process |-> IF q = p THEN l ELSE g[q]]
  BY <1>1, ExceptIs
<1>2. /\ WakeReaders(ppc) = [q \in Process |-> WakeReaders(ppc)[q]]
      /\ \A q \in Process : WakeReaders(ppc)[q] = IF ppc[q] = "rsleep" THEN "read" ELSE ppc[q]
  BY DEF WakeReaders
<1>3. /\ WakeWriters(ppc) = [q \in Process |-> WakeWriters(ppc)[q]]
      /\ \A q \in Process : WakeWriters(ppc)[q] = IF ppc[q] = "wsleep" THEN "write" ELSE ppc[q]
  BY DEF WakeWriters
<1>4. [WakeReaders(ppc) EXCEPT ![p] = l] = [q \in Process |-> IF q = p THEN l ELSE WakeReaders(ppc)[q]]
  BY <1>1, <1>2, Zenon
<1>5. [WakeWriters(ppc) EXCEPT ![p] = l] = [q \in Process |-> IF q = p THEN l ELSE WakeWriters(ppc)[q]]
  BY <1>1, <1>3, Zenon
<1>. QED BY <1>2, <1>3, <1>4, <1>5, Zenon

\* What piperead() has read when it returns or finds the ring empty.
LEMMA PipeReadIs ==
  ASSUME PipeInv, NEW p \in Process, PipeRead(p)
  PROVE  \E n \in 0..Avail :
           /\ Took(n)
           /\ \/ /\ n = 0 /\ Avail = 0 /\ writeopen /\ killed[p]
                 /\ ppc' = [ppc EXCEPT ![p] = "user"] /\ ret' = [ret EXCEPT ![p] = "err"]
              \/ /\ n = 0 /\ Avail = 0 /\ writeopen /\ ~killed[p]
                 /\ ppc' = [ppc EXCEPT ![p] = "rempty"] /\ ret' = ret
              \/ /\ n = 0 => Avail = 0 /\ ~writeopen
                 /\ ppc' = [WakeWriters(ppc) EXCEPT ![p] = "user"]
                 /\ ret' = [ret EXCEPT ![p] = IF n = 0 THEN "eof" ELSE "none"]
<1>1. /\ PipeType /\ Avail \in Nat /\ writeopen \in BOOLEAN /\ killed[p] \in BOOLEAN
      /\ nread \in 0..Uint - 1 /\ nread \in Int /\ Uint \in Nat \ {0}
  BY AvailIs, Counts DEF PipeInv, PipeType
<1>2. nwrite' = nwrite
  BY DEF PipeRead
<1>3. CASE ReadWaits(p)
  <2>1. Avail = 0 /\ writeopen /\ nread' = nread
    BY <1>3, Zenon DEF PipeRead, ReadWaits
  <2>2. Took(0)
    <3>1. nread % Uint = nread /\ nread + 0 = nread
      BY <1>1, Modulo
    <3>. QED BY <1>2, <2>1, <3>1 DEF Took
  <2>3. IF killed[p] THEN ppc' = [ppc EXCEPT ![p] = "user"] /\ ret' = [ret EXCEPT ![p] = "err"]
        ELSE ppc' = [ppc EXCEPT ![p] = "rempty"] /\ ret' = ret
    BY <1>3, Zenon DEF PipeRead, Finish, Goto
  <2>4. 0 \in 0..Avail
    BY <1>1
  <2>. QED BY <1>1, <2>1, <2>2, <2>3, <2>4, Zenon
<1>4. CASE ~ReadWaits(p)
  <2>1. PICK n \in {Min({m, Avail}) : m \in 1..MaxRead} :
          /\ nread' = (nread + n) % Uint
          /\ ppc' = [WakeWriters(ppc) EXCEPT ![p] = "user"]
          /\ ret' = [ret EXCEPT ![p] = IF n = 0 THEN "eof" ELSE "none"]
    BY <1>4, Zenon DEF PipeRead
  <2>2. PICK m \in 1..MaxRead : n = Min({m, Avail})
    BY Zenon
  <2>3. m \in Nat /\ m > 0 /\ n = IF m <= Avail THEN m ELSE Avail
    BY <1>1, <2>2, MinTwo, FileSizes
  <2>4. n \in 0..Avail /\ (n = 0 => Avail = 0)
    BY <1>1, <2>3
  <2>5. n = 0 => ~writeopen
    BY <1>1, <1>4, <2>4 DEF ReadWaits
  <2>6. Took(n) /\ ret' = [ret EXCEPT ![p] = IF n = 0 THEN "eof" ELSE "none"]
    BY <1>2, <2>1, Zenon DEF Took
  <2>. QED BY <2>1, <2>4, <2>5, <2>6, Zenon
<1>. QED BY <1>3, <1>4

LEMMA PipeReadInv ==
  ASSUME PipeInv, NEW p \in Process, PipeRead(p)
  PROVE  PipeInv'
<1>. USE DEF PipeInv
<1>1. PICK n \in 0..Avail :
        /\ Took(n)
        /\ \/ /\ n = 0 /\ Avail = 0 /\ writeopen /\ killed[p]
              /\ ppc' = [ppc EXCEPT ![p] = "user"] /\ ret' = [ret EXCEPT ![p] = "err"]
           \/ /\ n = 0 /\ Avail = 0 /\ writeopen /\ ~killed[p]
              /\ ppc' = [ppc EXCEPT ![p] = "rempty"] /\ ret' = ret
           \/ /\ n = 0 => Avail = 0 /\ ~writeopen
              /\ ppc' = [WakeWriters(ppc) EXCEPT ![p] = "user"]
              /\ ret' = [ret EXCEPT ![p] = IF n = 0 THEN "eof" ELSE "none"]
  BY PipeReadIs, Zenon
<1>2. /\ ppc[p] = "read" /\ \A q \in Process : ppc[q] \notin {"wfull", "rempty"}
      /\ UNCHANGED <<ftable, ofile, page, data, nwrite, readopen, writeopen, got, todo, buf, killed>>
  BY DEF PipeRead, At, Unlocked, Sleeping
<1>3. nread' \in Index /\ Avail' <= PIPESIZE
  BY <1>1, ReadAvail
<1>4. n = 0 => nread' = nread
  <2>1. nread % Uint = nread /\ nread + 0 = nread
    BY Counts, Modulo
  <2>. QED BY <1>1, <2>1 DEF Took
<1>5. /\ ppc' \in [Process -> {"user", "dead", "exit"} \cup Creating \cup Closing \cup InRead \cup InWrite]
      /\ ret' \in [Process -> {"none", "eof", "err", "exit"}]
      /\ ppc'[p] \in {"user", "rempty"} /\ (ppc'[p] # "user" => ret'[p] = ret[p])
      /\ ppc'[p] = "rempty" => writeopen
      /\ \A q \in Process : q # p =>
           ret'[q] = ret[q] /\ (ppc'[q] = ppc[q] \/ (ppc[q] = "wsleep" /\ ppc'[q] = "write"))
      /\ \A q \in Process : ppc'[q] = "wsleep" => n = 0
  <2>1. CASE n = 0 /\ ppc' = [ppc EXCEPT ![p] = "user"] /\ ret' = [ret EXCEPT ![p] = "err"]
    BY <2>1, CallTypes DEF InRead, InWrite
  <2>2. CASE n = 0 /\ ppc' = [ppc EXCEPT ![p] = "rempty"] /\ ret' = ret /\ writeopen
    BY <2>2, CallTypes DEF InRead, InWrite
  <2>3. CASE /\ ppc' = [WakeWriters(ppc) EXCEPT ![p] = "user"]
             /\ ret' = [ret EXCEPT ![p] = IF n = 0 THEN "eof" ELSE "none"]
    <3>1. /\ ppc' \in [Process -> {"user", "dead", "exit"} \cup Creating \cup Closing \cup InRead \cup InWrite]
          /\ ppc'[p] = "user"
          /\ \A q \in Process : q # p => ppc'[q] = ppc[q] \/ (ppc[q] = "wsleep" /\ ppc'[q] = "write")
          /\ \A q \in Process : ppc'[q] # "wsleep"
      <4>1. ppc' = [q \in Process |-> IF q = p THEN "user" ELSE IF ppc[q] = "wsleep" THEN "write" ELSE ppc[q]]
        BY <2>3, WakeIs, Zenon
      <4>. QED BY <4>1, CallTypes DEF InRead, InWrite
    <3>2. ret' \in [Process -> {"none", "eof", "err", "exit"}] /\ \A q \in Process : q # p => ret'[q] = ret[q]
      BY <2>3, CallTypes
    <3>. QED BY <3>1, <3>2
  <2>. QED BY <1>1, <2>1, <2>2, <2>3
<1>6. PipeType'
  BY <1>2, <1>3, <1>5 DEF PipeType
<1>7. Moves(p)
  BY <1>2, <1>5 DEF Moves, SameCall, InRead, InWrite
<1>8. CallInv' /\ FileRefs' /\ KindInv' /\ EndInv'
  BY <1>7, MovesInv
<1>9. ASSUME NEW q \in Process PROVE UseOk(q)'
  <2>1. UseOk(q) /\ UseOk(p)
    BY DEF UseInv
  <2>2. ASSUME NEW d \in Fd, NEW t PROVE Opens(q, d, t)' <=> Opens(q, d, t)
    BY <1>2 DEF Opens
  <2>3. CASE q = p
    BY <1>2, <1>5, <2>1, <2>2, <2>3 DEF UseOk, InRead, InWrite
  <2>4. CASE q # p
    <3>1. ppc'[q] = "wsleep" => Room' = 0
      <4>1. ppc'[q] = "wsleep" => Room = 0 /\ n = 0
        BY <1>5, <2>1, <2>4 DEF UseOk
      <4>. QED BY <1>2, <1>4, <4>1 DEF Room
    <3>. QED BY <1>2, <1>5, <2>1, <2>2, <2>4, <3>1 DEF UseOk, InRead, InWrite
  <2>. QED BY <2>3, <2>4
<1>. QED BY <1>3, <1>6, <1>8, <1>9 DEF UseInv

LEMMA PipeSleepInv ==
  ASSUME PipeInv, NEW p \in Process, PipeSleep(p)
  PROVE  PipeInv'
<1>. USE DEF PipeInv
<1>1. /\ ppc[p] \in {"wfull", "rempty"}
      /\ UNCHANGED <<ftable, ofile, page, data, nread, nwrite, readopen, writeopen, got, todo, buf, ret, killed>>
  BY DEF PipeSleep, Sleeping, pipe, call
<1>2. ppc' = [q \in Process |-> IF q = p THEN IF ppc[p] = "wfull" THEN "wsleep" ELSE "rsleep"
                                ELSE IF ppc[p] = "wfull" /\ ppc[q] = "rsleep" THEN "read" ELSE ppc[q]]
  <2>1. CASE ppc[p] = "wfull"
    <3>1. ppc' = [WakeReaders(ppc) EXCEPT ![p] = "wsleep"]
      BY <2>1 DEF PipeSleep, At
    <3>2. ppc' = [q \in Process |-> IF q = p THEN "wsleep" ELSE IF ppc[q] = "rsleep" THEN "read" ELSE ppc[q]]
      BY <3>1, WakeIs, Zenon
    <3>. QED BY <2>1, <3>2
  <2>2. CASE ppc[p] # "wfull"
    <3>1. ppc' = [ppc EXCEPT ![p] = "rsleep"]
      BY <2>2 DEF PipeSleep, At
    <3>2. ppc' = [q \in Process |-> IF q = p THEN "rsleep" ELSE ppc[q]]
      BY <3>1, GotoIs, Zenon
    <3>. QED BY <2>2, <3>2
  <2>. QED BY <2>1, <2>2
<1>3. /\ ppc' \in [Process -> {"user", "dead", "exit"} \cup Creating \cup Closing \cup InRead \cup InWrite]
      /\ ppc[p] = "wfull" => ppc'[p] = "wsleep"
      /\ ppc[p] = "rempty" => ppc'[p] = "rsleep"
      /\ \A q \in Process : q # p => ppc'[q] = ppc[q] \/ (ppc[q] = "rsleep" /\ ppc'[q] = "read")
  BY <1>1, <1>2, CallTypes DEF InRead, InWrite
<1>4. PipeType'
  BY <1>1, <1>3 DEF PipeType
<1>5. Moves(p)
  BY <1>1, <1>3, CallTypes DEF Moves, SameCall, InRead, InWrite
<1>6. CallInv' /\ FileRefs' /\ KindInv' /\ EndInv'
  BY <1>5, MovesInv
<1>7. ASSUME NEW q \in Process PROVE UseOk(q)'
  <2>1. UseOk(q) /\ UseOk(p)
    BY DEF UseInv
  <2>2. ASSUME NEW d \in Fd, NEW t PROVE Opens(q, d, t)' <=> Opens(q, d, t)
    BY <1>1 DEF Opens
  <2>3. Room' = Room
    BY <1>1 DEF Room
  <2>4. CASE q = p
    BY <1>1, <1>3, <2>1, <2>2, <2>3, <2>4 DEF UseOk, InRead, InWrite
  <2>5. CASE q # p
    BY <1>1, <1>3, <2>1, <2>2, <2>3, <2>5 DEF UseOk, InRead, InWrite
  <2>. QED BY <2>4, <2>5
<1>. QED BY <1>1, <1>4, <1>6, <1>7, AvailKept DEF UseInv

LEMMA KillInv ==
  ASSUME PipeInv, NEW p \in Process, Kill(p)
  PROVE  PipeInv'
<1>. USE DEF PipeInv
<1>1. /\ killed' = [killed EXCEPT ![p] = TRUE]
      /\ UNCHANGED <<ftable, ofile, page, data, nread, nwrite, readopen, writeopen, got, todo, buf, ret>>
  BY DEF Kill, pipe, call
<1>2. /\ ppc' \in [Process -> {"user", "dead", "exit"} \cup Creating \cup Closing \cup InRead \cup InWrite]
      /\ \A q \in Process : \/ ppc'[q] = ppc[q]
                            \/ ppc[q] = "rsleep" /\ ppc'[q] = "read"
                            \/ ppc[q] = "wsleep" /\ ppc'[q] = "write"
  <2>. DEFINE l == CASE ppc[p] = "rsleep" -> "read" [] ppc[p] = "wsleep" -> "write" [] OTHER -> ppc[p]
  <2>1. ppc' = [ppc EXCEPT ![p] = l]
    BY DEF Kill
  <2>2. \/ l = ppc[p]
        \/ ppc[p] = "rsleep" /\ l = "read"
        \/ ppc[p] = "wsleep" /\ l = "write"
    OBVIOUS
  <2>3. l \in {"user", "dead", "exit"} \cup Creating \cup Closing \cup InRead \cup InWrite
    BY <2>2, CallTypes DEF InRead, InWrite
  <2>. HIDE DEF l
  <2>4. ppc' = [q \in Process |-> IF q = p THEN l ELSE ppc[q]]
    BY <2>1, GotoIs, Zenon
  <2>5. ppc' \in [Process -> {"user", "dead", "exit"} \cup Creating \cup Closing \cup InRead \cup InWrite]
    BY <2>3, <2>4, CallTypes
  <2>6. ASSUME NEW q \in Process PROVE ppc'[q] = IF q = p THEN l ELSE ppc[q]
    BY <2>4
  <2>7. ASSUME NEW q \in Process
        PROVE  \/ ppc'[q] = ppc[q]
               \/ ppc[q] = "rsleep" /\ ppc'[q] = "read"
               \/ ppc[q] = "wsleep" /\ ppc'[q] = "write"
    <3>1. CASE q = p
      BY <2>2, <2>6, <3>1
    <3>2. CASE q # p
      BY <2>6, <3>2
    <3>. QED BY <3>1, <3>2
  <2>. QED BY <2>5, <2>7
<1>3. PipeType'
  <2>1. killed' \in [Process -> BOOLEAN]
    BY <1>1, CallTypes
  <2>. QED BY <1>1, <1>2, <2>1 DEF PipeType
<1>4. CallInv'
  <2>1. ASSUME NEW q \in Process PROVE SameCall(q)
    BY <1>1, <1>2 DEF SameCall, InRead, InWrite
  <2>. QED BY <2>1, CallKept DEF CallInv
<1>5. FileRefs'
  BY <1>1, RefsKept
<1>6. ASSUME NEW q \in Process, NEW l \in Creating \cup Counters PROVE ppc'[q] = l <=> ppc[q] = l
  BY <1>2 DEF Creating, Counters
<1>7. KindInv'
  <2>1. \A q \in Process : ppc'[q] \in Creating => ppc'[q] = ppc[q]
    BY <1>6
  <2>. QED BY <1>1, <2>1, KindKept DEF Creating
<1>8. EndInv'
  BY <1>1, <1>6, EndKept DEF SameTypes, SameClosing
<1>9. ASSUME NEW q \in Process PROVE UseOk(q)'
  <2>1. UseOk(q)
    BY DEF UseInv
  <2>2. ASSUME NEW d \in Fd, NEW t PROVE Opens(q, d, t)' <=> Opens(q, d, t)
    BY <1>1 DEF Opens
  <2>3. Room' = Room
    BY <1>1 DEF Room
  <2>. QED BY <1>1, <1>2, <2>1, <2>2, <2>3 DEF UseOk, InRead, InWrite
<1>. QED BY <1>1, <1>3, <1>4, <1>5, <1>7, <1>8, <1>9, AvailKept DEF UseInv
=============================================================================
