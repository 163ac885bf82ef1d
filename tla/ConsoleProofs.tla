---------------------------- MODULE ConsoleProofs ----------------------------
(***************************************************************************)
(* Theorems about console input, for any number of readers and any size of *)
(* the ring: no reader sleeps beside a finished line, and the ring is the  *)
(* queue of lines that Tty describes.                                      *)
(***************************************************************************)
EXTENDS Console, Counting, TLAPS

-----------------------------------------------------------------------------
\* The inductive invariant.

Index == 0..CUint - 1

ConsoleType ==
  /\ input \in [buf : [0..INPUT_BUF - 1 -> Char], r : Index, w : Index, e : Index]
  /\ cpc \in [Reader -> {"user", "read", "empty", "sleep"}]
  /\ want \in [Reader -> Nat] /\ had \in [Reader -> Nat]
  /\ eof \in [Reader -> BOOLEAN] /\ ckilled \in [Reader -> BOOLEAN]

\* r, w and e follow one another around the ring, and the line being edited
\* has no end of line in it.
RingInv ==
  /\ Dist(input.r, input.e) = Dist(input.r, input.w) + Dist(input.w, input.e)
  /\ Dist(input.r, input.e) <= INPUT_BUF
  /\ \A k \in 1..Dist(input.w, input.e) : Text(input.w, input.e)[k] # NL

\* A read in progress still wants something and has not returned 0; one that
\* sleeps, or is about to, has found the ring empty.
ReadInv ==
  \A p \in Reader :
    /\ cpc[p] # "user" => want[p] > 0 /\ ~eof[p]
    /\ cpc[p] \in {"empty", "sleep"} => input.r = input.w

ConsoleInv == ConsoleType /\ RingInv /\ ReadInv

-----------------------------------------------------------------------------
\* The theorems of Ring, for this ring.

Buf == INSTANCE RingBuffer WITH Elem <- Char, N <- INPUT_BUF, U <- CUint

Place(i) == (i % CUint) % INPUT_BUF
Rings == [0..INPUT_BUF - 1 -> Char]
TextOf(b, i, j) == [k \in 1..Dist(i, j) |-> b[Place(i + k - 1)]]

LEMMA InRing ==
  /\ Buf!Wraps /\ Index = Buf!Index /\ Rings = Buf!Rings
  /\ \A i, j : Dist(i, j) = Buf!Dist(i, j)
  /\ \A b, i, j : TextOf(b, i, j) = Buf!Text(b, i, j)
  /\ \A i : Place(i) = Buf!Place(i)
<1>1. Buf!Wraps
  BY RingSizes DEF Buf!Wraps
<1>2. Index = Buf!Index /\ Rings = Buf!Rings
  BY DEF Index, Buf!Index, Rings, Buf!Rings
<1>3. /\ \A i, j : Dist(i, j) = Buf!Dist(i, j)
      /\ \A i : Place(i) = Buf!Place(i)
  BY DEF Dist, Buf!Dist, Place, Buf!Place
<1>4. \A b, i, j : TextOf(b, i, j) = Buf!Text(b, i, j)
  BY DEF Dist, Buf!Dist, Place, Buf!Place, TextOf, Buf!Text
<1>. QED BY <1>1, <1>2, <1>3, <1>4

LEMMA RingIs == CUint \in Nat \ {0} /\ INPUT_BUF \in Nat \ {0}
BY RingSizes

\* Arithmetic of the indices.
LEMMA DistIs ==
  ASSUME NEW i \in Index, NEW j \in Index
  PROVE  Dist(i, j) = IF i <= j THEN j - i ELSE j - i + CUint
BY InRing, Buf!DistIs, Zenon

LEMMA StepIs ==
  ASSUME NEW i \in Index, NEW n \in 0..CUint
  PROVE  (i + n) % CUint = IF i + n < CUint THEN i + n ELSE i + n - CUint
BY InRing, Buf!StepIs, Zenon

LEMMA PlaceType == ASSUME NEW i \in Int PROVE Place(i) \in 0..INPUT_BUF - 1
BY InRing, Buf!PlaceType, Zenon

LEMMA DistType ==
  ASSUME NEW i \in Index, NEW j \in Index
  PROVE  Dist(i, j) \in 0..CUint - 1 /\ i \in Int /\ j \in Int
BY InRing, Buf!DistType, Zenon

\* n steps from i towards j
LEMMA Moved ==
  ASSUME NEW i \in Index, NEW j \in Index, NEW n \in 0..Dist(i, j)
  PROVE  /\ (i + n) % CUint \in Index
         /\ Dist(i, (i + n) % CUint) = n
         /\ Dist((i + n) % CUint, j) = Dist(i, j) - n
BY InRing, Buf!Moved, Zenon

LEMMA StepBack ==
  ASSUME NEW i \in Index, NEW j \in Index, Dist(i, j) > 0
  PROVE  /\ (j - 1) % CUint \in Index
         /\ Dist(i, (j - 1) % CUint) = Dist(i, j) - 1
BY InRing, Buf!StepBack, Zenon

LEMMA Reaches ==
  ASSUME NEW i \in Index, NEW j \in Index
  PROVE  j = (i + Dist(i, j)) % CUint
BY InRing, Buf!Reaches, Zenon

LEMMA TextOfSeq ==
  ASSUME NEW b \in Rings, NEW i \in Index, NEW j \in Index
  PROVE  /\ TextOf(b, i, j) \in Seq(Char)
         /\ Len(TextOf(b, i, j)) = Dist(i, j)
         /\ \A k \in 1..Dist(i, j) : TextOf(b, i, j)[k] = b[Place(i + k - 1)]
BY InRing, Buf!TextSeq, Zenon

LEMMA TextDrop ==
  ASSUME NEW b \in Rings, NEW i \in Index, NEW j \in Index, NEW n \in 0..Dist(i, j)
  PROVE  TextOf(b, (i + n) % CUint, j) = SubSeq(TextOf(b, i, j), n + 1, Dist(i, j))
BY InRing, Buf!TextDrop, Zenon

LEMMA TextPrefix ==
  ASSUME NEW b \in Rings, NEW i \in Index, NEW j \in Index, NEW n \in 0..Dist(i, j)
  PROVE  TextOf(b, i, (i + n) % CUint) = SubSeq(TextOf(b, i, j), 1, n)
BY InRing, Buf!TextPrefix, Zenon

LEMMA TextSplit ==
  ASSUME NEW b \in Rings, NEW i \in Index, NEW j \in Index, NEW l \in Index,
         Dist(i, l) = Dist(i, j) + Dist(j, l)
  PROVE  TextOf(b, i, l) = TextOf(b, i, j) \o TextOf(b, j, l)
BY InRing, Buf!TextSplit, Zenon

\* Storing a character at e changes no text before e.
LEMMA TextKept ==
  ASSUME NEW b \in Rings, NEW x \in Char, NEW e \in Index, NEW i \in Index, NEW j \in Index,
         Dist(i, e) < INPUT_BUF, Dist(i, e) = Dist(i, j) + Dist(j, e)
  PROVE  TextOf([b EXCEPT ![Place(e)] = x], i, j) = TextOf(b, i, j)
<1>1. /\ b \in Buf!Rings /\ e \in Buf!Index /\ i \in Buf!Index /\ j \in Buf!Index
      /\ Buf!Dist(i, e) < INPUT_BUF /\ Buf!Dist(i, e) = Buf!Dist(i, j) + Buf!Dist(j, e)
  BY InRing, Zenon
<1>2. Buf!Text([b EXCEPT ![Buf!Place(e)] = x], i, j) = Buf!Text(b, i, j)
  BY <1>1, InRing, Buf!TextKept, ZenonT(30)
<1>3. [b EXCEPT ![Buf!Place(e)] = x] = [b EXCEPT ![Place(e)] = x]
  BY InRing, Zenon
<1>. QED BY <1>2, <1>3, InRing, Zenon

LEMMA TextAppend ==
  ASSUME NEW b \in Rings, NEW x \in Char, NEW e \in Index, NEW i \in Index,
         Dist(i, e) < INPUT_BUF
  PROVE  LET c == [b EXCEPT ![Place(e)] = x]
             h == (e + 1) % CUint
         IN /\ h \in Index /\ c \in Rings
            /\ Dist(i, h) = Dist(i, e) + 1
            /\ TextOf(c, i, h) = Append(TextOf(b, i, e), x)
BY InRing, Buf!TextAppend, Zenon

LEMMA SubSeqIs ==
  ASSUME NEW S, NEW s \in Seq(S), NEW m \in Nat \ {0}, NEW n \in m - 1..Len(s)
  PROVE  /\ SubSeq(s, m, n) \in Seq(S) /\ Len(SubSeq(s, m, n)) = n - m + 1
         /\ \A k \in 1..n - m + 1 : SubSeq(s, m, n)[k] = s[m + k - 1]
<1>1. m \in Int /\ n \in Int /\ \A k \in m..n : s[k] \in S
  OBVIOUS
<1>2. Len(SubSeq(s, m, n)) = IF m <= n THEN n - m + 1 ELSE 0
  BY <1>1
<1>. QED BY <1>1, <1>2

-----------------------------------------------------------------------------
\* What consoleread() takes.

LEMMA MinIs ==
  ASSUME Least, NEW T \in SUBSET Nat, T # {}
  PROVE  Min(T) \in T /\ \A y \in T : Min(T) <= y
BY Zenon DEF Least, Min

\* The first n of the characters that can be read: as many as are wanted, or
\* up to the end of a line, or all.
LEMMA TakenIs ==
  ASSUME Least, ConsoleType, NEW p \in Reader
  PROVE  LET text == Text(input.r, input.w)
             n == Len(Taken(p))
         IN /\ n \in 0..Dist(input.r, input.w) /\ n <= want[p]
            /\ \A i \in 1..n : Taken(p)[i] = text[i]
            /\ \A i \in 1..n - 1 : text[i] \notin {NL, EOT}
            /\ \/ n > 0 /\ text[n] \in {NL, EOT}
               \/ n = want[p]
               \/ n = Dist(input.r, input.w)
<1>. DEFINE d == Dist(input.r, input.w)
            text == Text(input.r, input.w)
            most == Min({want[p], Len(text)})
            ends == {i \in 1..most : text[i] \in {NL, EOT}}
            m == IF ends = {} THEN most ELSE Min(ends)
            t == SubSeq(text, 1, m)
<1>1. input.r \in Index /\ input.w \in Index /\ input.buf \in Rings
  BY DEF ConsoleType, Rings
<1>2. text = TextOf(input.buf, input.r, input.w)
  BY DEF Text, TextOf, CharAt, Place
<1>3. text \in Seq(Char) /\ Len(text) = d /\ d \in Nat /\ want[p] \in Nat
  BY <1>1, <1>2, TextOfSeq, DistType DEF ConsoleType
<1>4. Taken(p) = t
  BY DEF Taken
<1>. HIDE DEF d, text
<1>5. most \in {want[p], Len(text)} /\ most <= want[p] /\ most <= Len(text)
  BY <1>3, MinIs, Zenon
<1>. HIDE DEF most
<1>6. ends \in SUBSET Nat
  BY <1>3, <1>5
<1>7. ends # {} => Min(ends) \in ends /\ \A y \in ends : Min(ends) <= y
  BY <1>6, MinIs
<1>8. m \in 0..most /\ (\A i \in 1..m - 1 : text[i] \notin {NL, EOT})
      /\ (m = most \/ (m > 0 /\ text[m] \in {NL, EOT}))
  <2>0. most \in Nat
    BY <1>3, <1>5
  <2>1. CASE ends = {}
    <3>1. m = most /\ \A i \in 1..most : text[i] \notin {NL, EOT}
      BY <2>1
    <3>. QED BY <2>0, <3>1
  <2>2. CASE ends # {}
    <3>1. m = Min(ends)
      BY <2>2
    <3>2. m \in 1..most /\ text[m] \in {NL, EOT}
      BY <1>7, <2>2, <3>1
    <3>3. ASSUME NEW i \in 1..m - 1, text[i] \in {NL, EOT} PROVE FALSE
      <4>1. i \in ends /\ i < m
        BY <2>0, <3>2, <3>3
      <4>2. m <= i
        BY <1>7, <2>2, <3>1, <4>1
      <4>. QED BY <2>0, <3>2, <4>1, <4>2
    <3>. QED BY <2>0, <3>2, <3>3
  <2>. QED BY <2>1, <2>2
<1>. HIDE DEF m
<1>9. m \in 0..d /\ m \in 1 - 1..Len(text) /\ m - 1 + 1 = m /\ m <= want[p]
  BY <1>3, <1>5, <1>8
<1>10. 1 \in Nat \ {0}
  OBVIOUS
<1>11. Len(t) = m /\ \A k \in 1..m : t[k] = text[1 + k - 1]
  BY <1>3, <1>9, <1>10, SubSeqIs
<1>12. \A k \in 1..m : t[k] = text[k]
  <2>1. \A k \in 1..m : 1 + k - 1 = k
    BY <1>9
  <2>. QED BY <1>11, <2>1, Zenon
<1>. HIDE DEF t
<1>13. m = want[p] \/ m = d \/ (m > 0 /\ text[m] \in {NL, EOT})
  BY <1>3, <1>5, <1>8
<1>. QED BY <1>4, <1>8, <1>9, <1>11, <1>12, <1>13 DEF d, text

-----------------------------------------------------------------------------
\* Each action keeps ConsoleInv and is a step of Tty, or none.

ready == Text(input.r, input.w)
line == Text(input.w, input.e)

TtyStep == Lines!Next \/ UNCHANGED Lines!vars

LEMMA TextIs ==
  /\ ready = TextOf(input.buf, input.r, input.w)
  /\ line = TextOf(input.buf, input.w, input.e)
  /\ ready' = TextOf(input'.buf, input'.r, input'.w)
  /\ line' = TextOf(input'.buf, input'.w, input'.e)
BY DEF ready, line, Text, TextOf, CharAt, Place

LEMMA TypedInput ==
  ASSUME ConsoleInv
  PROVE  /\ input.buf \in Rings
         /\ input.r \in Index /\ input.w \in Index /\ input.e \in Index
         /\ ready \in Seq(Char) /\ Len(ready) = Dist(input.r, input.w)
         /\ line \in Seq(Char) /\ Len(line) = Dist(input.w, input.e)
         /\ Dist(input.r, input.w) \in Nat /\ Dist(input.w, input.e) \in Nat
         /\ Dist(input.r, input.e) \in Nat
<1>1. /\ input.buf \in Rings
      /\ input.r \in Index /\ input.w \in Index /\ input.e \in Index
  BY DEF ConsoleInv, ConsoleType, Rings
<1>. QED BY <1>1, TextIs, TextOfSeq, DistType

LEMMA EmptyText == ASSUME NEW b \in Rings, NEW i \in Index PROVE Dist(i, i) = 0 /\ TextOf(b, i, i) = <<>>
<1>1. Dist(i, i) = 0
  BY DistIs DEF Index
<1>2. TextOf(b, i, i) \in Seq(Char) /\ Len(TextOf(b, i, i)) = 0
  BY <1>1, TextOfSeq
<1>. QED BY <1>1, <1>2

LEMMA InitConsole == ConsoleInit => ConsoleInv /\ Lines!Init
<1>. SUFFICES ASSUME ConsoleInit PROVE ConsoleInv /\ Lines!Init
  OBVIOUS
<1>1. ConsoleType
  BY RingSizes DEF ConsoleInit, ConsoleType, Char, Index
<1>2. input.r = 0 /\ input.w = 0 /\ input.e = 0 /\ 0 \in Index /\ input.buf \in Rings
  BY <1>1, RingSizes DEF ConsoleInit, Index, ConsoleType, Rings
<1>3. Dist(0, 0) = 0 /\ TextOf(input.buf, 0, 0) = <<>>
  BY <1>2, EmptyText
<1>4. RingInv
  BY <1>2, <1>3, RingSizes DEF RingInv
<1>5. ReadInv
  BY DEF ReadInv, ConsoleInit
<1>6. ready = <<>> /\ line = <<>>
  BY <1>2, <1>3, TextIs
<1>7. Lines!Init
  BY <1>6 DEF Lines!Init, ConsoleInit, ready, line
<1>. QED BY <1>1, <1>4, <1>5, <1>7 DEF ConsoleInv

LEMMA KillLineStep ==
  ASSUME ConsoleInv, input' = KillLine, UNCHANGED <<cpc, want, had, eof, ckilled>>
  PROVE  ConsoleInv' /\ TtyStep
<1>. DEFINE D == Dist(input.w, input.e)
            kept == {n \in 0..D : n = 0 \/ CharAt(input.w + n - 1) = NL}
<1>1. D \in Nat /\ input.w \in Index /\ input.w \in Int
  BY TypedInput, DistType
<1>2. \A n \in 1..D : CharAt(input.w + n - 1) # NL
  BY DEF ConsoleInv, RingInv, Text
<1>3. kept = {0}
  BY <1>1, <1>2
<1>4. Max(kept) = 0
  BY <1>3 DEF Max
<1>5. (input.w + 0) % CUint = input.w
  BY <1>1, RingSizes DEF Index
<1>6. input' = [input EXCEPT !.e = input.w]
  BY <1>4, <1>5 DEF KillLine
<1>7. /\ input'.r = input.r /\ input'.w = input.w /\ input'.e = input.w /\ input'.buf = input.buf
      /\ ConsoleType'
  BY <1>1, <1>6, Zenon DEF ConsoleInv, ConsoleType
<1>8. Dist(input.w, input.w) = 0 /\ TextOf(input.buf, input.w, input.w) = <<>>
  BY TypedInput, EmptyText, Zenon
<1>9. RingInv'
  BY <1>1, <1>7, <1>8, TypedInput, RingSizes DEF ConsoleInv, RingInv, Dist
<1>10. ReadInv'
  BY <1>7 DEF ConsoleInv, ReadInv
<1>11. ready' = ready /\ line' = <<>>
  BY <1>7, <1>8, TextIs
<1>12. SubSeq(line, 1, Len(line) - Len(line)) = <<>> /\ Len(line) <= Len(line)
  <2>1. Len(line) - Len(line) = 0 /\ Len(line) <= Len(line)
    BY TypedInput
  <2>2. SubSeq(line, 1, 0) = <<>>
    OBVIOUS
  <2>. QED BY <2>1, <2>2
<1>13. Lines!Erase
  BY <1>11, <1>12 DEF Lines!Erase, ready, line
<1>. QED BY <1>7, <1>9, <1>10, <1>13, Zenon DEF ConsoleInv, TtyStep, Lines!Next

LEMMA BackspaceStep ==
  ASSUME ConsoleInv, input' = Backspace, UNCHANGED <<cpc, want, had, eof, ckilled>>
  PROVE  ConsoleInv' /\ TtyStep
<1>1. CASE input.e = input.w
  <2>1. input' = input
    BY <1>1 DEF Backspace
  <2>2. ConsoleInv'
    BY <2>1, Zenon DEF ConsoleInv, ConsoleType, RingInv, ReadInv, Dist, Text, CharAt
  <2>3. UNCHANGED Lines!vars
    BY <2>1 DEF Lines!vars, Text, CharAt, Dist
  <2>. QED BY <2>2, <2>3 DEF TtyStep
<1>2. CASE input.e # input.w
  <2>. DEFINE h == (input.e - 1) % CUint
              D == Dist(input.w, input.e)
  <2>1. input.r \in Index /\ input.w \in Index /\ input.e \in Index /\ input.buf \in Rings
    BY TypedInput
  <2>4. D = IF input.w <= input.e THEN input.e - input.w ELSE input.e - input.w + CUint
    BY <2>1, DistIs
  <2>5. D > 0 /\ D \in Nat
    BY <1>2, <2>1, <2>4, RingSizes DEF Index
  <2>6. Dist(input.r, input.e) = Dist(input.r, input.w) + D /\ Dist(input.r, input.w) \in Nat
        /\ Dist(input.r, input.e) \in Nat /\ Dist(input.r, input.e) <= INPUT_BUF
    BY TypedInput DEF ConsoleInv, RingInv
  <2>. HIDE DEF D
  <2>3. h \in Index /\ Dist(input.w, h) = D - 1
    BY <2>1, <2>5, StepBack DEF D
  <2>8. Dist(input.w, h) = D - 1 /\ Dist(input.r, h) = Dist(input.r, input.e) - 1
    <3>1. Dist(input.r, input.e) > 0
      BY <2>5, <2>6
    <3>. QED BY <2>1, <2>3, <3>1, StepBack, Zenon
  <2>9. h = (input.w + (D - 1)) % CUint
    <3>. HIDE DEF h
    <3>1. h = (input.w + Dist(input.w, h)) % CUint
      BY <2>1, <2>3, Reaches, Zenon
    <3>. QED BY <2>8, <3>1
  <2>10. TextOf(input.buf, input.w, h) = SubSeq(line, 1, D - 1)
    <3>1. D - 1 \in 0..Dist(input.w, input.e)
      BY <2>5 DEF D
    <3>. QED BY <2>1, <2>9, <3>1, TextPrefix, TextIs
  <2>. HIDE DEF h
  <2>11. input' = [input EXCEPT !.e = h]
    BY <1>2 DEF Backspace, h
  <2>12. /\ input'.r = input.r /\ input'.w = input.w /\ input'.e = h /\ input'.buf = input.buf
         /\ ConsoleType'
    BY <2>3, <2>11, Zenon DEF ConsoleInv, ConsoleType
  <2>13. ready' = ready /\ line' = SubSeq(line, 1, D - 1)
    BY <2>10, <2>12, TextIs, Zenon
  <2>14. line \in Seq(Char) /\ Len(line) = D
    BY TypedInput DEF D
  <2>15. \A k \in 1..D - 1 : line'[k] # NL
    <3>1. 1 \in Nat \ {0} /\ D - 1 \in 1 - 1..Len(line) /\ (D - 1) - 1 + 1 = D - 1
      BY <2>5, <2>14
    <3>2. \A k \in 1..D - 1 : line'[k] = line[1 + k - 1]
      BY <2>13, <2>14, <3>1, SubSeqIs
    <3>3. \A k \in 1..D - 1 : 1 + k - 1 = k /\ k \in 1..D
      BY <2>5
    <3>4. \A k \in 1..D : line[k] # NL
      BY Zenon DEF ConsoleInv, RingInv, line, D
    <3>. QED BY <3>2, <3>3, <3>4
  <2>16. RingInv'
    <3>1. Dist(input.r, input.e)' = Dist(input.r, h) /\ Dist(input.w, input.e)' = Dist(input.w, h)
          /\ Dist(input.r, input.w)' = Dist(input.r, input.w)
      BY <2>12 DEF Dist
    <3>2. Dist(input.w, input.e)' = D - 1 /\ Text(input.w, input.e)' = line'
      BY <2>8, <3>1 DEF line
    <3>. QED BY <2>5, <2>6, <2>8, <2>15, <3>1, <3>2, RingSizes DEF RingInv
  <2>17. ReadInv'
    BY <2>12 DEF ConsoleInv, ReadInv
  <2>18. Lines!Erase
    <3>1. 1 <= Len(line) /\ line' = SubSeq(line, 1, Len(line) - 1)
      BY <2>5, <2>13, <2>14
    <3>. QED BY <2>13, <3>1, Zenon DEF Lines!Erase, ready, line
  <2>. QED BY <2>12, <2>16, <2>17, <2>18, Zenon DEF ConsoleInv, TtyStep, Lines!Next
<1>. QED BY <1>1, <1>2

\* An ordinary character, which may end the line and wake the readers.
LEMMA TypedStep ==
  ASSUME ConsoleInv, NEW c \in Char, ConsUnlocked,
         Dist(input.r, input.e) < INPUT_BUF,
         input' = Typed(c), cpc' = IF input'.w = input'.e THEN Wakeup(cpc) ELSE cpc,
         UNCHANGED <<want, had, eof, ckilled>>
  PROVE  ConsoleInv' /\ TtyStep
<1>. DEFINE x == IF c = CR THEN NL ELSE c
            h == (input.e + 1) % CUint
            b == [input.buf EXCEPT ![Place(input.e)] = x]
            full == h = (input.r + INPUT_BUF) % CUint
            D == Dist(input.w, input.e)
            R == Dist(input.r, input.w)
<1>1. /\ input.buf \in Rings /\ input.r \in Index /\ input.w \in Index /\ input.e \in Index
      /\ R \in Nat /\ D \in Nat /\ x \in Char /\ Dist(input.r, input.e) = R + D
  BY TypedInput DEF Char, ConsoleInv, RingInv
<1>2. Dist(input.w, input.e) < INPUT_BUF
  BY <1>1, RingSizes
<1>3. /\ h \in Index /\ b \in Rings
      /\ Dist(input.r, h) = (R + D) + 1
      /\ TextOf(b, input.r, h) = Append(TextOf(input.buf, input.r, input.e), x)
  <2>1. /\ h \in Index /\ b \in Rings
        /\ Dist(input.r, h) = Dist(input.r, input.e) + 1
        /\ TextOf(b, input.r, h) = Append(TextOf(input.buf, input.r, input.e), x)
    BY <1>1, TextAppend, ZenonT(30)
  <2>. QED BY <1>1, <2>1, Zenon
<1>4. /\ Dist(input.w, h) = D + 1
      /\ TextOf(b, input.w, h) = Append(line, x)
  BY <1>1, <1>2, TextAppend, TextIs, ZenonT(30)
<1>5. TextOf(b, input.r, input.w) = ready
  <2>1. Dist(input.r, input.e) = Dist(input.r, input.w) + Dist(input.w, input.e)
    BY <1>1
  <2>. HIDE DEF x
  <2>2. TextOf([input.buf EXCEPT ![Place(input.e)] = x], input.r, input.w)
          = TextOf(input.buf, input.r, input.w)
    <3>1. /\ input.buf \in Rings /\ x \in Char
          /\ input.e \in Index /\ input.r \in Index /\ input.w \in Index
      BY <1>1
    <3>. QED BY <2>1, <3>1, TextKept, ZenonT(60)
  <2>. QED BY <2>2, TextIs
<1>6. TextOf(input.buf, input.r, input.e) = ready \o line
  BY <1>1, TextSplit, TextIs, Zenon
<1>7. Append(ready \o line, x) = ready \o Append(line, x)
  <2>1. ready \in Seq(Char) /\ line \in Seq(Char) /\ x \in Char
    BY <1>1, TypedInput
  <2>. HIDE DEF x
  <2>. QED BY <2>1
<1>8. full <=> (R + D) + 1 = INPUT_BUF
  <2>1. INPUT_BUF \in 0..CUint /\ input.r \in 0..CUint - 1
    BY <1>1, RingSizes DEF Index
  <2>2. (input.r + INPUT_BUF) % CUint
          = IF input.r + INPUT_BUF < CUint THEN input.r + INPUT_BUF ELSE input.r + INPUT_BUF - CUint
    BY <1>1, <2>1, StepIs
  <2>. HIDE DEF h, R, D
  <2>3. Dist(input.r, h) = IF input.r <= h THEN h - input.r ELSE h - input.r + CUint
    BY <1>1, <1>3, DistIs
  <2>4. h \in 0..CUint - 1
    BY <1>3 DEF Index
  <2>5. /\ INPUT_BUF \in Nat /\ CUint \in Nat /\ 0 < INPUT_BUF /\ INPUT_BUF < CUint
    BY RingSizes
  <2>6. R \in Nat /\ D \in Nat /\ R + D < INPUT_BUF /\ Dist(input.r, h) = (R + D) + 1
    BY <1>1, <1>3, Zenon
  <2>7. full <=> h = IF input.r + INPUT_BUF < CUint THEN input.r + INPUT_BUF
                     ELSE input.r + INPUT_BUF - CUint
    BY <2>2
  <2>. HIDE DEF full
  <2>. QED BY <2>1, <2>3, <2>4, <2>5, <2>6, <2>7
<1>9. Place(input.e) = input.e % INPUT_BUF
  <2>1. input.e % CUint = input.e
    BY <1>1, RingSizes DEF Index
  <2>. QED BY <2>1 DEF Place
<1>10. /\ input'.r = input.r /\ input'.e = h /\ input'.buf = b
       /\ input'.w = IF x \in {NL, EOT} \/ full THEN h ELSE input.w
  BY <1>9, Zenon DEF Typed, ConsoleInv, ConsoleType
<1>11. input' \in [buf : Rings, r : Index, w : Index, e : Index]
  <2>1. input' \in [buf : Rings, r : Index, w : Index, e : Index]
          <=> input'.buf \in Rings /\ input'.r \in Index /\ input'.w \in Index /\ input'.e \in Index
    BY Zenon DEF Typed, ConsoleInv, ConsoleType, Rings
  <2>. QED BY <1>1, <1>3, <1>10, <2>1, Zenon
<1>12. ConsoleType'
  <2>1. cpc' \in [Reader -> {"user", "read", "empty", "sleep"}]
    BY DEF Wakeup, ConsoleInv, ConsoleType
  <2>. QED BY <1>11, <2>1, Zenon DEF ConsoleInv, ConsoleType, Rings
<1>. HIDE DEF x, h, b, full, D, R
<1>13. CASE x \in {NL, EOT} \/ full
  <2>1. input'.w = h
    BY <1>10, <1>13, Zenon
  <2>2. Dist(h, h) = 0 /\ TextOf(b, h, h) = <<>>
    BY <1>3, EmptyText
  <2>3. ready' = ready \o Append(line, x) /\ line' = <<>>
    BY <1>3, <1>6, <1>7, <1>10, <2>1, <2>2, TextIs, Zenon
  <2>4. RingInv'
    <3>1. Dist(input.r, input.e)' = (R + D) + 1 /\ Dist(input.r, input.w)' = (R + D) + 1
          /\ Dist(input.w, input.e)' = 0
      BY <1>3, <1>10, <2>1, <2>2, Zenon DEF Dist
    <3>2. (R + D) + 1 <= INPUT_BUF
      BY <1>1, RingSizes
    <3>. QED BY <1>1, <3>1, <3>2 DEF RingInv
  <2>5. cpc' = Wakeup(cpc)
    BY <1>10, <2>1, Zenon
  <2>6. ReadInv'
    BY <2>5, Zenon DEF ReadInv, ConsoleInv, ConsoleType, Wakeup, ConsUnlocked
  <2>7. Lines!Type(x)
    <3>1. Len(ready) + Len(line) < INPUT_BUF
      BY <1>1, TypedInput, Zenon DEF R, D
    <3>2. x \in {NL, EOT} \/ Len(ready) + Len(line) = INPUT_BUF - 1
      BY <1>1, <1>8, <1>13, TypedInput, RingSizes DEF R, D
    <3>. QED BY <2>3, <3>1, <3>2, Zenon DEF Lines!Type, ready, line
  <2>. QED BY <1>1, <1>12, <2>4, <2>6, <2>7, Zenon DEF ConsoleInv, TtyStep, Lines!Next
<1>14. CASE ~(x \in {NL, EOT} \/ full)
  <2>1. input'.w = input.w
    BY <1>10, <1>14, Zenon
  <2>2. ready' = ready /\ line' = Append(line, x)
    BY <1>4, <1>5, <1>10, <2>1, TextIs, Zenon
  <2>3. \A k \in 1..D + 1 : line'[k] # NL
    <3>1. line \in Seq(Char) /\ Len(line) = D /\ \A k \in 1..D : line[k] # NL
      BY TypedInput, Zenon DEF ConsoleInv, RingInv, line, D
    <3>2. (\A k \in 1..D : line'[k] = line[k]) /\ line'[D + 1] = x
      BY <1>1, <2>2, <3>1
    <3>3. \A k \in 1..D + 1 : k \in 1..D \/ k = D + 1
      BY <1>1
    <3>. QED BY <1>14, <3>1, <3>2, <3>3, Zenon
  <2>4. RingInv'
    <3>1. Dist(input.r, input.e)' = (R + D) + 1 /\ Dist(input.r, input.w)' = R
          /\ Dist(input.w, input.e)' = D + 1
      BY <1>3, <1>4, <1>10, <2>1, Zenon DEF Dist, R
    <3>2. (R + D) + 1 <= INPUT_BUF /\ (R + D) + 1 = R + (D + 1)
      BY <1>1, RingSizes
    <3>3. Text(input.w, input.e)' = line'
      BY Zenon DEF line
    <3>. QED BY <2>3, <3>1, <3>2, <3>3, Zenon DEF RingInv
  <2>5. ReadInv'
    BY <1>10, <2>1, Zenon DEF ReadInv, ConsoleInv, ConsoleType, Wakeup, ConsUnlocked
  <2>6. Lines!Type(x)
    <3>1. Len(ready) + Len(line) < INPUT_BUF
      BY <1>1, TypedInput DEF R, D
    <3>2. ~(x \in {NL, EOT} \/ Len(ready) + Len(line) = INPUT_BUF - 1)
      BY <1>1, <1>8, <1>14, TypedInput, RingSizes DEF R, D
    <3>. QED BY <2>2, <3>1, <3>2, Zenon DEF Lines!Type, ready, line
  <2>. QED BY <1>1, <1>12, <2>4, <2>5, <2>6 DEF ConsoleInv, TtyStep, Lines!Next
<1>. QED BY <1>13, <1>14

LEMMA ConsoleStutter ==
  ASSUME ConsoleInv, UNCHANGED consoleVars
  PROVE  ConsoleInv' /\ TtyStep
<1>1. ConsoleInv'
  BY Zenon DEF ConsoleInv, ConsoleType, RingInv, ReadInv, Dist, Text, CharAt, consoleVars
<1>2. UNCHANGED Lines!vars
  BY DEF Lines!vars, Text, CharAt, Dist, consoleVars
<1>. QED BY <1>1, <1>2 DEF TtyStep

LEMMA ConsoleIntrStep ==
  ASSUME ConsoleInv, NEW c \in Char, ConsoleIntr(c)
  PROVE  ConsoleInv' /\ TtyStep
<1>1. CASE c = KILL
  BY <1>1, KillLineStep, EditingKeys DEF ConsoleIntr
<1>2. CASE c = BS
  BY <1>2, BackspaceStep, EditingKeys, Zenon DEF ConsoleIntr
<1>3. CASE c # KILL /\ c # BS /\ Dist(input.r, input.e) < INPUT_BUF
  <2>1. /\ ConsUnlocked /\ input' = Typed(c)
        /\ cpc' = IF input'.w = input'.e THEN Wakeup(cpc) ELSE cpc
        /\ UNCHANGED <<want, had, eof, ckilled>>
    BY <1>3 DEF ConsoleIntr
  <2>. QED BY <1>3, <2>1, TypedStep
<1>4. CASE c # KILL /\ c # BS /\ ~(Dist(input.r, input.e) < INPUT_BUF)
  <2>1. UNCHANGED consoleVars
    BY <1>4 DEF ConsoleIntr, consoleVars
  <2>. QED BY <2>1, ConsoleStutter
<1>. QED BY <1>1, <1>2, <1>3, <1>4

LEMMA ReadCallStep ==
  ASSUME ConsoleInv, NEW p \in Reader, NEW n \in 1..MaxWant, ReadCall(p, n)
  PROVE  ConsoleInv' /\ TtyStep
<1>1. n \in Nat /\ n > 0
  BY RingSizes
<1>2. ConsoleType'
  BY <1>1 DEF ConsoleInv, ConsoleType, ReadCall
<1>3. RingInv'
  BY Zenon DEF ConsoleInv, RingInv, ReadCall, Dist, Text, CharAt
<1>4. ReadInv'
  BY <1>1 DEF ConsoleInv, ConsoleType, ReadInv, ReadCall
<1>5. Lines!Start(p)
  BY DEF ReadCall, Lines!Start, Text, CharAt, Dist
<1>. QED BY <1>2, <1>3, <1>4, <1>5, Zenon DEF ConsoleInv, TtyStep, Lines!Next

LEMMA ConsoleSleepStep ==
  ASSUME ConsoleInv, NEW p \in Reader, ConsoleSleep(p)
  PROVE  ConsoleInv' /\ TtyStep
<1>1. ConsoleType' /\ ReadInv'
  BY Zenon DEF ConsoleInv, ConsoleType, ReadInv, ConsoleSleep
<1>2. RingInv'
  BY Zenon DEF ConsoleInv, RingInv, ConsoleSleep, Dist, Text, CharAt
<1>3. UNCHANGED Lines!vars
  BY Zenon DEF ConsoleSleep, Lines!vars, Text, CharAt, Dist
<1>. QED BY <1>1, <1>2, <1>3, Zenon DEF ConsoleInv, TtyStep

LEMMA KillReaderStep ==
  ASSUME ConsoleInv, NEW p \in Reader, KillReader(p)
  PROVE  ConsoleInv' /\ TtyStep
<1>1. ConsoleType' /\ ReadInv'
  BY Zenon DEF ConsoleInv, ConsoleType, ReadInv, KillReader
<1>2. RingInv'
  BY Zenon DEF ConsoleInv, RingInv, KillReader, Dist, Text, CharAt
<1>3. UNCHANGED Lines!vars
  BY DEF KillReader, Lines!vars, Text, CharAt, Dist
<1>. QED BY <1>1, <1>2, <1>3 DEF ConsoleInv, TtyStep

\* m characters leave the ring.
LEMMA ReadMoves ==
  ASSUME ConsoleInv, NEW m \in 0..Dist(input.r, input.w),
         input' = [input EXCEPT !.r = (@ + m) % CUint]
  PROVE  /\ input' \in [buf : Rings, r : Index, w : Index, e : Index]
         /\ RingInv'
         /\ ready' = SubSeq(ready, m + 1, Len(ready)) /\ line' = line
         /\ input.r = input.w => input' = input
         /\ m = Dist(input.r, input.w) => input'.r = input'.w
<1>. DEFINE h == (input.r + m) % CUint
            D == Dist(input.w, input.e)
            R == Dist(input.r, input.w)
<1>1. /\ input.buf \in Rings /\ input.r \in Index /\ input.w \in Index /\ input.e \in Index
      /\ R \in Nat /\ D \in Nat /\ Dist(input.r, input.e) = R + D /\ R + D <= INPUT_BUF
  BY TypedInput DEF ConsoleInv, RingInv
<1>2. /\ input'.r = h /\ input'.w = input.w /\ input'.e = input.e /\ input'.buf = input.buf
  BY DEF ConsoleInv, ConsoleType
<1>3. h \in Index /\ Dist(h, input.w) = R - m
  BY <1>1, Moved
<1>4. Dist(h, input.e) = R + D - m
  <2>1. m \in 0..Dist(input.r, input.e)
    BY <1>1
  <2>. QED BY <1>1, <2>1, Moved
<1>5. input' \in [buf : Rings, r : Index, w : Index, e : Index]
  BY <1>1, <1>3, Zenon DEF ConsoleInv, ConsoleType
<1>6. RingInv'
  <2>1. Text(input.w, input.e)' = Text(input.w, input.e)
    BY <1>2 DEF Text, CharAt, Dist
  <2>2. /\ Dist(input.r, input.e)' = R + D - m /\ Dist(input.r, input.w)' = R - m
        /\ Dist(input.w, input.e)' = D
    BY <1>2, <1>3, <1>4 DEF Dist
  <2>3. \A k \in 1..D : Text(input.w, input.e)[k] # NL
    BY DEF ConsoleInv, RingInv
  <2>4. R + D - m <= INPUT_BUF /\ R + D - m = (R - m) + D
    BY <1>1, RingSizes
  <2>. HIDE DEF D, R
  <2>. QED BY <2>1, <2>2, <2>3, <2>4, Zenon DEF RingInv
<1>7. ready' = SubSeq(ready, m + 1, Len(ready))
  <2>1. ready' = TextOf(input.buf, h, input.w) /\ ready = TextOf(input.buf, input.r, input.w)
    BY <1>2, TextIs, Zenon
  <2>2. TextOf(input.buf, h, input.w) = SubSeq(ready, m + 1, R)
    BY <1>1, <2>1, TextDrop, Zenon
  <2>3. Len(ready) = R
    BY <1>1, <2>1, TextOfSeq, Zenon
  <2>. QED BY <2>1, <2>2, <2>3, Zenon
<1>8. line' = line
  BY <1>2, TextIs
<1>9. input.r = input.w => input' = input
  <2>. HAVE input.r = input.w
  <2>1. R = 0
    BY <1>1, EmptyText
  <2>2. m = 0
    BY <1>1, <2>1
  <2>3. h = input.r
    <3>1. input.r \in 0..CUint - 1 /\ CUint \in Nat \ {0}
      BY <1>1, RingIs DEF Index
    <3>2. input.r + m = input.r
      BY <2>2, <3>1
    <3>3. input.r % CUint = input.r
      BY <3>1
    <3>. QED BY <3>2, <3>3
  <2>. QED BY <2>3 DEF ConsoleInv, ConsoleType
<1>10. m = R => input'.r = input'.w
  BY <1>1, <1>2, Reaches, Zenon
<1>. QED BY <1>5, <1>6, <1>7, <1>8, <1>9, <1>10

\* A read takes what it wants, up to the end of the line, and leaves an EOT
\* to the next read if it has something already.
LEMMA ConsoleReadStep ==
  ASSUME Least, ConsoleInv, NEW p \in Reader, ConsoleRead(p)
  PROVE  ConsoleInv' /\ TtyStep
<1>. DEFINE t == Taken(p)
            n == Len(t)
            ended == n > 0 /\ (t[n] \in {NL, EOT} \/ n = want[p])
            eot == n > 0 /\ t[n] = EOT
            back == IF eot /\ (n > 1 \/ had[p] > 0) THEN 1 ELSE 0
            bytes == IF eot THEN n - 1 ELSE n
            more == ~ended /\ ~ckilled[p]
            m == n - back
            R == Dist(input.r, input.w)
<1>1. /\ n \in 0..R /\ n <= want[p]
      /\ \A i \in 1..n : t[i] = ready[i]
      /\ \A i \in 1..n - 1 : ready[i] \notin {NL, EOT}
      /\ (n > 0 /\ ready[n] \in {NL, EOT}) \/ n = want[p] \/ n = R
  BY TakenIs DEF ready, ConsoleInv
<1>2. /\ R \in Nat /\ Len(ready) = R /\ ready \in Seq(Char)
      /\ want[p] \in Nat /\ had[p] \in Nat /\ want[p] > 0 /\ eof[p] = FALSE
      /\ input.r \in Index
  BY TypedInput DEF ConsoleInv, ConsoleType, ReadInv, ConsoleRead
<1>3. /\ input' = [input EXCEPT !.r = (@ + n - back) % CUint]
      /\ ended => /\ eof' = [eof EXCEPT ![p] = had[p] + bytes = 0]
                  /\ cpc' = [cpc EXCEPT ![p] = "user"]
      /\ ~ended => /\ cpc' = [cpc EXCEPT ![p] = IF ckilled[p] THEN "user" ELSE "empty"]
                   /\ UNCHANGED eof
      /\ want' = [want EXCEPT ![p] = IF more THEN @ - n ELSE 0]
      /\ had' = [had EXCEPT ![p] = IF more THEN @ + n ELSE 0]
      /\ UNCHANGED ckilled /\ cpc[p] = "read"
  BY DEF ConsoleRead
<1>4. n > 0 => t[n] = ready[n]
  BY <1>1, <1>2
<1>. HIDE DEF t, R
<1>. HIDE DEF n
<1>5. m \in 0..R /\ back \in 0..1
  BY <1>1, <1>2
<1>6. input' = [input EXCEPT !.r = (@ + m) % CUint]
  <2>1. input.r + n - back = input.r + m
    BY <1>1, <1>2, <1>5, RingSizes, Zenon DEF Index
  <2>. QED BY <1>3, <2>1, Zenon
<1>. HIDE DEF m, back
<1>7. /\ input' \in [buf : Rings, r : Index, w : Index, e : Index]
      /\ RingInv'
      /\ ready' = SubSeq(ready, m + 1, Len(ready)) /\ line' = line
      /\ input.r = input.w => input' = input
      /\ m = R => input'.r = input'.w
  BY <1>5, <1>6, ReadMoves, Zenon DEF R
<1>8. ~ended => n < want[p] /\ n = R /\ m = n /\ ~eot
  BY <1>1, <1>2, <1>4 DEF m, back
<1>9. ConsoleType'
  <2>1. cpc' \in [Reader -> {"user", "read", "empty", "sleep"}]
    BY <1>3, Zenon DEF ConsoleInv, ConsoleType
  <2>2. eof' \in [Reader -> BOOLEAN] /\ ckilled' \in [Reader -> BOOLEAN]
    BY <1>3, Zenon DEF ConsoleInv, ConsoleType
  <2>3. want' \in [Reader -> Nat]
    <3>1. (IF more THEN want[p] - n ELSE 0) \in Nat
      BY <1>1, <1>2
    <3>. QED BY <1>3, <3>1, Zenon DEF ConsoleInv, ConsoleType
  <2>4. had' \in [Reader -> Nat]
    <3>1. (IF more THEN had[p] + n ELSE 0) \in Nat
      BY <1>1, <1>2
    <3>. QED BY <1>3, <3>1, Zenon DEF ConsoleInv, ConsoleType
  <2>. QED BY <1>7, <2>1, <2>2, <2>3, <2>4, Zenon DEF ConsoleType, Rings
<1>10. ReadInv'
  <2>1. ASSUME NEW q \in Reader, q # p
        PROVE  /\ cpc'[q] # "user" => want'[q] > 0 /\ ~eof'[q]
               /\ cpc'[q] \in {"empty", "sleep"} => input'.r = input'.w
    <3>1. cpc'[q] = cpc[q] /\ want'[q] = want[q] /\ eof'[q] = eof[q]
      BY <1>3, <2>1, Zenon DEF ConsoleInv, ConsoleType
    <3>. QED BY <1>7, <3>1 DEF ConsoleInv, ReadInv
  <2>2. CASE ended \/ ckilled[p]
    <3>1. cpc'[p] = "user"
      BY <1>3, <2>2, Zenon DEF ConsoleInv, ConsoleType
    <3>. QED BY <2>1, <3>1 DEF ReadInv
  <2>3. CASE more
    <3>1. want'[p] = want[p] - n /\ eof'[p] = FALSE
      BY <1>2, <1>3, <2>3, Zenon DEF ConsoleInv, ConsoleType
    <3>2. want'[p] > 0 /\ input'.r = input'.w
      BY <1>1, <1>2, <1>7, <1>8, <2>3, <3>1
    <3>. QED BY <2>1, <3>1, <3>2, Zenon DEF ReadInv
  <2>. QED BY <2>2, <2>3, Zenon
<1>11. ASSUME m > 0, ready[m] = EOT => m = 1, eof' = [eof EXCEPT ![p] = (ready[m] = EOT)]
       PROVE  TtyStep
  <2>1. m \in 1..Len(ready)
    BY <1>2, <1>5, <1>11
  <2>2. \A i \in 1..m - 1 : ready[i] \notin {NL, EOT}
    BY <1>1, <1>2, <1>5 DEF m
  <2>3. Lines!Take(p)
    BY <1>7, <1>11, <2>1, <2>2, Zenon DEF Lines!Take, ready, line
  <2>. QED BY <2>3 DEF TtyStep, Lines!Next
<1>12. ASSUME m = 0 PROVE ready' = ready
  <2>1. SubSeq(ready, 1, Len(ready)) = ready
    BY <1>2
  <2>. QED BY <1>7, <1>12, <2>1
<1>13. TtyStep
  <2>1. CASE ~ended /\ n = 0
    <3>1. ready' = ready /\ line' = line /\ eof' = eof
      BY <1>3, <1>7, <1>8, <1>12, <2>1, Zenon
    <3>. QED BY <3>1 DEF TtyStep, Lines!vars, ready, line
  <2>2. CASE ~ended /\ n > 0
    <3>1. m = n /\ m > 0 /\ ready[m] # EOT
      BY <1>1, <1>2, <1>4, <1>8, <2>2, Zenon
    <3>2. eof' = [eof EXCEPT ![p] = FALSE]
      BY <1>2, <1>3, <2>2, Zenon DEF ConsoleInv, ConsoleType
    <3>. QED BY <1>11, <3>1, <3>2, Zenon
  <2>3. CASE ended /\ ~eot
    <3>1. m = n /\ m > 0 /\ ready[m] # EOT /\ bytes = n
      BY <1>1, <1>2, <1>4, <2>3 DEF m, back
    <3>2. (had[p] + bytes = 0) = FALSE
      BY <1>1, <1>2, <3>1
    <3>3. eof' = [eof EXCEPT ![p] = FALSE]
      BY <1>3, <2>3, <3>2, Zenon
    <3>. QED BY <1>11, <3>1, <3>3, Zenon
  <2>4. CASE ended /\ eot /\ n > 1
    <3>1. m = n - 1 /\ m > 0 /\ bytes = n - 1 /\ m \in 1..n - 1
      BY <1>1, <1>2, <2>4 DEF m, back
    <3>2. ready[m] # EOT
      BY <1>1, <3>1, Zenon
    <3>3. (had[p] + bytes = 0) = FALSE
      BY <1>1, <1>2, <3>1
    <3>4. eof' = [eof EXCEPT ![p] = FALSE]
      BY <1>3, <2>4, <3>3, Zenon
    <3>. QED BY <1>11, <3>1, <3>2, <3>4, Zenon
  <2>5. CASE ended /\ eot /\ n = 1 /\ had[p] > 0
    <3>1. m = 0 /\ bytes = 0
      BY <2>5 DEF m, back
    <3>2. (had[p] + bytes = 0) = FALSE
      BY <1>2, <2>5, <3>1
    <3>3. eof' = [eof EXCEPT ![p] = FALSE]
      BY <1>3, <2>5, <3>2, Zenon
    <3>4. Lines!Start(p)
      BY <1>7, <1>12, <3>1, <3>3, Zenon DEF Lines!Start, ready, line
    <3>. QED BY <3>4 DEF TtyStep, Lines!Next
  <2>6. CASE ended /\ eot /\ n = 1 /\ had[p] = 0
    <3>1. m = 1 /\ bytes = 0 /\ ready[m] = EOT
      BY <1>4, <2>6 DEF m, back
    <3>2. (had[p] + bytes = 0) = TRUE
      BY <2>6, <3>1
    <3>3. eof' = [eof EXCEPT ![p] = TRUE]
      BY <1>3, <2>6, <3>2, Zenon
    <3>4. (ready[m] = EOT) = TRUE
      BY <3>1
    <3>5. eof' = [eof EXCEPT ![p] = (ready[m] = EOT)]
      BY <3>3, <3>4, Zenon
    <3>. QED BY <1>11, <3>1, <3>5
  <2>7. (n = 0 \/ n > 0) /\ (had[p] = 0 \/ had[p] > 0) /\ (eot => n = 1 \/ n > 1)
    BY <1>1, <1>2
  <2>. HIDE DEF ended, eot
  <2>. QED BY <2>1, <2>2, <2>3, <2>4, <2>5, <2>6, <2>7, Zenon
<1>. QED BY <1>7, <1>9, <1>10, <1>13, Zenon DEF ConsoleInv

-----------------------------------------------------------------------------
LEMMA ConsoleStep ==
  ASSUME Least, ConsoleInv, [ConsoleNext]_consoleVars
  PROVE  ConsoleInv' /\ TtyStep
<1>1. CASE ConsoleNext
  <2>1. CASE \E c \in Char : ConsoleIntr(c)
    BY <2>1, ConsoleIntrStep
  <2>2. CASE \E p \in Reader : ConsoleRead(p)
    BY <2>2, ConsoleReadStep
  <2>3. CASE \E p \in Reader : ConsoleSleep(p)
    BY <2>3, ConsoleSleepStep
  <2>4. CASE \E p \in Reader : KillReader(p)
    BY <2>4, KillReaderStep
  <2>5. CASE \E p \in Reader : \E n \in 1..MaxWant : ReadCall(p, n)
    BY <2>5, ReadCallStep
  <2>. QED BY <1>1, <2>1, <2>2, <2>3, <2>4, <2>5, Zenon DEF ConsoleNext
<1>2. CASE UNCHANGED consoleVars
  BY <1>2, ConsoleStutter
<1>. QED BY <1>1, <1>2, Zenon

-----------------------------------------------------------------------------
WF == INSTANCE WellFoundedInduction

LEMMA LeastNatural == Least
<1>. SUFFICES ASSUME NEW T \in SUBSET Nat, T # {} PROVE \E x \in T : \A y \in T : x <= y
  BY Zenon DEF Least
<1>1. PICK x \in T : \A y \in T : ~(<<y, x>> \in WF!OpToRel(<, Nat))
  BY WF!NatLessThanWellFounded, WF!WFMin, Zenon
<1>2. \A y \in T : ~(y < x)
  BY <1>1, Zenon DEF WF!OpToRel
<1>. QED BY <1>2

\* The indices of the ring stay in order, at most a ring apart and without an
\* end of line between w and e, whatever is typed, erased, read or killed.
THEOREM ConsoleRing == ConsoleSpec => []ConsoleInv
<1>1. ConsoleInit => ConsoleInv
  BY InitConsole, Zenon
<1>2. ConsoleInv /\ [ConsoleNext]_consoleVars => ConsoleInv'
  BY ConsoleStep, LeastNatural, Zenon
<1>. QED BY <1>1, <1>2, PTL DEF ConsoleSpec

\* A reader asleep has nothing to read: the wakeup() of a finished line is
\* never lost (console.c:233-236, 255-262).
THEOREM ConsoleNoLostWakeup == ConsoleSpec => []ConsoleSleepers
<1>1. ConsoleInv => ConsoleSleepers
  BY DEF ConsoleInv, ReadInv, ConsoleSleepers
<1>. QED BY <1>1, ConsoleRing, PTL

\* The ring implements the terminal of Tty (console.c:192-279).
THEOREM ConsoleImplementsTty == ConsoleSpec => ConsoleLines
<1>1. ConsoleInit => Lines!Init
  BY InitConsole
<1>2. ConsoleInv /\ [ConsoleNext]_consoleVars => [Lines!Next]_Lines!vars
  BY ConsoleStep, LeastNatural DEF TtyStep
<1>. QED BY <1>1, <1>2, ConsoleRing, PTL DEF ConsoleSpec, ConsoleLines, Lines!Spec
=============================================================================
