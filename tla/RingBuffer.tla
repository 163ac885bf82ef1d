-------------------------------- MODULE RingBuffer --------------------------------
(***************************************************************************)
(* Theorems about a ring of N elements whose indices count modulo U, the   *)
(* data structure of the console's input and of a pipe.                    *)
(***************************************************************************)
EXTENDS Integers, Sequences, TLAPS

CONSTANTS Elem, N, U

Wraps == N \in Nat \ {0} /\ U \in Nat /\ N < U /\ U % N = 0

Index == 0..U - 1

(* Elements from index i up to index j                                     *)
Dist(i, j) == (j - i) % U

-----------------------------------------------------------------------------
\* Arithmetic of the indices.

LEMMA DistIs ==
  ASSUME Wraps, NEW i \in Index, NEW j \in Index
  PROVE  Dist(i, j) = IF i <= j THEN j - i ELSE j - i + U
BY DEF Index, Dist, Wraps

LEMMA StepIs ==
  ASSUME Wraps, NEW i \in Index, NEW n \in 0..U
  PROVE  (i + n) % U = IF i + n < U THEN i + n ELSE i + n - U
BY DEF Index, Wraps

LEMMA Remainder ==
  ASSUME NEW M \in Nat \ {0}, NEW a \in Int, NEW k \in Int, NEW x \in 0..M - 1,
         a = (k * M) + x
  PROVE  a % M = x
OBVIOUS

LEMMA Quotient ==
  ASSUME NEW M \in Nat \ {0}, NEW a \in Int
  PROVE  \E k \in Int : a = (k * M) + (a % M)
<1>1. a \div M \in Int /\ a = ((a \div M) * M) + (a % M)
  OBVIOUS
<1>. QED BY <1>1, Zenon

LEMMA Associative ==
  ASSUME NEW a \in Int, NEW b \in Int, NEW c \in Int, NEW d \in Int
  PROVE  (a * (b * c)) + (d * c) = ((a * b) + d) * c
OBVIOUS

LEMMA Sizes == ASSUME Wraps PROVE U \in Nat \ {0} /\ N \in Nat \ {0}
BY DEF Wraps

\* The place of an element in the ring.
Place(i) == (i % U) % N

LEMMA PlaceType == ASSUME Wraps, NEW i \in Int PROVE Place(i) \in 0..N - 1
BY DEF Place, Wraps

LEMMA ModMod ==
  ASSUME Wraps, NEW i \in Int, NEW n \in Int
  PROVE  ((i % U) + n) % U = (i + n) % U
<1>1. PICK q \in Int : i = (q * U) + (i % U)
  BY Quotient, Sizes, Zenon
<1>. DEFINE m == i % U
            v == (m + n) % U
<1>2. m \in Int /\ m + n \in Int /\ v \in 0..U - 1
  BY DEF Wraps
<1>3. PICK u \in Int : m + n = (u * U) + v
  BY <1>2, Quotient, Sizes, Zenon
<1>4. i + n = ((q + u) * U) + v
  <2>. HIDE DEF m, v
  <2>1. i = (q * U) + m
    BY <1>1 DEF m
  <2>. QED BY <1>2, <1>3, <2>1 DEF Wraps
<1>5. (i + n) % U = v
  <2>. HIDE DEF v
  <2>1. q + u \in Int /\ i + n \in Int
    OBVIOUS
  <2>. QED BY <1>2, <1>4, <2>1, Remainder, Sizes, Zenon
<1>. QED BY <1>5

\* Elements less than a ring apart are in different places.
LEMMA PlaceDiffers ==
  ASSUME Wraps, NEW i \in Int, NEW j \in Int, i < j, j - i < N
  PROVE  Place(i) # Place(j)
<1>1. PICK k \in Int : U = k * N
  <2>1. PICK k \in Int : U = (k * N) + (U % N)
    <3>1. U \in Int
      BY Sizes
    <3>. QED BY <3>1, Quotient, Sizes, Zenon
  <2>2. U % N = 0 /\ N \in Int
    BY DEF Wraps
  <2>3. (k * N) + 0 = k * N
    BY <2>2
  <2>. QED BY <2>1, <2>2, <2>3, Zenon
<1>3. ASSUME NEW x \in Int PROVE \E q \in Int : x = (q * N) + Place(x)
  <2>. DEFINE y == x % U
  <2>1. PICK a \in Int : x = (a * U) + y
    BY Quotient, Sizes, Zenon
  <2>2. y \in Int
    BY DEF Wraps
  <2>3. PICK b \in Int : y = (b * N) + Place(x)
    BY <2>2, Quotient, Sizes, Zenon DEF Place
  <2>. HIDE DEF y
  <2>4. (a * (k * N)) + (b * N) = ((a * k) + b) * N
    BY Associative DEF Wraps
  <2>5. x = (a * (k * N)) + y
    BY <1>1, <2>1
  <2>6. x = (((a * k) + b) * N) + Place(x)
    BY <2>2, <2>3, <2>4, <2>5, PlaceType DEF Wraps
  <2>7. (a * k) + b \in Int
    OBVIOUS
  <2>. QED BY <2>6, <2>7
<1>4. PICK q \in Int : i = (q * N) + Place(i)
  BY <1>3
<1>5. PICK u \in Int : j = (u * N) + Place(j)
  BY <1>3
<1>6. ASSUME Place(i) = Place(j) PROVE FALSE
  <2>1. j - i = (u - q) * N
    BY <1>4, <1>5, <1>6, PlaceType DEF Wraps
  <2>2. u - q > 0
    BY <2>1 DEF Wraps
  <2>3. (u - q) * N >= N
    BY <2>2 DEF Wraps
  <2>. QED BY <2>1, <2>3 DEF Wraps
<1>. QED BY <1>6

\* Places repeat when an index wraps.
LEMMA PlaceWraps ==
  ASSUME Wraps, NEW i \in Int, NEW n \in Int
  PROVE  Place((i % U) + n) = Place(i + n)
BY ModMod DEF Place

-----------------------------------------------------------------------------
\* The text between two indices of a ring b.

Text(b, i, j) == [k \in 1..Dist(i, j) |-> b[Place(i + k - 1)]]

Rings == [0..N - 1 -> Elem]

LEMMA DistType ==
  ASSUME Wraps, NEW i \in Index, NEW j \in Index
  PROVE  Dist(i, j) \in 0..U - 1 /\ i \in Int /\ j \in Int
BY DEF Index, Dist, Wraps

\* n steps from i towards j
LEMMA Moved ==
  ASSUME Wraps, NEW i \in Index, NEW j \in Index, NEW n \in 0..Dist(i, j)
  PROVE  /\ (i + n) % U \in Index
         /\ Dist(i, (i + n) % U) = n
         /\ Dist((i + n) % U, j) = Dist(i, j) - n
<1>. DEFINE h == (i + n) % U
            d == Dist(i, j)
<1>1. d \in 0..U - 1 /\ n \in 0..d
  BY DistType
<1>2. d = IF i <= j THEN j - i ELSE j - i + U
  BY DistIs
<1>. HIDE DEF d
<1>3. h = IF i + n < U THEN i + n ELSE i + n - U
  <2>1. n \in 0..U
    BY <1>1 DEF Wraps
  <2>. QED BY <2>1, StepIs
<1>. HIDE DEF h
<1>4. h \in Index
  BY <1>1, <1>3 DEF Index, Wraps
<1>5. Dist(i, h) = IF i <= h THEN h - i ELSE h - i + U
  BY <1>4, DistIs
<1>6. Dist(h, j) = IF h <= j THEN j - h ELSE j - h + U
  BY <1>4, DistIs
<1>7. Dist(i, h) = n
  BY <1>1, <1>3, <1>5 DEF Index, Wraps
<1>8. Dist(h, j) = d - n
  BY <1>1, <1>2, <1>3, <1>6 DEF Index, Wraps
<1>. QED BY <1>4, <1>7, <1>8 DEF h, d

LEMMA StepBack ==
  ASSUME Wraps, NEW i \in Index, NEW j \in Index, Dist(i, j) > 0
  PROVE  /\ (j - 1) % U \in Index
         /\ Dist(i, (j - 1) % U) = Dist(i, j) - 1
<1>. DEFINE h == (j - 1) % U
<1>1. h = IF j = 0 THEN U - 1 ELSE j - 1
  BY DEF Index, Wraps
<1>. HIDE DEF h
<1>2. h \in Index
  BY <1>1 DEF Index, Wraps
<1>3. Dist(i, j) = IF i <= j THEN j - i ELSE j - i + U
  BY DistIs
<1>4. Dist(i, h) = IF i <= h THEN h - i ELSE h - i + U
  BY <1>2, DistIs
<1>5. Dist(i, h) = Dist(i, j) - 1
  BY <1>1, <1>3, <1>4 DEF Index, Wraps
<1>. QED BY <1>2, <1>5 DEF h

LEMMA Reaches ==
  ASSUME Wraps, NEW i \in Index, NEW j \in Index
  PROVE  j = (i + Dist(i, j)) % U
<1>1. Dist(i, j) \in 0..U - 1 /\ Dist(i, j) = IF i <= j THEN j - i ELSE j - i + U
  BY DistType, DistIs
<1>2. Dist(i, j) \in 0..U
  BY <1>1 DEF Wraps
<1>3. (i + Dist(i, j)) % U
        = IF i + Dist(i, j) < U THEN i + Dist(i, j) ELSE i + Dist(i, j) - U
  BY <1>2, StepIs
<1>. QED BY <1>1, <1>3 DEF Index, Wraps

LEMMA TextSeq ==
  ASSUME Wraps, NEW b \in Rings, NEW i \in Index, NEW j \in Index
  PROVE  /\ Text(b, i, j) \in Seq(Elem)
         /\ Len(Text(b, i, j)) = Dist(i, j)
         /\ \A k \in 1..Dist(i, j) : Text(b, i, j)[k] = b[Place(i + k - 1)]
<1>1. Dist(i, j) \in Nat /\ i \in Int
  BY DistType
<1>2. ASSUME NEW k \in 1..Dist(i, j) PROVE b[Place(i + k - 1)] \in Elem
  <2>1. i + k - 1 \in Int
    BY <1>1
  <2>. QED BY <2>1, PlaceType DEF Rings
<1>. QED BY <1>1, <1>2 DEF Text

\* Two sequences are equal when they have the same elements.
LEMMA SameSeq ==
  ASSUME NEW S, NEW s \in Seq(S), NEW t \in Seq(S), Len(s) = Len(t),
         \A k \in 1..Len(s) : s[k] = t[k]
  PROVE  s = t
OBVIOUS

LEMMA SubSeqIs ==
  ASSUME NEW S, NEW s \in Seq(S), NEW m \in Nat \ {0}, NEW n \in m - 1..Len(s)
  PROVE  /\ SubSeq(s, m, n) \in Seq(S) /\ Len(SubSeq(s, m, n)) = n - m + 1
         /\ \A k \in 1..n - m + 1 : SubSeq(s, m, n)[k] = s[m + k - 1]
<1>1. m \in Int /\ n \in Int /\ \A k \in m..n : s[k] \in S
  OBVIOUS
<1>2. Len(SubSeq(s, m, n)) = IF m <= n THEN n - m + 1 ELSE 0
  BY <1>1
<1>. QED BY <1>1, <1>2

\* The place of the element n after i is the place of the one k after h,
\* for h between them.
LEMMA PlaceMoved ==
  ASSUME Wraps, NEW i \in Index, NEW n \in Nat, NEW k \in Int
  PROVE  Place(((i + n) % U) + k - 1) = Place(i + (n + k) - 1)
<1>1. i + n \in Int /\ k - 1 \in Int /\ (i + n) % U \in Int
  BY DEF Index, Wraps
<1>2. Place(((i + n) % U) + (k - 1)) = Place((i + n) + (k - 1))
  BY <1>1, PlaceWraps
<1>3. ((i + n) % U) + (k - 1) = ((i + n) % U) + k - 1
  BY <1>1
<1>4. (i + n) + (k - 1) = i + (n + k) - 1
  BY DEF Index, Wraps
<1>. QED BY <1>2, <1>3, <1>4

LEMMA TextDrop ==
  ASSUME Wraps, NEW b \in Rings, NEW i \in Index, NEW j \in Index, NEW n \in 0..Dist(i, j)
  PROVE  Text(b, (i + n) % U, j) = SubSeq(Text(b, i, j), n + 1, Dist(i, j))
<1>. DEFINE h == (i + n) % U
            d == Dist(i, j)
            u == Text(b, i, j)
            s == Text(b, h, j)
            t == SubSeq(u, n + 1, d)
<1>1. d \in Nat /\ n \in 0..d
  BY DistType
<1>2. h \in Index /\ Dist(h, j) = d - n
  BY Moved
<1>3. s \in Seq(Elem) /\ Len(s) = d - n /\ \A k \in 1..(d - n) : s[k] = b[Place(h + k - 1)]
  BY <1>2, TextSeq
<1>4. u \in Seq(Elem) /\ Len(u) = d /\ \A k \in 1..d : u[k] = b[Place(i + k - 1)]
  BY TextSeq
<1>5. \A k \in Int : Place(h + k - 1) = Place(i + (n + k) - 1)
  BY <1>1, PlaceMoved
<1>. HIDE DEF s, h, d, u
<1>6. n + 1 \in Nat \ {0} /\ d \in (n + 1) - 1..Len(u) /\ d - (n + 1) + 1 = d - n
  BY <1>1, <1>4
<1>7. t \in Seq(Elem) /\ Len(t) = d - n /\ \A k \in 1..(d - n) : t[k] = u[(n + 1) + k - 1]
  BY <1>4, <1>6, SubSeqIs
<1>8. ASSUME NEW k \in 1..(d - n) PROVE s[k] = t[k]
  <2>1. (n + 1) + k - 1 = n + k /\ n + k \in 1..d /\ k \in Int
    BY <1>1
  <2>. QED BY <1>3, <1>4, <1>5, <1>7, <2>1, Zenon
<1>. HIDE DEF t
<1>9. s = t
  BY <1>3, <1>7, <1>8, SameSeq
<1>. QED BY <1>9 DEF s, t, h, d, u

LEMMA TextPrefix ==
  ASSUME Wraps, NEW b \in Rings, NEW i \in Index, NEW j \in Index, NEW n \in 0..Dist(i, j)
  PROVE  Text(b, i, (i + n) % U) = SubSeq(Text(b, i, j), 1, n)
<1>. DEFINE h == (i + n) % U
            d == Dist(i, j)
            u == Text(b, i, j)
            s == Text(b, i, h)
            t == SubSeq(u, 1, n)
<1>1. d \in Nat /\ n \in 0..d
  BY DistType
<1>2. h \in Index /\ Dist(i, h) = n
  BY Moved
<1>3. s \in Seq(Elem) /\ Len(s) = n /\ \A k \in 1..n : s[k] = b[Place(i + k - 1)]
  <2>. HIDE DEF h
  <2>1. /\ s \in Seq(Elem) /\ Len(s) = Dist(i, h)
        /\ \A k \in 1..Dist(i, h) : s[k] = b[Place(i + k - 1)]
    BY <1>2, TextSeq, Zenon
  <2>. QED BY <1>2, <2>1
<1>4. u \in Seq(Elem) /\ Len(u) = d /\ \A k \in 1..d : u[k] = b[Place(i + k - 1)]
  BY TextSeq
<1>. HIDE DEF s, h, d, u
<1>5. 1 \in Nat \ {0} /\ n \in 1 - 1..Len(u) /\ n - 1 + 1 = n
  BY <1>1, <1>4
<1>6. t \in Seq(Elem) /\ Len(t) = n /\ \A k \in 1..n : t[k] = u[1 + k - 1]
  BY <1>4, <1>5, SubSeqIs
<1>7. ASSUME NEW k \in 1..n PROVE s[k] = t[k]
  <2>1. 1 + k - 1 = k /\ k \in 1..d
    BY <1>1
  <2>. QED BY <1>3, <1>4, <1>6, <2>1, Zenon
<1>. HIDE DEF t
<1>8. s = t
  BY <1>3, <1>6, <1>7, SameSeq
<1>. QED BY <1>8 DEF s, t, h, d, u

LEMMA TextSplit ==
  ASSUME Wraps, NEW b \in Rings, NEW i \in Index, NEW j \in Index, NEW l \in Index,
         Dist(i, l) = Dist(i, j) + Dist(j, l)
  PROVE  Text(b, i, l) = Text(b, i, j) \o Text(b, j, l)
<1>. DEFINE m == Dist(i, j)
            n == Dist(j, l)
            u == Text(b, i, j)
            v == Text(b, j, l)
            s == Text(b, i, l)
            t == u \o v
<1>1. m \in Nat /\ n \in Nat /\ i \in Int
  BY DistType
<1>2. \A k \in Int : Place(j + k - 1) = Place(i + (m + k) - 1)
  <2>1. j = (i + m) % U
    BY Reaches
  <2>. HIDE DEF m
  <2>2. \A k \in Int : Place(((i + m) % U) + k - 1) = Place(i + (m + k) - 1)
    BY <1>1, PlaceMoved, Zenon
  <2>. QED BY <2>1, <2>2
<1>3. u \in Seq(Elem) /\ Len(u) = m /\ \A k \in 1..m : u[k] = b[Place(i + k - 1)]
  BY TextSeq
<1>4. v \in Seq(Elem) /\ Len(v) = n /\ \A k \in 1..n : v[k] = b[Place(j + k - 1)]
  BY TextSeq
<1>5. s \in Seq(Elem) /\ Len(s) = m + n /\ \A k \in 1..(m + n) : s[k] = b[Place(i + k - 1)]
  BY TextSeq
<1>. HIDE DEF m, n, u, v, s
<1>6. /\ t \in Seq(Elem) /\ Len(t) = m + n
      /\ \A k \in 1..m + n : t[k] = IF k <= m THEN u[k] ELSE v[k - m]
  <2>1. /\ t \in Seq(Elem) /\ Len(t) = Len(u) + Len(v)
        /\ \A k \in 1..Len(u) + Len(v) : t[k] = IF k <= Len(u) THEN u[k] ELSE v[k - Len(u)]
    <3>1. u \in Seq(Elem) /\ v \in Seq(Elem)
      BY <1>3, <1>4
    <3>. QED BY <3>1
  <2>. QED BY <1>3, <1>4, <2>1
<1>7. ASSUME NEW k \in 1..(m + n) PROVE s[k] = t[k]
  <2>1. CASE k <= m
    <3>1. k \in 1..m
      BY <1>1, <2>1
    <3>2. t[k] = u[k]
      BY <1>6, <2>1
    <3>. QED BY <1>3, <1>5, <3>1, <3>2
  <2>2. CASE ~(k <= m)
    <3>1. k - m \in 1..n /\ k - m \in Int /\ i + (m + (k - m)) - 1 = i + k - 1
      BY <1>1, <2>2
    <3>2. t[k] = b[Place(j + (k - m) - 1)]
      BY <1>4, <1>6, <2>2, <3>1, Zenon
    <3>3. Place(j + (k - m) - 1) = Place(i + k - 1)
      BY <1>2, <3>1
    <3>. QED BY <1>5, <3>2, <3>3
  <2>. QED BY <2>1, <2>2, Zenon
<1>. HIDE DEF t
<1>8. s = t
  BY <1>5, <1>6, <1>7, SameSeq
<1>. QED BY <1>8 DEF s, t, u, v

\* The places from i up to e, less than a ring away, are not that of e.
LEMMA PlaceFresh ==
  ASSUME Wraps, NEW i \in Index, NEW e \in Index, Dist(i, e) < N, NEW k \in 1..Dist(i, e)
  PROVE  Place(i + k - 1) # Place(e)
<1>. DEFINE d == Dist(i, e)
<1>1. d \in Nat /\ i \in Int
  BY DistType
<1>2. e = (i + d) % U
  BY Reaches
<1>. HIDE DEF d
<1>3. Place(((i + d) % U) + 1 - 1) = Place(i + (d + 1) - 1)
  <2>1. 1 \in Int
    OBVIOUS
  <2>. QED BY <1>1, <2>1, PlaceMoved, Zenon
<1>4. ((i + d) % U) + 1 - 1 = e
  BY <1>2 DEF Index
<1>5. k \in 1..d /\ d < N
  BY DEF d
<1>. DEFINE x == i + k - 1
            y == i + (d + 1) - 1
<1>6. x \in Int /\ y \in Int /\ x < y /\ y - x < N
  BY <1>1, <1>5 DEF Wraps
<1>. HIDE DEF x, y
<1>7. Place(x) # Place(y)
  BY <1>6, PlaceDiffers
<1>. QED BY <1>3, <1>4, <1>7 DEF x, y

\* Storing an element at e changes no text before e.
LEMMA TextKept ==
  ASSUME Wraps, NEW b \in Rings, NEW x \in Elem, NEW e \in Index, NEW i \in Index, NEW j \in Index,
         Dist(i, e) < N, Dist(i, e) = Dist(i, j) + Dist(j, e)
  PROVE  Text([b EXCEPT ![Place(e)] = x], i, j) = Text(b, i, j)
<1>1. Dist(i, j) \in Nat /\ Dist(j, e) \in Nat
  BY DistType
<1>2. ASSUME NEW k \in 1..Dist(i, j)
      PROVE  [b EXCEPT ![Place(e)] = x][Place(i + k - 1)] = b[Place(i + k - 1)]
  <2>1. k \in 1..Dist(i, e)
    BY <1>1
  <2>2. Place(i + k - 1) # Place(e)
    BY <2>1, PlaceFresh
  <2>3. Place(i + k - 1) \in 0..N - 1
    <3>1. i + k - 1 \in Int
      BY <1>1, DistType
    <3>. QED BY <3>1, PlaceType
  <2>. QED BY <2>2, <2>3 DEF Rings
<1>. QED BY <1>2 DEF Text

LEMMA TextAppend ==
  ASSUME Wraps, NEW b \in Rings, NEW x \in Elem, NEW e \in Index, NEW i \in Index,
         Dist(i, e) < N
  PROVE  LET c == [b EXCEPT ![Place(e)] = x]
             h == (e + 1) % U
         IN /\ h \in Index /\ c \in Rings
            /\ Dist(i, h) = Dist(i, e) + 1
            /\ Text(c, i, h) = Append(Text(b, i, e), x)
<1>. DEFINE c == [b EXCEPT ![Place(e)] = x]
            h == (e + 1) % U
            d == Dist(i, e)
            u == Text(b, i, e)
            s == Text(c, i, h)
            t == Append(u, x)
<1>1. d \in 0..U - 1 /\ e \in Int /\ i \in Int /\ Place(e) \in 0..N - 1
  BY DistType, PlaceType
<1>2. c \in Rings
  BY <1>1 DEF Rings
<1>3. h = IF e + 1 < U THEN e + 1 ELSE e + 1 - U
  <2>1. 1 \in 0..U
    BY DEF Wraps
  <2>. QED BY <2>1, StepIs
<1>4. h \in Index
  BY <1>3 DEF Index, Wraps
<1>5. Dist(i, h) = d + 1
  <2>1. d = IF i <= e THEN e - i ELSE e - i + U
    BY DistIs
  <2>. HIDE DEF d, h
  <2>2. Dist(i, h) = IF i <= h THEN h - i ELSE h - i + U
    BY <1>4, DistIs
  <2>3. d < N
    BY DEF d
  <2>. QED BY <1>1, <1>3, <2>1, <2>2, <2>3 DEF Index, Wraps
<1>6. u \in Seq(Elem) /\ Len(u) = d /\ \A k \in 1..d : u[k] = b[Place(i + k - 1)]
  BY TextSeq
<1>7. s \in Seq(Elem) /\ Len(s) = d + 1 /\ \A k \in 1..d + 1 : s[k] = c[Place(i + k - 1)]
  <2>. HIDE DEF c, h
  <2>1. /\ s \in Seq(Elem) /\ Len(s) = Dist(i, h)
        /\ \A k \in 1..Dist(i, h) : s[k] = c[Place(i + k - 1)]
    BY <1>2, <1>4, TextSeq
  <2>. QED BY <1>5, <2>1
<1>8. \A k \in 1..d : c[Place(i + k - 1)] = b[Place(i + k - 1)]
  <2>1. ASSUME NEW k \in 1..d PROVE Place(i + k - 1) # Place(e) /\ Place(i + k - 1) \in 0..N - 1
    <3>1. i + k - 1 \in Int
      BY <1>1
    <3>. QED BY <3>1, PlaceFresh, PlaceType
  <2>. QED BY <2>1 DEF Rings
<1>9. c[Place(i + (d + 1) - 1)] = x
  <2>1. e = (i + d) % U
    BY Reaches
  <2>. HIDE DEF d
  <2>2. Place(((i + d) % U) + 1 - 1) = Place(i + (d + 1) - 1)
    <3>1. d \in Nat /\ 1 \in Int
      BY <1>1 DEF Wraps
    <3>. QED BY <3>1, PlaceMoved
  <2>3. ((i + d) % U) + 1 - 1 = e
    <3>1. e + 1 - 1 = e
      BY <1>1
    <3>. QED BY <2>1, <3>1
  <2>4. Place(i + (d + 1) - 1) = Place(e)
    BY <2>2, <2>3
  <2>. QED BY <1>1, <2>4 DEF Rings
<1>. HIDE DEF c, h, d, u, s
<1>10. /\ t \in Seq(Elem) /\ Len(t) = d + 1
       /\ \A k \in 1..d : t[k] = u[k]
       /\ t[d + 1] = x
  BY <1>6
<1>11. ASSUME NEW k \in 1..d + 1 PROVE s[k] = t[k]
  <2>1. CASE k \in 1..d
    BY <1>6, <1>7, <1>8, <1>10, <2>1, Zenon
  <2>2. CASE k = d + 1
    BY <1>7, <1>9, <1>10, <2>2
  <2>3. k \in 1..d \/ k = d + 1
    BY <1>1
  <2>. QED BY <2>1, <2>2, <2>3, Zenon
<1>. HIDE DEF t
<1>12. s = t
  BY <1>7, <1>10, <1>11, SameSeq
<1>. QED BY <1>2, <1>4, <1>5, <1>12, Zenon DEF s, t, u, c, h, d

\* The first n elements of v are stored from e on, and nothing else is.
Filled(b, c, e, v, n) ==
  /\ \A m \in 1..n : c[Place(e + m - 1)] = v[m]
  /\ \A j \in 0..N - 1 : (\A m \in 1..n : Place(e + m - 1) # j) => c[j] = b[j]

\* Doing so appends them to the text that ends at e.
LEMMA TextStored ==
  ASSUME Wraps, NEW b \in Rings, NEW c \in Rings, NEW e \in Index, NEW i \in Index,
         NEW v \in Seq(Elem), NEW n \in 0..Len(v), Dist(i, e) + n <= N, Filled(b, c, e, v, n)
  PROVE  LET h == (e + n) % U
         IN /\ h \in Index
            /\ Dist(i, h) = Dist(i, e) + n
            /\ Text(c, i, h) = Text(b, i, e) \o SubSeq(v, 1, n)
<1>. DEFINE h == (e + n) % U
            d == Dist(i, e)
            u == Text(b, i, e)
            s == Text(c, i, h)
            w == SubSeq(v, 1, n)
            t == u \o w
<1>0. /\ \A m \in 1..n : c[Place(e + m - 1)] = v[m]
      /\ \A j \in 0..N - 1 : (\A m \in 1..n : Place(e + m - 1) # j) => c[j] = b[j]
  BY DEF Filled
<1>1. d \in 0..U - 1 /\ e \in Int /\ i \in Int /\ n \in Nat /\ d + n <= N /\ d \in Nat
  BY DistType
<1>2. h = IF e + n < U THEN e + n ELSE e + n - U
  <2>1. n \in 0..U
    BY <1>1 DEF Wraps
  <2>. QED BY <2>1, StepIs
<1>3. h \in Index
  BY <1>1, <1>2 DEF Index, Wraps
<1>4. Dist(i, h) = d + n
  <2>1. d = IF i <= e THEN e - i ELSE e - i + U
    BY DistIs
  <2>. HIDE DEF d, h
  <2>2. Dist(i, h) = IF i <= h THEN h - i ELSE h - i + U
    BY <1>3, DistIs
  <2>. QED BY <1>1, <1>2, <2>1, <2>2 DEF Index, Wraps
<1>5. u \in Seq(Elem) /\ Len(u) = d /\ \A k \in 1..d : u[k] = b[Place(i + k - 1)]
  BY TextSeq
<1>6. s \in Seq(Elem) /\ Len(s) = d + n /\ \A k \in 1..d + n : s[k] = c[Place(i + k - 1)]
  <2>. HIDE DEF h
  <2>1. /\ s \in Seq(Elem) /\ Len(s) = Dist(i, h)
        /\ \A k \in 1..Dist(i, h) : s[k] = c[Place(i + k - 1)]
    BY <1>3, TextSeq
  <2>. QED BY <1>4, <2>1
<1>7. w \in Seq(Elem) /\ Len(w) = n /\ \A k \in 1..n : w[k] = v[k]
  <2>1. 1 \in Nat \ {0} /\ n \in 1 - 1..Len(v) /\ n - 1 + 1 = n
    OBVIOUS
  <2>2. w \in Seq(Elem) /\ Len(w) = n /\ \A k \in 1..n : w[k] = v[1 + k - 1]
    BY <2>1, SubSeqIs
  <2>. QED BY <2>2
<1>8. e = (i + d) % U
  BY Reaches
<1>. HIDE DEF h, d, u, s, w
<1>9. \A m \in Int : Place(e + m - 1) = Place(i + (d + m) - 1)
  <2>1. \A m \in Int : Place(((i + d) % U) + m - 1) = Place(i + (d + m) - 1)
    BY <1>1, PlaceMoved, Zenon
  <2>. QED BY <1>8, <2>1
<1>10. ASSUME NEW k \in 1..d PROVE s[k] = u[k]
  <2>1. i + k - 1 \in Int /\ k \in 1..d + n
    BY <1>1
  <2>2. ASSUME NEW m \in 1..n PROVE Place(e + m - 1) # Place(i + k - 1)
    <3>. DEFINE x == i + k - 1
                y == i + (d + m) - 1
    <3>1. x \in Int /\ y \in Int /\ x < y /\ y - x < N
      BY <1>1 DEF Wraps
    <3>. HIDE DEF x, y
    <3>2. Place(x) # Place(y)
      BY <3>1, PlaceDiffers
    <3>. QED BY <1>9, <3>2 DEF x, y
  <2>3. Place(i + k - 1) \in 0..N - 1
    BY <2>1, PlaceType
  <2>4. c[Place(i + k - 1)] = b[Place(i + k - 1)]
    BY <1>0, <2>2, <2>3
  <2>. QED BY <1>5, <1>6, <2>1, <2>4
<1>11. ASSUME NEW k \in 1..n PROVE s[d + k] = w[k]
  <2>1. d + k \in 1..d + n /\ k \in Int
    BY <1>1
  <2>2. s[d + k] = c[Place(i + (d + k) - 1)]
    BY <1>6, <2>1
  <2>3. s[d + k] = c[Place(e + k - 1)]
    BY <1>9, <2>1, <2>2, Zenon
  <2>. QED BY <1>0, <1>7, <2>3
<1>12. /\ t \in Seq(Elem) /\ Len(t) = d + n
       /\ \A k \in 1..d + n : t[k] = IF k <= d THEN u[k] ELSE w[k - d]
  <2>1. /\ t \in Seq(Elem) /\ Len(t) = Len(u) + Len(w)
        /\ \A k \in 1..Len(u) + Len(w) : t[k] = IF k <= Len(u) THEN u[k] ELSE w[k - Len(u)]
    BY <1>5, <1>7
  <2>. QED BY <1>5, <1>7, <2>1
<1>13. ASSUME NEW k \in 1..d + n PROVE s[k] = t[k]
  <2>1. CASE k <= d
    BY <1>1, <1>10, <1>12, <2>1
  <2>2. CASE ~(k <= d)
    <3>1. k - d \in 1..n /\ d + (k - d) = k
      BY <1>1, <2>2
    <3>2. s[d + (k - d)] = w[k - d]
      BY <1>11, <3>1
    <3>. QED BY <1>12, <2>2, <3>1, <3>2
  <2>. QED BY <2>1, <2>2, Zenon
<1>. HIDE DEF t
<1>14. s = t
  BY <1>6, <1>12, <1>13, SameSeq, Zenon
<1>. QED BY <1>3, <1>4, <1>14 DEF s, t, u, w, h, d
=============================================================================
