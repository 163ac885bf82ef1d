-------------------------------- MODULE Klib ---------------------------------
(***************************************************************************)
(* Small functions of the kernel whose edges matter: string.c, skipelem()  *)
(* of fs.c, printint() of console.c, the argument checks of syscall.c and  *)
(* the test of sys_sleep().  Memory is a sequence of bytes, 0 is NUL, an   *)
(* unsigned is a number below Uint.  Each is compared with what its        *)
(* callers take it to do.                                                  *)
(***************************************************************************)
EXTENDS Integers, Sequences, SequencesExt

CONSTANTS Uint,     \* 2^32
          DIRSIZ

Int32(x) == IF x >= Uint \div 2 THEN x - Uint ELSE x     \* (int)x

RECURSIVE Forward(_, _, _, _)
Forward(mem, d, s, n) ==
  IF n = 0 THEN mem ELSE Forward([mem EXCEPT ![d] = mem[s]], d + 1, s + 1, n - 1)
RECURSIVE Backward(_, _, _, _)
Backward(mem, d, s, n) ==
  IF n = 0 THEN mem ELSE Backward([mem EXCEPT ![d + n - 1] = mem[s + n - 1]], d, s, n - 1)

memmove(mem, d, s, n) ==
  IF s < d /\ s + n > d THEN Backward(mem, d, s, n) ELSE Forward(mem, d, s, n)

RECURSIVE strncmp(_, _, _)
strncmp(p, q, n) ==
  IF n > 0 /\ p[1] # 0 /\ p[1] = q[1] THEN strncmp(Tail(p), Tail(q), n - 1)
  ELSE IF n = 0 THEN 0 ELSE p[1] - q[1]

RECURSIVE strncpy(_, _, _)
strncpy(s, t, n) ==     \* the n bytes at s, t a string
  IF n <= 0 THEN s
  ELSE IF t[1] # 0 THEN <<t[1]>> \o strncpy(Tail(s), Tail(t), n - 1)
  ELSE [i \in DOMAIN s |-> IF i <= n THEN 0 ELSE s[i]]

RECURSIVE safestrcpy(_, _, _)
safestrcpy(s, t, n) ==
  IF n <= 0 THEN s
  ELSE IF n = 1 THEN <<0>> \o Tail(s)
  ELSE IF t[1] = 0 THEN <<0, 0>> \o SubSeq(s, 3, Len(s))   \* once in the loop, once after it
  ELSE <<t[1]>> \o safestrcpy(Tail(s), Tail(t), n - 1)

\* The path behind the next element and that element; <<>> at the end.
RECURSIVE Skip(_, _)
Skip(path, slashes) ==
  IF path # <<>> /\ (path[1] = "/") = slashes THEN Skip(Tail(path), slashes) ELSE path
skipelem(path) ==
  LET from == Skip(path, TRUE)
      to   == Skip(from, FALSE)
      len  == Len(from) - Len(to)
  IN  IF from = <<>> THEN <<>>
      ELSE <<SubSeq(from, 1, IF len >= DIRSIZ THEN DIRSIZ ELSE len), Skip(to, TRUE)>>

\* namex() takes the elements of a path one after the other.
RECURSIVE Elements(_)
Elements(path) == LET e == skipelem(path) IN IF e = <<>> THEN <<>> ELSE <<e[1]>> \o Elements(e[2])

RECURSIVE Digits(_, _)
Digits(x, base) == (IF x \div base # 0 THEN Digits(x \div base, base) ELSE <<>>) \o <<x % base>>
printint(xx, base, sign) ==
  IF sign /\ xx < 0 THEN <<-1>> \o Digits((-xx) % Uint, base) ELSE Digits(xx % Uint, base)   \* -1: "-"

fetchint(addr, sz) == ~(addr >= sz \/ (addr + 4) % Uint > sz)
argptr(i, size, sz) == ~(size < 0 \/ i >= sz \/ (i + size) % Uint > sz)
fetchstr(mem, addr) ==   \* mem: all of the process, at addresses 0 .. sz-1; the length or -1
  LET ends == {a \in addr .. (Len(mem) - 1) : mem[a + 1] = 0}
  IN  IF ends = {} THEN -1 ELSE (CHOOSE a \in ends : \A b \in ends : a <= b) - addr

\* sys_sleep() goes on sleeping: ticks - ticks0 < n, in unsigned arithmetic.
Sleeps(ticks, ticks0, n) == (ticks - ticks0) % Uint < n % Uint

-----------------------------------------------------------------------------
\* A string up to its NUL, at most n bytes of it.
RECURSIVE Upto(_, _)
Upto(s, n) == IF n <= 0 \/ s[1] = 0 THEN <<>> ELSE <<s[1]>> \o Upto(Tail(s), n - 1)

(* Overlapping or not, memmove() copies the bytes as they were.            *)
MemmoveRight(mem, d, s, n) ==
  memmove(mem, d, s, n) = [x \in DOMAIN mem |-> IF x \in d .. (d + n - 1) THEN mem[x - d + s] ELSE mem[x]]

(* strncmp() tells n-byte strings apart as dirlookup() and exec() need;    *)
(* strncpy() fills a directory entry to its last byte and not beyond;      *)
(* safestrcpy() ends in a NUL within n bytes.                              *)
StringsRight(p, q, n) ==
  /\ (strncmp(p, q, n) = 0) = (Upto(p, n) = Upto(q, n))
  /\ strncmp(p, q, n) = -strncmp(q, p, n)
  /\ strncpy(p, q, n) = [i \in DOMAIN p |-> IF i <= Len(Upto(q, n)) THEN q[i] ELSE IF i <= n THEN 0 ELSE p[i]]
  /\ n > 0 => Upto(safestrcpy(p, q, n), n) = Upto(q, n - 1)
  /\ \A i \in DOMAIN p : i > n => safestrcpy(p, q, n)[i] = p[i]

(* The elements of a path are its runs of characters between slashes, cut  *)
(* to DIRSIZ, and a path is used up (fs.c:580-617).                        *)
ElementsRight(path) ==
  LET starts == SelectSeq([i \in DOMAIN path |-> i],
                          LAMBDA i : path[i] # "/" /\ (i = 1 \/ path[i - 1] = "/"))
      end(i) == CHOOSE j \in i .. Len(path) :
                  (\A k \in i .. j : path[k] # "/") /\ (j = Len(path) \/ path[j + 1] = "/")
  IN  Elements(path) = [k \in DOMAIN starts |->
        SubSeq(path, starts[k], IF end(starts[k]) - starts[k] >= DIRSIZ
                                THEN starts[k] + DIRSIZ - 1 ELSE end(starts[k]))]

(* The digits printed stand for the number, the smallest int included.     *)
PrintRight(x, base) ==
  LET value(ds) == FoldLeft(LAMBDA v, d : v * base + d, 0, ds)
      signed    == printint(Int32(x), base, TRUE)
  IN  /\ value(printint(Int32(x), base, FALSE)) = x
      /\ (IF signed[1] = -1 THEN -value(Tail(signed)) ELSE value(signed)) = Int32(x)

(* An argument is accepted exactly when all of its bytes lie below sz,     *)
(* although the sums are unsigned, because sz is at most KERNBASE.         *)
ArgsRight(addr, size, sz) ==
  /\ fetchint(addr, sz) = (addr + 4 <= sz)
  /\ argptr(addr, Int32(size), sz) = (Int32(size) >= 0 /\ addr < sz /\ addr + Int32(size) <= sz)

StrRight(mem, addr) ==
  LET n == fetchstr(mem, addr)
  IN  IF n = -1 THEN \A a \in (addr + 1) .. Len(mem) : mem[a] # 0
      ELSE Upto(SubSeq(mem, addr + 1, Len(mem)), n + 1) = SubSeq(mem, addr + 1, addr + n)

(* A sleep of n >= 0 ticks ends at the n-th tick, also when the counter    *)
(* wraps; a negative n sleeps almost Uint ticks (sysproc.c:69).            *)
SleepRight(ticks0, n) ==
  \A k \in 0 .. (Uint - 1) :
    Sleeps((ticks0 + k) % Uint, ticks0, Int32(n)) = (k < IF Int32(n) < 0 THEN Uint + Int32(n) ELSE Int32(n))
=============================================================================
