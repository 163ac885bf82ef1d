-------------------------------- MODULE Grep ---------------------------------
(***************************************************************************)
(* grep.c: the matcher, against what the operators ^ . * $ stand for, and  *)
(* the loop of grep() over a file read through a small buffer, against the *)
(* matching lines of the file.  Strings are sequences of characters.       *)
(***************************************************************************)
EXTENDS Integers, Sequences, SequencesExt

CONSTANTS NL, BUF     \* BUF: sizeof(buf)

Fits(c, x) == c = "." \/ c = x

RECURSIVE matchhere(_, _)
RECURSIVE matchstar(_, _, _)
matchstar(c, re, text) ==
  \/ matchhere(re, text)
  \/ text # <<>> /\ Fits(c, Head(text)) /\ matchstar(c, re, Tail(text))
matchhere(re, text) ==
  CASE re = <<>> -> TRUE
    [] Len(re) > 1 /\ re[2] = "*" -> matchstar(re[1], SubSeq(re, 3, Len(re)), text)
    [] re = <<"$">> -> text = <<>>
    [] OTHER -> text # <<>> /\ Fits(re[1], text[1]) /\ matchhere(Tail(re), Tail(text))

\* (a mutant of match) `while(*text++ != 0)' at the top: not the empty string
matchNonEmpty(re, text) ==
  IF re # <<>> /\ re[1] = "^" THEN matchhere(Tail(re), text)
  ELSE \E i \in 1 .. Len(text) : matchhere(re, SubSeq(text, i, Len(text)))
match(re, text) ==
  IF re # <<>> /\ re[1] = "^" THEN matchhere(Tail(re), text)
  ELSE \E i \in 1 .. (Len(text) + 1) : matchhere(re, SubSeq(text, i, Len(text)))

-----------------------------------------------------------------------------
\* One pass over the lines that are complete in buf: what is printed, what stays.
RECURSIVE Lines(_, _)
Lines(buf, re) ==
  IF NL \notin ToSet(buf) THEN <<<<>>, buf>>
  ELSE LET q    == CHOOSE i \in DOMAIN buf : buf[i] = NL /\ \A j \in 1 .. (i - 1) : buf[j] # NL
           line == SubSeq(buf, 1, q - 1)
           more == Lines(SubSeq(buf, q + 1, Len(buf)), re)
       IN  <<(IF match(re, line) THEN <<line>> ELSE <<>>) \o more[1], more[2]>>

\* grep() on a file: every read() fills the buffer up to sizeof(buf)-m-1.
RECURSIVE grep(_, _, _)
grep(re, kept, file) ==
  IF file = <<>> \/ BUF - Len(kept) - 1 <= 0 THEN <<>>
  ELSE LET room == BUF - Len(kept) - 1
           n    == IF Len(file) < room THEN Len(file) ELSE room
           buf  == kept \o SubSeq(file, 1, n)
           pass == Lines(buf, re)
           m    == IF pass[2] = buf THEN <<>> ELSE pass[2]     \* if(p == buf) m = 0
       IN  pass[1] \o grep(re, m, SubSeq(file, n + 1, Len(file)))

-----------------------------------------------------------------------------
\* A pattern as a sequence of <<character, starred>>.
RECURSIVE Items(_)
Items(re) ==
  IF re = <<>> THEN <<>>
  ELSE IF Len(re) > 1 /\ re[2] = "*" THEN <<<<re[1], TRUE>>>> \o Items(SubSeq(re, 3, Len(re)))
  ELSE <<<<re[1], FALSE>>>> \o Items(Tail(re))

\* The positions of text that the pattern can reach from a set of positions.
Ends(items, text, from) ==
  LET step(S, k) ==
        LET c == items[k][1]
        IN  IF items[k][2]
            THEN {j \in 0 .. Len(text) : \E i \in S : i <= j /\ \A x \in (i + 1) .. j : Fits(c, text[x])}
            ELSE IF c = "$" /\ k = Len(items) THEN S \intersect {Len(text)}
            ELSE {j \in 1 .. Len(text) : j - 1 \in S /\ Fits(c, text[j])}
  IN  FoldLeft(step, from, [k \in DOMAIN items |-> k])

Matches(re, text) ==
  IF re # <<>> /\ re[1] = "^" THEN Ends(Items(Tail(re)), text, {0}) # {}
  ELSE Ends(Items(re), text, 0 .. Len(text)) # {}

\* The complete lines of a file, in order.
LinesOf(file) ==
  LET ends == SelectSeq([i \in DOMAIN file |-> i], LAMBDA i : file[i] = NL)
  IN  [k \in DOMAIN ends |-> SubSeq(file, IF k = 1 THEN 1 ELSE ends[k - 1] + 1, ends[k] - 1)]

(* match() accepts a line exactly when the pattern, read as ^ . * $,       *)
(* describes a part of it.                                                 *)
MatchRight(re, text) == match(re, text) = Matches(re, text)

(* grep() of a file prints its matching lines, each once and in order,     *)
(* wherever the reads cut them, as long as every line fits the buffer      *)
(* (grep.c:17-35; a longer line is dropped piece by piece).                *)
GrepRight(re, file) ==
  (\A i \in DOMAIN file : \E j \in i .. (i + BUF - 2) : j > Len(file) \/ file[j] = NL)
    => grep(re, <<>>, file) = SelectSeq(LinesOf(file), LAMBDA line : Matches(re, line))
=============================================================================
