------------------------------- MODULE Console -------------------------------
(***************************************************************************)
(* Console input (console.c): consoleintr() edits and ends lines in a ring *)
(* that consoleread() empties.  A character is one of Char; echoing it and *)
(* procdump() change nothing here.  Both sides hold cons.lock; a reader    *)
(* keeps it from its test of killed to the end of sleep().                 *)
(***************************************************************************)
EXTENDS Integers, Sequences, FiniteSets, FiniteSetsExt

CONSTANTS
  Reader,
  Letter, NL, CR, EOT, BS, KILL,   \* characters: a letter, \n, \r, ^D, ^H, ^U
  INPUT_BUF,
  CUint,       \* 2^w: the indices r, w and e count modulo this
  MaxWant      \* bound: bytes a read asks for

(* 128 divides 2^32.                                                       *)
ASSUME RingSizes ==
  /\ INPUT_BUF \in Nat \ {0} /\ CUint \in Nat /\ INPUT_BUF < CUint
  /\ CUint % INPUT_BUF = 0 /\ MaxWant \in Nat
ASSUME EditingKeys == KILL # BS

VARIABLES
  input,       \* buf, r, w, e
  cpc,         \* "user", "read", "empty" (holds cons.lock) or "sleep"
  want, had,   \* bytes still wanted by a read, and bytes it has already
  eof,         \* the last read returned 0
  ckilled

consoleVars == <<input, cpc, want, had, eof, ckilled>>

Char == {Letter, NL, CR, EOT, BS, KILL}

ConsoleInit ==
  /\ input = [buf |-> [i \in 0..INPUT_BUF - 1 |-> Letter], r |-> 0, w |-> 0, e |-> 0]
  /\ cpc = [p \in Reader |-> "user"]
  /\ want = [p \in Reader |-> 0] /\ had = [p \in Reader |-> 0]
  /\ eof = [p \in Reader |-> FALSE] /\ ckilled = [p \in Reader |-> FALSE]

CharAt(i) == input.buf[(i % CUint) % INPUT_BUF]
Dist(i, j) == (j - i) % CUint
Text(i, j) == [k \in 1..Dist(i, j) |-> CharAt(i + k - 1)]
ConsUnlocked == \A p \in Reader : cpc[p] # "empty"

-----------------------------------------------------------------------------
(* consoleintr() for one character                                         *)

(* ^U: back to the end of the last line                                    *)
KillLine ==
  LET kept == {n \in 0..Dist(input.w, input.e) :
                 n = 0 \/ CharAt(input.w + n - 1) = NL}
  IN [input EXCEPT !.e = (input.w + Max(kept)) % CUint]

(* Variant: without the test of input.w                                    *)
BackspaceReady ==
  IF input.e = input.r THEN input ELSE [input EXCEPT !.e = (@ - 1) % CUint]

Backspace ==
  IF input.e = input.w THEN input ELSE [input EXCEPT !.e = (@ - 1) % CUint]

Typed(c) ==
  LET x == IF c = CR THEN NL ELSE c
      e == (input.e + 1) % CUint
  IN [input EXCEPT !.buf[input.e % INPUT_BUF] = x,
                   !.e = e,
                   !.w = IF x \in {NL, EOT} \/ e = (input.r + INPUT_BUF) % CUint THEN e ELSE @]

(* Variant: only one of the readers                                        *)
WakeupOne(f) ==
  [p \in Reader |-> IF p = Min({q \in Reader : f[q] = "sleep"} \cup {9}) THEN "read" ELSE f[p]]

Wakeup(f) == [p \in Reader |-> IF f[p] = "sleep" THEN "read" ELSE f[p]]

ConsoleIntr(c) ==
  /\ ConsUnlocked
  /\ CASE c = KILL -> input' = KillLine /\ UNCHANGED cpc
       [] c = BS -> input' = Backspace /\ UNCHANGED cpc
       [] OTHER -> IF Dist(input.r, input.e) < INPUT_BUF
                   THEN /\ input' = Typed(c)
                        /\ cpc' = IF input'.w = input'.e THEN Wakeup(cpc) ELSE cpc
                   ELSE UNCHANGED <<input, cpc>>
  /\ UNCHANGED <<want, had, eof, ckilled>>

-----------------------------------------------------------------------------
(* consoleread()                                                           *)

ReadCall(p, n) ==
  /\ cpc[p] = "user" /\ ~ckilled[p]
  /\ cpc' = [cpc EXCEPT ![p] = "read"]
  /\ want' = [want EXCEPT ![p] = n]
  /\ had' = [had EXCEPT ![p] = 0]
  /\ eof' = [eof EXCEPT ![p] = FALSE]
  /\ UNCHANGED <<input, ckilled>>

(* The characters the loop takes before it ends or finds no more, the last *)
(* of them perhaps an EOT                                                  *)
Taken(p) ==
  LET text == Text(input.r, input.w)
      most == Min({want[p], Len(text)})
      ends == {i \in 1..most : text[i] \in {NL, EOT}}
  IN SubSeq(text, 1, IF ends = {} THEN most ELSE Min(ends))

ConsoleRead(p) ==
  /\ cpc[p] = "read" /\ ConsUnlocked
  /\ LET t == Taken(p)
         n == Len(t)
         ended == n > 0 /\ (t[n] \in {NL, EOT} \/ n = want[p])
         eot == n > 0 /\ t[n] = EOT
         back == IF eot /\ (n > 1 \/ had[p] > 0) THEN 1 ELSE 0
         bytes == IF eot THEN n - 1 ELSE n
     IN /\ input' = [input EXCEPT !.r = (@ + n - back) % CUint]
        /\ IF ended
           THEN /\ eof' = [eof EXCEPT ![p] = had[p] + bytes = 0]
                /\ cpc' = [cpc EXCEPT ![p] = "user"]
           ELSE /\ cpc' = [cpc EXCEPT ![p] = IF ckilled[p] THEN "user" ELSE "empty"]
                /\ UNCHANGED eof
        /\ LET more == ~ended /\ ~ckilled[p] IN
             /\ want' = [want EXCEPT ![p] = IF more THEN @ - n ELSE 0]
             /\ had' = [had EXCEPT ![p] = IF more THEN @ + n ELSE 0]
  /\ UNCHANGED ckilled

ConsoleSleep(p) ==
  /\ cpc[p] = "empty"
  /\ cpc' = [cpc EXCEPT ![p] = "sleep"]
  /\ UNCHANGED <<input, want, had, eof, ckilled>>

KillReader(p) ==
  /\ ~ckilled[p]
  /\ ckilled' = [ckilled EXCEPT ![p] = TRUE]
  /\ cpc' = [cpc EXCEPT ![p] = IF @ = "sleep" THEN "read" ELSE @]
  /\ UNCHANGED <<input, want, had, eof>>

ConsoleNext ==
  \/ \E c \in Char : ConsoleIntr(c)
  \/ \E p \in Reader : ConsoleRead(p) \/ ConsoleSleep(p) \/ KillReader(p)
                       \/ \E n \in 1..MaxWant : ReadCall(p, n)

ConsoleSpec == ConsoleInit /\ [][ConsoleNext]_consoleVars
-----------------------------------------------------------------------------
Lines == INSTANCE Tty WITH
  ready <- Text(input.r, input.w), line <- Text(input.w, input.e), Limit <- INPUT_BUF

(* The ring with three wrapping indices is a queue of finished lines and a *)
(* line being edited: ^H and ^U never reach a finished line or a character *)
(* already read, a full ring loses nothing that it accepted, and each ^D   *)
(* makes exactly one read return 0, whatever a reader had before it.       *)
ConsoleLines == Lines!Spec

(* A reader asleep has nothing to read: the wakeup() of a finished line is *)
(* never lost between a reader's last test and its sleep().                *)
ConsoleSleepers == \A p \in Reader : cpc[p] = "sleep" => input.r = input.w
=============================================================================
