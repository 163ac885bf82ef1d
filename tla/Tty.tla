--------------------------------- MODULE Tty ---------------------------------
(***************************************************************************)
(* What the console promises a reader: lines that can be edited until they *)
(* are ended, and then come out once and in order; ^D is never data, and   *)
(* each one makes exactly one read return 0.                               *)
(***************************************************************************)
EXTENDS Naturals, Sequences

CONSTANTS Reader, Char, NL, EOT, Limit

VARIABLES ready, line,   \* characters that can be read; the line being typed
          eof            \* eof[p]: p's last read returned 0

vars == <<ready, line, eof>>

Init == ready = <<>> /\ line = <<>> /\ eof = [p \in Reader |-> FALSE]

(* A character joins the line, which ends with NL, EOT or the last one     *)
(* that fits.                                                              *)
Type(c) ==
  /\ Len(ready) + Len(line) < Limit
  /\ IF c \in {NL, EOT} \/ Len(ready) + Len(line) = Limit - 1
     THEN ready' = ready \o Append(line, c) /\ line' = <<>>
     ELSE line' = Append(line, c) /\ UNCHANGED ready
  /\ UNCHANGED eof

Erase == \E n \in {1, Len(line)} :
           n <= Len(line) /\ line' = SubSeq(line, 1, Len(line) - n) /\ UNCHANGED <<ready, eof>>

Start(p) == eof' = [eof EXCEPT ![p] = FALSE] /\ UNCHANGED <<ready, line>>

(* A read takes characters of one line, never an EOT; or an EOT alone, and *)
(* then it returns 0.                                                      *)
Take(p) ==
  \E n \in 1..Len(ready) :
    /\ ready' = SubSeq(ready, n + 1, Len(ready))
    /\ \A i \in 1..n - 1 : ready[i] \notin {NL, EOT}
    /\ ready[n] = EOT => n = 1
    /\ eof' = [eof EXCEPT ![p] = (ready[n] = EOT)]
    /\ UNCHANGED line

Next == Erase \/ (\E c \in Char : Type(c)) \/ \E p \in Reader : Start(p) \/ Take(p)

Spec == Init /\ [][Next]_vars
=============================================================================
