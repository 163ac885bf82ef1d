------------------------------ MODULE ByteQueue ------------------------------
(***************************************************************************)
(* What a pipe promises its users: the bytes written come out once, in     *)
(* order; a read returns 0 only after the last byte, when no write end is  *)
(* open, and a write fails only without a reader or for a killed writer.   *)
(***************************************************************************)
EXTENDS Naturals, Sequences

CONSTANTS Process, Capacity

VARIABLES queue, ends,   \* bytes in the pipe; open ends, of {"r", "w"}
          buf, ret,      \* bytes a call has still to write; how it failed
          killed

vars == <<queue, ends, buf, ret, killed>>

Prefix(s, n) == SubSeq(s, 1, n)
Rest(s, n) == SubSeq(s, n + 1, Len(s))

(* Any call starts, or one other than a read or a write returns.           *)
Call(p) ==
  /\ UNCHANGED <<queue, ends>>
  /\ \E r \in {"none", "exit"} : ret' = [ret EXCEPT ![p] = r]
  /\ \A q \in Process \ {p} : buf'[q] = buf[q]

Put(p) ==
  \E n \in 0..Len(buf[p]), r \in {"none", "err"} :
    /\ Len(queue) + n <= Capacity
    /\ queue' = queue \o Prefix(buf[p], n)
    /\ buf' = [buf EXCEPT ![p] = IF r = "err" THEN <<>> ELSE Rest(@, n)]
    /\ ret' = [ret EXCEPT ![p] = r]
    /\ r = "err" => "r" \notin ends \/ killed[p]
    /\ UNCHANGED <<ends, killed>>

Get(p) ==
  \E n \in 0..Len(queue), r \in {"none", "eof", "err"} :
    /\ queue' = Rest(queue, n)
    /\ ret' = [ret EXCEPT ![p] = r]
    /\ r = "none" <=> n > 0
    /\ r = "eof" => queue = <<>> /\ "w" \notin ends
    /\ r = "err" => killed[p]
    /\ UNCHANGED <<ends, buf, killed>>

Create == ends = {} /\ ends' = {"r", "w"} /\ queue' = <<>> /\ UNCHANGED <<buf, ret, killed>>

(* With the last end go the bytes nobody read.                             *)
Close(e) ==
  /\ ends' = ends \ {e}
  /\ queue' = IF ends' = {} THEN <<>> ELSE queue
  /\ UNCHANGED <<buf, ret, killed>>

Kill == UNCHANGED <<queue, ends, buf, ret>>

Init ==
  /\ queue = <<>> /\ ends = {}
  /\ \A p \in Process : buf[p] = <<>> /\ ret[p] = "none"

Next ==
  \/ \E p \in Process : Call(p) \/ Put(p) \/ Get(p)
  \/ Create \/ Kill
  \/ \E e \in ends : Close(e)

Spec == Init /\ [][Next]_vars
=============================================================================
