----------------------------- MODULE AtomicDisk -----------------------------
(***************************************************************************)
(* What the file system calls rely on: a disk whose contents change by     *)
(* whole groups of finished calls.  mem is what reads return, stable what  *)
(* is there after a crash; stable is replaced by mem only when no call is  *)
(* half done, so a crash never leaves part of a call's writes behind.      *)
(***************************************************************************)
CONSTANTS Proc, Block, Val, V0

VARIABLES mem, stable, ops

vars == <<mem, stable, ops>>

Init == mem = [b \in Block |-> V0] /\ stable = mem /\ ops = {}

Begin(p) == p \notin ops /\ ops' = ops \cup {p} /\ UNCHANGED <<mem, stable>>

Write(p, b, v) ==
  p \in ops /\ mem' = [mem EXCEPT ![b] = v] /\ UNCHANGED <<stable, ops>>

End(p) == p \in ops /\ ops' = ops \ {p} /\ UNCHANGED <<mem, stable>>

Commit == ops = {} /\ stable' = mem /\ UNCHANGED <<mem, ops>>

Crash == mem' = stable /\ ops' = {} /\ UNCHANGED stable

Next ==
  \/ \E p \in Proc : \/ Begin(p) \/ End(p)
                     \/ \E b \in Block, v \in Val : Write(p, b, v)
  \/ Commit
  \/ Crash

Spec == Init /\ [][Next]_vars
=============================================================================
