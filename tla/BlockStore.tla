----------------------------- MODULE BlockStore -----------------------------
(***************************************************************************)
(* What bio.c promises: blocks that one process at a time owns, from the   *)
(* return of bread() to brelse(), and whose contents only the owner        *)
(* changes.  There is no cache and no disk in it.                          *)
(***************************************************************************)
CONSTANTS Proc, Block, Val, V0

VARIABLES content, owns   \* owns[p]: the blocks of p

vars == <<content, owns>>

Init ==
  /\ content = [k \in Block |-> V0]
  /\ owns = [p \in Proc |-> {}]

Bread(p, k) ==
  /\ \A q \in Proc : k \notin owns[q]
  /\ owns' = [owns EXCEPT ![p] = @ \cup {k}]
  /\ UNCHANGED content

Change(p, k, v) ==
  /\ k \in owns[p]
  /\ content' = [content EXCEPT ![k] = v]
  /\ UNCHANGED owns

Brelse(p, k) ==
  /\ k \in owns[p]
  /\ owns' = [owns EXCEPT ![p] = @ \ {k}]
  /\ UNCHANGED content

Next ==
  \E p \in Proc, k \in Block :
    Bread(p, k) \/ Brelse(p, k) \/ \E v \in Val : Change(p, k, v)

Spec == Init /\ [][Next]_vars
=============================================================================
