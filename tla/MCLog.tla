------------------------------- MODULE MCLog -------------------------------
(* Instances of Log for TLC.                                               *)
EXTENDS Log, TLC

ProcBlockSymmetry == Permutations(Block) \cup Permutations(Proc)
=============================================================================
