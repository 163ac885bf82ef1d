------------------------------ MODULE MCBcache ------------------------------
(* Instances of Bcache for TLC.                                            *)
EXTENDS Bcache, TLC

CONSTANTS outer, b1, b2, b3

(* One block is held while the others are read.                            *)
MCNested == {outer} \X {b1, b2, b3}
ProcessBlockSymmetry == Permutations(Process) \cup Permutations({b1, b2, b3})
=============================================================================
