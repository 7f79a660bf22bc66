------------------------------ MODULE MCBcache ------------------------------
(* Instances of Bcache for model checking.                                 *)
EXTENDS Bcache, TLC

CONSTANTS p1, p2, p3, b1, b2, k1, k2, k3

(* Processes are interchangeable, and so are buffers and blocks.           *)
Symmetry == Permutations(Proc) \cup Permutations(Buf) \cup Permutations(Block)
=============================================================================
