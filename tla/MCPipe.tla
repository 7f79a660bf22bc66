------------------------------- MODULE MCPipe -------------------------------
(* Instances of Pipe for model checking.                                   *)
EXTENDS Pipe

CONSTANTS w1, w2, r1
=============================================================================
