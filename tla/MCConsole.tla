----------------------------- MODULE MCConsole ------------------------------
(* An instance of Console for model checking.                              *)
EXTENDS Console

(* Three keys and no output, or one key between two bytes of output.       *)
TypeOrWrite == {<<3, 0>>, <<1, 2>>}
=============================================================================
