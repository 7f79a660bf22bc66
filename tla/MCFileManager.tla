--------------------------- MODULE MCFileManager ---------------------------
(* Instances of FileManager for TLC: which requests arrive for the file.   *)
EXTENDS FileManager

CONSTANTS r1, r2, r3, r4, r5

Ops(r) == CASE r = r1 -> "READ" [] r = r2 -> "READ" [] r = r3 -> "WRITE" [] OTHER -> "DELETE"
Mixed == [r \in Request |-> Ops(r)]

(* Two READs, or two DELETEs, with one each of the other operations.       *)
TwoReadsOrDeletes == {{r1, r2, r3, r4}, {r1, r3, r4, r5}}
=============================================================================
