----------------------------- MODULE ByteStream -----------------------------
(***************************************************************************)
(* What a pipe promises: a bounded queue of bytes.  A read takes what      *)
(* there is, in order, and returns nothing only when the queue is empty    *)
(* and the last writer has closed it.                                      *)
(***************************************************************************)
EXTENDS Naturals, Sequences

CONSTANTS Reader, Writer, Byte, Capacity, Most

VARIABLES queue,   \* the bytes in the pipe
          open,    \* the processes that have an end open
          out      \* what a read has returned, until the next one

svars == <<queue, open, out>>

Init == queue = <<>> /\ open = Reader \cup Writer /\ out = [r \in Reader |-> <<>>]

Put(w, v) ==
    /\ w \in open /\ Len(queue) < Capacity
    /\ queue' = Append(queue, v)
    /\ UNCHANGED <<open, out>>

(* When the copy to user memory fails, the byte it failed for is lost.     *)
Get(r, k, lost) ==
    /\ r \in open /\ k + lost <= Len(queue) /\ k + lost <= Most
    /\ k + lost = 0 => queue = <<>> /\ open \cap Writer = {}
    /\ queue' = SubSeq(queue, k + lost + 1, Len(queue))
    /\ out' = [out EXCEPT ![r] = SubSeq(queue, 1, k)]
    /\ UNCHANGED open

Ask(r) == r \in open /\ out' = [out EXCEPT ![r] = <<>>] /\ UNCHANGED <<queue, open>>

Close(p) == p \in open /\ open' = open \ {p} /\ UNCHANGED <<queue, out>>

Next ==
    \/ \E w \in Writer, v \in Byte : Put(w, v)
    \/ \E r \in Reader : Ask(r)
    \/ \E r \in Reader, k \in 0 .. Capacity, lost \in 0 .. 1 : Get(r, k, lost)
    \/ \E p \in Reader \cup Writer : Close(p)

Spec == Init /\ [][Next]_svars
=============================================================================
