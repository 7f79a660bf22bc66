------------------------------ MODULE Terminal ------------------------------
(***************************************************************************)
(* What the console promises to programs that read from it: the line being *)
(* typed can be edited, a finished line can no longer be edited and is     *)
(* handed out in order, and everything typed that fits is kept.            *)
(***************************************************************************)
EXTENDS Naturals, Sequences

CONSTANTS Char, Newline, Eof, Capacity

VARIABLES
    ready,  \* finished input, not read yet
    line    \* the line that is being typed

tvars == <<ready, line>>

Room == Len(ready) + Len(line) < Capacity

Init == ready = <<>> /\ line = <<>>

(* A key is appended; newline, end-of-file and a full buffer finish a line *)
Key(c) ==
    /\ Room
    /\ IF c \in {Newline, Eof} \/ Len(ready) + Len(line) + 1 = Capacity
         THEN ready' = ready \o Append(line, c) /\ line' = <<>>
         ELSE line' = Append(line, c) /\ UNCHANGED ready

Erase == line # <<>> /\ line' = SubSeq(line, 1, Len(line) - 1) /\ UNCHANGED ready
Kill == line' = <<>> /\ UNCHANGED ready
Take == ready # <<>> /\ ready' = Tail(ready) /\ UNCHANGED line

Next == (\E c \in Char : Key(c)) \/ Erase \/ Kill \/ Take

Spec == Init /\ [][Next]_tvars
=============================================================================
