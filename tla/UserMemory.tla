----------------------------- MODULE UserMemory -----------------------------
(***************************************************************************)
(* What fork, sbrk and memory accesses promise to user programs: every     *)
(* process has memory of its own, fork gives the child a copy, and nobody  *)
(* else's memory changes when a process writes.                            *)
(***************************************************************************)
CONSTANTS Proc, VPage, Content, Value, Zero, NoPage   \* programs write Value

VARIABLES
    alive,   \* processes whose memory exists
    view     \* contents of every page of every process, or NoPage

vars == <<alive, view>>

Init ==
    /\ alive \in SUBSET Proc
    /\ view \in [Proc -> [VPage -> Content \cup {NoPage}]]

Write(p, va, v) ==
    /\ view[p][va] # NoPage
    /\ view' = [view EXCEPT ![p][va] = v]
    /\ UNCHANGED alive

Fork(p, q) ==
    /\ p \in alive /\ q \notin alive
    /\ alive' = alive \cup {q}
    /\ view' = [view EXCEPT ![q] = view[p]]

Grow(p, va) ==
    /\ view[p][va] = NoPage
    /\ view' = [view EXCEPT ![p][va] = Zero]
    /\ UNCHANGED alive

Shrink(p, va) ==
    /\ view' = [view EXCEPT ![p][va] = NoPage]
    /\ UNCHANGED alive

Exit(p) ==
    /\ alive' = alive \ {p}
    /\ view' = [view EXCEPT ![p] = [va \in VPage |-> NoPage]]

Next ==
    \/ \E p \in Proc, va \in VPage :
         \/ \E v \in Value : Write(p, va, v)
         \/ Grow(p, va)
         \/ Shrink(p, va)
    \/ \E p, q \in Proc : Fork(p, q)
    \/ \E p \in Proc : Exit(p)

Spec == Init /\ [][Next]_vars
=============================================================================
