---------------------------- MODULE BlockDevice -----------------------------
(***************************************************************************)
(* What the disk driver promises: a call of virtio_disk_rw moves one block *)
(* between the buffer and the disk, once, before it returns.               *)
(***************************************************************************)
CONSTANTS Proc, Value

VARIABLES media, data,  \* the block of every process, on the disk and in its buffer
          op,           \* whether it is written
          state         \* progress of a call

bvars == <<media, data, op, state>>

Init ==
    /\ media \in [Proc -> Value] /\ data \in [Proc -> Value]
    /\ op = [p \in Proc |-> FALSE]
    /\ state = [p \in Proc |-> "idle"]

Ask(p) ==
    /\ state[p] = "idle" /\ state' = [state EXCEPT ![p] = "asked"]
    /\ \/ UNCHANGED <<op, data>>
       \/ op' = [op EXCEPT ![p] = TRUE] /\ \E v \in Value : data' = [data EXCEPT ![p] = v]
    /\ UNCHANGED media

Move(p) ==
    /\ state[p] = "asked" /\ state' = [state EXCEPT ![p] = "moved"]
    /\ media' = IF op[p] THEN [media EXCEPT ![p] = data[p]] ELSE media
    /\ data' = IF op[p] THEN data ELSE [data EXCEPT ![p] = media[p]]
    /\ UNCHANGED op

Answer(p) ==
    /\ state[p] = "moved" /\ state' = [state EXCEPT ![p] = "idle"]
    /\ op' = [op EXCEPT ![p] = FALSE]
    /\ UNCHANGED <<media, data>>

Next == \E p \in Proc : Ask(p) \/ Move(p) \/ Answer(p)

Spec == Init /\ [][Next]_bvars
=============================================================================
