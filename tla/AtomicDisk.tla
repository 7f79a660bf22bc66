----------------------------- MODULE AtomicDisk -----------------------------
(***************************************************************************)
(* What the log promises to the file system: system calls that overlap     *)
(* become durable together, at a moment when none of them is running, and  *)
(* a crash returns to the last such moment.                                *)
(***************************************************************************)
CONSTANTS Proc, Block, Value

VARIABLES mem,      \* the blocks as system calls see them
          durable,  \* the blocks as they will be after a crash
          active    \* the processes between begin_op and end_op

avars == <<mem, durable, active>>

Init == /\ mem \in [Block -> Value]
        /\ durable = mem
        /\ active = {}

Begin(p) == p \notin active /\ active' = active \cup {p} /\ UNCHANGED <<mem, durable>>
End(p) == p \in active /\ active' = active \ {p} /\ UNCHANGED <<mem, durable>>

Write(p, b) ==
    /\ p \in active
    /\ \E v \in Value : mem' = [mem EXCEPT ![b] = v]
    /\ UNCHANGED <<durable, active>>

Commit == active = {} /\ durable' = mem /\ UNCHANGED <<mem, active>>
Crash == mem' = durable /\ active' = {} /\ UNCHANGED durable

Next == \/ \E p \in Proc : Begin(p) \/ End(p) \/ \E b \in Block : Write(p, b)
        \/ Commit \/ Crash

Spec == Init /\ [][Next]_avars
=============================================================================
