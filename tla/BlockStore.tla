----------------------------- MODULE BlockStore -----------------------------
(***************************************************************************)
(* What the buffer cache promises: every block has one current value, at   *)
(* most one process at a time uses it, and only that process changes it.   *)
(***************************************************************************)
CONSTANTS Proc, Block, Value, None

VARIABLES current,  \* the value of every block
          user      \* the process that uses it, or None

Init == current \in [Block -> Value] /\ user = [k \in Block |-> None]

Get(p, k) ==
    /\ user[k] = None
    /\ user' = [user EXCEPT ![k] = p]
    /\ UNCHANGED current

Change(p, k) ==
    /\ user[k] = p
    /\ \E v \in Value : current' = [current EXCEPT ![k] = v]
    /\ UNCHANGED user

Put(p, k) ==
    /\ user[k] = p
    /\ user' = [user EXCEPT ![k] = None]
    /\ UNCHANGED current

Next == \E p \in Proc, k \in Block : Get(p, k) \/ Change(p, k) \/ Put(p, k)

Spec == Init /\ [][Next]_<<current, user>>
=============================================================================
