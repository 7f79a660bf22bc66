------------------------------- MODULE MCProc -------------------------------
(* Instances of Proc for TLC: what the programs do.                        *)
EXTENDS Proc

(* init, a parent that may exit before its child, and a child that sleeps  *)
(* and kills.                                                              *)
Family == [q \in Slot |-> IF q = initproc THEN {"fork", "wait"}
                          ELSE IF q = 1 THEN {"fork", "wait", "exit"}
                          ELSE {"sleep", "kill", "exit"}]

(* The times of a slot that is not in use are dead: allocproc sets them.   *)
(* Those of init are never reported.                                       *)
Live(f) == [q \in Slot \ {initproc} |-> IF state[q] = "UNUSED" THEN 0 ELSE f[q]]
Relevant == <<state, chan, killed, pid, parent, Live(rtime), Live(ctime), Live(etime),
              locks, thread, cpu, nextpid, ticks, clk>>
=============================================================================
