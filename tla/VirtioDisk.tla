----------------------------- MODULE VirtioDisk -----------------------------
(***************************************************************************)
(* The disk driver (kernel/virtio_disk.c) and the virtio block device:     *)
(* three descriptors per transfer, the completions in the used ring, the   *)
(* interrupt and the sleeping processes.  A step is what is done under     *)
(* vdisk_lock up to a sleep; the device runs at any time.  The caller      *)
(* holds the lock of the buffer, so the buffers in the driver are of       *)
(* different blocks: a buffer and its block are named by the process.      *)
(***************************************************************************)
EXTENDS Naturals, Sequences, FiniteSets, FiniteSetsExt, SequencesExt

CONSTANTS
    Proc, Value, None,
    NUM       \* descriptors, and entries of a ring

ASSUME VirtioAssumption == NUM \in Nat \ {0}

VARIABLES
    media, data, \* the block on the disk and in the buffer
    bdisk,    \* b->disk: the device owns the buffer
    free,     \* the free descriptors
    next,     \* desc[i].next, None where the flag F_NEXT is not set
    info,     \* info[i].b of the chain that starts at i
    busy,     \* requests in the avail ring or being processed by the device
    used,     \* completions between used_idx and used->idx
    irq,      \* the interrupt line of the device
    intr,     \* the interrupt handler holds vdisk_lock
    idx,      \* idx[0] of a process in virtio_disk_rw
    op,       \* whether it writes the disk
    pc

Desc == 0 .. NUM - 1
buffers == <<media, data, op>>
chains == <<free, next, info, idx>>
vars == <<buffers, chains, bdisk, busy, used, irq, intr, pc>>

(* virtio_disk_init *)
Init ==
    /\ media \in [Proc -> Value] /\ data \in [Proc -> Value]
    /\ op = [p \in Proc |-> FALSE]
    /\ bdisk = [p \in Proc |-> FALSE]
    /\ free = Desc
    /\ next = [i \in Desc |-> None]
    /\ info = [i \in Desc |-> None]
    /\ idx = [p \in Proc |-> None]
    /\ busy = {} /\ used = <<>>
    /\ irq = FALSE /\ intr = FALSE
    /\ pc = [p \in Proc |-> "idle"]

(* bread or bwrite calls virtio_disk_rw.                                   *)
Call(p) ==
    /\ pc[p] = "idle" /\ pc' = [pc EXCEPT ![p] = "rw"]
    /\ \/ UNCHANGED <<op, data>>
       \/ op' = [op EXCEPT ![p] = TRUE] /\ \E v \in Value : data' = [data EXCEPT ![p] = v]
    /\ UNCHANGED <<media, chains, bdisk, busy, used, irq, intr>>

(* alloc_desc takes the first free descriptor.                             *)
First(S) == Min(S)
Second(S) == Min(S \ {First(S)})
Third(S) == Min(S \ {First(S), Second(S)})

(* wakeup(&disk.free[0]), and wakeup(b) in the handler.                    *)
WakeFree == [p \in Proc |-> IF pc[p] = "no_desc" THEN "rw" ELSE pc[p]]
WakeBuf(p) == IF pc[p] = "transfer" THEN [pc EXCEPT ![p] = "rw_done"] ELSE pc

(* virtio_disk_rw up to its first sleep.  A failing alloc3_desc gives back *)
(* what it got, and each free_desc wakes whoever waits for descriptors.    *)
NoRoom(p) ==
    /\ pc[p] = "rw" /\ ~intr /\ Cardinality(free) < 3
    /\ pc' = [IF free = {} THEN pc ELSE WakeFree EXCEPT ![p] = "no_desc"]
    /\ UNCHANGED <<buffers, chains, bdisk, busy, used, irq, intr>>

(* The three descriptors, and the request in the avail ring.               *)
Request(p) ==
    LET i == First(free)  j == Second(free)  k == Third(free)
    IN  /\ free' = free \ {i, j, k}
        /\ next' = [next EXCEPT ![i] = j, ![j] = k, ![k] = None]
        /\ info' = [info EXCEPT ![i] = p]
        /\ idx' = [idx EXCEPT ![p] = i]
        /\ busy' = busy \cup {i}

SubmitNoWait(p) ==
    /\ pc[p] = "rw" /\ ~intr /\ Cardinality(free) >= 3
    /\ Request(p)
    /\ pc' = [pc EXCEPT ![p] = "rw_done"]
    /\ UNCHANGED <<buffers, bdisk, used, irq, intr>>

Submit(p) ==
    /\ pc[p] = "rw" /\ ~intr /\ Cardinality(free) >= 3
    /\ Request(p)
    /\ bdisk' = [bdisk EXCEPT ![p] = TRUE]
    /\ pc' = [pc EXCEPT ![p] = "transfer"]
    /\ UNCHANGED <<buffers, used, irq, intr>>

(* free_chain *)
FreeChain(i) == {i, next[i], next[next[i]]}

(* The rest of virtio_disk_rw, once b->disk is 0 again.                    *)
RwDone(p) ==
    /\ pc[p] = "rw_done" /\ ~intr
    /\ IF bdisk[p]
         THEN pc' = [pc EXCEPT ![p] = "transfer"] /\ UNCHANGED <<chains, op>>
         ELSE LET chain == FreeChain(idx[p])
              IN  /\ info' = [info EXCEPT ![idx[p]] = None]
                  /\ free' = free \cup chain
                  /\ next' = [i \in Desc |-> IF i \in chain THEN None ELSE next[i]]
                  /\ idx' = [idx EXCEPT ![p] = None]
                  /\ op' = [op EXCEPT ![p] = FALSE]
                  /\ pc' = [WakeFree EXCEPT ![p] = "idle"]
    /\ UNCHANGED <<media, data, bdisk, busy, used, irq, intr>>

----------------------------------------------------------------------------
(* The device completes the requests in any order.                         *)
Complete(i) ==
    /\ i \in busy
    /\ LET p == info[i]
       IN  IF op[p] THEN media' = [media EXCEPT ![p] = data[p]] /\ UNCHANGED data
           ELSE data' = [data EXCEPT ![p] = media[p]] /\ UNCHANGED media
    /\ busy' = busy \ {i}
    /\ used' = Append(used, i)
    /\ irq' = TRUE
    /\ UNCHANGED <<op, chains, bdisk, intr, pc>>

----------------------------------------------------------------------------
(* virtio_disk_intr: acknowledge, then one completion after the other,     *)
(* also those that arrive meanwhile.                                       *)

IntrAck ==
    /\ irq /\ ~intr
    /\ irq' = FALSE /\ intr' = TRUE
    /\ UNCHANGED <<buffers, chains, bdisk, busy, used, pc>>

IntrUsedStuck ==
    /\ intr /\ used # <<>>
    /\ bdisk' = [bdisk EXCEPT ![info[Head(used)]] = FALSE]
    /\ pc' = WakeBuf(info[Head(used)])
    /\ UNCHANGED <<buffers, chains, busy, used, irq, intr>>

IntrUsed ==
    /\ intr /\ used # <<>>
    /\ bdisk' = [bdisk EXCEPT ![info[Head(used)]] = FALSE]
    /\ pc' = WakeBuf(info[Head(used)])
    /\ used' = Tail(used)
    /\ UNCHANGED <<buffers, chains, busy, irq, intr>>

IntrEnd ==
    /\ intr /\ used = <<>>
    /\ intr' = FALSE
    /\ UNCHANGED <<buffers, chains, bdisk, busy, used, irq, pc>>

Intr == IntrAck \/ IntrUsed \/ IntrEnd

Next ==
    \/ \E p \in Proc : Call(p) \/ NoRoom(p) \/ Submit(p) \/ RwDone(p)
    \/ \E i \in Desc : Complete(i)
    \/ Intr

Spec == Init /\ [][Next]_vars

(* The device serves every request, interrupts are taken, and a process    *)
(* that was woken gets vdisk_lock again.                                   *)
FairSpec ==
    /\ Spec
    /\ WF_vars(Intr)
    /\ \A i \in Desc : WF_vars(Complete(i))
    /\ \A p \in Proc : SF_vars(RwDone(p))

----------------------------------------------------------------------------
(* Properties.                                                             *)

(* How far a call is: the device has completed it or not.                  *)
Progress(p) == CASE pc[p] = "idle" -> "idle"
                 [] idx[p] # None /\ idx[p] \notin busy -> "moved"
                 [] OTHER -> "asked"
Device == INSTANCE BlockDevice WITH state <- [p \in Proc |-> Progress(p)]

(* Each call of virtio_disk_rw moves its block once, in the direction it   *)
(* asked for, and returns only afterwards, in whatever order the device    *)
(* completes the requests.                                                 *)
ImplementsBlockDevice == Device!Spec

(* A request that the device was given ends, and its process returns, and  *)
(* whoever sleeps for descriptors is woken: no completion goes unnoticed   *)
(* and no descriptor is lost.                                              *)
TransferEnds == \A p \in Proc : pc[p] \in {"transfer", "no_desc"} ~> pc[p] \in {"idle", "rw"}
=============================================================================
