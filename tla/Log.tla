-------------------------------- MODULE Log --------------------------------
(***************************************************************************)
(* The write-ahead log of the file system (kernel/log.c): system calls     *)
(* between begin_op and end_op, the commit by the last of them, and the    *)
(* recovery after a crash.  The disk writes one block at a time and a      *)
(* crash may fall between any two writes.  Of the buffer cache the model   *)
(* keeps the contents and the pins of the blocks outside the log.          *)
(***************************************************************************)
EXTENDS Naturals, Sequences, FiniteSets, Functions

CONSTANTS
    Proc,         \* processes that make file system calls
    Block,        \* blocks outside the log
    Value,        \* contents of a block
    None,
    MAXOPBLOCKS,  \* blocks that begin_op reserves for one system call
    MaxWrites,    \* most different blocks that one system call writes
    LOGSIZE,      \* bound of begin_op and log_write
    Size,         \* log.size, blocks of the log with its header
    MaxCrash      \* bound on the crashes

ASSUME LogAssumption ==
    /\ None \notin Value /\ Value # {}
    /\ MAXOPBLOCKS \in Nat \ {0} /\ LOGSIZE \in Nat /\ Size \in Nat /\ MaxCrash \in Nat
    /\ MAXOPBLOCKS <= LOGSIZE /\ MaxWrites \in Nat \ {0}

(* A system call must write fewer blocks than it reserves: log_write looks *)
(* whether the log is full also when it is given a block once more, and    *)
(* the log that mkfs makes has LOGSIZE blocks with its header among them.  *)
(* For that log, Size = LOGSIZE, one block less is enough.                 *)
ASSUME RoomAssumption ==
    /\ MaxWrites < MAXOPBLOCKS /\ MaxWrites + 1 < Size
    /\ LOGSIZE + 2 * MaxWrites + 1 < Size + 2 * MAXOPBLOCKS

VARIABLES
    disk,         \* the blocks at their home location
    logblk,       \* the log blocks on disk
    head,         \* the header block on disk: the block numbers
    cache, pin,   \* cached contents or None, and the log's pins
    lh,           \* log.lh
    outstanding, committing,
    pc,           \* where every process is
    wrote, left,  \* blocks the system call wrote, and how many more it may
    com, tail,    \* step and loop counter of commit or recovery
    recovering,
    panicked, crashes

log == <<lh, outstanding, committing>>
vars == <<disk, logblk, head, cache, pin, log, pc, wrote, left, com, tail, recovering,
          panicked, crashes>>

(* bread: the cached contents, or those on disk.                           *)
Contents(b) == IF cache[b] = None THEN disk[b] ELSE cache[b]

Init ==
    /\ disk \in [Block -> Value]
    /\ logblk = [i \in 1 .. LOGSIZE |-> CHOOSE v \in Value : TRUE]
    /\ head = <<>>
    /\ cache = [b \in Block |-> None]
    /\ pin = [b \in Block |-> 0]
    /\ lh = <<>> /\ outstanding = 0 /\ committing = FALSE
    /\ pc = [p \in Proc |-> "idle"]
    /\ wrote = [p \in Proc |-> {}] /\ left = [p \in Proc |-> 0]
    /\ com = "none" /\ tail = 1
    /\ recovering = FALSE
    /\ panicked = FALSE /\ crashes = 0

At(p, label) == ~panicked /\ ~recovering /\ pc[p] = label
Goto(p, label) == pc' = [pc EXCEPT ![p] = label]

(* wakeup(&log) *)
WakeAll == [p \in Proc |-> IF pc[p] = "asleep" THEN "begin" ELSE pc[p]]

----------------------------------------------------------------------------
(* System calls.                                                           *)

(* begin_op: room for this system call and for every one that is running.  *)
FitsOne == Len(lh) + MAXOPBLOCKS <= LOGSIZE
Fits == Len(lh) + (outstanding + 1) * MAXOPBLOCKS <= LOGSIZE

BeginOp(p) ==
    /\ At(p, "idle") \/ At(p, "begin")
    /\ IF committing \/ ~Fits
         THEN Goto(p, "asleep") /\ UNCHANGED <<outstanding, left>>
         ELSE /\ Goto(p, "op")
              /\ outstanding' = outstanding + 1
              /\ left' = [left EXCEPT ![p] = MaxWrites]
    /\ UNCHANGED <<disk, logblk, head, cache, pin, lh, committing, wrote, com, tail,
                   recovering, panicked, crashes>>

(* bread, a change of the data, log_write and brelse, under b->lock.  A    *)
(* call may write a block any number of times, each with its log_write,    *)
(* which tests for room before it looks for the block in the log.          *)
LogWrite(b) ==
    IF b \in Range(lh) THEN UNCHANGED <<lh, pin>>
    ELSE lh' = Append(lh, b) /\ pin' = [pin EXCEPT ![b] = @ + 1]

Write(p, b) ==
    /\ At(p, "op") /\ (b \in wrote[p] \/ left[p] > 0)
    /\ IF Len(lh) >= LOGSIZE \/ Len(lh) >= Size - 1 \/ outstanding < 1
         THEN panicked' = TRUE /\ UNCHANGED <<cache, pin, lh, wrote, left>>
         ELSE /\ \E v \in Value : cache' = [cache EXCEPT ![b] = v]
              /\ LogWrite(b)
              /\ wrote' = [wrote EXCEPT ![p] = @ \cup {b}]
              /\ left' = [left EXCEPT ![p] = IF b \in wrote[p] THEN @ ELSE @ - 1]
              /\ UNCHANGED panicked
    /\ UNCHANGED <<disk, logblk, head, outstanding, committing, pc, com, tail, recovering,
                   crashes>>

(* end_op: the last system call commits, an earlier one wakes those that   *)
(* wait for room.                                                          *)
EndOp(p) ==
    /\ At(p, "op")
    /\ outstanding' = outstanding - 1
    /\ wrote' = [wrote EXCEPT ![p] = {}] /\ left' = [left EXCEPT ![p] = 0]
    /\ \/ /\ committing
          /\ panicked' = TRUE
          /\ UNCHANGED <<committing, com, tail, pc>>
       \/ /\ ~committing /\ outstanding = 1
          /\ committing' = TRUE /\ com' = "write_log" /\ tail' = 1
          /\ Goto(p, "commit")
          /\ UNCHANGED panicked
       \/ /\ ~committing /\ outstanding # 1
          /\ pc' = [WakeAll EXCEPT ![p] = "idle"]
          /\ UNCHANGED <<committing, com, tail, panicked>>
    /\ UNCHANGED <<disk, logblk, head, cache, pin, lh, recovering, crashes>>

----------------------------------------------------------------------------
(* commit and recover_from_log, one disk write per step.                   *)

Com(label) == ~panicked /\ com = label

WriteLog ==
    /\ Com("write_log") /\ tail <= Len(lh)
    /\ logblk' = [logblk EXCEPT ![tail] = Contents(lh[tail])]
    /\ tail' = tail + 1
    /\ UNCHANGED <<disk, head, cache, pin, log, pc, wrote, left, com, recovering, panicked,
                   crashes>>

(* write_head: the moment of the commit.  A commit of nothing is skipped.  *)
NothingLogged == lh = <<>>

WriteHeadFirst ==
    /\ Com("write_log")
    /\ head' = lh
    /\ com' = "install" /\ tail' = 1
    /\ UNCHANGED <<disk, logblk, cache, pin, log, pc, wrote, left, recovering, panicked, crashes>>

WriteHead ==
    /\ Com("write_log") /\ tail > Len(lh)
    /\ IF NothingLogged THEN com' = "finish" /\ UNCHANGED head
       ELSE com' = "install" /\ head' = lh
    /\ tail' = 1
    /\ UNCHANGED <<disk, logblk, cache, pin, log, pc, wrote, left, recovering, panicked, crashes>>

(* install_trans; recovery finds the block numbers in the header on disk.  *)
Unpin(b) == IF recovering THEN pin ELSE [pin EXCEPT ![b] = @ - 1]

Install ==
    /\ Com("install") /\ tail <= Len(lh)
    /\ LET b == lh[tail]
       IN  /\ disk' = [disk EXCEPT ![b] = logblk[tail]]
           /\ cache' = [cache EXCEPT ![b] = logblk[tail]]
           /\ pin' = Unpin(b)
    /\ tail' = tail + 1
    /\ UNCHANGED <<logblk, head, log, pc, wrote, left, com, recovering, panicked, crashes>>

(* log.lh.n = 0 and write_head.                                            *)
ClearHead ==
    /\ Com("install") /\ tail > Len(lh)
    /\ lh' = <<>> /\ head' = <<>>
    /\ com' = IF recovering THEN "none" ELSE "finish"
    /\ recovering' = FALSE
    /\ UNCHANGED <<disk, logblk, cache, pin, outstanding, committing, pc, wrote, left,
                   tail, panicked, crashes>>

(* end_op after the commit.                                                *)
FinishStillCommitting(p) ==
    /\ At(p, "commit") /\ Com("finish")
    /\ pc' = [WakeAll EXCEPT ![p] = "idle"]
    /\ com' = "none"
    /\ UNCHANGED <<disk, logblk, head, cache, pin, log, wrote, left, tail, recovering,
                   panicked, crashes>>

Finish(p) ==
    /\ At(p, "commit") /\ Com("finish")
    /\ committing' = FALSE
    /\ pc' = [WakeAll EXCEPT ![p] = "idle"]
    /\ com' = "none"
    /\ UNCHANGED <<disk, logblk, head, cache, pin, lh, outstanding, wrote, left, tail,
                   recovering, panicked, crashes>>

----------------------------------------------------------------------------
(* The cache gives an unpinned buffer to another block.                    *)
Evict(b) ==
    /\ ~panicked
    /\ cache[b] # None /\ pin[b] = 0
    /\ cache' = [cache EXCEPT ![b] = None]
    /\ UNCHANGED <<disk, logblk, head, pin, log, pc, wrote, left, com, tail, recovering,
                   panicked, crashes>>

(* The machine stops and boots: initlog reads the header.                  *)
Crash ==
    /\ crashes < MaxCrash /\ crashes' = crashes + 1
    /\ cache' = [b \in Block |-> None]
    /\ pin' = [b \in Block |-> 0]
    /\ lh' = head /\ outstanding' = 0 /\ committing' = FALSE
    /\ pc' = [p \in Proc |-> "idle"]
    /\ wrote' = [p \in Proc |-> {}] /\ left' = [p \in Proc |-> 0]
    /\ com' = "install" /\ tail' = 1
    /\ recovering' = TRUE
    /\ panicked' = FALSE
    /\ UNCHANGED <<disk, logblk, head>>

CommitStep == WriteLog \/ WriteHead \/ Install \/ ClearHead

Next ==
    \/ \E p \in Proc : BeginOp(p) \/ EndOp(p) \/ Finish(p)
    \/ \E p \in Proc, b \in Block : Write(p, b)
    \/ \E b \in Block : Evict(b)
    \/ CommitStep \/ Crash

Spec == Init /\ [][Next]_vars

(* A process inside the log code goes on; system calls end.                *)
FairSpec ==
    /\ Spec
    /\ WF_vars(CommitStep)
    /\ \A p \in Proc : /\ WF_vars(pc[p] = "begin" /\ BeginOp(p))
                      /\ WF_vars(EndOp(p)) /\ WF_vars(Finish(p))

----------------------------------------------------------------------------
(* Properties.                                                             *)

(* No log_write finds the log full: begin_op let in only what fits.        *)
NoPanic == ~panicked

(* What a crash now would leave after recovery.                            *)
Recovered == [b \in Block |->
                IF b \in Range(head)
                  THEN logblk[CHOOSE i \in 1 .. Len(head) : head[i] = b] ELSE disk[b]]

Atomic == INSTANCE AtomicDisk
            WITH mem <- IF recovering THEN Recovered ELSE [b \in Block |-> Contents(b)],
                 durable <- Recovered,
                 active <- {p \in Proc : pc[p] = "op"}

(* System calls are atomic and ordered with respect to crashes: recovery,  *)
(* itself interrupted or not, restores the state of the last commit.       *)
ImplementsAtomicDisk == Atomic!Spec

(* A commit ends and recovery ends, unless the machine crashes meanwhile;  *)
(* all that was written is then on the disk, and whoever waited is awake.  *)
CommitEnds ==
    (committing \/ recovering) ~> (/\ ~committing /\ ~recovering
                                   /\ \A p \in Proc : pc[p] # "asleep"
                                   /\ \A b \in Block : disk[b] = Contents(b))
=============================================================================
