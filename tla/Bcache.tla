------------------------------- MODULE Bcache -------------------------------
(***************************************************************************)
(* The buffer cache (kernel/bio.c) with its sleep locks                    *)
(* (kernel/sleeplock.c).  A process gets the buffer of a block, may change *)
(* it, and either writes it to the disk or leaves it pinned for the log,   *)
(* which later writes and unpins it.  The disk is what BlockDevice         *)
(* promises: a transfer takes its time and happens at one moment.          *)
(***************************************************************************)
EXTENDS Naturals, FiniteSets, Functions

CONSTANTS
    Proc, Buf, Block, Value, None,
    MaxPin   \* bound on the buffers the log pins

ASSUME BcacheAssumption ==
    /\ IsFiniteSet(Buf) /\ Value # {} /\ MaxPin \in Nat
    /\ None \notin Proc \cup Buf \cup Block

VARIABLES
    media,     \* the blocks on the disk
    blockno, data, valid, refcnt,
    locked,    \* b->lock: the process that holds it, or None
    lru,       \* the list from head.next, most recent first
    pinned,    \* the buffers that the log has pinned
    buf, pc,   \* the buffer of every process and where it is
    written,   \* processes that have called bwrite on their buffer
    dirty,     \* processes that changed it and have not saved it yet
    panicked

vars == <<media, blockno, data, valid, refcnt, locked, lru, pinned, buf, pc, written, dirty,
          panicked>>

(* binit: every buffer is once in the list.                                *)
Init ==
    /\ media \in [Block -> Value]
    /\ blockno = [b \in Buf |-> None]
    /\ data = [b \in Buf |-> CHOOSE v \in Value : TRUE]
    /\ valid = [b \in Buf |-> FALSE]
    /\ refcnt = [b \in Buf |-> 0]
    /\ locked = [b \in Buf |-> None]
    /\ lru \in Bijection(1 .. Cardinality(Buf), Buf)
    /\ pinned = {} /\ written = {} /\ dirty = {}
    /\ buf = [p \in Proc |-> None]
    /\ pc = [p \in Proc |-> "idle"]
    /\ panicked = FALSE

At(p, label) == ~panicked /\ pc[p] = label
Goto(p, label) == pc' = [pc EXCEPT ![p] = label]

(* bget under bcache.lock: the buffer that caches the block, or else the   *)
(* least recently used one that nobody refers to.                          *)
Unused == {b \in Buf : refcnt[b] = 0}
Oldest(S) == lru[CHOOSE i \in DOMAIN lru :
                    lru[i] \in S /\ \A j \in DOMAIN lru : lru[j] \in S => j <= i]

Hit(p, k) ==
    /\ At(p, "idle")
    /\ \E b \in Buf : /\ blockno[b] = k
                      /\ refcnt' = [refcnt EXCEPT ![b] = @ + 1]
                      /\ buf' = [buf EXCEPT ![p] = b]
    /\ Goto(p, "lock")
    /\ UNCHANGED <<media, blockno, data, valid, locked, lru, pinned, written, dirty, panicked>>

StaleValid(b) == valid
Invalid(b) == [valid EXCEPT ![b] = FALSE]

Recycle(p, k) ==
    /\ At(p, "idle") /\ \A b \in Buf : blockno[b] # k
    /\ IF Unused = {}
         THEN panicked' = TRUE /\ UNCHANGED <<blockno, valid, refcnt, buf, pc>>
         ELSE LET b == Oldest(Unused)
              IN  /\ blockno' = [blockno EXCEPT ![b] = k]
                  /\ valid' = Invalid(b)
                  /\ refcnt' = [refcnt EXCEPT ![b] = 1]
                  /\ buf' = [buf EXCEPT ![p] = b]
                  /\ Goto(p, "lock")
                  /\ UNCHANGED panicked
    /\ UNCHANGED <<media, data, locked, lru, pinned, written, dirty>>

(* acquiresleep, and then bread: an invalid buffer is read from the disk.  *)
AcquireSleep(p) ==
    /\ At(p, "lock")
    /\ IF locked[buf[p]] # None
         THEN Goto(p, "asleep") /\ UNCHANGED locked
         ELSE /\ locked' = [locked EXCEPT ![buf[p]] = p]
              /\ Goto(p, IF valid[buf[p]] THEN "use" ELSE "read")
    /\ UNCHANGED <<media, blockno, data, valid, refcnt, lru, pinned, buf, written, dirty,
                   panicked>>

DiskRead(p) ==
    /\ At(p, "read")
    /\ data' = [data EXCEPT ![buf[p]] = media[blockno[buf[p]]]]
    /\ valid' = [valid EXCEPT ![buf[p]] = TRUE]
    /\ Goto(p, "use")
    /\ UNCHANGED <<media, blockno, refcnt, locked, lru, pinned, buf, written, dirty, panicked>>

(* The holder changes the data ...                                         *)
Change(p) ==
    /\ At(p, "use") /\ p \notin dirty \cup written
    /\ \E v \in Value : data' = [data EXCEPT ![buf[p]] = v]
    /\ dirty' = dirty \cup {p}
    /\ UNCHANGED <<media, blockno, valid, refcnt, locked, lru, pinned, buf, pc, written, panicked>>

(* ... and pins the buffer in log_write, once per transaction ...          *)
Bpin(p) ==
    /\ At(p, "use") /\ p \in dirty
    /\ \/ buf[p] \in pinned /\ UNCHANGED <<pinned, refcnt>>
       \/ /\ buf[p] \notin pinned /\ Cardinality(pinned) < MaxPin
          /\ refcnt' = [refcnt EXCEPT ![buf[p]] = @ + 1]
          /\ pinned' = pinned \cup {buf[p]}
    /\ dirty' = dirty \ {p}
    /\ UNCHANGED <<media, blockno, data, valid, locked, lru, buf, pc, written, panicked>>

(* ... or writes it, as the log does with its own and with pinned buffers. *)
Bwrite(p) ==
    /\ At(p, "use") /\ p \notin written
    /\ p \in dirty \/ buf[p] \in pinned
    /\ IF locked[buf[p]] = p THEN Goto(p, "write") /\ UNCHANGED panicked
       ELSE panicked' = TRUE /\ UNCHANGED pc
    /\ UNCHANGED <<media, blockno, data, valid, refcnt, locked, lru, pinned, buf, written, dirty>>

DiskWrite(p) ==
    /\ At(p, "write")
    /\ media' = [media EXCEPT ![blockno[buf[p]]] = data[buf[p]]]
    /\ written' = written \cup {p} /\ dirty' = dirty \ {p}
    /\ Goto(p, "use")
    /\ UNCHANGED <<blockno, data, valid, refcnt, locked, lru, pinned, buf, panicked>>

(* install_trans: bunpin after the bwrite.                                 *)
Bunpin(p) ==
    /\ At(p, "use") /\ p \in written /\ buf[p] \in pinned
    /\ refcnt' = [refcnt EXCEPT ![buf[p]] = @ - 1]
    /\ pinned' = pinned \ {buf[p]}
    /\ UNCHANGED <<media, blockno, data, valid, locked, lru, buf, pc, written, dirty, panicked>>

(* brelse: releasesleep, and then the reference under bcache.lock.         *)
WakeNobody(b) == pc
WakeLock(b) == [p \in Proc |-> IF pc[p] = "asleep" /\ buf[p] = b THEN "lock" ELSE pc[p]]

ReleaseSleep(p) ==
    /\ At(p, "use") /\ p \notin dirty /\ ~(p \in written /\ buf[p] \in pinned)
    /\ IF locked[buf[p]] = p
         THEN /\ locked' = [locked EXCEPT ![buf[p]] = None]
              /\ pc' = [WakeLock(buf[p]) EXCEPT ![p] = "brelse"]
              /\ UNCHANGED panicked
         ELSE panicked' = TRUE /\ UNCHANGED <<locked, pc>>
    /\ written' = written \ {p}
    /\ UNCHANGED <<media, blockno, data, valid, refcnt, lru, pinned, buf, dirty>>

ToFront(b) ==
    LET k == CHOOSE i \in DOMAIN lru : lru[i] = b
    IN  [i \in DOMAIN lru |-> IF i = 1 THEN b ELSE IF i <= k THEN lru[i - 1] ELSE lru[i]]

Drop(b) == refcnt[b] - 1

Brelse(p) ==
    /\ At(p, "brelse")
    /\ refcnt' = [refcnt EXCEPT ![buf[p]] = Drop(buf[p])]
    /\ lru' = IF Drop(buf[p]) = 0 THEN ToFront(buf[p]) ELSE lru
    /\ buf' = [buf EXCEPT ![p] = None]
    /\ Goto(p, "idle")
    /\ UNCHANGED <<media, blockno, data, valid, locked, pinned, written, dirty, panicked>>

Next == \E p \in Proc :
    \/ \E k \in Block : Hit(p, k) \/ Recycle(p, k)
    \/ AcquireSleep(p) \/ DiskRead(p) \/ Change(p) \/ Bpin(p) \/ Bwrite(p) \/ DiskWrite(p)
    \/ Bunpin(p) \/ ReleaseSleep(p) \/ Brelse(p)

Spec == Init /\ [][Next]_vars

----------------------------------------------------------------------------
(* Properties.                                                             *)

(* The value of a block: the valid buffer that caches it, or the disk.     *)
Caching(k) == {b \in Buf : blockno[b] = k /\ valid[b]}
Of(k, f, otherwise) == IF Caching(k) = {} THEN otherwise ELSE f[CHOOSE b \in Caching(k) : TRUE]
Current == [k \in Block |-> Of(k, data, media[k])]
User == [k \in Block |-> Of(k, locked, None)]
Store == INSTANCE BlockStore WITH current <- Current, user <- User

(* The cache behaves like one copy of every block that one process at a    *)
(* time uses: neither a recycled nor a second buffer shows an old value.   *)
ImplementsBlockStore == Store!Spec

(* Whoever sleeps for a buffer sleeps for one that another process holds,  *)
(* and that process is going to release it.                                *)
SleeperHasWaker ==
    \A p \in Proc : pc[p] = "asleep" =>
        \E q \in Proc \ {p} : /\ locked[buf[p]] = q /\ buf[q] = buf[p]
                              /\ pc[q] \in {"read", "use", "write"}
=============================================================================
