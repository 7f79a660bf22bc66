---------------------------- MODULE BcacheProofs ----------------------------
(***************************************************************************)
(* For any numbers of processes, buffers and blocks the buffer cache shows *)
(* one copy of every block, whatever is recycled, pinned or written when,  *)
(* and whoever sleeps for a buffer sleeps for a process that releases it.  *)
(*                                                                         *)
(* The argument: refcnt counts the processes that have the buffer and the  *)
(* pin of the log, so that bget recycles only buffers that nobody holds    *)
(* and whose data are on the disk; and no block has two buffers.           *)
(***************************************************************************)
EXTENDS Bcache, FiniteSetTheorems, WellFoundedInduction, TLAPS

Label == {"idle", "lock", "asleep", "read", "use", "write", "brelse"}

TypeInv ==
    /\ media \in [Block -> Value]
    /\ blockno \in [Buf -> Block \cup {None}]
    /\ data \in [Buf -> Value]
    /\ valid \in [Buf -> BOOLEAN]
    /\ refcnt \in [Buf -> Nat]
    /\ locked \in [Buf -> Proc \cup {None}]
    /\ lru \in Surjection(1 .. Cardinality(Buf), Buf)
    /\ pinned \subseteq Buf /\ written \subseteq Proc /\ dirty \subseteq Proc
    /\ buf \in [Proc -> Buf \cup {None}]
    /\ pc \in [Proc -> Label]
    /\ panicked \in BOOLEAN

(* A process has a buffer from bget to brelse, and its lock in between;    *)
(* only the holder is changing or writing it.                              *)
HoldInv ==
    /\ \A p \in Proc : pc[p] = "idle" <=> buf[p] = None
    /\ \A b \in Buf : locked[b] # None =>
         buf[locked[b]] = b /\ pc[locked[b]] \in {"read", "use", "write"}
    /\ \A p \in Proc : pc[p] \in {"read", "use", "write"} => locked[buf[p]] = p
    /\ \A p \in Proc : pc[p] = "asleep" => locked[buf[p]] # None
    /\ \A p \in dirty \cup written : pc[p] \in {"use", "write"}

(* The references: of the processes, and of the log.                       *)
Users(f, b) == {p \in Proc : f[p] = b}

Counted(S, count, pin) ==
    IsFiniteSet(S) /\ count = Cardinality(S) + (IF pin THEN 1 ELSE 0)

RefInv == \A b \in Buf : Counted(Users(buf, b), refcnt[b], b \in pinned)

(* No block has two buffers, and a buffer in use belongs to a block.       *)
BlockInv ==
    /\ \A b, c \in Buf : blockno[b] = blockno[c] /\ blockno[b] # None => b = c
    /\ \A b \in Buf : Users(buf, b) # {} \/ valid[b] => blockno[b] # None

(* Who is past bread has valid data.                                       *)
ValidInv ==
    /\ \A p \in Proc : pc[p] \in {"use", "write"} => valid[buf[p]]
    /\ \A p \in Proc : pc[p] = "read" => ~valid[buf[p]]

(* A buffer differs from the disk only while it is pinned or its holder is *)
(* about to pin or to write it.                                            *)
SyncInv ==
    /\ \A b \in Buf : valid[b] /\ b \notin pinned /\ (\A p \in dirty : buf[p] # b)
                        => data[b] = media[blockno[b]]
    /\ \A p \in written : data[buf[p]] = media[blockno[buf[p]]]
    /\ dirty \cap written = {}

IInv == TypeInv /\ HoldInv /\ RefInv /\ BlockInv /\ ValidInv /\ SyncInv
----------------------------------------------------------------------------
(* The list.                                                               *)

(* Numbers of which one is the largest: those up to n.                     *)
LEMMA Largest ==
  ASSUME NEW n \in Nat, NEW S \in SUBSET (1 .. n), S # {}
  PROVE  \E i \in S : \A j \in S : j <= i
  <1> DEFINE T == {m \in Nat : \E i \in S : m = n - i}
  <1>1. T \subseteq Nat /\ T # {}
    <2>1. PICK i \in S : TRUE
      BY Zenon
    <2>2. n - i \in T
      BY <2>1
    <2> QED BY Zenon, <2>2
  <1>2. PICK m \in T : \A x \in T : ~(<<x, m>> \in OpToRel(<, Nat))
    BY Zenon, <1>1, NatLessThanWellFounded, WFMin
  <1>3. PICK i \in S : m = n - i
    OBVIOUS
  <1>4. \A j \in S : j <= i
    <2> SUFFICES ASSUME NEW j \in S, ~(j <= i) PROVE FALSE
      OBVIOUS
    <2>1. n - j \in T /\ n - j \in Nat /\ m \in Nat /\ n - j < m
      BY <1>3
    <2>2. <<n - j, m>> \in OpToRel(<, Nat)
      BY <2>1 DEF OpToRel
    <2> QED BY Zenon, <1>2, <2>1, <2>2
  <1> QED BY Zenon, <1>4

(* If a buffer is unused, bget finds the least recently used one.          *)
LEMMA OldestUnused ==
  ASSUME TypeInv, Unused # {}
  PROVE  Oldest(Unused) \in Unused
  <1> DEFINE D == 1 .. Cardinality(Buf)
             S == {i \in D : lru[i] \in Unused}
  <1>1. Cardinality(Buf) \in Nat
    BY BcacheAssumption, FS_CardinalityType
  <1>2. lru \in [D -> Buf] /\ \A b \in Buf : \E i \in D : lru[i] = b
    BY DEF TypeInv, Surjection
  <1>3. S # {} /\ S \in SUBSET D
    BY <1>2 DEF Unused
  <1>4. PICK i \in S : \A j \in S : j <= i
    BY Zenon, <1>1, <1>3, Largest
  <1>5. i \in DOMAIN lru /\ lru[i] \in Unused /\ \A j \in DOMAIN lru : lru[j] \in Unused => j <= i
    BY <1>2, <1>4
  <1> QED BY <1>5 DEF Oldest

(* Moving a buffer to the front keeps every buffer in the list.            *)
LEMMA ToFrontType ==
  ASSUME TypeInv, NEW b \in Buf
  PROVE  ToFront(b) \in Surjection(1 .. Cardinality(Buf), Buf)
  <1> DEFINE D == 1 .. Cardinality(Buf)
  <1>1. Cardinality(Buf) \in Nat
    BY BcacheAssumption, FS_CardinalityType
  <1>2. lru \in [D -> Buf] /\ DOMAIN lru = D /\ \A c \in Buf : \E i \in D : lru[i] = c
    BY DEF TypeInv, Surjection
  <1>3. PICK k \in D : lru[k] = b /\ k = CHOOSE i \in DOMAIN lru : lru[i] = b
    BY <1>2
  <1>4. PICK f : f = ToFront(b)
    OBVIOUS
  <1>5. f = [i \in D |-> IF i = 1 THEN b ELSE IF i <= k THEN lru[i - 1] ELSE lru[i]]
    BY <1>2, <1>3, <1>4 DEF ToFront
  <1>6. f \in [D -> Buf]
    BY <1>1, <1>2, <1>5
  <1>7. ASSUME NEW c \in Buf PROVE \E i \in D : f[i] = c
    <2>1. PICK j \in D : lru[j] = c
      BY <1>2
    <2>2. CASE j < k
      <3>1. j + 1 \in D /\ j + 1 # 1 /\ j + 1 <= k /\ (j + 1) - 1 = j
        BY <1>1, <2>2
      <3>2. f[j + 1] = c
        BY <1>5, <2>1, <3>1
      <3> QED BY <3>1, <3>2
    <2>3. CASE j = k
      <3>1. 1 \in D /\ c = b
        BY <1>1, <1>3, <2>1, <2>3
      <3>2. f[1] = c
        BY <1>5, <3>1
      <3> QED BY <3>1, <3>2
    <2>4. CASE j > k
      <3>1. j # 1 /\ ~(j <= k)
        BY <1>1, <2>4
      <3>2. f[j] = c
        BY <1>5, <2>1, <3>1
      <3> QED BY <3>2
    <2> QED BY <1>1, <2>2, <2>3, <2>4
  <1> QED BY <1>4, <1>6, <1>7 DEF Surjection

----------------------------------------------------------------------------
(* The references.                                                         *)

(* Nobody has, holds or waits for an unused buffer, and it is not pinned.  *)
LEMMA UnusedFree ==
  ASSUME IInv, NEW b \in Unused
  PROVE  b \in Buf /\ Users(buf, b) = {} /\ b \notin pinned /\ locked[b] = None
  <1>1. b \in Buf /\ refcnt[b] = 0
    BY DEF Unused
  <1>2. IsFiniteSet(Users(buf, b)) /\ Cardinality(Users(buf, b)) \in Nat
    BY <1>1, FS_CardinalityType DEF IInv, RefInv, Counted
  <1>3. refcnt[b] = Cardinality(Users(buf, b)) + (IF b \in pinned THEN 1 ELSE 0)
    BY <1>1 DEF IInv, RefInv, Counted
  <1>4. Cardinality(Users(buf, b)) = 0 /\ b \notin pinned
    BY <1>1, <1>2, <1>3
  <1>5. Users(buf, b) = {}
    BY <1>2, <1>4, FS_EmptySet
  <1>6. locked[b] = None
    BY <1>1, <1>5 DEF IInv, TypeInv, HoldInv, Users
  <1> QED BY <1>1, <1>4, <1>5, <1>6

(* bget of a block that is not cached takes a buffer that nobody uses ...  *)
Takes(p, k, b) ==
    /\ Users(buf, b) = {} /\ b \notin pinned /\ locked[b] = None
    /\ blockno' = [blockno EXCEPT ![b] = k]
    /\ valid' = [valid EXCEPT ![b] = FALSE]
    /\ refcnt' = [refcnt EXCEPT ![b] = 1]
    /\ buf' = [buf EXCEPT ![p] = b]
    /\ pc' = [pc EXCEPT ![p] = "lock"]
    /\ UNCHANGED <<media, data, locked, lru, pinned, written, dirty, panicked>>

(* ... or panics.                                                          *)
Panics ==
    /\ panicked' = TRUE
    /\ UNCHANGED <<media, blockno, data, valid, refcnt, locked, lru, pinned, buf, pc,
                   written, dirty>>

(* See Takes. *)
LEMMA RecycleUnused ==
  ASSUME IInv, NEW p \in Proc, NEW k \in Block, Recycle(p, k)
  PROVE  /\ pc[p] = "idle" /\ \A b \in Buf : blockno[b] # k
         /\ Panics \/ \E b \in Buf : Takes(p, k, b)
  <1>0. pc[p] = "idle" /\ \A b \in Buf : blockno[b] # k
    BY DEF Recycle, At
  <1>1. CASE Unused = {}
    <2>1. Panics
      BY <1>1 DEF Recycle, Panics
    <2> QED BY <1>0, <2>1
  <1>2. CASE Unused # {}
    <2>1. PICK b \in Unused : b = Oldest(Unused)
      BY <1>2, OldestUnused DEF IInv
    <2>2. b \in Buf /\ Users(buf, b) = {} /\ b \notin pinned /\ locked[b] = None
      BY UnusedFree
    <2>3. Takes(p, k, b)
      BY <1>2, <2>1, <2>2 DEF Recycle, Invalid, Goto, Takes
    <2> QED BY <1>0, <2>2, <2>3
  <1> QED BY <1>1, <1>2


(* A process that is not idle has the buffer of some block.                *)
LEMMA HasBuffer ==
  ASSUME IInv, NEW p \in Proc, pc[p] # "idle"
  PROVE  buf[p] \in Buf /\ blockno[buf[p]] \in Block /\ p \in Users(buf, buf[p])
  <1>1. buf[p] \in Buf
    BY DEF IInv, TypeInv, HoldInv
  <1>2. p \in Users(buf, buf[p])
    BY DEF Users
  <1> QED BY <1>1, <1>2 DEF IInv, TypeInv, BlockInv

(* A buffer that is pinned or that some process has is referred to.        *)
LEMMA Referred ==
  ASSUME IInv, NEW b \in Buf, b \in pinned \/ Users(buf, b) # {}
  PROVE  refcnt[b] \in Nat /\ refcnt[b] - 1 \in Nat
  <1>1. IsFiniteSet(Users(buf, b)) /\ Cardinality(Users(buf, b)) \in Nat
    BY FS_CardinalityType DEF IInv, RefInv, Counted
  <1>2. refcnt[b] = Cardinality(Users(buf, b)) + (IF b \in pinned THEN 1 ELSE 0)
    BY DEF IInv, RefInv, Counted
  <1>3. Users(buf, b) # {} => Cardinality(Users(buf, b)) # 0
    BY <1>1, FS_EmptySet
  <1> QED BY <1>1, <1>2, <1>3

(* releasesleep is called by the holder, which wakes those who wait ...    *)
Releases(p) ==
    /\ buf[p] \in Buf /\ pc[p] = "use" /\ locked[buf[p]] = p
    /\ p \notin dirty /\ ~(p \in written /\ buf[p] \in pinned)
    /\ locked' = [locked EXCEPT ![buf[p]] = None]
    /\ pc' = [q \in Proc |-> IF q = p THEN "brelse"
                             ELSE IF pc[q] = "asleep" /\ buf[q] = buf[p] THEN "lock"
                             ELSE pc[q]]
    /\ written' = written \ {p}
    /\ UNCHANGED <<media, blockno, data, valid, refcnt, lru, pinned, buf, dirty, panicked>>

(* ... and so is bwrite; neither panics.                                   *)
Writes(p) ==
    /\ buf[p] \in Buf /\ pc[p] = "use" /\ p \notin written
    /\ pc' = [pc EXCEPT ![p] = "write"]
    /\ UNCHANGED <<media, blockno, data, valid, refcnt, locked, lru, pinned, buf, written,
                   dirty, panicked>>

(* acquiresleep sleeps, or takes the lock.                                 *)
Sleeps(p) ==
    /\ pc[p] = "lock" /\ buf[p] \in Buf /\ locked[buf[p]] # None
    /\ pc' = [pc EXCEPT ![p] = "asleep"]
    /\ UNCHANGED <<media, blockno, data, valid, refcnt, locked, lru, pinned, buf, written,
                   dirty, panicked>>

Locks(p, label) ==
    /\ pc[p] = "lock" /\ buf[p] \in Buf /\ locked[buf[p]] = None
    /\ label = (IF valid[buf[p]] THEN "use" ELSE "read")
    /\ locked' = [locked EXCEPT ![buf[p]] = p]
    /\ pc' = [pc EXCEPT ![p] = label]
    /\ UNCHANGED <<media, blockno, data, valid, refcnt, lru, pinned, buf, written,
                   dirty, panicked>>

(* See Releases. *)
LEMMA HolderReleases ==
  ASSUME IInv, NEW p \in Proc, ReleaseSleep(p)
  PROVE  Releases(p)
  <1>1. pc[p] = "use" /\ p \notin dirty /\ ~(p \in written /\ buf[p] \in pinned)
    BY DEF ReleaseSleep, At
  <1>2. buf[p] \in Buf /\ locked[buf[p]] = p
    BY <1>1, HasBuffer DEF IInv, HoldInv
  <1>3. /\ locked' = [locked EXCEPT ![buf[p]] = None]
        /\ pc' = [WakeLock(buf[p]) EXCEPT ![p] = "brelse"] /\ written' = written \ {p}
        /\ UNCHANGED <<media, blockno, data, valid, refcnt, lru, pinned, buf, dirty, panicked>>
    BY <1>2 DEF ReleaseSleep
  <1>4. pc' = [q \in Proc |-> IF q = p THEN "brelse"
                              ELSE IF pc[q] = "asleep" /\ buf[q] = buf[p] THEN "lock"
                              ELSE pc[q]]
    BY Zenon, <1>3 DEF WakeLock
  <1> QED BY <1>1, <1>2, <1>3, <1>4 DEF Releases

(* See Writes. *)
LEMMA HolderWrites ==
  ASSUME IInv, NEW p \in Proc, Bwrite(p)
  PROVE  Writes(p)
  <1>1. pc[p] = "use"
    BY DEF Bwrite, At
  <1>2. locked[buf[p]] = p /\ buf[p] \in Buf
    BY <1>1, HasBuffer DEF IInv, HoldInv
  <1> QED BY <1>1, <1>2 DEF Bwrite, Goto, Writes

(* See Sleeps and Locks. *)
LEMMA AcquireCases ==
  ASSUME IInv, NEW p \in Proc, AcquireSleep(p)
  PROVE  Sleeps(p) \/ \E label \in {"use", "read"} : Locks(p, label)
  <1>1. pc[p] = "lock" /\ buf[p] \in Buf
    BY HasBuffer DEF AcquireSleep, At
  <1>2. CASE locked[buf[p]] # None
    BY <1>1, <1>2 DEF AcquireSleep, Goto, Sleeps
  <1>3. CASE locked[buf[p]] = None
    <2>1. Locks(p, IF valid[buf[p]] THEN "use" ELSE "read")
      BY <1>1, <1>3 DEF AcquireSleep, Goto, Locks
    <2> QED BY <2>1
  <1> QED BY <1>2, <1>3
----------------------------------------------------------------------------
(* The invariants.                                                         *)

(* Every step keeps the types. *)
LEMMA TypeStep ==
  ASSUME IInv, [Next]_vars
  PROVE  TypeInv'
  <1>0. TypeInv
    BY DEF IInv
  <1> USE <1>0, BcacheAssumption
  <1>1. ASSUME NEW p \in Proc, NEW k \in Block, Hit(p, k) PROVE TypeInv'
    BY <1>1 DEF Hit, TypeInv, Label, At, Goto
  <1>2. ASSUME NEW p \in Proc, NEW k \in Block, Recycle(p, k) PROVE TypeInv'
    <2>1. CASE Panics
      BY <2>1 DEF Panics, TypeInv, Label, At, Goto
    <2>2. ASSUME NEW b \in Buf, Takes(p, k, b) PROVE TypeInv'
      BY <2>2 DEF Takes, TypeInv, Label, At, Goto
    <2> QED BY <1>2, <2>1, <2>2, RecycleUnused
  <1>3. ASSUME NEW p \in Proc, AcquireSleep(p) PROVE TypeInv'
    <2>1. CASE Sleeps(p)
      BY <2>1 DEF Sleeps, TypeInv, Label, At, Goto
    <2>2. ASSUME NEW label \in {"use", "read"}, Locks(p, label) PROVE TypeInv'
      BY <2>2 DEF Locks, TypeInv, Label, At, Goto
    <2> QED BY <1>3, <2>1, <2>2, AcquireCases
  <1>4. ASSUME NEW p \in Proc, DiskRead(p) PROVE TypeInv'
    BY Zenon, <1>4, HasBuffer DEF DiskRead, TypeInv, Label, At, Goto
  <1>5. ASSUME NEW p \in Proc, Change(p) PROVE TypeInv'
    BY <1>5, HasBuffer DEF Change, TypeInv, Label, At, Goto
  <1>6. ASSUME NEW p \in Proc, Bpin(p) PROVE TypeInv'
    <2>1. buf[p] \in Buf
      BY Zenon, <1>6, HasBuffer DEF Bpin, At
    <2>2. refcnt' \in [Buf -> Nat] /\ pinned' \subseteq Buf
      BY SMTT(30), <1>6, <2>1 DEF Bpin, TypeInv
    <2> QED BY Zenon, <1>6, <2>2 DEF Bpin, TypeInv
  <1>7. ASSUME NEW p \in Proc, Bwrite(p) PROVE TypeInv'
    <2>1. Writes(p)
      BY <1>7, HolderWrites
    <2> QED BY <2>1 DEF Writes, TypeInv, Label, At, Goto
  <1>8. ASSUME NEW p \in Proc, DiskWrite(p) PROVE TypeInv'
    BY Zenon, <1>8, HasBuffer DEF DiskWrite, TypeInv, Label, At, Goto
  <1>9. ASSUME NEW p \in Proc, Bunpin(p) PROVE TypeInv'
    <2>1. buf[p] \in Buf /\ refcnt[buf[p]] - 1 \in Nat
      BY Zenon, <1>9, HasBuffer, Referred DEF Bunpin, At
    <2> QED BY Zenon, <1>9, <2>1 DEF Bunpin, TypeInv
  <1>10. ASSUME NEW p \in Proc, ReleaseSleep(p) PROVE TypeInv'
    <2>1. Releases(p)
      BY <1>10, HolderReleases
    <2> QED BY Zenon, <2>1 DEF Releases, TypeInv, Label, At, Goto
  <1>11. ASSUME NEW p \in Proc, Brelse(p) PROVE TypeInv'
    <2>1. buf[p] \in Buf /\ refcnt[buf[p]] - 1 \in Nat
      BY Zenon, <1>11, HasBuffer, Referred DEF Brelse, At
    <2>2. lru' \in Surjection(1 .. Cardinality(Buf), Buf)
      BY Zenon, <1>11, <2>1, ToFrontType DEF Brelse, TypeInv
    <2> QED BY Zenon, <1>11, <2>1, <2>2 DEF Brelse, Drop, Goto, TypeInv, Label
  <1>12. CASE UNCHANGED vars
    BY <1>12 DEF vars, TypeInv, Label, At, Goto
  <1> QED BY <1>1, <1>2, <1>3, <1>4, <1>5, <1>6, <1>7, <1>8, <1>9, <1>10, <1>11, <1>12 DEF Next

(* Who has a buffer, who holds its lock, and who may use its data. *)
LEMMA HoldStep ==
  ASSUME IInv, [Next]_vars
  PROVE  (HoldInv /\ ValidInv)'
  <1>0. TypeInv /\ HoldInv /\ ValidInv
    BY DEF IInv
  <1> USE <1>0, BcacheAssumption
  <1>1. ASSUME NEW p \in Proc, NEW k \in Block, Hit(p, k) PROVE (HoldInv /\ ValidInv)'
    BY <1>1 DEF Hit, TypeInv, HoldInv, ValidInv, Label, At, Goto
  <1>2. ASSUME NEW p \in Proc, NEW k \in Block, Recycle(p, k) PROVE (HoldInv /\ ValidInv)'
    <2>1. CASE Panics
      BY Zenon, <2>1 DEF Panics, HoldInv, ValidInv
    <2>2. ASSUME NEW b \in Buf, Takes(p, k, b) PROVE (HoldInv /\ ValidInv)'
      <3>1. pc[p] = "idle"
        BY <1>2, RecycleUnused
      <3> QED BY <2>2, <3>1 DEF Takes, TypeInv, HoldInv, ValidInv, Users
    <2> QED BY <1>2, <2>1, <2>2, RecycleUnused
  <1>3. ASSUME NEW p \in Proc, AcquireSleep(p) PROVE (HoldInv /\ ValidInv)'
    <2>1. CASE Sleeps(p)
      BY <2>1 DEF Sleeps, TypeInv, HoldInv, ValidInv, Label, At, Goto
    <2>2. ASSUME NEW label \in {"use", "read"}, Locks(p, label) PROVE (HoldInv /\ ValidInv)'
      BY <2>2 DEF Locks, TypeInv, HoldInv, ValidInv, Label, At, Goto
    <2> QED BY <1>3, <2>1, <2>2, AcquireCases
  <1>4. ASSUME NEW p \in Proc, DiskRead(p) PROVE (HoldInv /\ ValidInv)'
    BY <1>4, HasBuffer DEF DiskRead, TypeInv, HoldInv, ValidInv, Label, At, Goto
  <1>5. ASSUME NEW p \in Proc, Change(p) PROVE (HoldInv /\ ValidInv)'
    BY Zenon, <1>5, HasBuffer DEF Change, TypeInv, HoldInv, ValidInv, Label, At, Goto
  <1>6. ASSUME NEW p \in Proc, Bpin(p) PROVE (HoldInv /\ ValidInv)'
    BY Zenon, <1>6, HasBuffer DEF Bpin, TypeInv, HoldInv, ValidInv, Label, At, Goto
  <1>7. ASSUME NEW p \in Proc, Bwrite(p) PROVE (HoldInv /\ ValidInv)'
    <2>1. Writes(p)
      BY <1>7, HolderWrites
    <2> QED BY <2>1 DEF Writes, TypeInv, HoldInv, ValidInv, Label, At, Goto
  <1>8. ASSUME NEW p \in Proc, DiskWrite(p) PROVE (HoldInv /\ ValidInv)'
    BY <1>8, HasBuffer DEF DiskWrite, TypeInv, HoldInv, ValidInv, Label, At, Goto
  <1>9. ASSUME NEW p \in Proc, Bunpin(p) PROVE (HoldInv /\ ValidInv)'
    BY Zenon, <1>9, HasBuffer DEF Bunpin, TypeInv, HoldInv, ValidInv, Label, At, Goto
  <1>10. ASSUME NEW p \in Proc, ReleaseSleep(p) PROVE (HoldInv /\ ValidInv)'
    <2>1. Releases(p)
      BY <1>10, HolderReleases
    <2> QED BY <2>1 DEF Releases, TypeInv, HoldInv, ValidInv, Label, At, Goto
  <1>11. ASSUME NEW p \in Proc, Brelse(p) PROVE (HoldInv /\ ValidInv)'
    BY <1>11, HasBuffer DEF Brelse, TypeInv, HoldInv, ValidInv, Label, At, Goto
  <1>12. CASE UNCHANGED vars
    BY Zenon, <1>12 DEF vars, TypeInv, HoldInv, ValidInv, Label, At, Goto
  <1> QED BY <1>1, <1>2, <1>3, <1>4, <1>5, <1>6, <1>7, <1>8, <1>9, <1>10, <1>11, <1>12 DEF Next

(* Which blocks the buffers belong to. *)
LEMMA BlockStep ==
  ASSUME IInv, [Next]_vars
  PROVE  BlockInv'
  <1>0. TypeInv /\ BlockInv
    BY DEF IInv
  <1> USE <1>0, BcacheAssumption
  <1>1. ASSUME NEW p \in Proc, NEW k \in Block, Hit(p, k) PROVE BlockInv'
    BY <1>1 DEF Hit, TypeInv, BlockInv, Users, Label, At, Goto
  <1>2. ASSUME NEW p \in Proc, NEW k \in Block, Recycle(p, k) PROVE BlockInv'
    <2>1. CASE Panics
      BY Zenon, <2>1 DEF Panics, BlockInv, Users
    <2>2. ASSUME NEW b \in Buf, Takes(p, k, b) PROVE BlockInv'
      <3>1. \A c \in Buf : blockno[c] # k
        BY <1>2, RecycleUnused
      <3> QED BY <2>2, <3>1 DEF Takes, TypeInv, BlockInv, Users
    <2> QED BY <1>2, <2>1, <2>2, RecycleUnused
  <1>3. ASSUME NEW p \in Proc, AcquireSleep(p) PROVE BlockInv'
    <2>1. CASE Sleeps(p)
      BY <2>1 DEF Sleeps, TypeInv, BlockInv, Users, Label, At, Goto
    <2>2. ASSUME NEW label \in {"use", "read"}, Locks(p, label) PROVE BlockInv'
      BY <2>2 DEF Locks, TypeInv, BlockInv, Users, Label, At, Goto
    <2> QED BY <1>3, <2>1, <2>2, AcquireCases
  <1>4. ASSUME NEW p \in Proc, DiskRead(p) PROVE BlockInv'
    BY <1>4, HasBuffer DEF DiskRead, TypeInv, BlockInv, Users, Label, At, Goto
  <1>5. ASSUME NEW p \in Proc, Change(p) PROVE BlockInv'
    BY <1>5 DEF Change, TypeInv, BlockInv, Users, Label, At, Goto
  <1>6. ASSUME NEW p \in Proc, Bpin(p) PROVE BlockInv'
    BY <1>6 DEF Bpin, TypeInv, BlockInv, Users, Label, At, Goto
  <1>7. ASSUME NEW p \in Proc, Bwrite(p) PROVE BlockInv'
    <2>1. Writes(p)
      BY <1>7, HolderWrites
    <2> QED BY Zenon, <2>1 DEF Writes, TypeInv, BlockInv, Users, Label, At, Goto
  <1>8. ASSUME NEW p \in Proc, DiskWrite(p) PROVE BlockInv'
    BY Zenon, <1>8 DEF DiskWrite, TypeInv, BlockInv, Users, Label, At, Goto
  <1>9. ASSUME NEW p \in Proc, Bunpin(p) PROVE BlockInv'
    BY ZenonT(30), <1>9 DEF Bunpin, TypeInv, BlockInv, Users, Label, At, Goto
  <1>10. ASSUME NEW p \in Proc, ReleaseSleep(p) PROVE BlockInv'
    <2>1. Releases(p)
      BY <1>10, HolderReleases
    <2> QED BY <2>1 DEF Releases, TypeInv, BlockInv, Users, Label, At, Goto
  <1>11. ASSUME NEW p \in Proc, Brelse(p) PROVE BlockInv'
    BY <1>11 DEF Brelse, TypeInv, BlockInv, Users, Label, At, Goto
  <1>12. CASE UNCHANGED vars
    BY ZenonT(30), <1>12 DEF vars, TypeInv, BlockInv, Users, Label, At, Goto
  <1> QED BY <1>1, <1>2, <1>3, <1>4, <1>5, <1>6, <1>7, <1>8, <1>9, <1>10, <1>11, <1>12 DEF Next

(* What is on the disk. *)
LEMMA SyncStep ==
  ASSUME IInv, [Next]_vars
  PROVE  SyncInv'
  <1>0. TypeInv /\ HoldInv /\ BlockInv /\ ValidInv /\ SyncInv
    BY DEF IInv
  <1> USE <1>0, BcacheAssumption
  <1>1. ASSUME NEW p \in Proc, NEW k \in Block, Hit(p, k) PROVE SyncInv'
    <2>1. \A q \in dirty \cup written : buf'[q] = buf[q]
      BY <1>1 DEF Hit, At, HoldInv, TypeInv
    <2> QED BY <1>1, <2>1 DEF Hit, SyncInv
  <1>2. ASSUME NEW p \in Proc, NEW k \in Block, Recycle(p, k) PROVE SyncInv'
    <2>1. CASE Panics
      BY Zenon, <2>1 DEF Panics, SyncInv
    <2>2. ASSUME NEW b \in Buf, Takes(p, k, b) PROVE SyncInv'
      <3>1. pc[p] = "idle"
        BY <1>2, RecycleUnused
      <3> QED BY <2>2, <3>1 DEF Takes, TypeInv, HoldInv, SyncInv, Users
    <2> QED BY Zenon, <1>2, <2>1, <2>2, RecycleUnused
  <1>3. ASSUME NEW p \in Proc, AcquireSleep(p) PROVE SyncInv'
    <2>1. CASE Sleeps(p)
      BY <2>1 DEF Sleeps, TypeInv, HoldInv, ValidInv, BlockInv, SyncInv, Label, At, Goto
    <2>2. ASSUME NEW label \in {"use", "read"}, Locks(p, label) PROVE SyncInv'
      BY <2>2 DEF Locks, TypeInv, HoldInv, ValidInv, BlockInv, SyncInv, Label, At, Goto
    <2> QED BY <1>3, <2>1, <2>2, AcquireCases
  <1>4. ASSUME NEW p \in Proc, DiskRead(p) PROVE SyncInv'
    BY <1>4, HasBuffer DEF DiskRead, TypeInv, HoldInv, ValidInv, BlockInv, SyncInv, Label, At,
       Goto
  <1>5. ASSUME NEW p \in Proc, Change(p) PROVE SyncInv'
    BY SMTT(30), <1>5, HasBuffer DEF Change, TypeInv, HoldInv, ValidInv, BlockInv, SyncInv, Label, At, Goto
  <1>6. ASSUME NEW p \in Proc, Bpin(p) PROVE SyncInv'
    BY <1>6, HasBuffer DEF Bpin, TypeInv, HoldInv, ValidInv, BlockInv, SyncInv, Label, At, Goto
  <1>7. ASSUME NEW p \in Proc, Bwrite(p) PROVE SyncInv'
    <2>1. Writes(p)
      BY SMTT(30), <1>7, HolderWrites
    <2> QED BY <2>1 DEF Writes, TypeInv, HoldInv, ValidInv, BlockInv, SyncInv, Label, At, Goto
  <1>8. ASSUME NEW p \in Proc, DiskWrite(p) PROVE SyncInv'
    BY <1>8, HasBuffer DEF DiskWrite, TypeInv, HoldInv, ValidInv, BlockInv, SyncInv, Label, At,
       Goto
  <1>9. ASSUME NEW p \in Proc, Bunpin(p) PROVE SyncInv'
    BY <1>9, HasBuffer DEF Bunpin, TypeInv, HoldInv, ValidInv, BlockInv, SyncInv, Label, At, Goto
  <1>10. ASSUME NEW p \in Proc, ReleaseSleep(p) PROVE SyncInv'
    <2>1. Releases(p)
      BY <1>10, HolderReleases
    <2> QED BY <2>1 DEF Releases, TypeInv, HoldInv, ValidInv, BlockInv, SyncInv, Label, At, Goto
  <1>11. ASSUME NEW p \in Proc, Brelse(p) PROVE SyncInv'
    BY <1>11, HasBuffer DEF Brelse, TypeInv, HoldInv, ValidInv, BlockInv, SyncInv, Label, At, Goto
  <1>12. CASE UNCHANGED vars
    BY ZenonT(30), <1>12 DEF vars, TypeInv, HoldInv, ValidInv, BlockInv, SyncInv, Label, At, Goto
  <1> QED BY <1>1, <1>2, <1>3, <1>4, <1>5, <1>6, <1>7, <1>8, <1>9, <1>10, <1>11, <1>12 DEF Next

(* A buffer gets or loses a reference, and the others keep theirs.          *)
LEMMA RefChange ==
  ASSUME IInv, NEW b \in Buf, NEW n, refcnt' = [refcnt EXCEPT ![b] = n],
         Counted(Users(buf', b), n, b \in pinned'),
         \A c \in Buf \ {b} : Users(buf', c) = Users(buf, c) /\ (c \in pinned' <=> c \in pinned)
  PROVE  RefInv'
  <1>1. refcnt'[b] = n /\ \A c \in Buf \ {b} : refcnt'[c] = refcnt[c]
    BY Zenon DEF IInv, TypeInv
  <1>2. \A c \in Buf \ {b} : Counted(Users(buf', c), refcnt'[c], c \in pinned')
    BY Zenon, <1>1 DEF IInv, RefInv, Counted
  <1> QED BY <1>1, <1>2 DEF RefInv

(* The references of a buffer are a number. *)
LEMMA RefNat ==
  ASSUME IInv, NEW b \in Buf
  PROVE  /\ IsFiniteSet(Users(buf, b)) /\ Cardinality(Users(buf, b)) \in Nat
         /\ refcnt[b] = Cardinality(Users(buf, b)) + (IF b \in pinned THEN 1 ELSE 0)
  BY FS_CardinalityType DEF IInv, RefInv, Counted

(* The reference counts, at every bget, brelse, bpin and bunpin. *)
LEMMA RefStep ==
  ASSUME IInv, [Next]_vars
  PROVE  RefInv'
  <1>13. UNCHANGED <<buf, refcnt, pinned>> => RefInv'
    BY DEF IInv, RefInv
  <1>1. ASSUME NEW p \in Proc, NEW k \in Block, Hit(p, k) PROVE RefInv'
    <2>1. PICK b \in Buf : /\ refcnt' = [refcnt EXCEPT ![b] = refcnt[b] + 1]
                           /\ buf' = [buf EXCEPT ![p] = b]
      BY Zenon, <1>1 DEF Hit
    <2>2. buf[p] = None /\ pinned' = pinned
      BY Zenon, <1>1 DEF Hit, At, IInv, HoldInv
    <2>3. /\ Users(buf', b) = Users(buf, b) \cup {p} /\ p \notin Users(buf, b)
          /\ \A c \in Buf \ {b} : Users(buf', c) = Users(buf, c)
      BY <2>1, <2>2, BcacheAssumption DEF IInv, TypeInv, Users
    <2>4. /\ IsFiniteSet(Users(buf', b))
          /\ Cardinality(Users(buf', b)) = Cardinality(Users(buf, b)) + 1
      BY <2>3, RefNat, FS_AddElement
    <2>5. Counted(Users(buf', b), refcnt[b] + 1, b \in pinned')
      BY <2>2, <2>4, RefNat DEF Counted
    <2> QED BY Zenon, <2>1, <2>2, <2>3, <2>5, RefChange
  <1>2. ASSUME NEW p \in Proc, NEW k \in Block, Recycle(p, k) PROVE RefInv'
    <2>1. CASE Panics
      BY <1>13, <2>1 DEF Panics
    <2>2. ASSUME NEW b \in Buf, Takes(p, k, b) PROVE RefInv'
      <3>1. buf[p] = None
        BY Zenon, <1>2, RecycleUnused DEF IInv, HoldInv
      <3>2. Users(buf', b) = {p} /\ \A c \in Buf \ {b} : Users(buf', c) = Users(buf, c)
        BY <2>2, <3>1, BcacheAssumption DEF IInv, TypeInv, Users, Takes
      <3>3. IsFiniteSet({p}) /\ Cardinality({p}) = 1
        BY FS_Singleton
      <3>4. pinned' = pinned /\ b \notin pinned' /\ refcnt' = [refcnt EXCEPT ![b] = 1]
        BY Zenon, <2>2 DEF Takes
      <3>5. Counted(Users(buf', b), 1, b \in pinned')
        BY <3>2, <3>3, <3>4 DEF Counted
      <3> QED BY Zenon, <3>2, <3>4, <3>5, RefChange
    <2> QED BY <1>2, <2>1, <2>2, RecycleUnused
  <1>3. ASSUME NEW p \in Proc, AcquireSleep(p) PROVE RefInv'
    BY Zenon, <1>3, <1>13 DEF AcquireSleep
  <1>4. ASSUME NEW p \in Proc, DiskRead(p) PROVE RefInv'
    BY Zenon, <1>4, <1>13 DEF DiskRead
  <1>5. ASSUME NEW p \in Proc, Change(p) PROVE RefInv'
    BY Zenon, <1>5, <1>13 DEF Change
  <1>6. ASSUME NEW p \in Proc, Bpin(p) PROVE RefInv'
    <2>1. PICK b \in Buf : b = buf[p]
      BY Zenon, <1>6, HasBuffer DEF Bpin, At
    <2>2. CASE b \in pinned
      BY Zenon, <1>6, <1>13, <2>1, <2>2 DEF Bpin
    <2>3. CASE b \notin pinned
      <3>1. /\ refcnt' = [refcnt EXCEPT ![b] = refcnt[b] + 1] /\ pinned' = pinned \cup {b}
            /\ buf' = buf
        BY Zenon, <1>6, <2>1, <2>3 DEF Bpin
      <3>2. Counted(Users(buf, b), refcnt[b] + 1, b \in pinned')
        BY <2>3, <3>1, RefNat DEF Counted
      <3> QED BY Zenon, <3>1, <3>2, RefChange
    <2> QED BY <2>2, <2>3
  <1>7. ASSUME NEW p \in Proc, Bwrite(p) PROVE RefInv'
    BY Zenon, <1>7, <1>13 DEF Bwrite
  <1>8. ASSUME NEW p \in Proc, DiskWrite(p) PROVE RefInv'
    BY Zenon, <1>8, <1>13 DEF DiskWrite
  <1>9. ASSUME NEW p \in Proc, Bunpin(p) PROVE RefInv'
    <2>1. PICK b \in Buf : b = buf[p]
      BY Zenon, <1>9, HasBuffer DEF Bunpin, At
    <2>2. /\ refcnt' = [refcnt EXCEPT ![b] = refcnt[b] - 1] /\ pinned' = pinned \ {b}
          /\ b \in pinned /\ buf' = buf
      BY Zenon, <1>9, <2>1 DEF Bunpin
    <2>3. Counted(Users(buf, b), refcnt[b] - 1, b \in pinned')
      BY <2>2, RefNat DEF Counted
    <2> QED BY Zenon, <2>2, <2>3, RefChange
  <1>10. ASSUME NEW p \in Proc, ReleaseSleep(p) PROVE RefInv'
    BY Zenon, <1>10, <1>13 DEF ReleaseSleep
  <1>11. ASSUME NEW p \in Proc, Brelse(p) PROVE RefInv'
    <2>1. PICK b \in Buf : b = buf[p] /\ p \in Users(buf, b)
      BY Zenon, <1>11, HasBuffer DEF Brelse, At
    <2>2. /\ refcnt' = [refcnt EXCEPT ![b] = refcnt[b] - 1] /\ pinned' = pinned
          /\ buf' = [buf EXCEPT ![p] = None]
      BY Zenon, <1>11, <2>1 DEF Brelse, Drop
    <2>3. /\ Users(buf', b) = Users(buf, b) \ {p}
          /\ \A c \in Buf \ {b} : Users(buf', c) = Users(buf, c)
      BY Zenon, <2>1, <2>2, BcacheAssumption DEF IInv, TypeInv, Users
    <2>4. /\ IsFiniteSet(Users(buf', b))
          /\ Cardinality(Users(buf', b)) = Cardinality(Users(buf, b)) - 1
      BY SMTT(30), <2>1, <2>3, RefNat, FS_RemoveElement
    <2>5. Counted(Users(buf', b), refcnt[b] - 1, b \in pinned')
      BY <2>2, <2>4, RefNat DEF Counted
    <2> QED BY Zenon, <2>2, <2>3, <2>5, RefChange
  <1>12. CASE UNCHANGED vars
    BY <1>12, <1>13 DEF vars
  <1> QED BY Zenon, <1>1, <1>2, <1>3, <1>4, <1>5, <1>6, <1>7, <1>8, <1>9, <1>10, <1>11, <1>12 DEF Next

(* The cache starts with free buffers.                                     *)
LEMMA InitInv == Init => IInv
  <1> SUFFICES ASSUME Init PROVE IInv
    OBVIOUS
  <1>1. TypeInv
    <2>1. lru \in Surjection(1 .. Cardinality(Buf), Buf)
      BY Zenon DEF Init, Bijection
    <2> QED BY Zenon, <2>1, BcacheAssumption DEF Init, TypeInv, Label
  <1>2. HoldInv /\ BlockInv /\ ValidInv /\ SyncInv
    BY Zenon, BcacheAssumption DEF Init, HoldInv, BlockInv, ValidInv, SyncInv, Users
  <1>3. RefInv
    <2>1. \A b \in Buf : Users(buf, b) = {}
      BY Zenon, BcacheAssumption DEF Init, Users
    <2>2. IsFiniteSet({}) /\ Cardinality({}) = 0
      BY FS_EmptySet
    <2>3. \A b \in Buf : refcnt[b] = 0 /\ b \notin pinned
      BY Zenon DEF Init
    <2> QED BY <2>1, <2>2, <2>3 DEF RefInv, Counted
  <1> QED BY <1>1, <1>2, <1>3 DEF IInv

(* All together.                                                           *)
LEMMA CacheInv == Spec => []IInv
  <1>1. IInv /\ [Next]_vars => IInv'
    BY TypeStep, HoldStep, BlockStep, SyncStep, RefStep DEF IInv
  <1> QED BY <1>1, InitInv, PTL DEF Spec

(* No wakeup is lost: whoever sleeps in acquiresleep sleeps for a process  *)
(* that holds the buffer and has its releasesleep still to come.           *)
THEOREM CacheSleeperHasWaker == Spec => []SleeperHasWaker
  <1>1. IInv => SleeperHasWaker
    <2> SUFFICES ASSUME IInv, NEW p \in Proc, pc[p] = "asleep"
                 PROVE  \E q \in Proc \ {p} : /\ locked[buf[p]] = q /\ buf[q] = buf[p]
                                             /\ pc[q] \in {"read", "use", "write"}
      BY DEF SleeperHasWaker
    <2>1. TypeInv /\ HoldInv
      BY DEF IInv
    <2>2. buf[p] \in Buf /\ locked[buf[p]] # None
      BY Zenon, <2>1, HasBuffer DEF HoldInv
    <2> QED BY <2>1, <2>2 DEF TypeInv, HoldInv
  <1> QED BY <1>1, CacheInv, PTL
=============================================================================
