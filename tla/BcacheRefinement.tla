-------------------------- MODULE BcacheRefinement --------------------------
(***************************************************************************)
(* The buffer cache (kernel/bio.c) implements BlockStore: whatever buffers *)
(* are recycled, read and written back, a caller of bread sees one current *)
(* value of every block and has the block to itself until brelse.          *)
(***************************************************************************)
EXTENDS BcacheProofs

(* The value and the user of a block are those of the one valid buffer     *)
(* that caches it; without one the value is on the disk.                   *)
Shown ==
    /\ Current = [k \in Block |-> Current[k]] /\ User = [k \in Block |-> User[k]]
    /\ \A b \in Buf : valid[b] => /\ blockno[b] \in Block
                                  /\ Current[blockno[b]] = data[b]
                                  /\ User[blockno[b]] = locked[b]
    /\ \A k \in Block : (\A b \in Buf : blockno[b] = k => ~valid[b])
                           => Current[k] = media[k] /\ User[k] = None

(* See Shown. *)
LEMMA OneCopy == IInv => Shown
  <1> SUFFICES ASSUME IInv PROVE Shown
    OBVIOUS
  <1>1. ASSUME NEW b \in Buf, valid[b]
        PROVE  /\ blockno[b] \in Block /\ Current[blockno[b]] = data[b]
               /\ User[blockno[b]] = locked[b]
    <2>1. blockno[b] \in Block
      BY <1>1 DEF IInv, TypeInv, BlockInv
    <2>2. Caching(blockno[b]) = {b}
      BY <1>1, <2>1, BcacheAssumption DEF Caching, IInv, BlockInv
    <2>3. (CHOOSE c \in Caching(blockno[b]) : TRUE) = b
      BY <2>2
    <2> QED BY <2>1, <2>2, <2>3 DEF Current, User, Of
  <1>2. ASSUME NEW k \in Block, \A b \in Buf : blockno[b] = k => ~valid[b]
        PROVE  Current[k] = media[k] /\ User[k] = None
    <2>1. Caching(k) = {}
      BY <1>2 DEF Caching
    <2> QED BY <2>1 DEF Current, User, Of
  <1>3. Current = [k \in Block |-> Current[k]] /\ User = [k \in Block |-> User[k]]
    BY DEF Current, User
  <1> QED BY <1>1, <1>2, <1>3 DEF Shown

(* Nothing that BlockStore knows of has changed. *)
Stutter == UNCHANGED <<Current, User>>

(* A step that changes no data of a valid buffer, no lock of one, and      *)
(* neither what is cached nor the disk is not seen.                        *)
LEMMA SameShown ==
  ASSUME IInv, IInv', UNCHANGED <<media, blockno, valid, data>>,
         \A b \in Buf : valid[b] => locked'[b] = locked[b]
  PROVE  Stutter
  <1>1. Shown /\ Shown'
    BY OneCopy, PTL
  <1>2. ASSUME NEW k \in Block PROVE Current'[k] = Current[k] /\ User'[k] = User[k]
    <2>1. CASE \E b \in Buf : blockno[b] = k /\ valid[b]
      BY <1>1, <2>1 DEF Shown
    <2>2. CASE \A b \in Buf : blockno[b] = k => ~valid[b]
      BY <1>1, <2>2 DEF Shown
    <2> QED BY <2>1, <2>2
  <1> QED BY <1>1, <1>2 DEF Shown, Stutter

(* A step that changes one buffer is not seen at other blocks.             *)
LEMMA Elsewhere ==
  ASSUME IInv, IInv', NEW b \in Buf, UNCHANGED <<blockno, media>>,
         \A c \in Buf \ {b} : /\ valid'[c] = valid[c] /\ data'[c] = data[c]
                             /\ locked'[c] = locked[c]
  PROVE  \A l \in Block : l # blockno[b] => Current'[l] = Current[l] /\ User'[l] = User[l]
  <1> SUFFICES ASSUME NEW l \in Block, l # blockno[b]
               PROVE  Current'[l] = Current[l] /\ User'[l] = User[l]
    OBVIOUS
  <1>1. Shown /\ Shown'
    BY OneCopy, PTL
  <1>2. CASE \E c \in Buf : blockno[c] = l /\ valid[c]
    <2>1. PICK c \in Buf \ {b} : blockno[c] = l /\ valid[c]
      BY <1>2
    <2>2. Current[l] = data[c] /\ User[l] = locked[c]
      BY Zenon, <1>1, <2>1 DEF Shown
    <2>3. valid'[c] /\ blockno'[c] = l
      BY <2>1
    <2>4. Current'[l] = data'[c] /\ User'[l] = locked'[c]
      BY <1>1, <2>3 DEF Shown
    <2> QED BY <2>2, <2>4
  <1>3. CASE \A c \in Buf : blockno[c] = l => ~valid[c]
    <2>1. \A c \in Buf : blockno'[c] = l => ~valid'[c]
      BY <1>3
    <2> QED BY <1>1, <1>3, <2>1 DEF Shown
  <1> QED BY <1>2, <1>3

(* The step of BlockStore, if any, that a step of the cache is.            *)
Seen == [Store!Next]_<<Current, User>>

(* Every step of the cache is a step of the store, or none.                *)
LEMMA StoreStep == IInv /\ IInv' /\ [Next]_vars => Seen
  <1> SUFFICES ASSUME IInv, IInv', [Next]_vars PROVE Seen
    OBVIOUS
  <1>0. Shown /\ Shown'
    BY OneCopy, PTL
  <1>13. Stutter => Seen
    BY DEF Stutter, Seen
  <1>14. UNCHANGED <<media, blockno, valid, data, locked>> => Seen
    BY <1>13, SameShown
  <1>1. ASSUME NEW p \in Proc, NEW k \in Block, Hit(p, k) PROVE Seen
    BY <1>1, <1>14 DEF Hit
  <1>2. ASSUME NEW p \in Proc, NEW k \in Block, Recycle(p, k) PROVE Seen
    <2>1. CASE Panics
      BY <1>14, <2>1 DEF Panics
    <2>2. CASE \E b \in Buf : Takes(p, k, b)
      <3>1. PICK b \in Buf : Takes(p, k, b)
        BY <2>2
      <3>2. \A c \in Buf : blockno[c] # k
        BY <1>2, RecycleUnused
      <3>3. valid[b] => data[b] = media[blockno[b]]
        <4>1. b \notin pinned /\ \A q \in dirty : buf[q] # b
          BY Zenon, <3>1 DEF Takes, Users, IInv, TypeInv
        <4> QED BY <4>1 DEF IInv, SyncInv
      <3>4. /\ blockno' = [blockno EXCEPT ![b] = k] /\ valid' = [valid EXCEPT ![b] = FALSE]
            /\ locked[b] = None /\ UNCHANGED <<media, data, locked>>
        BY <3>1 DEF Takes
      <3>5. ASSUME NEW l \in Block PROVE Current'[l] = Current[l] /\ User'[l] = User[l]
        <4>1. CASE \E c \in Buf \ {b} : blockno[c] = l /\ valid[c]
          <5>1. PICK c \in Buf \ {b} : blockno[c] = l /\ valid[c]
            BY <4>1
          <5>2. blockno'[c] = l /\ valid'[c]
            BY <3>4, <5>1 DEF IInv, TypeInv
          <5>3. Current[l] = data[c] /\ User[l] = locked[c]
            BY Zenon, <1>0, <5>1 DEF Shown
          <5>4. Current'[l] = data'[c] /\ User'[l] = locked'[c]
            BY <1>0, <5>2 DEF Shown
          <5> QED BY <3>4, <5>3, <5>4
        <4>2. CASE \A c \in Buf \ {b} : blockno[c] = l => ~valid[c]
          <5>1. \A c \in Buf : blockno'[c] = l => ~valid'[c]
            BY <3>4, <4>2 DEF IInv, TypeInv
          <5>2. Current'[l] = media[l] /\ User'[l] = None
            BY <1>0, <3>4, <5>1 DEF Shown
          <5>3. CASE valid[b] /\ blockno[b] = l
            BY Zenon, <1>0, <3>3, <3>4, <5>2, <5>3 DEF Shown
          <5>4. CASE ~(valid[b] /\ blockno[b] = l)
            BY <1>0, <4>2, <5>2, <5>4 DEF Shown
          <5> QED BY <5>3, <5>4
        <4> QED BY <4>1, <4>2
      <3>6. Stutter
        BY <1>0, <3>5 DEF Shown, Stutter
      <3> QED BY <1>13, <3>6
    <2> QED BY <1>2, <2>1, <2>2, RecycleUnused
  <1>3. ASSUME NEW p \in Proc, AcquireSleep(p) PROVE Seen
    <2>1. CASE Sleeps(p)
      BY <1>14, <2>1 DEF Sleeps
    <2>2. CASE \E label \in {"use", "read"} : Locks(p, label)
      <3>1. PICK b \in Buf : b = buf[p] /\ locked[b] = None
        BY <2>2 DEF Locks
      <3>2. locked' = [locked EXCEPT ![b] = p] /\ UNCHANGED <<media, blockno, valid, data>>
        BY <2>2, <3>1 DEF Locks
      <3>3. CASE ~valid[b]
        <4>1. \A c \in Buf : valid[c] => locked'[c] = locked[c]
          BY <3>2, <3>3 DEF IInv, TypeInv
        <4> QED BY <1>13, <3>2, <4>1, SameShown
      <3>4. CASE valid[b]
        <4>1. PICK k \in Block : k = blockno[b]
          BY Zenon, <1>0, <3>4 DEF Shown
        <4>2. User[k] = None /\ User'[k] = p /\ Current'[k] = Current[k]
          <5>1. User[k] = locked[b] /\ Current[k] = data[b]
            BY Zenon, <1>0, <3>4, <4>1 DEF Shown
          <5>2. valid'[b] /\ blockno'[b] = k /\ locked'[b] = p /\ data'[b] = data[b]
            BY <3>2, <3>4, <4>1 DEF IInv, TypeInv
          <5>3. User'[k] = locked'[b] /\ Current'[k] = data'[b]
            BY <1>0, <5>2 DEF Shown
          <5> QED BY Zenon, <3>1, <5>1, <5>2, <5>3
        <4>3. \A c \in Buf \ {b} : /\ valid'[c] = valid[c] /\ data'[c] = data[c]
                                  /\ locked'[c] = locked[c]
          BY Zenon, <3>2 DEF IInv, TypeInv
        <4>5. ASSUME NEW l \in Block \ {k} PROVE Current'[l] = Current[l] /\ User'[l] = User[l]
          BY <3>2, <4>1, <4>3, Elsewhere
        <4>4. Store!Get(p, k)
          BY <1>0, <4>2, <4>5 DEF Shown, Store!Get
        <4> QED BY <4>4 DEF Seen, Store!Next
      <3> QED BY <3>3, <3>4
    <2> QED BY <1>3, <2>1, <2>2, AcquireCases
  <1>4. ASSUME NEW p \in Proc, DiskRead(p) PROVE Seen
    <2>1. PICK b \in Buf : b = buf[p] /\ blockno[b] \in Block
      BY Zenon, <1>4, HasBuffer DEF DiskRead, At
    <2>2. locked[b] = p /\ ~valid[b]
      BY Zenon, <1>4, <2>1 DEF DiskRead, At, IInv, HoldInv, ValidInv
    <2>3. PICK k \in Block : k = blockno[b]
      BY <2>1
    <2>4. /\ data' = [data EXCEPT ![b] = media[k]] /\ valid' = [valid EXCEPT ![b] = TRUE]
          /\ UNCHANGED <<media, blockno, locked>>
      BY Zenon, <1>4, <2>1, <2>3 DEF DiskRead
    <2>5. \A c \in Buf \ {b} : blockno[c] # k
      BY Zenon, <2>3, BcacheAssumption DEF IInv, BlockInv
    <2>6. User[k] = None /\ Current[k] = media[k]
      BY <1>0, <2>2, <2>3, <2>5 DEF Shown
    <2>7. User'[k] = p /\ Current'[k] = media[k]
      <3>1. valid'[b] /\ data'[b] = media[k] /\ blockno'[b] = k /\ locked'[b] = p
        BY Zenon, <2>2, <2>3, <2>4 DEF IInv, TypeInv
      <3> QED BY <1>0, <3>1 DEF Shown
    <2>8. ASSUME NEW l \in Block \ {k} PROVE Current'[l] = Current[l] /\ User'[l] = User[l]
      <3>1. \A c \in Buf \ {b} : /\ valid'[c] = valid[c] /\ data'[c] = data[c]
                                /\ locked'[c] = locked[c]
        BY Zenon, <2>4 DEF IInv, TypeInv
      <3> QED BY Zenon, <2>3, <2>4, <3>1, Elsewhere
    <2>9. Store!Get(p, k)
      BY <1>0, <2>6, <2>7, <2>8 DEF Shown, Store!Get
    <2> QED BY <2>9 DEF Seen, Store!Next
  <1>5. ASSUME NEW p \in Proc, Change(p) PROVE Seen
    <2>1. PICK b \in Buf : b = buf[p]
      BY <1>5, HasBuffer DEF Change, At
    <2>2. locked[b] = p /\ valid[b]
      BY Zenon, <1>5, <2>1 DEF Change, At, IInv, HoldInv, ValidInv
    <2>3. PICK k \in Block : k = blockno[b]
      BY <1>0, <2>2 DEF Shown
    <2>4. PICK v \in Value : data' = [data EXCEPT ![b] = v]
      BY Zenon, <1>5, <2>1 DEF Change
    <2>5. UNCHANGED <<media, blockno, valid, locked>>
      BY <1>5 DEF Change
    <2>6. User[k] = p /\ User'[k] = p /\ Current'[k] = v
      <3>1. valid'[b] /\ data'[b] = v /\ blockno'[b] = k /\ locked'[b] = p
        BY Zenon, <2>2, <2>3, <2>4, <2>5 DEF IInv, TypeInv
      <3> QED BY SMTT(30), <1>0, <2>2, <2>3, <3>1 DEF Shown
    <2>7. ASSUME NEW l \in Block \ {k} PROVE Current'[l] = Current[l] /\ User'[l] = User[l]
      <3>1. \A c \in Buf \ {b} : /\ valid'[c] = valid[c] /\ data'[c] = data[c]
                                /\ locked'[c] = locked[c]
        BY Zenon, <2>4, <2>5 DEF IInv, TypeInv
      <3> QED BY Zenon, <2>3, <2>5, <3>1, Elsewhere
    <2>8. Store!Change(p, k)
      BY <1>0, <2>6, <2>7 DEF Shown, Store!Change
    <2> QED BY <2>8 DEF Seen, Store!Next
  <1>6. ASSUME NEW p \in Proc, Bpin(p) PROVE Seen
    BY <1>6, <1>14 DEF Bpin
  <1>7. ASSUME NEW p \in Proc, Bwrite(p) PROVE Seen
    BY <1>7, <1>14 DEF Bwrite
  <1>8. ASSUME NEW p \in Proc, DiskWrite(p) PROVE Seen
    <2>1. PICK b \in Buf : b = buf[p]
      BY Zenon, <1>8, HasBuffer DEF DiskWrite, At
    <2>2. valid[b] /\ media' = [media EXCEPT ![blockno[b]] = data[b]]
          /\ UNCHANGED <<data, blockno, valid, locked>>
      BY Zenon, <1>8, <2>1 DEF DiskWrite, At, IInv, ValidInv
    <2>3. ASSUME NEW l \in Block PROVE Current'[l] = Current[l] /\ User'[l] = User[l]
      <3>1. CASE \E c \in Buf : blockno[c] = l /\ valid[c]
        BY <1>0, <2>2, <3>1 DEF Shown
      <3>2. CASE \A c \in Buf : blockno[c] = l => ~valid[c]
        <4>1. media'[l] = media[l]
          BY Zenon, <2>2, <3>2 DEF IInv, TypeInv
        <4> QED BY <1>0, <2>2, <3>2, <4>1 DEF Shown
      <3> QED BY Zenon, <3>1, <3>2
    <2>4. Stutter
      BY Zenon, <1>0, <2>3 DEF Shown, Stutter
    <2> QED BY <1>13, <2>4
  <1>9. ASSUME NEW p \in Proc, Bunpin(p) PROVE Seen
    BY <1>9, <1>14 DEF Bunpin
  <1>10. ASSUME NEW p \in Proc, ReleaseSleep(p) PROVE Seen
    <2>1. PICK b \in Buf : b = buf[p] /\ locked[b] = p /\ pc[p] = "use"
      BY Zenon, <1>10, HolderReleases DEF Releases
    <2>2. valid[b]
      BY Zenon, <2>1 DEF IInv, ValidInv
    <2>3. locked' = [locked EXCEPT ![b] = None] /\ UNCHANGED <<media, data, blockno, valid>>
      BY Zenon, <1>10, <2>1, HolderReleases DEF Releases
    <2>4. PICK k \in Block : k = blockno[b]
      BY Zenon, <1>0, <2>2 DEF Shown
    <2>5. User[k] = p /\ User'[k] = None /\ Current'[k] = Current[k]
      <3>1. User[k] = locked[b] /\ Current[k] = data[b]
        BY Zenon, <1>0, <2>2, <2>4 DEF Shown
      <3>2. valid'[b] /\ blockno'[b] = k /\ locked'[b] = None /\ data'[b] = data[b]
        BY Zenon, <2>2, <2>3, <2>4 DEF IInv, TypeInv
      <3>3. User'[k] = locked'[b] /\ Current'[k] = data'[b]
        BY Zenon, <1>0, <3>2 DEF Shown
      <3> QED BY Zenon, <2>1, <3>1, <3>2, <3>3
    <2>6. ASSUME NEW l \in Block \ {k} PROVE Current'[l] = Current[l] /\ User'[l] = User[l]
      <3>1. \A c \in Buf \ {b} : /\ valid'[c] = valid[c] /\ data'[c] = data[c]
                                /\ locked'[c] = locked[c]
        BY Zenon, <2>3 DEF IInv, TypeInv
      <3> QED BY Zenon, <2>3, <2>4, <3>1, Elsewhere
    <2>7. Store!Put(p, k)
      BY Zenon, <1>0, <2>5, <2>6 DEF Shown, Store!Put
    <2> QED BY <2>7 DEF Seen, Store!Next
  <1>11. ASSUME NEW p \in Proc, Brelse(p) PROVE Seen
    BY <1>11, <1>14 DEF Brelse
  <1>12. CASE UNCHANGED vars
    BY <1>12, <1>14 DEF vars
  <1> QED BY <1>1, <1>2, <1>3, <1>4, <1>5, <1>6, <1>7, <1>8, <1>9, <1>10, <1>11, <1>12 DEF Next

(* The cache is one copy of every block, with one user at a time: no       *)
(* process ever sees an old value, whichever buffers were recycled since.  *)
THEOREM CacheImplementsBlockStore == Spec => ImplementsBlockStore
  <1>1. Init => Store!Init
    <2> SUFFICES ASSUME Init PROVE Store!Init
      OBVIOUS
    <2>1. Shown
      BY OneCopy, InitInv
    <2>2. \A k \in Block : Current[k] = media[k] /\ User[k] = None
      BY <2>1 DEF Shown, Init
    <2>3. media \in [Block -> Value]
      BY DEF Init
    <2> QED BY <2>1, <2>2, <2>3 DEF Shown, Store!Init
  <1> QED
    BY <1>1, CacheInv, StoreStep, PTL DEF Spec, Seen, ImplementsBlockStore, Store!Spec
=============================================================================
