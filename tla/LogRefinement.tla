--------------------------- MODULE LogRefinement ---------------------------
(***************************************************************************)
(* For any number of processes, blocks, contents and crashes, the log      *)
(* implements AtomicDisk.                                                  *)
(***************************************************************************)
EXTENDS LogProofs

(* A block is pinned from log_write until install_trans has written it;    *)
(* the cache agrees with the disk on every other block.                    *)
Uninstalled(i) == ~recovering /\ (com = "install" => i >= tail)

PinOK(b) ==
    /\ pin[b] \in {0, 1}
    /\ pin[b] = 1 <=> \E i \in DOMAIN lh : lh[i] = b /\ Uninstalled(i)
    /\ pin[b] = 1 => cache[b] # None
    /\ pin[b] = 0 => Contents(b) = disk[b]

PinInv == \A b \in Block : PinOK(b)

(* What the loops of write_log and install_trans have copied.              *)
CopyInv ==
    \A i \in DOMAIN lh :
        /\ com = "write_log" /\ i < tail => logblk[i] = Contents(lh[i])
        /\ com = "install" /\ ~recovering => logblk[i] = Contents(lh[i])
        /\ com = "install" /\ i < tail => disk[lh[i]] = logblk[i]

Inv == RunInv /\ PinInv /\ CopyInv

USE DEF Inv

(* A block that is not logged is not pinned.                               *)
LEMMA NotLogged ==
  ASSUME TypeInv, PinInv, NEW b \in Block, b \notin Range(lh)
  PROVE  pin[b] = 0
  BY DEF TypeInv, PinInv, PinOK, Uninstalled, Range

(* A logged block is pinned until it is installed; the others are as on    *)
(* the disk.                                                               *)
LEMMA PinInvStep == Inv /\ TypeInv' /\ HeadInv' /\ [Next]_vars => PinInv'
  <1> SUFFICES ASSUME Inv, TypeInv', HeadInv', [Next]_vars PROVE PinInv'
    OBVIOUS
  <1> USE DEF PinInv, PinOK, Uninstalled, Contents
  <1>1. ASSUME NEW p \in Proc, BeginOp(p) PROVE PinInv'
    BY <1>1 DEF BeginOp
  <1>2. ASSUME NEW p \in Proc, EndOp(p) PROVE PinInv'
    <2>1. com # "install" /\ com' # "install"
      BY <1>2, NoCommit DEF EndOp
    <2> QED
      BY <1>2, <2>1 DEF EndOp
  <1>3. ASSUME NEW p \in Proc, Finish(p) PROVE PinInv'
    BY <1>3 DEF Finish, Com
  <1>4. ASSUME NEW p \in Proc, NEW b \in Block, Write(p, b) PROVE PinInv'
    <2>1. com = "none" /\ ~recovering /\ com' = "none" /\ ~recovering'
      BY <1>4, NoCommit DEF Write
    <2>2. CASE UNCHANGED <<cache, lh, pin>>
      BY <1>4, <2>1, <2>2 DEF Write
    <2>3. ASSUME NEW v \in Value, cache' = [cache EXCEPT ![b] = v], LogWrite(b) PROVE PinInv'
      <3>1. v # None
        BY LogAssumption
      <3>2. CASE b \in Range(lh) /\ UNCHANGED <<lh, pin>>
        <4>1. pin[b] = 1
          BY <2>1, <3>2 DEF Range
        <4> QED
          BY <1>4, <2>1, <2>3, <3>1, <3>2, <4>1 DEF RunInv, TypeInv, Write
      <3>3. CASE b \notin Range(lh) /\ lh' = Append(lh, b) /\ pin' = [pin EXCEPT ![b] = @ + 1]
        <4>1. pin[b] = 0
          BY <3>3, NotLogged DEF RunInv
        <4>2. pin'[b] = 1 /\ cache'[b] # None /\ lh'[Len(lh')] = b /\ Len(lh') \in DOMAIN lh'
          BY <2>3, <3>1, <3>3, <4>1 DEF RunInv, TypeInv
        <4>3. ASSUME NEW c \in Block, c # b
              PROVE  /\ pin'[c] = pin[c] /\ cache'[c] = cache[c]
                     /\ (\E i \in DOMAIN lh' : lh'[i] = c) <=> (\E i \in DOMAIN lh : lh[i] = c)
          <5>1. /\ DOMAIN lh' = DOMAIN lh \cup {Len(lh) + 1} /\ lh'[Len(lh) + 1] = b
                /\ \A i \in DOMAIN lh : lh'[i] = lh[i]
            BY <3>3, Appended DEF RunInv
          <5>2. pin'[c] = pin[c] /\ cache'[c] = cache[c]
            BY <2>3, <3>3, <4>3 DEF RunInv, TypeInv
          <5> QED
            BY <4>3, <5>1, <5>2
        <4>4. ASSUME NEW c \in Block, c # b PROVE PinOK(c)'
          BY <1>4, <2>1, <4>3, <4>4 DEF Write
        <4>5. PinOK(b)'
          BY <2>1, <4>2
        <4> QED
          BY <4>4, <4>5
      <3> QED
        BY <2>3, <3>2, <3>3 DEF LogWrite
    <2> QED
      BY <1>4, <2>2, <2>3 DEF Write
  <1>5. ASSUME NEW b \in Block, Evict(b) PROVE PinInv'
    BY <1>5 DEF RunInv, TypeInv, Evict, log
  <1>6. CASE WriteLog
    BY Zenon, <1>6 DEF WriteLog, Com, log
  <1>7. CASE WriteHead
    BY <1>7 DEF RunInv, TypeInv, WriteHead, Com, log
  <1>8. CASE Install
    <2>1. PICK b \in Block :
          /\ com = "install" /\ tail \in DOMAIN lh /\ b = lh[tail]
          /\ logblk[tail] \in Value /\ logblk[tail] # None
          /\ ~recovering => pin[b] = 1
      BY <1>8, InstallBlock, LogAssumption DEF RunInv, Install, Com
    <2>2. \A i \in DOMAIN lh : lh[i] = b => i = tail
      BY <2>1 DEF RunInv, HeadInv, IsInjective
    <2>3. pin'[b] = 0
      BY <1>8, <2>1 DEF RunInv, TypeInv, Install, Unpin
    <2>4. ASSUME NEW c \in Block, c # b
          PROVE  pin'[c] = pin[c] /\ cache'[c] = cache[c] /\ disk'[c] = disk[c]
      BY <1>8, <2>1, <2>4 DEF RunInv, TypeInv, Install, Unpin
    <2>5. cache'[b] = logblk[tail] /\ disk'[b] = logblk[tail]
      BY Zenon, <1>8, <2>1 DEF RunInv, TypeInv, Install
    <2>6. \A i \in DOMAIN lh : i >= tail <=> i = tail \/ i >= tail + 1
      BY Positions DEF RunInv
    <2>7. com' = com /\ recovering' = recovering /\ lh' = lh /\ tail' = tail + 1
      BY <1>8 DEF Install, log
    <2>8. ASSUME NEW c \in Block, c # b PROVE PinOK(c)'
      BY <2>1, <2>4, <2>6, <2>7, <2>8
    <2>9. PinOK(b)'
      <3>1. ~\E i \in DOMAIN lh : lh[i] = b /\ i >= tail + 1
        BY <2>2 DEF RunInv, TypeInv
      <3> QED
        BY <2>1, <2>3, <2>5, <2>7, <3>1
    <2> QED
      BY <2>8, <2>9
  <1>9. CASE ClearHead
    <2>1. \A b \in Block : pin[b] = 0
      BY <1>9 DEF RunInv, TypeInv, ClearHead, Com
    <2> QED
      BY <1>9, <2>1 DEF ClearHead
  <1>10. CASE Crash
    BY <1>10 DEF Crash
  <1>11. CASE UNCHANGED vars
    BY Zenon, <1>11 DEF vars, log
  <1> QED
    BY Zenon, Steps, <1>1, <1>2, <1>3, <1>4, <1>5, <1>6, <1>7, <1>8, <1>9, <1>10, <1>11

(* What write_log copied is what the system calls see, and what            *)
(* install_trans copied is what is logged.                                 *)
LEMMA CopyInvStep == Inv /\ TypeInv' /\ [Next]_vars => CopyInv'
  <1> SUFFICES ASSUME Inv, TypeInv', [Next]_vars PROVE CopyInv'
    OBVIOUS
  <1> USE DEF CopyInv
  <1>1. ASSUME NEW p \in Proc, BeginOp(p) PROVE CopyInv'
    BY Zenon, <1>1 DEF BeginOp, Contents
  <1>2. ASSUME NEW p \in Proc, EndOp(p) PROVE CopyInv'
    <2>1. com = "none" /\ com' \in {"none", "write_log"} /\ (com' = "write_log" => tail' = 1)
      BY Zenon, <1>2, NoCommit DEF EndOp
    <2> QED
      BY <2>1 DEF TypeInv
  <1>3. ASSUME NEW p \in Proc, Finish(p) PROVE CopyInv'
    BY Zenon, <1>3 DEF Finish
  <1>4. ASSUME NEW p \in Proc, NEW b \in Block, Write(p, b) PROVE CopyInv'
    BY Zenon, <1>4, NoCommit DEF Write
  <1>5. ASSUME NEW b \in Block, Evict(b) PROVE CopyInv'
    <2>1. \A c \in Block : Contents(c)' = Contents(c)
      BY Zenon, <1>5 DEF RunInv, TypeInv, PinInv, PinOK, Contents, Evict
    <2>2. \A i \in DOMAIN lh : lh[i] \in Block
      BY DEF RunInv, TypeInv
    <2> QED
      BY Zenon, <1>5, <2>1, <2>2 DEF Evict, log
  <1>6. CASE WriteLog
    <2>1. /\ com = "write_log" /\ com' = com /\ lh' = lh /\ tail' = tail + 1
          /\ tail \in DOMAIN lh /\ tail \in 1 .. LOGSIZE
      BY <1>6, LogAssumption DEF RunInv, TypeInv, HeadInv, WriteLog, Com, log
    <2>2. logblk'[tail] = Contents(lh[tail])
      BY Zenon, <1>6, <2>1 DEF RunInv, TypeInv, WriteLog
    <2>3. \A i \in DOMAIN lh : i # tail => logblk'[i] = logblk[i]
      BY <1>6 DEF RunInv, TypeInv, HeadInv, WriteLog
    <2>4. \A i \in DOMAIN lh : i < tail + 1 <=> i = tail \/ i < tail
      BY Positions DEF RunInv
    <2>5. \A i \in DOMAIN lh : Contents(lh[i])' = Contents(lh[i])
      BY Zenon, <1>6, <2>1 DEF WriteLog, Contents
    <2> QED
      BY Zenon, <2>1, <2>2, <2>3, <2>4, <2>5
  <1>7. CASE WriteHead
    <2>1. com = "write_log" /\ UNCHANGED <<disk, logblk, cache, lh>> /\ tail' = 1
      BY Zenon, <1>7 DEF WriteHead, Com, log
    <2>2. \A i \in DOMAIN lh : i < tail /\ ~(i < 1)
      BY <1>7 DEF RunInv, TypeInv, WriteHead
    <2>3. com' \in {"install", "finish"}
      BY Zenon, <1>7 DEF WriteHead
    <2> QED
      BY Zenon, <2>1, <2>2, <2>3 DEF Contents
  <1>8. CASE Install
    <2>1. PICK b \in Block :
          /\ com = "install" /\ com' = com /\ lh' = lh /\ tail' = tail + 1
          /\ UNCHANGED <<logblk, recovering>>
          /\ tail \in DOMAIN lh /\ b = lh[tail]
          /\ logblk[tail] # None
      BY Zenon, <1>8, InstallBlock, LogAssumption DEF RunInv, Install, Com, log
    <2>2. \A i \in DOMAIN lh : lh[i] = b => i = tail
      BY Zenon, <2>1 DEF RunInv, HeadInv, IsInjective
    <2>3. cache'[b] = logblk[tail] /\ disk'[b] = logblk[tail]
      BY Zenon, <1>8, <2>1 DEF RunInv, TypeInv, Install
    <2>4. \A i \in DOMAIN lh : i # tail => cache'[lh[i]] = cache[lh[i]] /\ disk'[lh[i]] = disk[lh[i]]
      BY SMTT(30), <1>8, <2>1, <2>2 DEF RunInv, TypeInv, Install
    <2>5. \A i \in DOMAIN lh : i < tail + 1 <=> i = tail \/ i < tail
      BY Positions DEF RunInv
    <2> QED
      BY <2>1, <2>3, <2>4, <2>5 DEF Contents
  <1>9. CASE ClearHead
    BY Zenon, <1>9 DEF ClearHead
  <1>10. CASE Crash
    BY <1>10 DEF Crash, TypeInv
  <1>11. CASE UNCHANGED vars
    BY Zenon, <1>11 DEF vars, log, Contents
  <1> QED
    BY Zenon, Steps, <1>1, <1>2, <1>3, <1>4, <1>5, <1>6, <1>7, <1>8, <1>9, <1>10, <1>11

(* The invariant that the refinement rests on.                             *)
LEMMA LogInvariant == Spec => []Inv
  <1>1. Init => PinInv /\ CopyInv
    BY DEF Init, PinInv, PinOK, CopyInv, Contents
  <1>2. Inv /\ RunInv' /\ [Next]_vars => Inv'
    BY PinInvStep, CopyInvStep DEF RunInv
  <1> QED
    BY <1>1, <1>2, LogRuns, PTL DEF Spec

----------------------------------------------------------------------------
(* The refinement.                                                         *)

InMemory == IF recovering THEN Recovered ELSE [b \in Block |-> Contents(b)]

(* The position that Recovered looks up is the only one of its block.      *)
LEMMA ChosenIndex ==
  ASSUME NEW s \in Seq(Block), IsInjective(s), NEW i \in DOMAIN s
  PROVE  (CHOOSE j \in 1 .. Len(s) : s[j] = s[i]) = i
  BY DEF IsInjective

(* Without a header on disk a crash leaves the disk as it is.              *)
LEMMA NothingToRecover == ASSUME TypeInv, head = <<>> PROVE Recovered = disk
  BY DEF Recovered, TypeInv, Range

(* A crash leaves the logged contents of the blocks that the header names, *)
(* and the others as they are on disk.                                     *)
LEMMA RecoveredBlocks ==
  ASSUME TypeInv, IsInjective(head)
  PROVE  /\ \A i \in DOMAIN head : Recovered[head[i]] = logblk[i]
         /\ \A b \in Block \ Range(head) : Recovered[b] = disk[b]
  <1>1. ASSUME NEW i \in DOMAIN head PROVE Recovered[head[i]] = logblk[i]
    <2>1. head[i] \in Block /\ head[i] \in Range(head)
      BY DEF TypeInv, Range
    <2>2. (CHOOSE j \in 1 .. Len(head) : head[j] = head[i]) = i
      BY ChosenIndex DEF TypeInv
    <2> QED
      BY Zenon, <2>1, <2>2 DEF Recovered
  <1> QED
    BY Zenon, <1>1 DEF Recovered

(* write_head is the moment of the commit: from then on a crash leaves     *)
(* what the system calls see.                                              *)
LEMMA HeadCommits ==
  ASSUME Inv, Inv', WriteHead, com' = "install"
  PROVE  Recovered' = InMemory
  <1>1. /\ com = "write_log" /\ ~recovering /\ head' = lh
        /\ UNCHANGED <<disk, logblk, cache, lh>>
    BY Zenon DEF WriteHead, Com, RunInv, CommitInv, log
  <1>2. \A i \in DOMAIN lh : logblk[i] = Contents(lh[i])
    <2>1. \A i \in DOMAIN lh : i < tail
      BY DEF WriteHead, RunInv, TypeInv
    <2> QED
      BY Zenon, <1>1, <2>1 DEF CopyInv
  <1>3. ASSUME NEW b \in Block PROVE Recovered'[b] = Contents(b)
    <2>1. CASE b \in Range(lh)
      <3>1. PICK i \in DOMAIN lh : lh[i] = b
        BY <2>1 DEF Range
      <3>2. (CHOOSE j \in 1 .. Len(lh) : lh[j] = b) = i
        <4>1. lh \in Seq(Block) /\ IsInjective(lh)
          BY Zenon DEF RunInv, TypeInv, HeadInv
        <4> QED
          BY <3>1, <4>1, ChosenIndex
      <3> QED
        BY Zenon, <1>1, <1>2, <2>1, <3>1, <3>2 DEF Recovered
    <2>2. CASE b \notin Range(lh)
      <3>1. Contents(b) = disk[b]
        BY Zenon, <2>2, NotLogged DEF RunInv, PinInv, PinOK
      <3> QED
        BY Zenon, <1>1, <2>2, <3>1 DEF Recovered
    <2> QED
      BY <2>1, <2>2
  <1> QED
    BY Zenon, <1>1, <1>3 DEF Recovered, InMemory

(* install_trans changes neither what a crash leaves nor what is seen.     *)
LEMMA InstallStutters ==
  ASSUME Inv, Inv', Install
  PROVE  Recovered' = Recovered /\ InMemory' = InMemory
  <1>1. PICK b \in Block :
        /\ com = "install" /\ head = lh /\ tail \in DOMAIN lh /\ b = lh[tail]
        /\ logblk[tail] # None
        /\ UNCHANGED <<head, logblk, recovering>>
        /\ disk' = [disk EXCEPT ![b] = logblk[tail]]
        /\ cache' = [cache EXCEPT ![b] = logblk[tail]]
    BY ZenonT(30), InstallBlock, LogAssumption DEF RunInv, Install, Com, HeadInv
  <1>2. Recovered' = Recovered
    BY <1>1 DEF Recovered, Range, RunInv, TypeInv
  <1>3. ASSUME ~recovering, NEW c \in Block PROVE Contents(c)' = Contents(c)
    BY Zenon, <1>1, <1>3 DEF RunInv, TypeInv, CopyInv, Contents
  <1> QED
    BY Zenon, <1>1, <1>2, <1>3 DEF InMemory

(* When the header is cleared, the disk is what a crash would have left.   *)
LEMMA ClearStutters ==
  ASSUME Inv, Inv', ClearHead
  PROVE  Recovered' = Recovered /\ InMemory' = InMemory
  <1>1. com = "install" /\ head = lh /\ head' = <<>> /\ UNCHANGED <<disk, cache, logblk>>
    BY Zenon DEF RunInv, ClearHead, Com, HeadInv
  <1>2. Recovered' = disk
    BY <1>1 DEF Recovered, RunInv, TypeInv, Range
  <1>3. ASSUME NEW b \in Block PROVE Recovered[b] = disk[b] /\ Contents(b) = disk[b]
    <2>1. \A i \in DOMAIN lh : i < tail /\ ~(i >= tail)
      BY DEF ClearHead, RunInv, TypeInv
    <2>2. Contents(b) = disk[b]
      BY Zenon, <1>1, <2>1 DEF RunInv, TypeInv, PinInv, PinOK, Uninstalled
    <2>3. CASE b \in Range(head)
      <3>1. PICK i \in DOMAIN head : head[i] = b
        BY <2>3 DEF Range
      <3>2. Recovered[b] = logblk[i]
        BY Zenon, <1>1, <3>1, RecoveredBlocks DEF RunInv, HeadInv
      <3>3. disk[b] = logblk[i]
        BY Zenon, <1>1, <2>1, <3>1 DEF CopyInv
      <3> QED
        BY Zenon, <2>2, <3>2, <3>3
    <2>4. CASE b \notin Range(head)
      BY Zenon, <2>2, <2>4 DEF Recovered
    <2> QED
      BY Zenon, <2>2, <2>3, <2>4
  <1>4. Recovered = disk
    BY Zenon, <1>3 DEF Recovered, RunInv, TypeInv
  <1>5. InMemory = disk
    BY Zenon, <1>3, <1>4 DEF InMemory, RunInv, TypeInv
  <1>6. InMemory' = disk
    BY Zenon, <1>1, <1>2, <1>3 DEF InMemory, RunInv, TypeInv, ClearHead, Contents
  <1> QED
    BY <1>2, <1>4, <1>5, <1>6

(* What AtomicDisk sees does not change with these variables unchanged.    *)
LEMMA Unseen ==
  ASSUME UNCHANGED <<disk, logblk, head, cache, recovering>>
  PROVE  Recovered' = Recovered /\ InMemory' = InMemory
  BY DEF Recovered, InMemory, Contents

(* Every step is a step of AtomicDisk or invisible to it.                  *)
LEMMA RefinementStep == Inv /\ Inv' /\ [Next]_vars => [Atomic!Next]_(Atomic!avars)
  <1> SUFFICES ASSUME Inv, Inv', [Next]_vars PROVE [Atomic!Next]_(Atomic!avars)
    OBVIOUS
  <1>0. ASSUME Recovered' = Recovered, InMemory' = InMemory, Active' = Active
        PROVE  UNCHANGED Atomic!avars
    BY Zenon, <1>0 DEF Atomic!avars, InMemory, Active
  <1>1. ASSUME NEW p \in Proc, BeginOp(p) PROVE [Atomic!Next]_(Atomic!avars)
    <2>1. Recovered' = Recovered /\ InMemory' = InMemory
      BY Zenon, <1>1, Unseen DEF BeginOp
    <2>2. CASE Active' = Active
      BY <1>0, <2>1, <2>2
    <2>3. CASE Active' = Active \cup {p}
      <3>1. Atomic!Begin(p)
        BY Zenon, <1>1, <2>1, <2>3, BeginActive DEF Atomic!Begin, InMemory, Active
      <3> QED
        BY <3>1 DEF Atomic!Next
    <2> QED
      BY <1>1, <2>2, <2>3, BeginActive
  <1>2. ASSUME NEW p \in Proc, EndOp(p) PROVE [Atomic!Next]_(Atomic!avars)
    <2>1. Recovered' = Recovered /\ InMemory' = InMemory
      BY Zenon, <1>2, Unseen DEF EndOp
    <2>2. Atomic!End(p)
      BY Zenon, <1>2, <2>1, EndActive DEF Atomic!End, InMemory, Active
    <2> QED
      BY <2>2 DEF Atomic!Next
  <1>3. ASSUME NEW p \in Proc, Finish(p) PROVE [Atomic!Next]_(Atomic!avars)
    BY Zenon, <1>0, <1>3, Unseen, FinishActive DEF Finish
  <1>4. ASSUME NEW p \in Proc, NEW b \in Block, Write(p, b) PROVE [Atomic!Next]_(Atomic!avars)
    <2>1. Recovered' = Recovered /\ Active' = Active /\ p \in Active /\ ~recovering /\ ~recovering'
      BY <1>4 DEF Write, At, Recovered, Active
    <2>2. CASE cache' = cache
      BY Zenon, <1>0, <1>4, <2>1, <2>2, Unseen DEF Write
    <2>3. ASSUME NEW v \in Value, cache' = [cache EXCEPT ![b] = v] PROVE Atomic!Write(p, b)
      <3>1. InMemory' = [InMemory EXCEPT ![b] = v]
        BY Zenon, <1>4, <2>1, <2>3, LogAssumption DEF Write, InMemory, Contents, RunInv, TypeInv
      <3> QED
        BY Zenon, <2>1, <3>1 DEF Atomic!Write, InMemory, Active
    <2> QED
      BY Zenon, <1>4, <2>2, <2>3 DEF Write, Atomic!Next
  <1>5. ASSUME NEW b \in Block, Evict(b) PROVE [Atomic!Next]_(Atomic!avars)
    <2>1. \A c \in Block : Contents(c)' = Contents(c)
      BY <1>5 DEF RunInv, TypeInv, PinInv, PinOK, Contents, Evict
    <2>2. Recovered' = Recovered /\ Active' = Active
      BY <1>5 DEF Evict, Recovered, Active
    <2>3. InMemory' = InMemory
      BY ZenonT(30), <1>5, <2>1, <2>2 DEF Evict, InMemory
    <2> QED
      BY ZenonT(30), <1>0, <2>2, <2>3
  <1>6. CASE WriteLog
    <2>1. head = <<>> /\ head' = <<>> /\ Active' = Active /\ UNCHANGED <<disk, cache, recovering>>
      BY Zenon, <1>6 DEF WriteLog, Com, RunInv, HeadInv, Active
    <2>2. Recovered' = Recovered
      BY <2>1 DEF Recovered, Range
    <2> QED
      BY Zenon, <1>0, <2>1, <2>2 DEF InMemory, Contents
  <1>7. CASE WriteHead
    <2>1. CASE com' = "install"
      <3>1. Recovered' = InMemory
        BY SMTT(30), <1>7, <2>1, HeadCommits
      <3>2. Active = {} /\ Active' = Active /\ InMemory' = InMemory
        BY Zenon, <1>7 DEF WriteHead, Com, RunInv, CommitInv, Active, InMemory, Contents
      <3>3. Atomic!Commit
        BY Zenon, <3>1, <3>2 DEF Atomic!Commit, InMemory, Active
      <3> QED
        BY <3>3 DEF Atomic!Next
    <2>2. CASE head' = head
      BY Zenon, <1>0, <1>7, <2>2, Unseen DEF WriteHead, Active
    <2> QED
      BY <1>7, <2>1, <2>2 DEF WriteHead
  <1>8. CASE Install
    BY Zenon, <1>0, <1>8, InstallStutters DEF Install, Active
  <1>9. CASE ClearHead
    BY Zenon, <1>0, <1>9, ClearStutters DEF ClearHead, Active
  <1>10. CASE Crash
    <2>1. Recovered' = Recovered /\ Active' = {} /\ InMemory' = Recovered
      BY <1>10 DEF Crash, Recovered, Active, InMemory
    <2>2. Atomic!Crash
      BY Zenon, <2>1 DEF Atomic!Crash, InMemory, Active
    <2> QED
      BY <2>2 DEF Atomic!Next
  <1>11. CASE UNCHANGED vars
    BY Zenon, <1>0, <1>11, Unseen DEF vars, Active
  <1> QED
    BY Zenon, Steps, <1>1, <1>2, <1>3, <1>4, <1>5, <1>6, <1>7, <1>8, <1>9, <1>10, <1>11

(* System calls are atomic and ordered with respect to crashes, whatever   *)
(* their number and whenever the machine stops, also during recovery.      *)
THEOREM LogImplementsAtomicDisk == Spec => ImplementsAtomicDisk
  <1>1. Init => Atomic!Init
    <2> SUFFICES ASSUME Init PROVE Atomic!Init
      OBVIOUS
    <2>1. Recovered = disk
      BY Zenon, RunInvInit, NothingToRecover DEF RunInv, Init
    <2>2. InMemory = disk /\ Active = {}
      BY Zenon DEF Init, InMemory, Contents, Active
    <2>3. disk \in [Block -> Value]
      BY Zenon DEF Init
    <2> QED
      BY <2>1, <2>2, <2>3 DEF Atomic!Init, InMemory, Active
  <1> QED
    BY <1>1, RefinementStep, LogInvariant, PTL DEF Spec, ImplementsAtomicDisk, Atomic!Spec
=============================================================================
