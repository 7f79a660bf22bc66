----------------------------- MODULE LogProofs -----------------------------
(***************************************************************************)
(* For any number of processes, blocks, contents and crashes, no log_write *)
(* finds the log full.                                                     *)
(***************************************************************************)
EXTENDS Log, FiniteSetTheorems, TLAPS

Labels == {"idle", "begin", "asleep", "op", "commit"}

TypeInv ==
    /\ disk \in [Block -> Value]
    /\ logblk \in [1 .. LOGSIZE -> Value]
    /\ head \in Seq(Block) /\ lh \in Seq(Block)
    /\ cache \in [Block -> Value \cup {None}]
    /\ pin \in [Block -> Int]
    /\ outstanding \in Nat
    /\ committing \in BOOLEAN /\ recovering \in BOOLEAN /\ panicked \in BOOLEAN
    /\ pc \in [Proc -> Labels]
    /\ wrote \in [Proc -> SUBSET Block] /\ left \in [Proc -> 0 .. MaxWrites]
    /\ com \in {"none", "write_log", "install", "finish"}
    /\ tail \in Nat \ {0} /\ crashes \in Nat

Active == {p \in Proc : pc[p] = "op"}

(* One process commits, while no system call runs.                         *)
CommitInv ==
    /\ recovering => com = "install" /\ ~committing
    /\ ~recovering => (committing <=> com # "none")
    /\ committing => Active = {}
    /\ \A p \in Proc : pc[p] = "commit" =>
         committing /\ \A q \in Proc : pc[q] = "commit" => q = p

(* The blocks that the running system calls may still log.                 *)
Slots == {s \in Proc \X (1 .. MaxWrites) : s[2] <= left[s[1]]}

(* A transaction is one system call, or when its last call was let in it   *)
(* had room for that call and for at least one more, and each of the two   *)
(* leaves some of its reservation unused.                                  *)
Room(n) == n <= MaxWrites \/ n + 2 * (MAXOPBLOCKS - MaxWrites) <= LOGSIZE

(* Every block that a running system call may still log has its own room,  *)
(* and log.outstanding counts the system calls that run.                   *)
RoomInv ==
    /\ IsFiniteSet(Active) /\ outstanding = Cardinality(Active)
    /\ \A p \in Proc : pc[p] # "op" => left[p] = 0
    /\ IsFiniteSet(Slots)
    /\ Room(Len(lh) + Cardinality(Slots))

(* What a running call wrote is logged, so that writing it once more adds  *)
(* nothing; the log is empty when no call and no commit runs.              *)
LoggedInv ==
    /\ \A p \in Proc : pc[p] # "op" => wrote[p] = {}
    /\ \A p \in Proc : wrote[p] \subseteq Range(lh)
    /\ com = "none" /\ Active = {} => lh = <<>>
    /\ recovering => Active = {}

(* The header on disk names the logged blocks from the commit until all    *)
(* are installed, and no block otherwise; no block is logged twice.        *)
HeadInv ==
    /\ IsInjective(lh) /\ Len(lh) <= LOGSIZE
    /\ head = IF com = "install" THEN lh ELSE <<>>
    /\ com = "finish" => lh = <<>>

RunInv == TypeInv /\ CommitInv /\ RoomInv /\ LoggedInv /\ HeadInv

----------------------------------------------------------------------------
(* The steps of Next, for the case distinctions below.                     *)

(* Every step is a step of one of the system calls, of the commit, of the  *)
(* cache, or a crash.                                                      *)
LEMMA Steps ==
  ASSUME [Next]_vars
  PROVE  \/ \E p \in Proc : BeginOp(p)
         \/ \E p \in Proc : EndOp(p)
         \/ \E p \in Proc : Finish(p)
         \/ \E p \in Proc, b \in Block : Write(p, b)
         \/ \E b \in Block : Evict(b)
         \/ WriteLog \/ WriteHead \/ Install \/ ClearHead \/ Crash
         \/ UNCHANGED vars
  BY DEF Next, CommitStep

(* The positions of the log, and how far its loops are.                    *)
LEMMA Positions ==
  ASSUME TypeInv
  PROVE  /\ \A i \in DOMAIN lh : i \in Nat \ {0} /\ i <= Len(lh) /\ lh[i] \in Block
         /\ tail \in Nat \ {0} /\ Len(lh) \in Nat /\ DOMAIN lh = 1 .. Len(lh)
  BY DEF TypeInv

(* What log_write appends.                                                 *)
LEMMA Appended ==
  ASSUME TypeInv, NEW b \in Block, lh' = Append(lh, b)
  PROVE  /\ lh' \in Seq(Block)
         /\ DOMAIN lh' = DOMAIN lh \cup {Len(lh) + 1} /\ Len(lh') = Len(lh) + 1
         /\ lh'[Len(lh) + 1] = b /\ \A i \in DOMAIN lh : lh'[i] = lh[i]
  BY DEF TypeInv

(* The block that install_trans is about to write is a logged one.         *)
LEMMA InstallBlock ==
  ASSUME TypeInv, HeadInv, tail <= Len(lh)
  PROVE  tail \in DOMAIN lh /\ lh[tail] \in Block /\ logblk[tail] \in Value
  <1>1. tail \in DOMAIN lh /\ lh[tail] \in Block
    BY DEF TypeInv
  <1>2. tail \in 1 .. LOGSIZE
    BY <1>1, LogAssumption DEF TypeInv, HeadInv
  <1> QED
    BY <1>1, <1>2 DEF TypeInv

(* A write takes from the budget of its call only the first time.          *)
LEMMA WriteBudget ==
  ASSUME TypeInv, NEW p \in Proc, NEW b \in Block, Write(p, b)
  PROVE  \/ b \in wrote[p] /\ left' = left
         \/ UNCHANGED <<lh, left, wrote>>
         \/ /\ b \notin wrote[p] /\ left[p] > 0
            /\ left' = [left EXCEPT ![p] = left[p] - 1]
  BY Zenon DEF TypeInv, Write

(* The types are kept.                                                     *)
LEMMA TypeStep == RunInv /\ [Next]_vars => TypeInv'
  <1> SUFFICES ASSUME RunInv, [Next]_vars PROVE TypeInv'
    OBVIOUS
  <1> USE LogAssumption
  <1>1. ASSUME NEW p \in Proc, BeginOp(p) PROVE TypeInv'
    <2>1. pc' \in [Proc -> Labels]
      BY Zenon, <1>1 DEF RunInv, TypeInv, BeginOp, Goto, Labels
    <2>2. outstanding' \in Nat
      BY <1>1 DEF RunInv, TypeInv, BeginOp
    <2>3. left' \in [Proc -> 0 .. MaxWrites]
      <3>1. left' = left \/ left' = [left EXCEPT ![p] = MaxWrites]
        BY <1>1 DEF BeginOp
      <3>2. MaxWrites \in 0 .. MaxWrites
        BY LogAssumption
      <3> QED
        BY Zenon, <3>1, <3>2 DEF RunInv, TypeInv
    <2> QED
      BY <1>1, <2>1, <2>2, <2>3 DEF RunInv, TypeInv, BeginOp
  <1>2. ASSUME NEW p \in Proc, EndOp(p) PROVE TypeInv'
    <2>1. outstanding' \in Nat
      <3>1. p \in Active
        BY <1>2 DEF EndOp, At, Active
      <3>2. outstanding # 0
        BY <3>1, FS_EmptySet DEF RunInv, RoomInv
      <3> QED
        BY <1>2, <3>2 DEF RunInv, TypeInv, EndOp
    <2>2. pc' \in [Proc -> Labels]
      BY Zenon, <1>2 DEF RunInv, TypeInv, EndOp, Goto, WakeAll, Labels
    <2>3. left' \in [Proc -> 0 .. MaxWrites] /\ wrote' \in [Proc -> SUBSET Block]
      BY <1>2 DEF RunInv, TypeInv, EndOp
    <2>4. com' \in {"none", "write_log", "install", "finish"} /\ tail' \in Nat \ {0}
      BY <1>2 DEF RunInv, TypeInv, EndOp
    <2>5. committing' \in BOOLEAN /\ panicked' \in BOOLEAN
      BY Zenon, <1>2 DEF RunInv, TypeInv, EndOp
    <2> QED
      BY <1>2, <2>1, <2>2, <2>3, <2>4, <2>5 DEF RunInv, TypeInv, EndOp
  <1>3. ASSUME NEW p \in Proc, Finish(p) PROVE TypeInv'
    BY Zenon, <1>3 DEF RunInv, TypeInv, Finish, WakeAll, Labels
  <1>4. ASSUME NEW p \in Proc, NEW b \in Block, Write(p, b) PROVE TypeInv'
    <2>0. lh' \in Seq(Block)
      <3>1. lh' = lh \/ lh' = Append(lh, b)
        BY <1>4 DEF Write, LogWrite
      <3> QED
        BY SMTT(30), <3>1, Appended DEF RunInv, TypeInv
    <2>1. pin' \in [Block -> Int]
      <3>1. pin' = pin \/ pin' = [pin EXCEPT ![b] = @ + 1]
        BY <1>4 DEF Write, LogWrite
      <3>2. pin \in [Block -> Int]
        BY DEF RunInv, TypeInv
      <3> QED
        BY <3>1, <3>2
    <2>2. left' \in [Proc -> 0 .. MaxWrites]
      <3>1. \/ left' = left
            \/ left' = [left EXCEPT ![p] = left[p] - 1] /\ left[p] > 0
        BY <1>4, WriteBudget DEF RunInv
      <3>2. left[p] > 0 => left[p] - 1 \in 0 .. MaxWrites
        BY SMTT(30) DEF RunInv, TypeInv
      <3> QED
        BY Zenon, <3>1, <3>2 DEF RunInv, TypeInv
    <2>3. wrote' \in [Proc -> SUBSET Block]
      <3>1. wrote' = wrote \/ wrote' = [wrote EXCEPT ![p] = wrote[p] \cup {b}]
        BY Zenon, <1>4 DEF Write
      <3>2. wrote \in [Proc -> SUBSET Block] /\ wrote[p] \cup {b} \in SUBSET Block
        BY DEF RunInv, TypeInv
      <3> QED
        BY Zenon, <3>1, <3>2
    <2> QED
      BY ZenonT(30), <1>4, <2>0, <2>1, <2>2, <2>3 DEF RunInv, TypeInv, Write
  <1>5. ASSUME NEW b \in Block, Evict(b) PROVE TypeInv'
    BY <1>5 DEF RunInv, TypeInv, Evict, log
  <1>6. CASE WriteLog
    BY SMTT(30), <1>6 DEF RunInv, TypeInv, HeadInv, WriteLog, Com, Contents, log
  <1>7. CASE WriteHead
    BY <1>7 DEF RunInv, TypeInv, WriteHead, log
  <1>8. CASE Install
    BY SMTT(30), <1>8, InstallBlock DEF RunInv, TypeInv, Install, Com, Unpin, log
  <1>9. CASE ClearHead
    <2>1. lh' \in Seq(Block) /\ head' \in Seq(Block)
      BY <1>9 DEF ClearHead
    <2>2. com' \in {"none", "write_log", "install", "finish"} /\ recovering' \in BOOLEAN
      BY Zenon, <1>9 DEF ClearHead
    <2> QED
      BY <1>9, <2>1, <2>2 DEF RunInv, TypeInv, ClearHead
  <1>10. CASE Crash
    <2>1. pc' \in [Proc -> Labels]
      BY <1>10 DEF Crash, Labels
    <2>2. left' \in [Proc -> 0 .. MaxWrites] /\ wrote' \in [Proc -> SUBSET Block]
      BY <1>10 DEF Crash
    <2>3. cache' \in [Block -> Value \cup {None}] /\ pin' \in [Block -> Int]
      BY <1>10 DEF Crash
    <2>4. recovering' \in BOOLEAN /\ panicked' \in BOOLEAN /\ committing' \in BOOLEAN
      BY Zenon, <1>10 DEF Crash
    <2> QED
      BY <1>10, <2>1, <2>2, <2>3, <2>4 DEF RunInv, TypeInv, Crash
  <1>11. CASE UNCHANGED vars
    BY <1>11 DEF RunInv, TypeInv, vars, log
  <1> QED
    BY Steps, <1>1, <1>2, <1>3, <1>4, <1>5, <1>6, <1>7, <1>8, <1>9, <1>10, <1>11

----------------------------------------------------------------------------
(* System calls that run, and the room they have.                          *)

(* A set of one element has no other.                                      *)
LEMMA OnlyElement ==
  ASSUME NEW S, IsFiniteSet(S), Cardinality(S) = 1, NEW x \in S
  PROVE  S = {x}
  BY FS_Singleton

(* A call that is admitted joins those that run.                           *)
LEMMA BeginActive ==
  ASSUME RunInv, NEW p \in Proc, BeginOp(p)
  PROVE  /\ p \notin Active
         /\ \/ committing \/ ~Fits
            \/ ~committing /\ Fits /\ Active' = Active \cup {p}
         /\ committing \/ ~Fits => Active' = Active
  BY DEF RunInv, TypeInv, BeginOp, At, Goto, Active

(* end_op takes the call out; it is never called during a commit.          *)
LEMMA EndActive ==
  ASSUME RunInv, NEW p \in Proc, EndOp(p)
  PROVE  /\ p \in Active /\ ~committing
         /\ Active' = Active \ {p}
         /\ outstanding = 1 => Active' = {}
  <1>1. p \in Active
    BY DEF EndOp, At, Active
  <1>2. ~committing
    BY <1>1 DEF RunInv, CommitInv
  <1>3. Active' = Active \ {p}
    BY Zenon, <1>2 DEF RunInv, TypeInv, EndOp, Goto, WakeAll, Active
  <1>4. outstanding = 1 => Active' = {}
    BY Zenon, <1>1, <1>3, OnlyElement DEF RunInv, RoomInv
  <1> QED
    BY <1>1, <1>2, <1>3, <1>4

(* No system call runs while blocks are installed.                         *)
LEMMA InstallIdle ==
  ASSUME RunInv, com = "install"
  PROVE  Active = {}
  BY Zenon DEF RunInv, CommitInv, LoggedInv

(* The other steps of a process leave the set of running calls alone.      *)
LEMMA FinishActive ==
  ASSUME RunInv, NEW p \in Proc, Finish(p)
  PROVE  Active' = Active
  BY DEF RunInv, TypeInv, Finish, At, WakeAll, Active

(* One process commits, while no system call runs.                         *)
LEMMA CommitInvStep == RunInv /\ [Next]_vars => CommitInv'
  <1> SUFFICES ASSUME RunInv, [Next]_vars PROVE CommitInv'
    OBVIOUS
  <1>1. ASSUME NEW p \in Proc, BeginOp(p) PROVE CommitInv'
    <2>1. committing' => Active' = {}
      BY <1>1, BeginActive DEF RunInv, CommitInv, BeginOp
    <2>2. ASSUME NEW q \in Proc, pc'[q] = "commit" PROVE pc[q] = "commit"
      BY <1>1, <2>2 DEF RunInv, TypeInv, BeginOp, Goto
    <2> QED
      BY <1>1, <2>1, <2>2 DEF RunInv, CommitInv, BeginOp
  <1>2. ASSUME NEW p \in Proc, EndOp(p) PROVE CommitInv'
    <2>1. ~committing /\ ~recovering /\ \A q \in Proc : pc[q] # "commit"
      BY Zenon, <1>2, EndActive DEF RunInv, CommitInv, EndOp, At
    <2>2. CASE outstanding = 1
      <3>1. \A q \in Proc : pc'[q] = "commit" => q = p
        BY <1>2, <2>1, <2>2 DEF RunInv, TypeInv, EndOp, Goto
      <3> QED
        BY Zenon, <1>2, <2>1, <2>2, <3>1, EndActive DEF CommitInv, EndOp
    <2>3. CASE outstanding # 1
      <3>1. \A q \in Proc : pc'[q] # "commit"
        BY Zenon, <1>2, <2>1, <2>3 DEF RunInv, TypeInv, EndOp, WakeAll
      <3> QED
        BY <1>2, <2>1, <2>3, <3>1 DEF RunInv, CommitInv, EndOp
    <2> QED
      BY <2>2, <2>3
  <1>3. ASSUME NEW p \in Proc, Finish(p) PROVE CommitInv'
    <2>1. \A q \in Proc : pc'[q] # "commit"
      BY <1>3 DEF RunInv, TypeInv, CommitInv, Finish, At, WakeAll
    <2> QED
      BY <1>3, <2>1 DEF RunInv, CommitInv, Finish, At
  <1>4. ASSUME NEW p \in Proc, NEW b \in Block, Write(p, b) PROVE CommitInv'
    BY <1>4 DEF RunInv, CommitInv, Write, Active
  <1>5. ASSUME NEW b \in Block, Evict(b) PROVE CommitInv'
    BY <1>5 DEF RunInv, CommitInv, Evict, Active, log
  <1>6. CASE WriteLog
    BY <1>6 DEF RunInv, CommitInv, WriteLog, Active, log
  <1>7. CASE WriteHead
    BY <1>7 DEF RunInv, CommitInv, WriteHead, Com, Active, log
  <1>8. CASE Install
    BY <1>8 DEF RunInv, CommitInv, Install, Active, log
  <1>9. CASE ClearHead
    BY <1>9 DEF RunInv, CommitInv, ClearHead, Com, Active
  <1>10. CASE Crash
    BY <1>10 DEF CommitInv, Crash
  <1>11. CASE UNCHANGED vars
    BY <1>11 DEF RunInv, CommitInv, Active, vars, log
  <1> QED
    BY Steps, <1>1, <1>2, <1>3, <1>4, <1>5, <1>6, <1>7, <1>8, <1>9, <1>10, <1>11

(* What the calls that run may still write is at most MaxWrites each.      *)
LEMMA SlotsBound ==
  ASSUME NEW S \in SUBSET Proc, IsFiniteSet(S),
         NEW l \in [Proc -> 0 .. MaxWrites], \A p \in Proc \ S : l[p] = 0
  PROVE  LET slots == {s \in Proc \X (1 .. MaxWrites) : s[2] <= l[s[1]]}
         IN  IsFiniteSet(slots) /\ Cardinality(slots) <= Cardinality(S) * MaxWrites
  <1> DEFINE slots == {s \in Proc \X (1 .. MaxWrites) : s[2] <= l[s[1]]}
  <1>1. /\ IsFiniteSet(1 .. MaxWrites)
        /\ Cardinality(1 .. MaxWrites) = MaxWrites
    BY FS_Interval, LogAssumption
  <1>2. slots \subseteq S \X (1 .. MaxWrites)
    BY LogAssumption
  <1>3. /\ IsFiniteSet(S \X (1 .. MaxWrites))
        /\ Cardinality(S \X (1 .. MaxWrites)) = Cardinality(S) * MaxWrites
    BY Zenon, <1>1, FS_Product
  <1> QED
    BY <1>2, <1>3, FS_Subset

(* The products that begin_op compares, with two calls or more.            *)
LEMMA Products ==
  ASSUME NEW n \in Nat, n >= 2, NEW w \in Nat, NEW free \in Nat
  PROVE  n * (w + free) = n * w + n * free /\ n * free >= 2 * free /\ n * w \in Nat
  OBVIOUS

(* What has room has it still when it becomes less.                        *)
LEMMA LessRoom ==
  ASSUME NEW m \in Nat, NEW n \in Nat, m <= n, Room(n)
  PROVE  Room(m)
  BY LogAssumption DEF Room

(* While there is room, log_write does not find the log full.              *)
LEMMA RoomEnough ==
  ASSUME NEW n \in Nat, Room(n)
  PROVE  n < LOGSIZE /\ n < Size - 1
  BY LogAssumption, RoomAssumption DEF Room

(* begin_op admits a call only if all its writes fit, and those of the     *)
(* calls that run.                                                         *)
LEMMA BeginRoom ==
  ASSUME RunInv, TypeInv', NEW p \in Proc, BeginOp(p)
  PROVE  RoomInv'
  <1>1. CASE committing \/ ~Fits
    <2>1. Active' = Active /\ left' = left /\ lh' = lh /\ outstanding' = outstanding
      BY <1>1, BeginActive DEF BeginOp
    <2>2. Slots' = Slots
      BY <2>1 DEF Slots
    <2>3. \A q \in Proc : pc'[q] # "op" => left[q] = 0
      BY Zenon, <2>1 DEF RunInv, RoomInv, Active
    <2> QED
      BY <2>1, <2>2, <2>3 DEF RunInv, RoomInv
  <1>2. CASE ~committing /\ Fits
    <2>1. /\ p \notin Active /\ Active' = Active \cup {p}
          /\ left' = [left EXCEPT ![p] = MaxWrites]
          /\ pc' = [pc EXCEPT ![p] = "op"]
          /\ lh' = lh /\ outstanding' = outstanding + 1
      BY <1>2, BeginActive DEF BeginOp, Goto
    <2>2. IsFiniteSet(Active') /\ outstanding' = Cardinality(Active')
      BY <2>1, FS_AddElement DEF RunInv, RoomInv
    <2>3. \A q \in Proc : pc'[q] # "op" => left'[q] = 0
      BY Zenon, <2>1 DEF RunInv, TypeInv, RoomInv
    <2>4. IsFiniteSet(Slots') /\ Cardinality(Slots') \in Nat
          /\ Cardinality(Slots') <= outstanding' * MaxWrites
      <3>1. Active' \in SUBSET Proc /\ \A q \in Proc \ Active' : left'[q] = 0
        BY <2>3 DEF Active
      <3>2. left' \in [Proc -> 0 .. MaxWrites]
        BY DEF TypeInv
      <3>3. IsFiniteSet(Slots') /\ Cardinality(Slots') <= Cardinality(Active') * MaxWrites
        BY <2>2, <3>1, <3>2, SlotsBound DEF Slots
      <3> QED
        BY <2>2, <3>3, FS_CardinalityType
    <2>5. ASSUME outstanding = 0 PROVE Room(Len(lh) + Cardinality(Slots'))
      <3>1. Active = {}
        BY <2>5, FS_EmptySet DEF RunInv, RoomInv
      <3>2. com = "none"
        BY <1>2 DEF BeginOp, At, RunInv, CommitInv
      <3>3. Len(lh) = 0
        BY <3>1, <3>2 DEF RunInv, LoggedInv
      <3>4. Cardinality(Slots') <= MaxWrites
        BY <2>1, <2>4, <2>5, LogAssumption
      <3> QED
        BY <2>4, <3>3, <3>4 DEF Room
    <2>6. ASSUME outstanding # 0 PROVE Room(Len(lh) + Cardinality(Slots'))
      <3> DEFINE n == outstanding + 1 free == MAXOPBLOCKS - MaxWrites
      <3>1. Len(lh) + n * MAXOPBLOCKS <= LOGSIZE
        BY <1>2 DEF Fits
      <3>2. n \in Nat /\ n >= 2 /\ free \in Nat /\ Len(lh) \in Nat /\ MaxWrites \in Nat
        BY SMTT(30), <2>6, LogAssumption, RoomAssumption DEF RunInv, TypeInv
      <3>3. MAXOPBLOCKS = MaxWrites + free
        BY LogAssumption
      <3>4. Cardinality(Slots') <= n * MaxWrites /\ Cardinality(Slots') \in Nat
        BY <2>1, <2>4
      <3> HIDE DEF n, free
      <3>5. /\ n * MAXOPBLOCKS = n * MaxWrites + n * free /\ n * free >= 2 * free
            /\ n * MaxWrites \in Nat
        BY <3>2, <3>3, Products
      <3>6. Len(lh) + Cardinality(Slots') + 2 * free <= LOGSIZE
        BY <3>1, <3>2, <3>4, <3>5, LogAssumption
      <3> QED
        BY <3>6 DEF free, Room
    <2> QED
      BY <2>1, <2>2, <2>3, <2>4, <2>5, <2>6 DEF RoomInv
  <1> QED
    BY <1>1, <1>2

(* A block that log_write appends uses up one of the caller's room.        *)
LEMMA WriteRoom ==
  ASSUME RunInv, TypeInv', NEW p \in Proc, NEW b \in Block, Write(p, b)
  PROVE  RoomInv'
  <1>1. Active' = Active /\ outstanding' = outstanding
    BY DEF Write, Active
  <1>2. CASE lh' = lh /\ left' = left
    <2>1. Slots' = Slots
      BY <1>2 DEF Slots
    <2> QED
      BY <1>1, <1>2, <2>1 DEF RunInv, RoomInv, Write
  <1>3. CASE /\ left[p] > 0 /\ left' = [left EXCEPT ![p] = left[p] - 1]
             /\ lh' = lh \/ lh' = Append(lh, b)
    <2> DEFINE s == <<p, left[p]>>
    <2>1. left[p] \in 1 .. MaxWrites /\ MaxWrites \in Nat
      <3>1. left[p] \in 0 .. MaxWrites
        BY Zenon DEF RunInv, TypeInv
      <3> QED
        BY <1>3, <3>1, LogAssumption
    <2>2. s \in Slots
      BY <2>1 DEF Slots
    <2>3. Slots' = Slots \ {s}
      <3>1. ASSUME NEW q \in Proc, NEW k \in 1 .. MaxWrites
            PROVE  k <= left'[q] <=> k <= left[q] /\ ~(q = p /\ k = left[p])
        <4>1. left \in [Proc -> 0 .. MaxWrites]
          BY DEF RunInv, TypeInv
        <4> QED
          BY <1>3, <2>1, <4>1
      <3>2. ASSUME NEW t \in Proc \X (1 .. MaxWrites)
            PROVE  t \in Slots' <=> t \in Slots \ {s}
        BY <3>1 DEF Slots
      <3> QED
        BY <3>2 DEF Slots
    <2>4. IsFiniteSet(Slots') /\ Cardinality(Slots') = Cardinality(Slots) - 1
      <3>1. IsFiniteSet(Slots)
        BY Zenon DEF RunInv, RoomInv
      <3> QED
        BY Zenon, <2>2, <2>3, <3>1, FS_RemoveElement
    <2>5. Len(lh') <= Len(lh) + 1 /\ Len(lh) \in Nat /\ Len(lh') \in Nat
      <3>1. lh \in Seq(Block)
        BY DEF RunInv, TypeInv
      <3> QED
        BY <1>3, <3>1
    <2>6. Cardinality(Slots) \in Nat
      BY FS_CardinalityType DEF RunInv, RoomInv
    <2>7. \A q \in Proc : pc'[q] # "op" => left'[q] = 0
      BY Zenon, <1>3 DEF RunInv, TypeInv, RoomInv, Write, At
    <2>8. Room(Len(lh') + Cardinality(Slots'))
      <3>1. Cardinality(Slots') \in Nat
        BY Zenon, <2>4, FS_CardinalityType
      <3>2. Room(Len(lh) + Cardinality(Slots))
        BY Zenon DEF RunInv, RoomInv
      <3>3. /\ Len(lh') + Cardinality(Slots') <= Len(lh) + Cardinality(Slots)
            /\ Len(lh') + Cardinality(Slots') \in Nat /\ Len(lh) + Cardinality(Slots) \in Nat
        BY <2>4, <2>5, <2>6, <3>1
      <3> QED
        BY Zenon, <3>2, <3>3, LessRoom
    <2> QED
      BY Zenon, <1>1, <2>4, <2>7, <2>8 DEF RunInv, RoomInv
  <1>4. b \in wrote[p] => lh' = lh
    BY Zenon DEF RunInv, LoggedInv, Write, LogWrite
  <1>5. lh' = lh \/ lh' = Append(lh, b)
    BY Zenon DEF Write, LogWrite
  <1> QED
    BY Zenon, <1>2, <1>3, <1>4, <1>5, WriteBudget DEF RunInv

(* Every running call keeps its room.                                      *)
LEMMA RoomInvStep == RunInv /\ TypeInv' /\ [Next]_vars => RoomInv'
  <1> SUFFICES ASSUME RunInv, TypeInv', [Next]_vars PROVE RoomInv'
    OBVIOUS
  <1>0. ASSUME UNCHANGED <<lh, outstanding, left>>, Active' = Active PROVE RoomInv'
    <2>1. Slots' = Slots
      BY <1>0 DEF Slots
    <2>2. \A q \in Proc : pc'[q] # "op" => left[q] = 0
      BY <1>0 DEF RunInv, RoomInv, Active
    <2> QED
      BY Zenon, <1>0, <2>1, <2>2 DEF RunInv, RoomInv
  <1>1. ASSUME NEW p \in Proc, BeginOp(p) PROVE RoomInv'
    BY <1>1, BeginRoom
  <1>2. ASSUME NEW p \in Proc, EndOp(p) PROVE RoomInv'
    <2>1. /\ p \in Active /\ Active' = Active \ {p}
          /\ outstanding' = outstanding - 1
          /\ left' = [left EXCEPT ![p] = 0] /\ lh' = lh
      BY Zenon, <1>2, EndActive DEF EndOp
    <2>2. IsFiniteSet(Active') /\ outstanding' = Cardinality(Active')
      BY Zenon, <2>1, FS_RemoveElement DEF RunInv, RoomInv
    <2>3. \A q \in Proc : pc'[q] # "op" => left'[q] = 0
      BY Zenon, <2>1 DEF RunInv, TypeInv, RoomInv, Active
    <2>4. Slots' \subseteq Slots
      <3>1. \A q \in Proc : left'[q] <= left[q]
        BY <2>1 DEF RunInv, TypeInv
      <3>2. \A q \in Proc : left'[q] \in Nat /\ left[q] \in Nat
        BY DEF RunInv, TypeInv
      <3> QED
        BY <3>1, <3>2 DEF Slots
    <2>5. /\ IsFiniteSet(Slots') /\ Cardinality(Slots') <= Cardinality(Slots)
          /\ Cardinality(Slots') \in Nat /\ Cardinality(Slots) \in Nat
      BY Zenon, <2>4, FS_Subset, FS_CardinalityType DEF RunInv, RoomInv
    <2>6. Len(lh) \in Nat
      BY DEF RunInv, TypeInv
    <2>7. Room(Len(lh') + Cardinality(Slots'))
      BY <2>1, <2>5, <2>6, LessRoom DEF RunInv, RoomInv
    <2> QED
      BY <2>1, <2>2, <2>3, <2>5, <2>7 DEF RunInv, RoomInv
  <1>3. ASSUME NEW p \in Proc, Finish(p) PROVE RoomInv'
    BY Zenon, <1>0, <1>3, FinishActive DEF Finish
  <1>4. ASSUME NEW p \in Proc, NEW b \in Block, Write(p, b) PROVE RoomInv'
    BY <1>4, WriteRoom
  <1>5. ASSUME NEW b \in Block, Evict(b) PROVE RoomInv'
    BY <1>0, <1>5 DEF Evict, Active, log
  <1>6. CASE WriteLog
    BY <1>0, <1>6 DEF WriteLog, Active, log
  <1>7. CASE WriteHead
    BY <1>0, <1>7 DEF WriteHead, Active, log
  <1>8. CASE Install
    BY <1>0, <1>8 DEF Install, Active, log
  <1>9. CASE ClearHead
    <2>1. Active' = Active /\ Slots' = Slots /\ Len(lh') = 0
      BY <1>9 DEF ClearHead, Active, Slots
    <2>2. Cardinality(Slots) \in Nat /\ Len(lh) \in Nat
      BY FS_CardinalityType DEF RunInv, RoomInv, TypeInv
    <2>3. Room(Len(lh') + Cardinality(Slots'))
      BY <2>1, <2>2, LessRoom DEF RunInv, RoomInv
    <2> QED
      BY Zenon, <1>9, <2>1, <2>3 DEF RunInv, RoomInv, ClearHead
  <1>10. CASE Crash
    <2>1. Active' = {}
      BY <1>10 DEF Crash, Active
    <2>2. Slots' = {}
      BY <1>10, LogAssumption DEF Crash, Slots
    <2>3. Len(lh') <= Len(lh) /\ Len(lh') \in Nat /\ Len(lh) \in Nat
      BY <1>10 DEF Crash, RunInv, TypeInv, HeadInv
    <2>4. Cardinality(Slots) \in Nat /\ Cardinality(Slots') = 0
      BY <2>2, FS_EmptySet, FS_CardinalityType DEF RunInv, RoomInv
    <2>5. Room(Len(lh') + Cardinality(Slots'))
      BY <2>3, <2>4, LessRoom DEF RunInv, RoomInv
    <2> QED
      BY <1>10, <2>1, <2>2, <2>5, FS_EmptySet DEF Crash, RoomInv
  <1>11. CASE UNCHANGED vars
    BY <1>0, <1>11 DEF Active, vars, log
  <1> QED
    BY Steps, <1>1, <1>2, <1>3, <1>4, <1>5, <1>6, <1>7, <1>8, <1>9, <1>10, <1>11

(* What a running call wrote stays logged until it ends.                   *)
LEMMA LoggedInvStep == RunInv /\ [Next]_vars => LoggedInv'
  <1> SUFFICES ASSUME RunInv, [Next]_vars PROVE LoggedInv'
    OBVIOUS
  <1> USE DEF LoggedInv
  <1>0. ASSUME UNCHANGED <<lh, wrote, recovering>>, Active' = Active,
               com' = "none" => com = "none"
        PROVE  LoggedInv'
    BY Zenon, <1>0 DEF RunInv, Active
  <1>1. ASSUME NEW p \in Proc, BeginOp(p) PROVE LoggedInv'
    <2>1. Active \subseteq Active' /\ ~recovering /\ UNCHANGED <<lh, wrote, com, recovering>>
      BY Zenon, <1>1, BeginActive DEF BeginOp, At
    <2>2. \A q \in Proc : pc'[q] # "op" => pc[q] # "op"
      BY Zenon, <2>1 DEF Active
    <2>3. com = "none" /\ Active' = {} => lh = <<>>
      BY Zenon, <2>1 DEF RunInv
    <2> QED
      BY Zenon, <2>1, <2>2, <2>3 DEF RunInv
  <1>2. ASSUME NEW p \in Proc, EndOp(p) PROVE LoggedInv'
    <2>1. /\ p \in Active /\ ~committing /\ Active' = Active \ {p} /\ lh' = lh
          /\ wrote' = [wrote EXCEPT ![p] = {}] /\ ~recovering'
      BY Zenon, <1>2, EndActive DEF EndOp, At
    <2>2. \A q \in Proc : q # p => wrote'[q] = wrote[q]
      BY Zenon, <2>1 DEF RunInv, TypeInv
    <2>3. wrote'[p] = {}
      BY Zenon, <2>1 DEF RunInv, TypeInv
    <2>4. \A q \in Proc : q # p => (pc'[q] = "op" <=> pc[q] = "op")
      BY Zenon, <2>1 DEF Active
    <2>5. com' = "none" => Active' # {}
      <3>1. CASE outstanding = 1
        BY Zenon, <1>2, <2>1, <3>1 DEF EndOp
      <3>2. CASE outstanding # 1
        <4>1. ASSUME Active' = {} PROVE Active = {p}
          BY <2>1, <4>1
        <4>2. Cardinality({p}) = 1
          BY FS_Singleton
        <4> QED
          BY Zenon, <3>2, <4>1, <4>2 DEF RunInv, RoomInv
      <3> QED
        BY <3>1, <3>2
    <2> QED
      BY Zenon, <2>1, <2>2, <2>3, <2>4, <2>5 DEF RunInv
  <1>3. ASSUME NEW p \in Proc, Finish(p) PROVE LoggedInv'
    <2>1. Active' = Active /\ lh' = lh /\ lh = <<>> /\ wrote' = wrote /\ ~recovering'
      BY Zenon, <1>3, FinishActive DEF Finish, At, Com, RunInv, HeadInv
    <2> QED
      BY Zenon, <2>1 DEF RunInv, Active
  <1>4. ASSUME NEW p \in Proc, NEW b \in Block, Write(p, b) PROVE LoggedInv'
    <2>1. p \in Active /\ Active' = Active /\ pc' = pc /\ pc[p] = "op" /\ ~recovering'
      BY Zenon, <1>4 DEF Write, At, Active
    <2>2. CASE UNCHANGED <<lh, wrote>>
      BY Zenon, <2>1, <2>2 DEF RunInv
    <2>3. CASE LogWrite(b) /\ wrote' = [wrote EXCEPT ![p] = @ \cup {b}]
      <3>1. Range(lh) \cup {b} \subseteq Range(lh')
        <4>1. CASE b \in Range(lh) /\ lh' = lh
          BY <4>1
        <4>2. CASE lh' = Append(lh, b)
          BY <4>2, Appended DEF RunInv, Range
        <4> QED
          BY Zenon, <2>3, <4>1, <4>2 DEF LogWrite
      <3>2. \A q \in Proc : q # p => wrote'[q] = wrote[q]
        BY Zenon, <2>3 DEF RunInv, TypeInv
      <3>3. wrote'[p] = wrote[p] \cup {b}
        BY Zenon, <2>3 DEF RunInv, TypeInv
      <3> QED
        BY Zenon, <2>1, <3>1, <3>2, <3>3 DEF RunInv
    <2> QED
      BY Zenon, <1>4, <2>2, <2>3 DEF Write
  <1>5. ASSUME NEW b \in Block, Evict(b) PROVE LoggedInv'
    BY Zenon, <1>0, <1>5 DEF Evict, Active, log
  <1>6. CASE WriteLog
    BY Zenon, <1>0, <1>6 DEF WriteLog, Active, log
  <1>7. CASE WriteHead
    BY Zenon, <1>0, <1>7 DEF WriteHead, Active, log
  <1>8. CASE Install
    BY Zenon, <1>0, <1>8 DEF Install, Active, log
  <1>9. CASE ClearHead
    <2>1. Active = {} /\ wrote' = wrote /\ pc' = pc /\ lh' = <<>> /\ ~recovering'
      BY Zenon, <1>9, InstallIdle DEF ClearHead, Com
    <2>2. \A q \in Proc : wrote[q] = {}
      BY Zenon, <2>1 DEF RunInv, Active
    <2> QED
      BY Zenon, <2>1, <2>2
  <1>10. CASE Crash
    BY Zenon, <1>10 DEF Crash, Active
  <1>11. CASE UNCHANGED vars
    BY Zenon, <1>0, <1>11 DEF Active, vars, log
  <1> QED
    BY Zenon, Steps, <1>1, <1>2, <1>3, <1>4, <1>5, <1>6, <1>7, <1>8, <1>9, <1>10, <1>11

----------------------------------------------------------------------------
(* The header on disk.                                                     *)

(* A call that runs excludes a commit and recovery.                        *)
LEMMA NoCommit ==
  ASSUME RunInv, NEW p \in Proc, At(p, "op")
  PROVE  com = "none" /\ ~recovering /\ head = <<>>
  BY DEF RunInv, CommitInv, HeadInv, At, Active

(* The header names the logged blocks exactly while they are installed.    *)
LEMMA HeadInvStep == RunInv /\ TypeInv' /\ [Next]_vars => HeadInv'
  <1> SUFFICES ASSUME RunInv, TypeInv', [Next]_vars PROVE HeadInv'
    OBVIOUS
  <1> USE DEF HeadInv
  <1>1. ASSUME NEW p \in Proc, BeginOp(p) PROVE HeadInv'
    BY <1>1 DEF RunInv, BeginOp
  <1>2. ASSUME NEW p \in Proc, EndOp(p) PROVE HeadInv'
    BY Zenon, <1>2, NoCommit DEF RunInv, EndOp
  <1>3. ASSUME NEW p \in Proc, Finish(p) PROVE HeadInv'
    BY <1>3 DEF RunInv, Finish, Com
  <1>4. ASSUME NEW p \in Proc, NEW b \in Block, Write(p, b) PROVE HeadInv'
    <2>1. com' = "none" /\ head' = <<>>
      BY <1>4, NoCommit DEF Write
    <2>2. IsInjective(lh') /\ Len(lh') <= LOGSIZE
      <3>1. CASE lh' = lh
        BY <3>1 DEF RunInv
      <3>2. CASE Len(lh) < LOGSIZE /\ b \notin Range(lh) /\ lh' = Append(lh, b)
        <4>1. /\ DOMAIN lh' = DOMAIN lh \cup {Len(lh) + 1} /\ lh'[Len(lh) + 1] = b
              /\ \A i \in DOMAIN lh : lh'[i] = lh[i]
          BY <3>2, Appended DEF RunInv
        <4>2. IsInjective(lh')
          BY <3>2, <4>1 DEF RunInv, IsInjective, Range
        <4> QED
          BY <3>2, <4>2, LogAssumption DEF RunInv, TypeInv
      <3>3. ~(Len(lh) >= LOGSIZE) => Len(lh) < LOGSIZE
        BY LogAssumption DEF RunInv, TypeInv
      <3> QED
        BY <1>4, <3>1, <3>2, <3>3 DEF Write, LogWrite
    <2> QED
      BY <2>1, <2>2
  <1>5. ASSUME NEW b \in Block, Evict(b) PROVE HeadInv'
    BY Zenon, <1>5 DEF RunInv, Evict, log
  <1>6. CASE WriteLog
    BY Zenon, <1>6 DEF RunInv, WriteLog, log
  <1>7. CASE WriteHead
    BY Zenon, <1>7 DEF RunInv, WriteHead, NothingLogged, Com, log
  <1>8. CASE Install
    BY Zenon, <1>8 DEF RunInv, Install, log
  <1>9. CASE ClearHead
    BY <1>9, LogAssumption DEF ClearHead, IsInjective
  <1>10. CASE Crash
    BY <1>10, LogAssumption DEF RunInv, Crash, IsInjective
  <1>11. CASE UNCHANGED vars
    BY Zenon, <1>11 DEF RunInv, vars, log
  <1> QED
    BY Zenon, Steps, <1>1, <1>2, <1>3, <1>4, <1>5, <1>6, <1>7, <1>8, <1>9, <1>10, <1>11

----------------------------------------------------------------------------
(* Theorems.                                                               *)

(* The invariant holds at boot.                                            *)
LEMMA RunInvInit == Init => RunInv
  <1> SUFFICES ASSUME Init PROVE RunInv
    OBVIOUS
  <1>1. TypeInv
    <2>1. (CHOOSE v \in Value : TRUE) \in Value
      BY LogAssumption
    <2>2. logblk \in [1 .. LOGSIZE -> Value]
      BY <2>1 DEF Init
    <2>3. left \in [Proc -> 0 .. MaxWrites] /\ wrote \in [Proc -> SUBSET Block]
      BY LogAssumption DEF Init
    <2>4. pc \in [Proc -> Labels]
      BY DEF Init, Labels
    <2>5. cache \in [Block -> Value \cup {None}] /\ pin \in [Block -> Int]
      BY DEF Init
    <2>6. /\ head \in Seq(Block) /\ lh \in Seq(Block) /\ outstanding \in Nat
          /\ tail \in Nat \ {0} /\ crashes \in Nat
      BY DEF Init
    <2>7. committing \in BOOLEAN /\ recovering \in BOOLEAN /\ panicked \in BOOLEAN
      BY Zenon DEF Init
    <2> QED
      BY Zenon, <2>2, <2>3, <2>4, <2>5, <2>6, <2>7 DEF Init, TypeInv
  <1>2. Active = {} /\ Slots = {}
    BY LogAssumption DEF Init, Active, Slots
  <1>3. CommitInv
    BY <1>2 DEF Init, CommitInv
  <1>4. RoomInv
    BY <1>2, FS_EmptySet, LogAssumption DEF Init, RoomInv, Room
  <1>5. LoggedInv
    BY Zenon, <1>2 DEF Init, LoggedInv
  <1>6. HeadInv
    BY LogAssumption DEF Init, HeadInv, IsInjective
  <1> QED
    BY <1>1, <1>3, <1>4, <1>5, <1>6 DEF RunInv

(* The invariant that the theorems below rest on.                          *)
LEMMA LogRuns == Spec => []RunInv
  <1>1. RunInv /\ [Next]_vars => RunInv'
    BY TypeStep, CommitInvStep, RoomInvStep, LoggedInvStep, HeadInvStep DEF RunInv
  <1> QED
    BY <1>1, RunInvInit, PTL DEF Spec

(* No log_write finds the log full and no end_op finds a commit running:   *)
(* what begin_op admits fits, however many processes make system calls and *)
(* however often each writes the same block again.                         *)
THEOREM LogNoPanic == Spec => []NoPanic
  <1>1. Init => NoPanic
    BY DEF Init, NoPanic
  <1>2. RunInv /\ NoPanic /\ [Next]_vars => NoPanic'
    <2> SUFFICES ASSUME RunInv, NoPanic, [Next]_vars PROVE NoPanic'
      OBVIOUS
    <2> USE DEF NoPanic
    <2>1. ASSUME NEW p \in Proc, EndOp(p) PROVE NoPanic'
      BY Zenon, <2>1, EndActive DEF EndOp
    <2>2. ASSUME NEW p \in Proc, NEW b \in Block, Write(p, b) PROVE NoPanic'
      <3>1. p \in Active /\ outstanding >= 1
        <4>1. p \in Active
          BY Zenon, <2>2 DEF Write, At, Active
        <4> QED
          BY <4>1, FS_EmptySet, FS_CardinalityType DEF RunInv, TypeInv, RoomInv
      <3>2. Cardinality(Slots) \in Nat /\ Len(lh) \in Nat
        BY FS_CardinalityType DEF RunInv, TypeInv, RoomInv
      <3>3. Room(Len(lh))
        BY <3>2, LessRoom DEF RunInv, RoomInv
      <3>4. Len(lh) < LOGSIZE /\ Len(lh) < Size - 1
        BY Zenon, <3>2, <3>3, RoomEnough
      <3>5. ~(Len(lh) >= LOGSIZE \/ Len(lh) >= Size - 1 \/ outstanding < 1)
        BY <3>1, <3>4, LogAssumption DEF RunInv, TypeInv
      <3> QED
        BY <2>2, <3>5 DEF Write
    <2>3. CASE UNCHANGED panicked \/ Crash
      BY <2>3 DEF Crash
    <2> QED
      BY Zenon, Steps, <2>1, <2>2, <2>3
      DEF BeginOp, Finish, Evict, WriteLog, WriteHead, Install, ClearHead, vars
  <1> QED
    BY <1>1, <1>2, LogRuns, PTL DEF Spec
=============================================================================
