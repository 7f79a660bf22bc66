--------------------------- MODULE ProcInvariant ----------------------------
(***************************************************************************)
(* The inductive invariant of the process table, and that fork, exit and   *)
(* wait preserve it.  ProcProofs goes on with the other steps.             *)
(***************************************************************************)
EXTENDS Proc, TLAPS

----------------------------------------------------------------------------
(* The invariant.                                                          *)

States == {"UNUSED", "USED", "SLEEPING", "RUNNABLE", "RUNNING", "ZOMBIE"}
Label == {"none", "user", "fork", "fork_parent", "fork_run", "exit", "exit_wake",
          "exit_zombie", "wait", "scan", "wait_sleep", "sleep", "sleep_loop",
          "sleep_sleep", "kill"}

ProcType ==
    /\ state \in [Slot -> States] /\ plock \in [Slot -> BOOLEAN]
    /\ pc \in [Slot -> Label] /\ np \in [Slot -> Slot \cup {None}]
    /\ parent \in [Slot -> Slot \cup {None}] /\ chan \in [Slot -> Slot \cup {None, Ticks}]
CpuType == cpu \in [Hart -> Slot \cup {None}]
PidType == killed \in [Slot -> BOOLEAN] /\ pid \in [Slot -> Nat] /\ nextpid \in Nat \ {0, 1}
LockType == wait_lock \in Slot \cup {None} /\ tickslock \in Slot \cup {None, Clock}
ClockType == clk = Idle \/ clk \in {"update", "wakeup"} \X Slot
TimeType ==
    /\ ticks \in Nat /\ ticks0 \in [Slot -> Nat]
    /\ rtime \in [Slot -> Nat] /\ ctime \in [Slot -> Nat] /\ etime \in [Slot -> Nat]

TypeInv == ProcType /\ CpuType /\ PidType /\ LockType /\ ClockType /\ TimeType

(* A hart and its process: they belong to each other while the process     *)
(* runs and until it has left its stack in sched().                        *)
OnCpu(p) == \/ ~plock[p] /\ state[p] = "RUNNING"
            \/ plock[p] /\ state[p] \in {"SLEEPING", "RUNNABLE", "ZOMBIE"}
CpuInv ==
    /\ \A h \in Hart : cpu[h] # None =>
         OnCpu(cpu[h]) /\ \A g \in Hart : cpu[g] = cpu[h] => g = h
    /\ \A p \in Slot : plock[p] \/ state[p] = "RUNNING" => \E h \in Hart : cpu[h] = p

(* Where a thread is, by the state of its slot; the slot of a new process  *)
(* belongs to the fork that fills it; and init is never killed.            *)
Placed(p) ==
    /\ pc[p] = "none" <=> state[p] \in {"UNUSED", "ZOMBIE"}
    /\ state[p] = "USED" => pc[p] = "user"
    /\ state[p] = "SLEEPING" => \/ chan[p] = p /\ pc[p] = "wait"
                                \/ chan[p] = Ticks /\ pc[p] = "sleep_loop"
    /\ np[p] # None <=> pc[p] \in {"fork_parent", "fork_run"}
NpInv ==
    \A p \in Slot : np[p] # None =>
      state[np[p]] = "USED" /\ \A q \in Slot : np[q] = np[p] => q = p
InitAlive ==
    /\ pc[initproc] \notin {"none", "exit", "exit_wake", "exit_zombie"}
    /\ state[initproc] # "USED" /\ pid[initproc] = 1 /\ ~killed[initproc]
ThreadInv == (\A p \in Slot : Placed(p)) /\ NpInv /\ InitAlive

(* Every process but init has a parent that can reap it.                   *)
ParentInv ==
    /\ parent[initproc] = None
    /\ \A q \in Slot : state[q] = "UNUSED" => parent[q] = None
    /\ \A q \in Slot : q # initproc /\ state[q] \notin {"UNUSED", "USED"} => parent[q] # None
    /\ \A q \in Slot : parent[q] # None => state[parent[q]] \notin {"UNUSED", "ZOMBIE"}
    /\ \A p \in Slot :
         /\ pc[p] = "fork_run" => parent[np[p]] = p
         /\ pc[p] \in {"exit_wake", "exit_zombie"} => \A q \in Slot : parent[q] # p

(* Who holds wait_lock and tickslock; the holder is on its hart.           *)
LockAt(p) ==
    /\ wait_lock = p <=> pc[p] \in {"exit_wake", "exit_zombie", "scan", "wait_sleep"}
    /\ pc[p] = "sleep_sleep" => tickslock = p
    /\ tickslock = p => pc[p] \in {"sleep_loop", "sleep_sleep"}
    /\ wait_lock = p \/ tickslock = p => state[p] = "RUNNING" /\ ~plock[p]
LockInv == (\A p \in Slot : LockAt(p)) /\ (tickslock = Clock <=> clk # Idle)

(* NoLostWakeup, with what the locks keep true between the look and the    *)
(* sleep, and between the wakeup and the change it announces.              *)
Waits(p) == state[p] = "SLEEPING" /\ chan[p] = p
Early(p) == ticks - ticks0[p] < SleepTime

ZombieInv ==
    /\ \A q \in Slot : (pc[q] = "exit_zombie" \/ state[q] = "ZOMBIE") /\ parent[q] # None
         => ~Waits(parent[q])
    /\ \A p, q \in Slot : pc[p] = "wait_sleep" /\ parent[q] = p => state[q] # "ZOMBIE"

TickInv ==
    \A p \in Slot :
      /\ pc[p] = "sleep_sleep" => Early(p)
      /\ state[p] = "SLEEPING" /\ chan[p] = Ticks
           /\ (tickslock # Clock \/ (clk[1] = "wakeup" /\ p < clk[2])) => Early(p)

(* update_time() counts a tick at most once, and it has not counted the    *)
(* current one for the slots it did not reach yet.                         *)
TimeInv ==
    \A q \in Slot : state[q] # "UNUSED" =>
      /\ ctime[q] <= ticks
      /\ rtime[q] <= ticks - ctime[q] + 1
      /\ clk[1] = "update" /\ clk[2] <= q => rtime[q] <= ticks - ctime[q]
      /\ state[q] = "ZOMBIE" => ctime[q] <= etime[q] /\ rtime[q] <= etime[q] - ctime[q] + 1

IInv == TypeInv /\ CpuInv /\ ThreadInv /\ ParentInv /\ LockInv /\ ZombieInv /\ TickInv /\ TimeInv

----------------------------------------------------------------------------
(* The constants and the operations, in the form the proofs use.           *)

(* The null pointer, the channel of the clock and clockintr are no slots.  *)
LEMMA Names ==
  /\ initproc \in Slot /\ 0 \in Hart
  /\ None \notin Slot /\ Ticks \notin Slot /\ Clock \notin Slot /\ Ticks # None /\ Clock # None
  BY SlotAssumption, HartAssumption, ClockAssumption DEF Slot, initproc

(* The loops of update_time() and wakeup() stay in the process table.      *)
LEMMA ClockSlots ==
  /\ 0 \in Slot /\ Slot \subseteq Nat
  /\ \A q \in Slot : /\ q < N - 1 => q + 1 \in Slot
                     /\ ~(q < N - 1) => \A r \in Slot : r <= q
  BY SlotAssumption DEF Slot

(* What a program asks for is a system call; init never exits, and nobody  *)
(* kills it.                                                               *)
LEMMA SystemCalls ==
  /\ \A p \in Slot : Call[p] \subseteq {"fork", "exit", "wait", "sleep", "kill"}
  /\ "exit" \notin Call[initproc] /\ 1 \notin KillPid
  BY CallAssumption

(* What a step may do to a slot without disturbing the invariant: wakeup() *)
(* or less; and, clause by clause, what is harmless to one of its parts.   *)
Same(r) ==
    /\ pc'[r] = pc[r] /\ np'[r] = np[r] /\ plock'[r] = plock[r] /\ chan'[r] = chan[r]
    /\ ticks0'[r] = ticks0[r]
    /\ state'[r] = state[r] \/ (state[r] = "SLEEPING" /\ state'[r] = "RUNNABLE")
KeepsCpu(r) ==
    /\ OnCpu(r) => OnCpu(r)'
    /\ plock'[r] \/ state'[r] = "RUNNING" => plock[r] \/ state[r] = "RUNNING"
Childless(r) == \A q \in Slot : parent[q] # r
KeepsParent(r) ==
    /\ state'[r] = "UNUSED" => state[r] = "UNUSED"
    /\ state'[r] \notin {"UNUSED", "USED"} => state[r] \notin {"UNUSED", "USED"} \/ parent[r] # None
    /\ state[r] \notin {"UNUSED", "ZOMBIE"} => state'[r] \notin {"UNUSED", "ZOMBIE"} \/ Childless(r)
    /\ pc'[r] = "fork_run" => pc[r] = "fork_run" /\ np'[r] = np[r]
    /\ pc'[r] \in {"exit_wake", "exit_zombie"} => pc[r] \in {"exit_wake", "exit_zombie"}
NoneZombie(r) == \A q \in Slot : parent[q] = r => state[q] # "ZOMBIE"
NoneExits(r) == \A q \in Slot : parent[q] = r => pc[q] # "exit_zombie" /\ state[q] # "ZOMBIE"
Woken(r) == parent[r] # None => ~(state'[parent[r]] = "SLEEPING" /\ chan'[parent[r]] = parent[r])
KeepsZombie(r) ==
    /\ pc'[r] = "exit_zombie" => pc[r] = "exit_zombie" \/ Woken(r)
    /\ state'[r] = "ZOMBIE" => state[r] = "ZOMBIE"
    /\ Waits(r)' => Waits(r) \/ NoneExits(r)
    /\ pc'[r] = "wait_sleep" => pc[r] = "wait_sleep" \/ NoneZombie(r)
KeepsTick(r) ==
    /\ pc'[r] = "sleep_sleep" => (pc[r] = "sleep_sleep" /\ ticks0'[r] = ticks0[r]) \/ Early(r)'
    /\ state'[r] = "SLEEPING" /\ chan'[r] = Ticks =>
         (state[r] = "SLEEPING" /\ chan[r] = Ticks /\ ticks0'[r] = ticks0[r]) \/ Early(r)'
KeepsTime(r) ==
    /\ state'[r] # "UNUSED" => state[r] # "UNUSED"
    /\ state'[r] = "ZOMBIE" => state[r] = "ZOMBIE"
Quiet(r) == /\ KeepsParent(r) /\ KeepsZombie(r) /\ KeepsTick(r) /\ KeepsTime(r)
            /\ state[r] = "USED" => state'[r] = "USED"
Calm(r) == KeepsCpu(r) /\ Quiet(r)

(* A slot that is left alone, or woken, disturbs nothing.                  *)
LEMMA SameIsCalm ==
  ASSUME NEW r \in Slot, Same(r)
  PROVE  Calm(r) /\ (Placed(r) => Placed(r)')
  <1>1. KeepsCpu(r) /\ KeepsTime(r) /\ (state[r] = "USED" => state'[r] = "USED")
    BY Zenon DEF Same, KeepsCpu, KeepsTime, OnCpu
  <1>2. KeepsParent(r)
    BY Zenon DEF Same, KeepsParent
  <1>3. KeepsZombie(r)
    BY Zenon DEF Same, KeepsZombie, Waits
  <1>4. KeepsTick(r)
    BY Zenon DEF Same, KeepsTick
  <1>5. Placed(r) => Placed(r)'
    BY Zenon DEF Same, Placed
  <1> QED
    BY Zenon, <1>1, <1>2, <1>3, <1>4, <1>5 DEF Calm, Quiet

(* Nor does it lose or win a lock.                                         *)
LEMMA LockSame ==
  ASSUME NEW r \in Slot, Same(r), LockAt(r), wait_lock' = r <=> wait_lock = r,
         tickslock' = r <=> tickslock = r
  PROVE  LockAt(r)'
  BY Zenon DEF Same, LockAt

(* Harts and processes still belong to each other.                         *)
LEMMA CpuKept ==
  ASSUME CpuInv, CpuType, cpu' = cpu, \A r \in Slot : KeepsCpu(r)
  PROVE  CpuInv'
  BY DEF CpuInv, CpuType, KeepsCpu, OnCpu

(* The tree of processes is still whole.                                   *)
LEMMA ParentKept ==
  ASSUME ParentInv, ProcType, parent' = parent, \A r \in Slot : KeepsParent(r)
  PROVE  ParentInv'
  BY DEF ParentInv, ProcType, KeepsParent, Childless

(* No parent sleeps through the exit of its child.                         *)
LEMMA ZombieKept ==
  ASSUME ZombieInv, ProcType, parent' = parent, \A r \in Slot : KeepsZombie(r)
  PROVE  ZombieInv'
  BY DEF ZombieInv, ProcType, KeepsZombie, Waits, NoneZombie, NoneExits, Woken

(* Nobody sleeps through the tick it waits for.                            *)
LEMMA TickKept ==
  ASSUME TickInv, UNCHANGED <<ticks, clk>>, \A r \in Slot : KeepsTick(r),
         tickslock' = Clock <=> tickslock = Clock
  PROVE  TickInv'
  BY Zenon DEF TickInv, KeepsTick, Early

(* The times still fit together.                                           *)
LEMMA TimeKept ==
  ASSUME TimeInv, UNCHANGED <<rtime, ctime, etime, ticks, clk>>, \A r \in Slot : KeepsTime(r)
  PROVE  TimeInv'
  BY Zenon DEF TimeInv, KeepsTime

(* The slot of a new process still belongs to its fork.                    *)
LEMMA NpKept ==
  ASSUME NpInv, ProcType, np' = np, \A r \in Slot : Quiet(r)
  PROVE  NpInv'
  BY DEF NpInv, ProcType, Quiet

(* A step of thread p that is harmless in its slot, and leaves the other   *)
(* slots and their locks as they are.                                      *)
Alone(p) == \A r \in Slot : r # p => /\ Same(r)
                                     /\ wait_lock' = r <=> wait_lock = r
                                     /\ tickslock' = r <=> tickslock = r

LEMMA StepButCpu ==
  ASSUME IInv, TypeInv', NEW p \in Slot, Alone(p), Quiet(p), Placed(p)', LockAt(p)', InitAlive',
         CpuInv', tickslock' = Clock <=> tickslock = Clock,
         UNCHANGED <<parent, np, rtime, ctime, etime, ticks, clk>>
  PROVE  IInv'
  <1>1. ProcType /\ ThreadInv /\ ParentInv /\ LockInv /\ ZombieInv /\ TickInv /\ TimeInv
    BY Zenon DEF IInv, TypeInv
  <1>2. \A r \in Slot : Quiet(r)
    BY Zenon, SameIsCalm DEF Alone, Calm
  <1>3. \A r \in Slot : Placed(r)'
    BY Zenon, <1>1, SameIsCalm DEF Alone, ThreadInv
  <1>4. \A r \in Slot : LockAt(r)'
    BY Zenon, <1>1, LockSame DEF Alone, LockInv
  <1>5. ParentInv'
    BY Zenon, <1>1, <1>2, ParentKept DEF Quiet
  <1>6. ZombieInv'
    BY Zenon, <1>1, <1>2, ZombieKept DEF Quiet
  <1>7. TickInv'
    BY Zenon, <1>1, <1>2, TickKept DEF Quiet
  <1>8. TimeInv'
    BY Zenon, <1>1, <1>2, TimeKept DEF Quiet
  <1>9. ThreadInv'
    BY Zenon, <1>1, <1>2, <1>3, NpKept DEF ThreadInv
  <1>10. LockInv'
    BY Zenon, <1>1, <1>4 DEF LockInv
  <1> QED
    BY Zenon, <1>5, <1>6, <1>7, <1>8, <1>9, <1>10 DEF IInv

(* The same for a step that leaves the harts alone.                        *)
LEMMA StepOfOne ==
  ASSUME IInv, TypeInv', NEW p \in Slot, Alone(p), Calm(p), Placed(p)', LockAt(p)', InitAlive',
         tickslock' = Clock <=> tickslock = Clock,
         UNCHANGED <<parent, np, cpu, rtime, ctime, etime, ticks, clk>>
  PROVE  IInv'
  <1>1. \A r \in Slot : KeepsCpu(r)
    BY Zenon, SameIsCalm DEF Alone, Calm
  <1>2. CpuInv'
    BY Zenon, <1>1, CpuKept DEF IInv, TypeInv
  <1> QED
    BY Zenon, <1>2, StepButCpu DEF Calm

(* fork by its outcome: process q is made, or nothing but a pid is used.   *)
ForkMakes(p, q) ==
    /\ pc[p] = "fork" /\ Runs(p)
    /\ state[q] = "UNUSED" /\ state' = [state EXCEPT ![q] = "USED"]
    /\ pid' = [pid EXCEPT ![q] = nextpid] /\ nextpid' = nextpid + 1
    /\ rtime' = [rtime EXCEPT ![q] = 0] /\ etime' = [etime EXCEPT ![q] = 0]
    /\ ctime' = [ctime EXCEPT ![q] = ticks]
    /\ np' = [np EXCEPT ![p] = q]
    /\ pc' = [pc EXCEPT ![p] = "fork_parent", ![q] = "user"]
    /\ UNCHANGED <<killed, chan, parent, locks, ticks0, cpu, ticks, clk>>

ForkFails(p) ==
    /\ pc[p] = "fork" /\ Runs(p) /\ Goto(p, "user")
    /\ killed' = killed \/ \E q \in Slot : state[q] = "UNUSED" /\ killed' = [killed EXCEPT ![q] = FALSE]
    /\ nextpid' \in {nextpid, nextpid + 1}
    /\ UNCHANGED <<state, pid, rtime, etime, ctime, np, chan, parent, locks, ticks0, cpu, ticks, clk>>

(* These are the outcomes of Fork.                                         *)
LEMMA ForkEither ==
  ASSUME NEW p \in Slot, Fork(p)
  PROVE  ForkFails(p) \/ \E q \in Slot : ForkMakes(p, q)
  BY Zenon DEF Fork, ForkFails, ForkMakes, At, StartTimes, Goto

(* wait by its outcome: process q is gone, or its status was not copied.   *)
Reaps(p, q) ==
    /\ pc[p] = "scan" /\ Runs(p)
    /\ parent[q] = p /\ state[q] = "ZOMBIE" /\ ~plock[q] /\ FreeProc(q)
    /\ wait_lock' = None /\ Goto(p, "user")
    /\ UNCHANGED <<rtime, ctime, etime, plock, tickslock, np, ticks0, cpu, nextpid, ticks, clk>>

ReapFails(p) ==
    /\ pc[p] = "scan" /\ Runs(p)
    /\ wait_lock' = None /\ Goto(p, "user")
    /\ UNCHANGED <<fields, plock, tickslock, np, ticks0, cpu, nextpid, ticks, clk>>

(* These are the outcomes of WaitReap.                                     *)
LEMMA ReapEither ==
  ASSUME NEW p \in Slot, WaitReap(p)
  PROVE  ReapFails(p) \/ \E q \in Slot : Reaps(p, q)
  BY Zenon DEF WaitReap, Reapable, Children, Reaps, ReapFails, At, fields

(* A process that takes a step is RUNNING on a hart and not in sched().    *)
LEMMA OnHart ==
  ASSUME CpuInv, NEW p \in Slot, Runs(p)
  PROVE  state[p] = "RUNNING" /\ ~plock[p] /\ \E h \in Hart : cpu[h] = p
  BY Names DEF CpuInv, OnCpu, Runs

----------------------------------------------------------------------------
(* The invariant holds initially, and whenever nothing changes.            *)
LEMMA InitInv == Init => IInv
  <1> SUFFICES ASSUME Init PROVE IInv
    OBVIOUS
  <1> USE Names
  <1>1. TypeInv
    BY DEF Init, TypeInv, ProcType, CpuType, PidType, LockType, ClockType, TimeType, States, Label
  <1>2. CpuInv /\ ThreadInv
    BY DEF Init, CpuInv, ThreadInv, Placed, NpInv, InitAlive
  <1>3. LockInv
    BY DEF Init, LockInv, LockAt
  <1>4. ParentInv /\ ZombieInv
    BY DEF Init, ParentInv, ZombieInv
  <1>5. TickInv
    BY DEF Init, TickInv
  <1>6. TimeInv
    BY DEF Init, TimeInv, Idle
  <1> QED
    BY <1>1, <1>2, <1>3, <1>4, <1>5, <1>6 DEF IInv

(* A pointer is null or names a slot.                                      *)
LEMMA Pointers ==
  ASSUME IInv
  PROVE  /\ initproc \in Slot /\ None \notin Slot /\ Clock \notin Slot
         /\ \A q \in Slot : parent[q] # None => parent[q] \in Slot
         /\ \A q \in Slot : np[q] # None => np[q] \in Slot
         /\ \A h \in Hart : cpu[h] # None => cpu[h] \in Slot
  BY Names DEF IInv, TypeInv, ProcType, CpuType

(* The invariant survives a step that changes nothing.                     *)
LEMMA StutterKeeps == ASSUME IInv, UNCHANGED vars PROVE IInv'
  <1>1. UNCHANGED <<state, chan, killed, pid, parent, rtime, ctime, etime, plock, wait_lock,
                    tickslock, pc, np, ticks0, cpu, nextpid, ticks, clk>>
    BY Zenon DEF vars, fields, locks, thread
  <1>2. Alone(initproc) /\ Same(initproc) /\ initproc \in Slot
    BY Zenon, <1>1, Names DEF Alone, Same
  <1>3. Placed(initproc) /\ LockAt(initproc) /\ InitAlive
    BY Zenon, Names DEF IInv, ThreadInv, LockInv
  <1>4. Calm(initproc) /\ Placed(initproc)' /\ LockAt(initproc)'
    BY Zenon, <1>1, <1>2, <1>3, SameIsCalm, LockSame
  <1>5. InitAlive'
    BY Zenon, <1>1, <1>3 DEF InitAlive
  <1>6. TypeInv'
    BY Zenon, <1>1 DEF IInv, TypeInv, ProcType, CpuType, PidType, LockType, ClockType, TimeType
  <1> QED
    BY Zenon, <1>1, <1>2, <1>4, <1>5, <1>6, StepOfOne

----------------------------------------------------------------------------
(* Steps that only move one thread, with it the two locks, and wake others.*)

Busy == {"none", "fork_parent", "fork_run", "exit_wake", "exit_zombie"}
WaitLockMoves(p, l) ==
    /\ wait_lock' = p <=> l \in {"scan", "wait_sleep"}
    /\ wait_lock' = wait_lock \/ (wait_lock \in {p, None} /\ wait_lock' \in {p, None})
TicksLockMoves(p, l) ==
    /\ l = "sleep_sleep" => tickslock' = p
    /\ tickslock' = p => l \in {"sleep_loop", "sleep_sleep"}
    /\ tickslock' = tickslock \/ (tickslock \in {p, None} /\ tickslock' \in {p, None})
Ticks0Moves(p) == ticks0' \in [Slot -> Nat] /\ \A r \in Slot : r # p => ticks0'[r] = ticks0[r]
OthersWake(p) ==
    /\ state' \in [Slot -> States] /\ state'[p] = state[p]
    /\ \A r \in Slot : state'[r] = state[r] \/ (state[r] = "SLEEPING" /\ state'[r] = "RUNNABLE")
Jump(p, l) ==
    /\ Runs(p) /\ Goto(p, l) /\ pc[p] \notin Busy /\ l \notin Busy
    /\ p = initproc => l # "exit"
    /\ l = "wait_sleep" => NoneZombie(p)
    /\ l = "sleep_sleep" => Early(p)'
    /\ WaitLockMoves(p, l) /\ TicksLockMoves(p, l) /\ Ticks0Moves(p) /\ OthersWake(p)
    /\ UNCHANGED <<chan, pid, parent, rtime, ctime, etime, plock, np, cpu, ticks, clk>>

(* Such a jump keeps the invariant.                                        *)
LEMMA JumpKeeps ==
  ASSUME IInv, NEW p \in Slot, NEW l \in Label, Jump(p, l), PidType', ~killed'[initproc]
  PROVE  IInv'
  <1>1. ProcType /\ CpuInv /\ ThreadInv /\ LockInv /\ LockType /\ TimeType
    BY Zenon DEF IInv, TypeInv
  <1>2. state[p] = "RUNNING" /\ state'[p] = "RUNNING" /\ ~plock[p] /\ ~plock'[p] /\ p # None /\ p # Clock
    BY Zenon, <1>1, OnHart, Names DEF Jump, OthersWake
  <1>3. pc[p] \notin Busy /\ l \notin Busy /\ pc'[p] = l /\ \A r \in Slot : r # p => pc'[r] = pc[r]
    BY Zenon, <1>1 DEF ProcType, Jump, Goto
  <1>4. UNCHANGED <<chan, pid, parent, rtime, ctime, etime, plock, np, cpu, ticks, clk>>
    BY Zenon DEF Jump
  <1>5. /\ \A r \in Slot : r # p => (wait_lock' = r <=> wait_lock = r) /\ (tickslock' = r <=> tickslock = r)
        /\ tickslock' = Clock <=> tickslock = Clock
    BY Zenon, <1>2, Names DEF Jump, WaitLockMoves, TicksLockMoves
  <1>6. Alone(p)
    BY Zenon, <1>3, <1>4, <1>5 DEF Alone, Same, Jump, Ticks0Moves, OthersWake
  <1>7. Calm(p)
    <2>1. KeepsCpu(p) /\ KeepsTime(p)
      BY Zenon, <1>2 DEF KeepsCpu, KeepsTime, OnCpu
    <2>2. KeepsParent(p)
      BY Zenon, <1>2, <1>3 DEF KeepsParent, Busy
    <2>3. KeepsZombie(p)
      BY Zenon, <1>2, <1>3 DEF KeepsZombie, Waits, Busy, Jump
    <2>4. KeepsTick(p)
      BY Zenon, <1>2, <1>3 DEF KeepsTick, Jump
    <2> QED
      BY Zenon, <1>2, <2>1, <2>2, <2>3, <2>4 DEF Calm, Quiet
  <1>8. Placed(p)'
    BY Zenon, <1>1, <1>2, <1>3, <1>4 DEF ThreadInv, Placed, Busy
  <1>9. LockAt(p)'
    BY Zenon, <1>2, <1>3 DEF LockAt, Busy, Jump, WaitLockMoves, TicksLockMoves
  <1>10. InitAlive'
    <2>1. InitAlive /\ (p = initproc => l # "exit")
      BY Zenon, <1>1 DEF ThreadInv, Jump
    <2>2. pc'[initproc] \notin {"none", "exit", "exit_wake", "exit_zombie"}
      BY Zenon, <1>3, <2>1, Names DEF InitAlive, Busy
    <2>3. state'[initproc] # "USED"
      BY Zenon, <2>1, Names DEF InitAlive, Jump, OthersWake
    <2> QED
      BY Zenon, <1>4, <2>1, <2>2, <2>3 DEF InitAlive
  <1>11. TypeInv'
    <2>1. ProcType'
      BY Zenon, <1>1, <1>4 DEF ProcType, Jump, Goto, OthersWake
    <2>2. LockType'
      BY Zenon, <1>1 DEF LockType, Jump, WaitLockMoves, TicksLockMoves
    <2>3. TimeType'
      BY Zenon, <1>1, <1>4 DEF TimeType, Jump, Ticks0Moves
    <2> QED
      BY Zenon, <1>4, <2>1, <2>2, <2>3 DEF IInv, TypeInv, CpuType, ClockType
  <1> QED
    BY Zenon, <1>4, <1>5, <1>6, <1>7, <1>8, <1>9, <1>10, <1>11, StepOfOne

----------------------------------------------------------------------------
(* The steps of fork, exit and wait.                                       *)

(* A jump between places without a lock, while nothing else happens.       *)
LEMMA PlainJump ==
  ASSUME IInv, NEW p \in Slot, NEW l \in Label, Runs(p), Goto(p, l),
         pc[p] \in {"user", "fork", "kill"}, l \in {"user", "fork", "exit", "wait", "sleep", "kill"},
         p = initproc => l # "exit", OthersWake(p),
         UNCHANGED <<chan, pid, parent, rtime, ctime, etime, locks, np, ticks0, cpu, ticks, clk>>
  PROVE  Jump(p, l)
  <1>1. TimeType /\ LockAt(p)
    BY Zenon DEF IInv, TypeInv, LockInv
  <1>2. UNCHANGED <<plock, wait_lock, tickslock>>
    BY Zenon DEF locks
  <1>3. wait_lock # p /\ tickslock # p
    BY Zenon, <1>1 DEF LockAt
  <1>4. WaitLockMoves(p, l) /\ TicksLockMoves(p, l) /\ Ticks0Moves(p)
    BY Zenon, <1>1, <1>2, <1>3 DEF WaitLockMoves, TicksLockMoves, Ticks0Moves, TimeType
  <1>5. pc[p] \notin Busy /\ l \notin Busy /\ l # "wait_sleep" /\ l # "sleep_sleep"
    BY Zenon DEF Busy
  <1> QED
    BY Zenon, <1>2, <1>4, <1>5 DEF Jump

(* Nobody is woken if no state changes.                                    *)
LEMMA StateStays ==
  ASSUME IInv, NEW p \in Slot, state' = state
  PROVE  OthersWake(p)
  BY Zenon DEF IInv, TypeInv, ProcType, OthersWake

(* usertrap starts a system call, or exit for a killed process.            *)
LEMMA SyscallKeeps ==
  ASSUME IInv, NEW p \in Slot, Syscall(p)
  PROVE  IInv'
  <1>1. PidType /\ InitAlive
    BY Zenon DEF IInv, TypeInv, ThreadInv
  <1>2. PICK l \in {"fork", "exit", "wait", "sleep", "kill"} : Goto(p, l) /\ (p = initproc => l # "exit")
    BY Zenon, <1>1, SystemCalls DEF Syscall, InitAlive
  <1>3. /\ Runs(p) /\ pc[p] = "user"
        /\ UNCHANGED <<state, chan, killed, pid, parent, rtime, ctime, etime, locks, np,
                       ticks0, cpu, nextpid, ticks, clk>>
    BY Zenon DEF Syscall, At, fields
  <1>4. PidType' /\ ~killed'[initproc]
    BY Zenon, <1>1, <1>3 DEF PidType, InitAlive
  <1>5. l \in Label
    BY Zenon DEF Label
  <1>6. Jump(p, l)
    BY Zenon, <1>2, <1>3, <1>5, PlainJump, StateStays
  <1> QED
    BY Zenon, <1>4, <1>5, <1>6, JumpKeeps

(* fork without memory or a slot.                                          *)
LEMMA ForkFailsKeeps ==
  ASSUME IInv, NEW p \in Slot, ForkFails(p)
  PROVE  IInv'
  <1>1. PidType /\ InitAlive
    BY Zenon DEF IInv, TypeInv, ThreadInv
  <1>2. /\ Runs(p) /\ pc[p] = "fork" /\ Goto(p, "user") /\ "user" \in Label
        /\ UNCHANGED <<state, chan, pid, parent, rtime, ctime, etime, locks, np, ticks0, cpu,
                       ticks, clk>>
    BY Zenon DEF ForkFails, Label
  <1>3. PidType'
    <2>1. nextpid' \in Nat \ {0, 1}
      BY <1>1 DEF ForkFails, PidType
    <2>2. killed' \in [Slot -> BOOLEAN]
      <3>1. ASSUME NEW q \in Slot, killed' = [killed EXCEPT ![q] = FALSE]
            PROVE  killed' \in [Slot -> BOOLEAN]
        BY <1>1, <3>1 DEF PidType
      <3> QED
        BY Zenon, <1>1, <3>1 DEF ForkFails, PidType
    <2> QED
      BY Zenon, <1>1, <1>2, <2>1, <2>2 DEF PidType
  <1>4. ~killed'[initproc]
    BY <1>1, Names DEF ForkFails, PidType, InitAlive
  <1>5. Jump(p, "user")
    BY Zenon, <1>2, PlainJump, StateStays
  <1> QED
    BY Zenon, <1>2, <1>3, <1>4, <1>5, JumpKeeps

(* A jump between places of wait.                                          *)
LEMMA WaitJump ==
  ASSUME IInv, NEW p \in Slot, NEW l \in Label, Runs(p), Goto(p, l),
         pc[p] \in {"wait", "scan"}, l \in {"user", "scan", "wait_sleep"},
         l = "wait_sleep" => NoneZombie(p),
         wait_lock = p \/ wait_lock = None,
         wait_lock' = IF l = "user" THEN None ELSE p,
         UNCHANGED <<fields, plock, tickslock, np, ticks0, cpu, nextpid, ticks, clk>>
  PROVE  IInv'
  <1>1. PidType /\ InitAlive /\ TimeType /\ LockAt(p)
    BY Zenon DEF IInv, TypeInv, ThreadInv, LockInv
  <1>2. UNCHANGED <<state, chan, killed, pid, parent, rtime, ctime, etime>>
    BY Zenon DEF fields
  <1>3. PidType' /\ ~killed'[initproc]
    BY Zenon, <1>1, <1>2 DEF PidType, InitAlive
  <1>4. WaitLockMoves(p, l)
    BY Zenon, Names DEF WaitLockMoves
  <1>5. TicksLockMoves(p, l) /\ Ticks0Moves(p)
    BY Zenon, <1>1 DEF TicksLockMoves, Ticks0Moves, LockAt, TimeType
  <1>6. pc[p] \notin Busy /\ l \notin Busy /\ l # "exit" /\ l # "sleep_sleep"
    BY Zenon DEF Busy
  <1>7. Jump(p, l)
    BY Zenon, <1>2, <1>4, <1>5, <1>6, StateStays DEF Jump
  <1> QED
    BY Zenon, <1>3, <1>7, JumpKeeps

(* wait takes wait_lock.                                                   *)
LEMMA WaitKeeps ==
  ASSUME IInv, NEW p \in Slot, Wait(p)
  PROVE  IInv'
  <1>1. "scan" \in Label
    BY Zenon DEF Label
  <1> QED
    BY Zenon, <1>1, WaitJump DEF Wait, At

(* copyout of a zombie's status fails.                                     *)
LEMMA ReapFailsKeeps ==
  ASSUME IInv, NEW p \in Slot, ReapFails(p)
  PROVE  IInv'
  <1>1. "user" \in Label /\ wait_lock = p
    BY Zenon DEF Label, IInv, LockInv, LockAt, ReapFails
  <1> QED
    BY Zenon, <1>1, WaitJump DEF ReapFails

(* wait finds no zombie.                                                   *)
LEMMA WaitNoneKeeps ==
  ASSUME IInv, NEW p \in Slot, WaitNone(p)
  PROVE  IInv'
  <1>1. "user" \in Label /\ "wait_sleep" \in Label /\ wait_lock = p
    BY Zenon DEF Label, IInv, LockInv, LockAt, WaitNone, At
  <1>2. NoneZombie(p)
    BY Zenon DEF NoneZombie, Children, WaitNone
  <1>3. CASE Goto(p, "user") /\ wait_lock' = None
    BY Zenon, <1>1, <1>3, WaitJump DEF WaitNone, At
  <1>4. CASE Goto(p, "wait_sleep") /\ wait_lock' = wait_lock
    BY Zenon, <1>1, <1>2, <1>4, WaitJump DEF WaitNone, At
  <1> QED
    BY Zenon, <1>3, <1>4 DEF WaitNone

(* fork, up to the new process.                                            *)
LEMMA ForkMakesKeeps ==
  ASSUME IInv, NEW p \in Slot, NEW q \in Slot, ForkMakes(p, q)
  PROVE  IInv'
  <1>1. /\ ProcType /\ PidType /\ TimeType /\ CpuType /\ CpuInv /\ ThreadInv /\ ParentInv /\ LockInv
        /\ ZombieInv /\ TickInv /\ TimeInv
    BY Zenon DEF IInv, TypeInv
  <1>2. Placed(p) /\ Placed(q) /\ LockAt(p) /\ LockAt(q) /\ NpInv /\ InitAlive
    BY Zenon, <1>1 DEF ThreadInv, LockInv
  <1>3. /\ pc[p] = "fork" /\ state[p] = "RUNNING" /\ state[q] = "UNUSED" /\ pc[q] = "none"
        /\ np[p] = None /\ np[q] = None /\ q # None /\ p # q /\ ~plock[p]
    BY Zenon, <1>1, <1>2, OnHart, Names DEF Placed, ForkMakes
  <1>4. /\ pc'[p] = "fork_parent" /\ pc'[q] = "user" /\ \A r \in Slot : r # p /\ r # q => pc'[r] = pc[r]
        /\ state'[q] = "USED" /\ \A r \in Slot : r # q => state'[r] = state[r]
        /\ np'[p] = q /\ \A r \in Slot : r # p => np'[r] = np[r]
    BY Zenon, <1>1, <1>3 DEF ProcType, ForkMakes
  <1>5. UNCHANGED <<chan, killed, parent, plock, wait_lock, tickslock, ticks0, cpu, ticks, clk>>
    BY Zenon DEF ForkMakes, locks
  <1>6. \A r \in Slot : r # p /\ r # q => Same(r)
    BY Zenon, <1>4, <1>5 DEF Same
  <1>7. Calm(p)
    BY Zenon, <1>3, <1>4, <1>5 DEF Calm, Quiet, KeepsCpu, OnCpu, KeepsParent, KeepsZombie,
       KeepsTick, KeepsTime, Waits
  <1>8. state'[p] = "RUNNING" /\ np'[q] = None
    BY Zenon, <1>3, <1>4
  <1>9. KeepsCpu(q) /\ KeepsParent(q) /\ KeepsZombie(q) /\ KeepsTick(q)
    BY Zenon, <1>3, <1>4, <1>5 DEF KeepsCpu, OnCpu, KeepsParent, KeepsZombie, KeepsTick, Waits
  <1>10. \A r \in Slot : KeepsCpu(r) /\ KeepsParent(r) /\ KeepsZombie(r) /\ KeepsTick(r)
    BY Zenon, <1>6, <1>7, <1>9, SameIsCalm DEF Calm, Quiet
  <1>11. CpuInv' /\ ParentInv' /\ ZombieInv' /\ TickInv'
    BY Zenon, <1>1, <1>5, <1>10, CpuKept, ParentKept, ZombieKept, TickKept
  <1>12. ThreadInv'
    <2>1. Placed(p)' /\ Placed(q)'
      BY Zenon, <1>3, <1>4, <1>8 DEF Placed
    <2>2. \A r \in Slot : Placed(r)'
      BY Zenon, <1>1, <1>6, <2>1, SameIsCalm DEF ThreadInv
    <2>3. NpInv'
      BY <1>2, <1>3, <1>4, Pointers DEF NpInv
    <2>4. pid'[initproc] = pid[initproc] /\ initproc # q
      BY Zenon, <1>1, <1>2, <1>3, Names DEF PidType, InitAlive, ForkMakes
    <2>5. InitAlive'
      BY Zenon, <1>2, <1>3, <1>4, <1>5, <2>4, Names DEF InitAlive
    <2> QED
      BY Zenon, <2>2, <2>3, <2>5 DEF ThreadInv
  <1>13. LockInv'
    <2>1. LockAt(p)' /\ LockAt(q)'
      BY Zenon, <1>2, <1>3, <1>4, <1>5 DEF LockAt
    <2>2. \A r \in Slot : LockAt(r)'
      BY Zenon, <1>1, <1>5, <1>6, <2>1, LockSame DEF LockInv
    <2> QED
      BY Zenon, <1>1, <1>5, <2>2 DEF LockInv
  <1>14. TimeInv'
    <2>1. /\ rtime'[q] = 0 /\ ctime'[q] = ticks
          /\ \A r \in Slot : r # q => rtime'[r] = rtime[r] /\ ctime'[r] = ctime[r] /\ etime'[r] = etime[r]
      BY Zenon, <1>1 DEF TimeType, ForkMakes
    <2>2. ticks \in Nat
      BY Zenon, <1>1 DEF TimeType
    <2> QED
      BY <1>1, <1>4, <1>5, <2>1, <2>2 DEF TimeInv
  <1>15. TypeInv'
    <2>1. ProcType'
      BY Zenon, <1>1, <1>5 DEF ProcType, ForkMakes, Label, States
    <2>2. TimeType'
      BY <1>1, <1>5 DEF TimeType, ForkMakes
    <2>3. PidType'
      BY <1>1, <1>5 DEF PidType, ForkMakes
    <2> QED
      BY Zenon, <1>5, <2>1, <2>2, <2>3 DEF IInv, TypeInv, CpuType, LockType, ClockType
  <1> QED
    BY Zenon, <1>11, <1>12, <1>13, <1>14, <1>15 DEF IInv

(* fork makes p the parent of its child, under wait_lock.                  *)
LEMMA ForkParentKeeps ==
  ASSUME IInv, NEW p \in Slot, ForkParent(p)
  PROVE  IInv'
  <1>1. ProcType /\ CpuType /\ CpuInv /\ ThreadInv /\ ParentInv /\ LockInv /\ ZombieInv /\ TickInv /\ TimeInv
    BY Zenon DEF IInv, TypeInv
  <1>2. Placed(p) /\ LockAt(p) /\ NpInv /\ InitAlive
    BY Zenon, <1>1 DEF ThreadInv, LockInv
  <1>3. pc[p] = "fork_parent" /\ wait_lock = None /\ state[p] = "RUNNING" /\ ~plock[p]
    BY Zenon, <1>1, OnHart DEF ForkParent, At
  <1>4. PICK q \in Slot : q = np[p] /\ state[q] = "USED"
    BY Zenon, <1>2, <1>3, Pointers DEF Placed, NpInv
  <1>5. /\ pc'[p] = "fork_run" /\ \A r \in Slot : r # p => pc'[r] = pc[r]
        /\ parent'[q] = p /\ \A r \in Slot : r # q => parent'[r] = parent[r]
    BY Zenon, <1>1, <1>4 DEF ProcType, ForkParent, Goto
  <1>6. UNCHANGED <<state, chan, killed, pid, rtime, ctime, etime, plock, wait_lock, tickslock,
                    np, ticks0, cpu, nextpid, ticks, clk>>
    BY Zenon DEF ForkParent, locks
  <1>7. \A r \in Slot : r # p => Same(r)
    BY Zenon, <1>5, <1>6 DEF Same
  <1>8. KeepsCpu(p) /\ KeepsTick(p) /\ KeepsTime(p)
    BY Zenon, <1>3, <1>5, <1>6 DEF KeepsCpu, OnCpu, KeepsTick, KeepsTime
  <1>9. \A r \in Slot : KeepsCpu(r) /\ KeepsTick(r) /\ KeepsTime(r)
    BY Zenon, <1>7, <1>8, SameIsCalm DEF Calm, Quiet
  <1>10. CpuInv' /\ TickInv' /\ TimeInv'
    BY Zenon, <1>1, <1>6, <1>9, CpuKept, TickKept, TimeKept
  <1>11. ThreadInv'
    <2>1. Placed(p)'
      BY Zenon, <1>2, <1>3, <1>5, <1>6 DEF Placed
    <2>2. \A r \in Slot : Placed(r)'
      BY Zenon, <1>1, <1>7, <2>1, SameIsCalm DEF ThreadInv
    <2>3. NpInv'
      BY Zenon, <1>2, <1>6 DEF NpInv
    <2>4. InitAlive'
      BY Zenon, <1>2, <1>5, <1>6, Names DEF InitAlive
    <2> QED
      BY Zenon, <2>2, <2>3, <2>4 DEF ThreadInv
  <1>12. LockInv'
    <2>1. LockAt(p)'
      BY Zenon, <1>2, <1>3, <1>5, <1>6 DEF LockAt
    <2>2. \A r \in Slot : LockAt(r)'
      BY Zenon, <1>1, <1>6, <1>7, <2>1, LockSame DEF LockInv
    <2> QED
      BY Zenon, <1>1, <1>6, <2>2 DEF LockInv
  <1>13. \A r \in Slot : pc[r] \notin {"exit_wake", "exit_zombie", "wait_sleep"}
    BY Zenon, <1>1, <1>3, Names DEF LockInv, LockAt
  <1>14. ParentInv'
    <2>1. q # initproc
      BY Zenon, <1>2, <1>4 DEF InitAlive
    <2>2. \A r \in Slot : pc'[r] = "fork_run" => parent'[np[r]] = r
      <3>1. ASSUME NEW r \in Slot, r # p, pc'[r] = "fork_run" PROVE parent'[np[r]] = r
        <4>1. np[r] \in Slot /\ pc[r] = "fork_run"
          BY Zenon, <1>1, <1>5, <3>1, Pointers DEF ThreadInv, Placed
        <4>2. np[r] # q
          BY Zenon, <1>2, <1>4, <3>1, Names DEF NpInv
        <4> QED
          BY Zenon, <1>1, <1>5, <4>1, <4>2 DEF ParentInv
      <3> QED
        BY Zenon, <1>4, <1>5, <3>1
    <2>3. \A r \in Slot : pc'[r] \notin {"exit_wake", "exit_zombie"}
      BY Zenon, <1>5, <1>13
    <2> QED
      BY <1>1, <1>3, <1>4, <1>5, <1>6, <2>1, <2>2, <2>3, Names DEF ParentInv
  <1>15. ZombieInv'
    <2>1. \A r \in Slot : pc'[r] \notin {"exit_zombie", "wait_sleep"}
      BY Zenon, <1>5, <1>13
    <2> QED
      BY <1>1, <1>4, <1>5, <1>6, <2>1 DEF ZombieInv, Waits
  <1>16. TypeInv'
    <2>1. ProcType'
      BY Zenon, <1>1, <1>4, <1>6 DEF ProcType, ForkParent, Goto, Label
    <2> QED
      BY Zenon, <1>6, <2>1 DEF IInv, TypeInv, CpuType, PidType, LockType, ClockType, TimeType
  <1> QED
    BY Zenon, <1>10, <1>11, <1>12, <1>14, <1>15, <1>16 DEF IInv

(* fork lets the child run.                                                *)
LEMMA ForkRunKeeps ==
  ASSUME IInv, NEW p \in Slot, ForkRun(p)
  PROVE  IInv'
  <1>1. ProcType /\ CpuType /\ CpuInv /\ ThreadInv /\ ParentInv /\ LockInv /\ ZombieInv /\ TickInv /\ TimeInv
    BY Zenon DEF IInv, TypeInv
  <1>2. PICK q \in Slot : q = np[p] /\ state[q] = "USED" /\ parent[q] = p
    <2>1. np[p] # None /\ pc[p] = "fork_run"
      BY Zenon, <1>1 DEF ThreadInv, Placed, ForkRun, At
    <2>2. state[np[p]] = "USED" /\ parent[np[p]] = p
      BY Zenon, <1>1, <2>1 DEF ThreadInv, NpInv, ParentInv
    <2> QED
      BY Zenon, <2>1, <2>2, Pointers
  <1>3. Placed(p) /\ Placed(q) /\ LockAt(p) /\ LockAt(q) /\ NpInv /\ InitAlive
    BY Zenon, <1>1 DEF ThreadInv, LockInv
  <1>4. /\ pc[p] = "fork_run" /\ state[p] = "RUNNING" /\ ~plock[p] /\ pc[q] = "user" /\ q # p
        /\ q # initproc /\ np[q] = None
    BY Zenon, <1>1, <1>2, <1>3, OnHart DEF ForkRun, At, Placed, InitAlive
  <1>5. /\ pc'[p] = "user" /\ \A r \in Slot : r # p => pc'[r] = pc[r]
        /\ state'[q] = "RUNNABLE" /\ \A r \in Slot : r # q => state'[r] = state[r]
        /\ np'[p] = None /\ \A r \in Slot : r # p => np'[r] = np[r]
    BY Zenon, <1>1, <1>2 DEF ProcType, ForkRun, Goto
  <1>6. UNCHANGED <<chan, killed, pid, parent, rtime, ctime, etime, plock, wait_lock,
                    tickslock, ticks0, cpu, nextpid, ticks, clk>>
    BY Zenon DEF ForkRun, locks
  <1>7. \A r \in Slot : r # p /\ r # q => Same(r)
    BY Zenon, <1>5, <1>6 DEF Same
  <1>8. state'[p] = "RUNNING" /\ pc'[q] = "user" /\ np'[q] = None
    BY Zenon, <1>4, <1>5
  <1>9. /\ KeepsCpu(p) /\ KeepsZombie(p) /\ KeepsTick(p) /\ KeepsTime(p)
        /\ KeepsCpu(q) /\ KeepsZombie(q) /\ KeepsTick(q) /\ KeepsTime(q)
    BY Zenon, <1>2, <1>4, <1>5, <1>6, <1>8 DEF KeepsCpu, OnCpu, KeepsZombie, KeepsTick, KeepsTime, Waits
  <1>10. \A r \in Slot : KeepsCpu(r) /\ KeepsParent(r) /\ KeepsZombie(r) /\ KeepsTick(r) /\ KeepsTime(r)
    <2>1. KeepsParent(p) /\ KeepsParent(q)
      BY Zenon, <1>2, <1>4, <1>5, <1>8, Names DEF KeepsParent
    <2> QED
      BY Zenon, <1>7, <1>9, <2>1, SameIsCalm DEF Calm, Quiet
  <1>11. CpuInv' /\ ParentInv' /\ ZombieInv' /\ TickInv' /\ TimeInv'
    BY Zenon, <1>1, <1>6, <1>10, CpuKept, ParentKept, ZombieKept, TickKept, TimeKept
  <1>12. ThreadInv'
    <2>1. Placed(p)' /\ Placed(q)'
      BY Zenon, <1>4, <1>5, <1>8 DEF Placed
    <2>2. \A r \in Slot : Placed(r)'
      BY Zenon, <1>1, <1>7, <2>1, SameIsCalm DEF ThreadInv
    <2>3. NpInv'
      BY <1>2, <1>3, <1>5, Pointers DEF NpInv
    <2>4. InitAlive'
      BY Zenon, <1>3, <1>4, <1>5, <1>6, Names DEF InitAlive
    <2> QED
      BY Zenon, <2>2, <2>3, <2>4 DEF ThreadInv
  <1>13. LockInv'
    <2>1. LockAt(p)' /\ LockAt(q)'
      BY Zenon, <1>2, <1>3, <1>4, <1>6, <1>8, <1>5 DEF LockAt
    <2>2. \A r \in Slot : LockAt(r)'
      BY Zenon, <1>1, <1>6, <1>7, <2>1, LockSame DEF LockInv
    <2> QED
      BY Zenon, <1>1, <1>6, <2>2 DEF LockInv
  <1>14. TypeInv'
    <2>1. ProcType'
      BY Zenon, <1>1, <1>2, <1>6 DEF ProcType, ForkRun, Goto, Label, States
    <2> QED
      BY Zenon, <1>6, <2>1 DEF IInv, TypeInv, CpuType, PidType, LockType, ClockType, TimeType
  <1> QED
    BY Zenon, <1>11, <1>12, <1>13, <1>14 DEF IInv

(* exit gives the children of p to init, and wakes init if there are any.  *)
LEMMA ExitReparentKeeps ==
  ASSUME IInv, NEW p \in Slot, ExitReparent(p)
  PROVE  IInv'
  <1>1. ProcType /\ CpuType /\ CpuInv /\ ThreadInv /\ ParentInv /\ LockInv /\ ZombieInv /\ TickInv /\ TimeInv
    BY Zenon DEF IInv, TypeInv
  <1>2. Placed(p) /\ LockAt(p) /\ InitAlive /\ initproc \in Slot
    BY Zenon, <1>1, Names DEF ThreadInv, LockInv
  <1>3. /\ pc[p] = "exit" /\ wait_lock = None /\ wait_lock' = p
        /\ state[p] = "RUNNING" /\ ~plock[p] /\ p # initproc
    BY Zenon, <1>1, OnHart DEF ExitReparent, At
  <1>4. /\ pc'[p] = "exit_wake" /\ \A r \in Slot : r # p => pc'[r] = pc[r]
        /\ \A r \in Slot : /\ parent[r] = p => parent'[r] = initproc
                           /\ parent[r] # p => parent'[r] = parent[r]
    BY Zenon, <1>1 DEF ProcType, ExitReparent, Goto
  <1>5. /\ \A r \in Slot : r # initproc => state'[r] = state[r]
        /\ \/ state'[initproc] = state[initproc]
           \/ state[initproc] = "SLEEPING" /\ state'[initproc] = "RUNNABLE"
    BY Zenon, <1>1, <1>2 DEF ProcType, ExitReparent, Wake
  <1>6. UNCHANGED <<chan, killed, pid, rtime, ctime, etime, plock, tickslock, np, ticks0, cpu,
                    nextpid, ticks, clk>>
    BY Zenon DEF ExitReparent
  <1>7. \A r \in Slot : r # p => Same(r)
    BY Zenon, <1>4, <1>5, <1>6 DEF Same
  <1>8. state'[p] = "RUNNING"
    BY Zenon, <1>3, <1>5
  <1>9. KeepsCpu(p) /\ KeepsTick(p) /\ KeepsTime(p)
    BY Zenon, <1>3, <1>4, <1>6, <1>8 DEF KeepsCpu, OnCpu, KeepsTick, KeepsTime
  <1>10. \A r \in Slot : KeepsCpu(r) /\ KeepsTick(r) /\ KeepsTime(r)
    BY Zenon, <1>7, <1>9, SameIsCalm DEF Calm, Quiet
  <1>11. CpuInv' /\ TickInv' /\ TimeInv'
    BY Zenon, <1>1, <1>6, <1>10, CpuKept, TickKept, TimeKept
  <1>12. ThreadInv'
    <2>1. Placed(p)'
      BY Zenon, <1>2, <1>3, <1>4, <1>6, <1>8 DEF Placed
    <2>2. \A r \in Slot : Placed(r)'
      BY Zenon, <1>1, <1>7, <2>1, SameIsCalm DEF ThreadInv
    <2>3. \A r \in Slot : state[r] = "USED" => state'[r] = "USED"
      BY Zenon, <1>5
    <2>4. NpInv'
      BY Zenon, <1>1, <1>6, <2>3, Pointers DEF NpInv, ThreadInv
    <2>5. InitAlive'
      BY Zenon, <1>2, <1>3, <1>4, <1>5, <1>6 DEF InitAlive
    <2> QED
      BY Zenon, <2>2, <2>4, <2>5 DEF ThreadInv
  <1>13. LockInv'
    <2>1. LockAt(p)'
      BY Zenon, <1>2, <1>3, <1>4, <1>6, <1>8 DEF LockAt
    <2>2. \A r \in Slot : r # p => (wait_lock' = r <=> wait_lock = r)
      BY Zenon, <1>3, Names
    <2>3. \A r \in Slot : LockAt(r)'
      BY Zenon, <1>1, <1>6, <1>7, <2>1, <2>2, LockSame DEF LockInv
    <2> QED
      BY Zenon, <1>1, <1>6, <2>3 DEF LockInv
  <1>14. \A r \in Slot : pc[r] \notin {"exit_wake", "exit_zombie", "wait_sleep"}
    BY Zenon, <1>1, <1>3, Names DEF LockInv, LockAt
  <1>15. \A r \in Slot : parent'[r] # p /\ (parent'[r] = None <=> parent[r] = None)
    <2>1. initproc # p /\ initproc # None /\ p # None
      BY Zenon, <1>3, Names
    <2>2. ASSUME NEW r \in Slot PROVE parent'[r] # p /\ (parent'[r] = None <=> parent[r] = None)
      <3>1. CASE parent[r] = p
        BY Zenon, <1>4, <2>1, <3>1
      <3>2. CASE parent[r] # p
        BY Zenon, <1>4, <3>2
      <3> QED
        BY Zenon, <3>1, <3>2
    <2> QED
      BY Zenon, <2>2
  <1>16. ParentInv'
    <2>1. \A r \in Slot : pc'[r] = "fork_run" => r # p /\ parent'[np[r]] = r
      <3>1. ASSUME NEW r \in Slot, pc'[r] = "fork_run" PROVE r # p /\ parent'[np[r]] = r
        <4>1. r # p /\ pc[r] = "fork_run"
          BY Zenon, <1>4, <3>1
        <4>2. np[r] \in Slot /\ parent[np[r]] = r
          BY Zenon, <1>1, <4>1, Pointers DEF ThreadInv, Placed, ParentInv
        <4> QED
          BY Zenon, <1>4, <4>1, <4>2
      <3> QED
        BY Zenon, <3>1
    <2>2. \A r \in Slot : pc'[r] \in {"exit_wake", "exit_zombie"} => r = p
      BY Zenon, <1>4, <1>14
    <2>3. \A r \in Slot : parent'[r] # None =>
            parent'[r] \in Slot /\ state[parent'[r]] \notin {"UNUSED", "ZOMBIE"}
      <3>1. state[initproc] \notin {"UNUSED", "ZOMBIE"}
        BY Zenon, <1>1, <1>2 DEF ThreadInv, Placed, InitAlive
      <3>2. \A r \in Slot : parent[r] # None => state[parent[r]] \notin {"UNUSED", "ZOMBIE"}
        BY Zenon, <1>1 DEF ParentInv
      <3> QED
        BY Zenon, <1>2, <1>4, <1>15, <3>1, <3>2, Pointers
    <2>4. \A r \in Slot : state[r] \notin {"UNUSED", "ZOMBIE"} => state'[r] \notin {"UNUSED", "ZOMBIE"}
      BY Zenon, <1>5
    <2>5. \A r \in Slot : /\ state'[r] = "UNUSED" <=> state[r] = "UNUSED"
                          /\ state'[r] \in {"UNUSED", "USED"} <=> state[r] \in {"UNUSED", "USED"}
      BY Zenon, <1>5
    <2>6. /\ parent[initproc] = None
          /\ \A r \in Slot : state[r] = "UNUSED" => parent[r] = None
          /\ \A r \in Slot : r # initproc /\ state[r] \notin {"UNUSED", "USED"} => parent[r] # None
      BY Zenon, <1>1 DEF ParentInv
    <2>7. /\ parent'[initproc] = None
          /\ \A r \in Slot : state'[r] = "UNUSED" => parent'[r] = None
          /\ \A r \in Slot : r # initproc /\ state'[r] \notin {"UNUSED", "USED"} => parent'[r] # None
      BY Zenon, <1>2, <1>15, <2>5, <2>6
    <2>8. \A r \in Slot : parent'[r] # None => state'[parent'[r]] \notin {"UNUSED", "ZOMBIE"}
      BY Zenon, <2>3, <2>4
    <2>9. \A r \in Slot : /\ pc'[r] = "fork_run" => parent'[np'[r]] = r
                          /\ pc'[r] \in {"exit_wake", "exit_zombie"} => \A q \in Slot : parent'[q] # r
      BY Zenon, <1>6, <1>15, <2>1, <2>2
    <2> QED
      BY Zenon, <2>7, <2>8, <2>9 DEF ParentInv
  <1>17. ZombieInv'
    <2>1. \A r \in Slot : parent[r] = p => ~(state'[initproc] = "SLEEPING" /\ chan[initproc] = initproc)
      <3>1. ASSUME Children(p) # {} PROVE ~(state'[initproc] = "SLEEPING" /\ chan[initproc] = initproc)
        BY Zenon, <1>1, <1>2, <3>1 DEF ProcType, ExitReparent, Wake
      <3> QED
        BY Zenon, <3>1 DEF Children
    <2>2. \A r \in Slot : state[r] = "ZOMBIE" /\ parent[r] # None
                            => ~(state[parent[r]] = "SLEEPING" /\ chan[parent[r]] = parent[r])
      BY Zenon, <1>1 DEF ZombieInv, Waits
    <2>3. \A r \in Slot : /\ state'[r] = "ZOMBIE" => state[r] = "ZOMBIE"
                          /\ state'[r] = "SLEEPING" => state[r] = "SLEEPING"
      BY Zenon, <1>5
    <2>4. ASSUME NEW r \in Slot, state'[r] = "ZOMBIE", parent'[r] # None
          PROVE  ~(state'[parent'[r]] = "SLEEPING" /\ chan'[parent'[r]] = parent'[r])
      <3>1. CASE parent[r] = p
        BY Zenon, <1>4, <1>6, <2>1, <3>1
      <3>2. CASE parent[r] # p
        <4>1. parent'[r] = parent[r] /\ parent[r] \in Slot
          BY Zenon, <1>4, <2>4, <3>2, Pointers
        <4> QED
          BY Zenon, <1>6, <2>2, <2>3, <2>4, <4>1
      <3> QED
        BY Zenon, <3>1, <3>2
    <2>5. \A r \in Slot : pc'[r] \notin {"exit_zombie", "wait_sleep"}
      BY Zenon, <1>4, <1>14
    <2> QED
      BY Zenon, <2>4, <2>5 DEF ZombieInv, Waits
  <1>18. TypeInv'
    <2>1. state' \in [Slot -> States]
      BY <1>1, <1>2 DEF ProcType, ExitReparent, Wake, States
    <2>2. parent' \in [Slot -> Slot \cup {None}]
      BY <1>1, <1>2 DEF ProcType, ExitReparent
    <2>3. ProcType'
      BY Zenon, <1>1, <1>6, <2>1, <2>2 DEF ProcType, ExitReparent, Goto, Label
    <2>4. LockType'
      BY Zenon, <1>3, <1>6 DEF IInv, TypeInv, LockType
    <2> QED
      BY Zenon, <1>6, <2>3, <2>4 DEF IInv, TypeInv, CpuType, PidType, ClockType, TimeType
  <1> QED
    BY Zenon, <1>11, <1>12, <1>13, <1>16, <1>17, <1>18 DEF IInv

(* exit wakes the parent.                                                  *)
LEMMA ExitWakeKeeps ==
  ASSUME IInv, NEW p \in Slot, ExitWake(p)
  PROVE  IInv'
  <1>1. ProcType /\ CpuInv /\ ThreadInv /\ ParentInv /\ LockInv
    BY Zenon DEF IInv, TypeInv
  <1>2. Placed(p) /\ LockAt(p) /\ InitAlive
    BY Zenon, <1>1 DEF ThreadInv, LockInv
  <1>3. pc[p] = "exit_wake" /\ state[p] = "RUNNING" /\ ~plock[p] /\ p # initproc
    BY Zenon, <1>1, <1>2, OnHart DEF ExitWake, At, InitAlive
  <1>4. parent[p] \in Slot
    BY Zenon, <1>1, <1>3, Pointers DEF ParentInv
  <1>5. pc'[p] = "exit_zombie" /\ \A r \in Slot : r # p => pc'[r] = pc[r]
    BY Zenon, <1>1 DEF ProcType, ExitWake, Goto
  <1>6. /\ \A r \in Slot : state'[r] = state[r] \/ (state[r] = "SLEEPING" /\ state'[r] = "RUNNABLE")
        /\ ~(state'[parent[p]] = "SLEEPING" /\ chan[parent[p]] = parent[p])
    BY Zenon, <1>1, <1>4 DEF ProcType, ExitWake, Wake
  <1>7. UNCHANGED <<chan, killed, pid, parent, rtime, ctime, etime, plock, wait_lock,
                    tickslock, np, ticks0, cpu, nextpid, ticks, clk>>
    BY Zenon DEF ExitWake, locks
  <1>8. Alone(p)
    BY Zenon, <1>5, <1>6, <1>7 DEF Alone, Same
  <1>9. state'[p] = "RUNNING"
    BY Zenon, <1>3, <1>6
  <1>10. Calm(p)
    <2>1. KeepsCpu(p) /\ KeepsTime(p) /\ KeepsParent(p)
      BY Zenon, <1>3, <1>5, <1>7, <1>9 DEF KeepsCpu, KeepsTime, KeepsParent, OnCpu
    <2>2. KeepsZombie(p) /\ KeepsTick(p)
      BY Zenon, <1>5, <1>6, <1>7, <1>9 DEF KeepsZombie, Waits, Woken, KeepsTick
    <2> QED
      BY Zenon, <1>3, <2>1, <2>2 DEF Calm, Quiet
  <1>11. Placed(p)' /\ LockAt(p)'
    BY Zenon, <1>2, <1>3, <1>5, <1>7, <1>9 DEF Placed, LockAt
  <1>12. InitAlive'
    <2>1. pc'[initproc] = pc[initproc] /\ state'[initproc] # "USED"
      BY Zenon, <1>2, <1>3, <1>5, <1>6, Names DEF InitAlive
    <2> QED
      BY Zenon, <1>2, <1>7, <2>1 DEF InitAlive
  <1>13. TypeInv'
    <2>1. state' \in [Slot -> States]
      BY Zenon, <1>1, <1>4 DEF ProcType, ExitWake, Wake, States
    <2>2. ProcType'
      BY Zenon, <1>1, <1>7, <2>1 DEF ProcType, ExitWake, Goto, Label
    <2> QED
      BY Zenon, <1>7, <2>2 DEF IInv, TypeInv, CpuType, PidType, LockType, ClockType, TimeType
  <1> QED
    BY Zenon, <1>7, <1>8, <1>10, <1>11, <1>12, <1>13, StepOfOne

(* exit makes p a zombie.                                                  *)
LEMMA ExitZombieKeeps ==
  ASSUME IInv, NEW p \in Slot, ExitZombie(p)
  PROVE  IInv'
  <1>1. /\ ProcType /\ TimeType /\ CpuType /\ CpuInv /\ ThreadInv /\ ParentInv /\ LockInv
        /\ ZombieInv /\ TickInv /\ TimeInv
    BY Zenon DEF IInv, TypeInv
  <1>2. Placed(p) /\ LockAt(p) /\ InitAlive
    BY Zenon, <1>1 DEF ThreadInv, LockInv
  <1>3. /\ pc[p] = "exit_zombie" /\ state[p] = "RUNNING" /\ ~plock[p] /\ p # initproc
        /\ wait_lock = p /\ tickslock # p /\ np[p] = None /\ p # None
    BY Zenon, <1>1, <1>2, OnHart, Names DEF ExitZombie, At, InitAlive, LockAt, Placed
  <1>4. /\ pc'[p] = "none" /\ \A r \in Slot : r # p => pc'[r] = pc[r]
        /\ state'[p] = "ZOMBIE" /\ \A r \in Slot : r # p => state'[r] = state[r]
        /\ plock'[p] /\ \A r \in Slot : r # p => plock'[r] = plock[r]
    BY Zenon, <1>1 DEF ProcType, ExitZombie, Goto
  <1>5. /\ UNCHANGED <<chan, killed, pid, parent, rtime, ctime, tickslock, np, ticks0, cpu,
                       nextpid, ticks, clk>>
        /\ wait_lock' = None
    BY Zenon DEF ExitZombie
  <1>6. \A r \in Slot : r # p => Same(r)
    BY Zenon, <1>4, <1>5 DEF Same
  <1>7. KeepsCpu(p) /\ KeepsTick(p)
    BY Zenon, <1>3, <1>4 DEF KeepsCpu, OnCpu, KeepsTick
  <1>8. \A r \in Slot : KeepsCpu(r) /\ KeepsTick(r)
    BY Zenon, <1>6, <1>7, SameIsCalm DEF Calm, Quiet
  <1>9. CpuInv' /\ TickInv'
    BY Zenon, <1>1, <1>5, <1>8, CpuKept, TickKept
  <1>10. ThreadInv'
    <2>1. Placed(p)'
      BY Zenon, <1>3, <1>4, <1>5 DEF Placed
    <2>2. \A r \in Slot : Placed(r)'
      BY Zenon, <1>1, <1>6, <2>1, SameIsCalm DEF ThreadInv
    <2>3. \A r \in Slot : state[r] = "USED" => state'[r] = "USED"
      BY Zenon, <1>3, <1>4
    <2>4. NpInv'
      BY Zenon, <1>1, <1>5, <2>3, Pointers DEF NpInv, ThreadInv
    <2>5. InitAlive'
      BY Zenon, <1>2, <1>3, <1>4, <1>5, Names DEF InitAlive
    <2> QED
      BY Zenon, <2>2, <2>4, <2>5 DEF ThreadInv
  <1>11. LockInv'
    <2>1. LockAt(p)'
      BY Zenon, <1>3, <1>4, <1>5 DEF LockAt
    <2>2. \A r \in Slot : r # p => (wait_lock' = r <=> wait_lock = r)
      BY Zenon, <1>3, <1>5, Names
    <2>3. \A r \in Slot : LockAt(r)'
      BY Zenon, <1>1, <1>5, <1>6, <2>1, <2>2, LockSame DEF LockInv
    <2> QED
      BY Zenon, <1>1, <1>5, <2>3 DEF LockInv
  <1>12. \A r \in Slot : parent[r] # p
    BY Zenon, <1>1, <1>3 DEF ParentInv
  <1>13. \A r \in Slot : pc'[r] \notin {"exit_wake", "exit_zombie", "wait_sleep"}
    <2>1. \A r \in Slot : wait_lock = r <=> pc[r] \in {"exit_wake", "exit_zombie", "scan", "wait_sleep"}
      BY Zenon, <1>1 DEF LockInv, LockAt
    <2>2. \A r \in Slot : r # p => pc[r] \notin {"exit_wake", "exit_zombie", "wait_sleep"}
      BY Zenon, <1>3, <2>1
    <2> QED
      BY Zenon, <1>4, <2>2
  <1>14. ParentInv'
    <2>1. KeepsParent(p)
      BY Zenon, <1>3, <1>4, <1>12 DEF KeepsParent, Childless
    <2>2. \A r \in Slot : KeepsParent(r)
      BY Zenon, <1>6, <2>1, SameIsCalm DEF Calm, Quiet
    <2> QED
      BY Zenon, <1>1, <1>5, <2>2, ParentKept
  <1>15. ZombieInv'
    <2>1. ASSUME NEW r \in Slot, state'[r] = "ZOMBIE", parent[r] # None
          PROVE  ~(state'[parent[r]] = "SLEEPING" /\ chan[parent[r]] = parent[r])
      <3>1. pc[r] = "exit_zombie" \/ state[r] = "ZOMBIE"
        BY Zenon, <1>3, <1>4, <2>1
      <3>2. ~(state[parent[r]] = "SLEEPING" /\ chan[parent[r]] = parent[r])
        BY Zenon, <1>1, <2>1, <3>1 DEF ZombieInv, Waits
      <3>3. parent[r] \in Slot /\ parent[r] # p
        BY Zenon, <1>12, <2>1, Pointers
      <3> QED
        BY Zenon, <1>4, <3>2, <3>3
    <2> QED
      BY Zenon, <1>5, <1>13, <2>1 DEF ZombieInv, Waits
  <1>16. TimeInv'
    <2>1. etime'[p] = ticks /\ \A r \in Slot : r # p => etime'[r] = etime[r]
      BY Zenon, <1>1 DEF TimeType, ExitZombie
    <2> QED
      BY <1>1, <1>3, <1>4, <1>5, <2>1 DEF TimeInv
  <1>17. TypeInv'
    <2>1. ProcType'
      BY Zenon, <1>1, <1>5 DEF ProcType, ExitZombie, Goto, Label, States
    <2>2. TimeType'
      BY Zenon, <1>1, <1>5 DEF TimeType, ExitZombie
    <2>3. LockType'
      BY Zenon, <1>5 DEF IInv, TypeInv, LockType
    <2> QED
      BY Zenon, <1>5, <2>1, <2>2, <2>3 DEF IInv, TypeInv, CpuType, PidType, ClockType
  <1> QED
    BY Zenon, <1>9, <1>10, <1>11, <1>14, <1>15, <1>16, <1>17 DEF IInv

(* wait frees a zombie.                                                    *)
LEMMA ReapsKeeps ==
  ASSUME IInv, NEW p \in Slot, NEW q \in Slot, Reaps(p, q)
  PROVE  IInv'
  <1>1. /\ ProcType /\ PidType /\ CpuType /\ CpuInv /\ ThreadInv /\ ParentInv /\ LockInv
        /\ ZombieInv /\ TickInv /\ TimeInv
    BY Zenon DEF IInv, TypeInv
  <1>2. Placed(p) /\ Placed(q) /\ LockAt(p) /\ LockAt(q) /\ NpInv /\ InitAlive
    BY Zenon, <1>1 DEF ThreadInv, LockInv
  <1>3. /\ pc[p] = "scan" /\ state[p] = "RUNNING" /\ ~plock[p] /\ p # None
        /\ state[q] = "ZOMBIE" /\ ~plock[q] /\ parent[q] = p /\ pc[q] = "none" /\ p # q
    BY Zenon, <1>1, <1>2, OnHart, Names DEF Reaps, Placed
  <1>4. q # initproc /\ np[p] = None /\ np[q] = None /\ wait_lock = p /\ tickslock # p /\ tickslock # q
    BY Zenon, <1>2, <1>3 DEF InitAlive, Placed, LockAt
  <1>5. /\ pc'[p] = "user" /\ \A r \in Slot : r # p => pc'[r] = pc[r]
        /\ state'[q] = "UNUSED" /\ \A r \in Slot : r # q => state'[r] = state[r]
        /\ chan'[q] = None /\ \A r \in Slot : r # q => chan'[r] = chan[r]
        /\ parent'[q] = None /\ \A r \in Slot : r # q => parent'[r] = parent[r]
    BY Zenon, <1>1 DEF ProcType, Reaps, FreeProc, Goto
  <1>6. /\ UNCHANGED <<rtime, ctime, etime, plock, tickslock, np, ticks0, cpu, nextpid, ticks,
                       clk>>
        /\ wait_lock' = None
    BY Zenon DEF Reaps
  <1>7. \A r \in Slot : r # p /\ r # q => Same(r)
    BY Zenon, <1>5, <1>6 DEF Same
  <1>8. state'[p] = "RUNNING" /\ pc'[q] = "none"
    BY Zenon, <1>3, <1>5
  <1>9. KeepsCpu(p) /\ KeepsTick(p) /\ KeepsTime(p)
    BY Zenon, <1>3, <1>5, <1>6, <1>8 DEF KeepsCpu, OnCpu, KeepsTick, KeepsTime
  <1>10. KeepsCpu(q) /\ KeepsTick(q) /\ KeepsTime(q)
    BY Zenon, <1>3, <1>5, <1>6, <1>8 DEF KeepsCpu, OnCpu, KeepsTick, KeepsTime
  <1>11. \A r \in Slot : KeepsCpu(r) /\ KeepsTick(r) /\ KeepsTime(r)
    BY Zenon, <1>7, <1>9, <1>10, SameIsCalm DEF Calm, Quiet
  <1>12. CpuInv' /\ TickInv' /\ TimeInv'
    BY Zenon, <1>1, <1>6, <1>11, CpuKept, TickKept, TimeKept
  <1>13. ThreadInv'
    <2>1. Placed(p)' /\ Placed(q)'
      BY Zenon, <1>4, <1>5, <1>6, <1>8 DEF Placed
    <2>2. \A r \in Slot : Placed(r)'
      BY Zenon, <1>1, <1>7, <2>1, SameIsCalm DEF ThreadInv
    <2>3. \A r \in Slot : state[r] = "USED" => state'[r] = "USED"
      BY Zenon, <1>3, <1>5
    <2>4. NpInv'
      BY Zenon, <1>2, <1>6, <2>3, Pointers DEF NpInv
    <2>5. pid'[initproc] = pid[initproc] /\ killed'[initproc] = killed[initproc]
      BY Zenon, <1>1, <1>4, Names DEF PidType, Reaps, FreeProc
    <2>6. state'[initproc] # "USED" /\ pc'[initproc] \notin {"none", "exit", "exit_wake", "exit_zombie"}
      BY Zenon, <1>2, <1>4, <1>5, Names DEF InitAlive
    <2>7. InitAlive'
      BY Zenon, <1>2, <2>5, <2>6 DEF InitAlive
    <2> QED
      BY Zenon, <2>2, <2>4, <2>7 DEF ThreadInv
  <1>14. LockInv'
    <2>1. LockAt(p)' /\ LockAt(q)'
      BY Zenon, <1>4, <1>5, <1>6, <1>8, Names DEF LockAt
    <2>2. \A r \in Slot : r # p => (wait_lock' = r <=> wait_lock = r)
      BY Zenon, <1>4, <1>6, Names
    <2>3. \A r \in Slot : LockAt(r)'
      BY Zenon, <1>1, <1>6, <1>7, <2>1, <2>2, LockSame DEF LockInv
    <2> QED
      BY Zenon, <1>1, <1>6, <2>3 DEF LockInv
  <1>15. \A r \in Slot : pc'[r] \notin {"exit_wake", "exit_zombie", "wait_sleep"}
    <2>1. \A r \in Slot : wait_lock = r <=> pc[r] \in {"exit_wake", "exit_zombie", "scan", "wait_sleep"}
      BY Zenon, <1>1 DEF LockInv, LockAt
    <2>2. \A r \in Slot : r # p => pc[r] \notin {"exit_wake", "exit_zombie", "wait_sleep"}
      BY Zenon, <1>4, <2>1
    <2> QED
      BY Zenon, <1>5, <2>2
  <1>16. \A r \in Slot : parent'[r] # None => parent'[r] = parent[r] /\ parent[r] \in Slot /\ parent[r] # q
    <2>1. \A r \in Slot : parent[r] # None => state[parent[r]] \notin {"UNUSED", "ZOMBIE"}
      BY Zenon, <1>1 DEF ParentInv
    <2> QED
      <3>1. ASSUME NEW r \in Slot, parent'[r] # None
            PROVE  parent'[r] = parent[r] /\ parent[r] \in Slot /\ parent[r] # q
        <4>1. r # q
          BY Zenon, <1>5, <3>1
        <4>2. parent'[r] = parent[r]
          BY Zenon, <1>5, <4>1
        <4>3. parent[r] \in Slot /\ state[parent[r]] # "ZOMBIE"
          BY Zenon, <2>1, <3>1, <4>2, Pointers
        <4> QED
          BY Zenon, <1>3, <4>2, <4>3
      <3> QED
        BY Zenon, <3>1
  <1>17. ParentInv'
    <2>1. \A r \in Slot : pc'[r] = "fork_run" => parent'[np[r]] = r
      <3>1. ASSUME NEW r \in Slot, pc'[r] = "fork_run" PROVE parent'[np[r]] = r
        <4>1. pc[r] = "fork_run" /\ np[r] \in Slot /\ np[r] # None
          <5>1. pc[r] = "fork_run"
            BY Zenon, <1>5, <3>1
          <5> QED
            BY Zenon, <1>1, <5>1, Pointers DEF ThreadInv, Placed
        <4>2. parent[np[r]] = r /\ state[np[r]] = "USED"
          BY Zenon, <1>1, <1>2, <4>1 DEF ParentInv, NpInv
        <4> QED
          BY Zenon, <1>3, <1>5, <4>1, <4>2
      <3> QED
        BY Zenon, <3>1
    <2>2. /\ parent'[initproc] = None
          /\ \A r \in Slot : state'[r] = "UNUSED" => parent'[r] = None
          /\ \A r \in Slot : r # initproc /\ state'[r] \notin {"UNUSED", "USED"} => parent'[r] # None
      <3>1. /\ parent[initproc] = None
            /\ \A r \in Slot : state[r] = "UNUSED" => parent[r] = None
            /\ \A r \in Slot : r # initproc /\ state[r] \notin {"UNUSED", "USED"} => parent[r] # None
        BY Zenon, <1>1 DEF ParentInv
      <3>2. ASSUME NEW r \in Slot
            PROVE  /\ state'[r] = "UNUSED" => parent'[r] = None
                   /\ r # initproc /\ state'[r] \notin {"UNUSED", "USED"} => parent'[r] # None
        <4>1. CASE r = q
          BY Zenon, <1>5, <4>1
        <4>2. CASE r # q
          <5>1. state'[r] = state[r] /\ parent'[r] = parent[r]
            BY Zenon, <1>5, <4>2
          <5> QED
            BY Zenon, <3>1, <5>1
        <4> QED
          BY Zenon, <4>1, <4>2
      <3> QED
        BY Zenon, <1>4, <1>5, <3>1, <3>2, Names
    <2>3. \A r \in Slot : parent'[r] # None => state'[parent'[r]] \notin {"UNUSED", "ZOMBIE"}
      <3>1. ASSUME NEW r \in Slot, parent'[r] # None PROVE state'[parent'[r]] \notin {"UNUSED", "ZOMBIE"}
        <4>1. parent'[r] = parent[r] /\ parent[r] \in Slot /\ parent[r] # q /\ parent[r] # None
          BY Zenon, <1>16, <3>1
        <4>2. state'[parent[r]] = state[parent[r]] /\ state[parent[r]] \notin {"UNUSED", "ZOMBIE"}
          BY Zenon, <1>1, <1>5, <4>1 DEF ParentInv
        <4> QED
          BY Zenon, <4>1, <4>2
      <3> QED
        BY Zenon, <3>1
    <2>4. \A r \in Slot : /\ pc'[r] = "fork_run" => parent'[np'[r]] = r
                          /\ pc'[r] \in {"exit_wake", "exit_zombie"} => \A s \in Slot : parent'[s] # r
      BY Zenon, <1>6, <1>15, <2>1
    <2> QED
      BY Zenon, <2>2, <2>3, <2>4 DEF ParentInv
  <1>18. ZombieInv'
    <2>1. ASSUME NEW r \in Slot, state'[r] = "ZOMBIE", parent'[r] # None
          PROVE  ~(state'[parent'[r]] = "SLEEPING" /\ chan'[parent'[r]] = parent'[r])
      <3>1. state[r] = "ZOMBIE" /\ parent[r] # None
        BY Zenon, <1>5, <1>16, <2>1
      <3>2. ~(state[parent[r]] = "SLEEPING" /\ chan[parent[r]] = parent[r])
        BY Zenon, <1>1, <3>1 DEF ZombieInv, Waits
      <3>3. parent'[r] = parent[r] /\ parent[r] \in Slot /\ parent[r] # q
        BY Zenon, <1>16, <2>1
      <3>4. state'[parent[r]] = state[parent[r]] /\ chan'[parent[r]] = chan[parent[r]]
        BY Zenon, <1>5, <3>3
      <3> QED
        BY Zenon, <3>2, <3>3, <3>4
    <2> QED
      BY Zenon, <1>15, <2>1 DEF ZombieInv, Waits
  <1>19. TypeInv'
    <2>1. ProcType'
      BY Zenon, <1>1, <1>6 DEF ProcType, Reaps, FreeProc, Goto, Label, States
    <2>2. PidType'
      BY <1>1, <1>6 DEF PidType, Reaps, FreeProc
    <2>3. LockType'
      BY Zenon, <1>6 DEF IInv, TypeInv, LockType
    <2> QED
      BY Zenon, <1>6, <2>1, <2>2, <2>3 DEF IInv, TypeInv, CpuType, TimeType, ClockType
  <1> QED
    BY Zenon, <1>12, <1>13, <1>14, <1>17, <1>18, <1>19 DEF IInv

=============================================================================
