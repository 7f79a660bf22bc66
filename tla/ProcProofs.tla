----------------------------- MODULE ProcProofs -----------------------------
(***************************************************************************)
(* For any number of slots, harts and ticks and whatever calls the         *)
(* processes make: no kernel stack is used by two harts or by a slot that  *)
(* was freed, no wakeup of exit, wait or the clock is lost, and the        *)
(* waiting time that waitx reports is off by one tick at most.             *)
(***************************************************************************)
EXTENDS ProcInvariant

----------------------------------------------------------------------------
(* The operations, by their outcome.                                       *)

(* kill by its outcome: process q is killed, or there is none.             *)
Kills(p, q) ==
    /\ pc[p] = "kill" /\ Runs(p) /\ Goto(p, "user")
    /\ ~plock[q] /\ pid[q] \in KillPid
    /\ killed' = [killed EXCEPT ![q] = TRUE]
    /\ state' = state \/ (state[q] = "SLEEPING" /\ state' = [state EXCEPT ![q] = "RUNNABLE"])
    /\ UNCHANGED <<chan, pid, parent, rtime, ctime, etime, locks, np, ticks0, cpu, nextpid, ticks, clk>>

KillMisses(p) ==
    /\ pc[p] = "kill" /\ Runs(p) /\ Goto(p, "user")
    /\ UNCHANGED <<fields, locks, np, ticks0, cpu, nextpid, ticks, clk>>

(* These are the outcomes of Kill.                                         *)
LEMMA KillEither ==
  ASSUME NEW p \in Slot, Kill(p)
  PROVE  KillMisses(p) \/ \E q \in Slot : Kills(p, q)
  BY Zenon DEF Kill, Kills, KillMisses, At, fields

(* clockintr by its phase and slot.                                        *)
LEMMA ClockFirst ==
  ASSUME ClockTick
  PROVE  clk = Idle /\ clk'[1] = "update" /\ clk'[2] = 0 /\ clk' # Idle
  BY DEF ClockTick, Idle

(* update_time() goes to the next slot, or on to wakeup().                 *)
LEMMA ClockUpdates ==
  ASSUME ClockType, UpdateTime
  PROVE  /\ clk[1] = "update" /\ clk[2] \in Slot /\ clk # Idle /\ clk' # Idle
         /\ clk' \in {"update", "wakeup"} \X Slot
         /\ \/ clk'[1] = "update" /\ clk'[2] = clk[2] + 1
            \/ clk'[1] = "wakeup" /\ clk'[2] = 0
  <1>1. clk[1] = "update" /\ clk[2] \in Slot
    BY DEF UpdateTime, ClockType, Idle
  <1>2. CASE clk[2] < N - 1
    <2>1. clk' = <<"update", clk[2] + 1>> /\ clk[2] + 1 \in Slot
      BY Zenon, <1>1, <1>2, ClockSlots DEF UpdateTime
    <2> QED
      BY <1>1, <2>1 DEF Idle
  <1>3. CASE ~(clk[2] < N - 1)
    <2>1. clk' = <<"wakeup", 0>> /\ 0 \in Slot
      BY <1>3, ClockSlots DEF UpdateTime
    <2> QED
      BY <1>1, <2>1 DEF Idle
  <1> QED
    BY <1>2, <1>3

(* wakeup() goes to the next slot, or clockintr() ends.                    *)
LEMMA ClockWakes ==
  ASSUME ClockType, ClockWakeup
  PROVE  /\ clk[1] = "wakeup" /\ clk[2] \in Slot /\ clk # Idle
         /\ \/ /\ clk' \in {"update", "wakeup"} \X Slot /\ clk' # Idle /\ tickslock' = tickslock
               /\ clk'[1] = "wakeup" /\ clk'[2] = clk[2] + 1
            \/ clk' = Idle /\ tickslock' = None /\ \A r \in Slot : r <= clk[2]
  <1>1. clk[1] = "wakeup" /\ clk[2] \in Slot /\ clk # Idle
    BY DEF ClockWakeup, ClockType, Idle
  <1>2. CASE clk[2] < N - 1
    <2>1. clk' = <<"wakeup", clk[2] + 1>> /\ clk[2] + 1 \in Slot /\ tickslock' = tickslock
      BY Zenon, <1>1, <1>2, ClockSlots DEF ClockWakeup
    <2> QED
      BY <1>1, <2>1 DEF Idle
  <1>3. CASE ~(clk[2] < N - 1)
    <2>1. clk' = Idle /\ tickslock' = None /\ \A r \in Slot : r <= clk[2]
      BY Zenon, <1>1, <1>3, ClockSlots DEF ClockWakeup
    <2> QED
      BY <1>1, <2>1
  <1> QED
    BY <1>2, <1>3

----------------------------------------------------------------------------
(* The steps of sleep and kill, the schedulers and the clock.              *)

(* A jump between places of sys_sleep.                                     *)
LEMMA SleepJump ==
  ASSUME IInv, NEW p \in Slot, NEW l \in Label, Runs(p), Goto(p, l),
         pc[p] \in {"sleep", "sleep_loop"}, l \in {"user", "sleep_loop", "sleep_sleep"},
         l = "sleep_sleep" => Early(p)',
         tickslock = p \/ tickslock = None,
         tickslock' = IF l = "user" THEN None ELSE p, Ticks0Moves(p),
         UNCHANGED <<fields, plock, wait_lock, np, cpu, nextpid, ticks, clk>>
  PROVE  IInv'
  <1>1. PidType /\ InitAlive /\ LockAt(p)
    BY Zenon DEF IInv, TypeInv, ThreadInv, LockInv
  <1>2. UNCHANGED <<state, chan, killed, pid, parent, rtime, ctime, etime>>
    BY Zenon DEF fields
  <1>3. PidType' /\ ~killed'[initproc]
    BY Zenon, <1>1, <1>2 DEF PidType, InitAlive
  <1>4. TicksLockMoves(p, l)
    BY Zenon, Names DEF TicksLockMoves
  <1>5. WaitLockMoves(p, l)
    BY Zenon, <1>1 DEF WaitLockMoves, LockAt
  <1>6. pc[p] \notin Busy /\ l \notin Busy /\ l # "exit" /\ l # "wait_sleep"
    BY Zenon DEF Busy
  <1>7. Jump(p, l)
    BY Zenon, <1>2, <1>4, <1>5, <1>6, StateStays DEF Jump
  <1> QED
    BY Zenon, <1>3, <1>7, JumpKeeps

(* sys_sleep takes tickslock.                                              *)
LEMMA SleepKeeps ==
  ASSUME IInv, NEW p \in Slot, Sleep(p)
  PROVE  IInv'
  <1>1. "sleep_loop" \in Label /\ TimeType
    BY Zenon DEF Label, IInv, TypeInv
  <1>2. Ticks0Moves(p)
    BY Zenon, <1>1 DEF Ticks0Moves, Sleep, TimeType
  <1> QED
    BY Zenon, <1>1, <1>2, SleepJump DEF Sleep, At

(* The test of sys_sleep.                                                  *)
LEMMA SleepLoopKeeps ==
  ASSUME IInv, NEW p \in Slot, SleepLoop(p)
  PROVE  IInv'
  <1>1. "user" \in Label /\ "sleep_sleep" \in Label /\ TimeType
    BY Zenon DEF Label, IInv, TypeInv
  <1>2. CASE Early(p) /\ ~killed[p]
    <2>1. tickslock' = p /\ Goto(p, "sleep_sleep") /\ UNCHANGED ticks0
      BY Zenon, <1>2 DEF SleepLoop, Early
    <2>2. Ticks0Moves(p) /\ Early(p)'
      BY Zenon, <1>1, <1>2, <2>1 DEF Ticks0Moves, TimeType, Early, SleepLoop
    <2> QED
      BY Zenon, <1>1, <2>1, <2>2, SleepJump DEF SleepLoop, At
  <1>3. CASE ~(Early(p) /\ ~killed[p])
    <2>1. tickslock' = None /\ Goto(p, "user") /\ ticks0' = [ticks0 EXCEPT ![p] = 0]
      BY Zenon, <1>3 DEF SleepLoop, Early
    <2>2. Ticks0Moves(p)
      BY <1>1, <2>1 DEF Ticks0Moves, TimeType
    <2> QED
      BY Zenon, <1>1, <2>1, <2>2, SleepJump DEF SleepLoop, At
  <1> QED
    BY Zenon, <1>2, <1>3

(* A thread calls sleep(): wait on itself, sys_sleep on the clock.         *)
LEMMA SleepOnKeeps ==
  ASSUME IInv, NEW p \in Slot, Runs(p), NEW c \in {p, Ticks}, NEW l \in {"wait", "sleep_loop"},
         pc[p] \in {"wait_sleep", "sleep_sleep"}, SleepOn(p, c), Goto(p, l),
         IF c = p THEN l = "wait" /\ NoneExits(p) ELSE l = "sleep_loop" /\ Early(p),
         wait_lock' # p, wait_lock' = wait_lock \/ (wait_lock = p /\ wait_lock' = None),
         tickslock' # p, tickslock' = tickslock \/ (tickslock = p /\ tickslock' = None),
         UNCHANGED <<killed, pid, parent, rtime, ctime, etime, np, ticks0, cpu, nextpid, ticks, clk>>
  PROVE  IInv'
  <1>1. ProcType /\ CpuInv /\ Placed(p) /\ InitAlive
    BY Zenon DEF IInv, TypeInv, ThreadInv
  <1>2. /\ state[p] = "RUNNING" /\ ~plock[p] /\ np[p] = None
        /\ Ticks # p /\ p # None /\ p # Clock /\ Clock # None
    BY Zenon, <1>1, OnHart, Names DEF Placed
  <1>3. /\ pc'[p] = l /\ \A r \in Slot : r # p => pc'[r] = pc[r]
        /\ state'[p] = "SLEEPING" /\ \A r \in Slot : r # p => state'[r] = state[r]
        /\ chan'[p] = c /\ \A r \in Slot : r # p => chan'[r] = chan[r]
        /\ plock'[p] /\ \A r \in Slot : r # p => plock'[r] = plock[r]
    BY Zenon, <1>1 DEF ProcType, SleepOn, Goto
  <1>4. /\ \A r \in Slot : r # p => (wait_lock' = r <=> wait_lock = r) /\ (tickslock' = r <=> tickslock = r)
        /\ tickslock' = Clock <=> tickslock = Clock
    BY Zenon, <1>2, Names
  <1>5. Alone(p)
    BY Zenon, <1>3, <1>4 DEF Alone, Same
  <1>6. Calm(p)
    <2>1. KeepsCpu(p) /\ KeepsTime(p) /\ KeepsParent(p)
      BY Zenon, <1>2, <1>3 DEF KeepsCpu, OnCpu, KeepsTime, KeepsParent
    <2>2. KeepsZombie(p)
      BY Zenon, <1>2, <1>3 DEF KeepsZombie, Waits
    <2>3. KeepsTick(p)
      BY Zenon, <1>2, <1>3 DEF KeepsTick, Early
    <2> QED
      BY Zenon, <1>2, <2>1, <2>2, <2>3 DEF Calm, Quiet
  <1>7. Placed(p)'
    BY Zenon, <1>2, <1>3 DEF Placed
  <1>8. LockAt(p)'
    BY Zenon, <1>3 DEF LockAt
  <1>9. InitAlive'
    BY Zenon, <1>1, <1>3, Names DEF InitAlive
  <1>10. TypeInv'
    <2>1. ProcType'
      BY Zenon, <1>1 DEF ProcType, SleepOn, Goto, Label, States
    <2>2. LockType'
      BY Zenon DEF IInv, TypeInv, LockType
    <2> QED
      BY Zenon, <2>1, <2>2 DEF IInv, TypeInv, CpuType, PidType, ClockType, TimeType
  <1> QED
    BY Zenon, <1>4, <1>5, <1>6, <1>7, <1>8, <1>9, <1>10, StepOfOne

(* wait sleeps.                                                            *)
LEMMA WaitSleepKeeps ==
  ASSUME IInv, NEW p \in Slot, WaitSleep(p)
  PROVE  IInv'
  <1>1. LockInv /\ ZombieInv /\ LockAt(p) /\ pc[p] = "wait_sleep" /\ Runs(p)
    BY Zenon DEF IInv, LockInv, WaitSleep, At
  <1>2. wait_lock = p /\ tickslock # p
    BY Zenon, <1>1 DEF LockAt
  <1>3. NoneExits(p)
    <2>1. \A q \in Slot : pc[q] = "exit_zombie" => wait_lock = q
      BY Zenon, <1>1 DEF LockInv, LockAt
    <2>2. \A q \in Slot : pc[q] # "exit_zombie"
      BY Zenon, <1>1, <1>2, <2>1
    <2> QED
      BY Zenon, <1>1, <2>2 DEF NoneExits, ZombieInv
  <1> QED
    BY Zenon, <1>1, <1>2, <1>3, Names, SleepOnKeeps DEF WaitSleep

(* sys_sleep sleeps.                                                       *)
LEMMA SleepSleepKeeps ==
  ASSUME IInv, NEW p \in Slot, SleepSleep(p)
  PROVE  IInv'
  <1>1. LockInv /\ TickInv /\ LockAt(p) /\ pc[p] = "sleep_sleep" /\ Runs(p)
    BY Zenon DEF IInv, LockInv, SleepSleep, At
  <1>2. tickslock = p /\ wait_lock # p /\ Early(p)
    BY Zenon, <1>1 DEF LockAt, TickInv
  <1> QED
    BY Zenon, <1>1, <1>2, Names, SleepOnKeeps DEF SleepSleep

(* kill of a pid that nobody has.                                          *)
LEMMA KillMissesKeeps ==
  ASSUME IInv, NEW p \in Slot, KillMisses(p)
  PROVE  IInv'
  <1>1. PidType /\ InitAlive
    BY Zenon DEF IInv, TypeInv, ThreadInv
  <1>2. /\ Runs(p) /\ pc[p] = "kill" /\ Goto(p, "user") /\ "user" \in Label
        /\ UNCHANGED <<state, chan, killed, pid, parent, rtime, ctime, etime, locks, np,
                       ticks0, cpu, nextpid, ticks, clk>>
    BY Zenon DEF KillMisses, fields, Label
  <1>3. PidType' /\ ~killed'[initproc]
    BY Zenon, <1>1, <1>2 DEF PidType, InitAlive
  <1>4. Jump(p, "user")
    BY Zenon, <1>2, PlainJump, StateStays
  <1> QED
    BY Zenon, <1>2, <1>3, <1>4, JumpKeeps

(* kill.                                                                   *)
LEMMA KillsKeeps ==
  ASSUME IInv, NEW p \in Slot, NEW q \in Slot, Kills(p, q)
  PROVE  IInv'
  <1>1. ProcType /\ PidType /\ InitAlive /\ CpuInv
    BY Zenon DEF IInv, TypeInv, ThreadInv
  <1>2. /\ Runs(p) /\ pc[p] = "kill" /\ Goto(p, "user") /\ "user" \in Label
        /\ UNCHANGED <<chan, pid, parent, rtime, ctime, etime, locks, np, ticks0, cpu, nextpid,
                       ticks, clk>>
    BY Zenon DEF Kills, Label
  <1>3. q # initproc
    BY Zenon, <1>1, SystemCalls DEF InitAlive, Kills
  <1>4. PidType'
    BY <1>1, <1>2 DEF PidType, Kills
  <1>5. ~killed'[initproc]
    BY Zenon, <1>1, <1>3, Names DEF PidType, InitAlive, Kills
  <1>6. OthersWake(p)
    <2>1. CASE state' = state
      BY Zenon, <2>1, StateStays
    <2>2. CASE state[q] = "SLEEPING" /\ state' = [state EXCEPT ![q] = "RUNNABLE"]
      <3>1. state[p] = "RUNNING"
        BY Zenon, <1>1, <1>2, OnHart
      <3>2. p # q /\ state' \in [Slot -> States]
        BY Zenon, <1>1, <2>2, <3>1 DEF ProcType, States
      <3> QED
        BY Zenon, <1>1, <2>2, <3>2 DEF OthersWake, ProcType
    <2> QED
      BY Zenon, <2>1, <2>2 DEF Kills
  <1>7. Jump(p, "user")
    BY Zenon, <1>2, <1>6, PlainJump
  <1> QED
    BY Zenon, <1>2, <1>4, <1>5, <1>7, JumpKeeps

(* A timer interrupt.                                                      *)
LEMMA YieldKeeps ==
  ASSUME IInv, NEW p \in Slot, Yield(p)
  PROVE  IInv'
  <1>1. ProcType /\ CpuInv /\ Placed(p) /\ LockAt(p) /\ InitAlive
    BY Zenon DEF IInv, TypeInv, ThreadInv, LockInv
  <1>2. state[p] = "RUNNING" /\ ~plock[p] /\ wait_lock # p /\ tickslock # p
    BY Zenon, <1>1, OnHart DEF Yield, Interruptible
  <1>3. /\ state'[p] = "RUNNABLE" /\ \A r \in Slot : r # p => state'[r] = state[r]
        /\ plock'[p] /\ \A r \in Slot : r # p => plock'[r] = plock[r]
    BY Zenon, <1>1 DEF ProcType, Yield
  <1>4. UNCHANGED <<chan, killed, pid, parent, rtime, ctime, etime, wait_lock, tickslock, pc,
                    np, ticks0, cpu, nextpid, ticks, clk>>
    BY Zenon DEF Yield, thread
  <1>5. Alone(p)
    BY Zenon, <1>3, <1>4 DEF Alone, Same
  <1>6. Calm(p)
    <2>1. KeepsCpu(p) /\ KeepsTime(p) /\ KeepsParent(p)
      BY Zenon, <1>2, <1>3, <1>4 DEF KeepsCpu, OnCpu, KeepsTime, KeepsParent
    <2>2. KeepsZombie(p) /\ KeepsTick(p)
      BY Zenon, <1>3, <1>4 DEF KeepsZombie, Waits, KeepsTick
    <2> QED
      BY Zenon, <1>2, <2>1, <2>2 DEF Calm, Quiet
  <1>7. Placed(p)' /\ LockAt(p)'
    BY Zenon, <1>1, <1>2, <1>3, <1>4 DEF Placed, LockAt
  <1>8. InitAlive'
    BY Zenon, <1>1, <1>3, <1>4, Names DEF InitAlive
  <1>9. TypeInv'
    <2>1. ProcType'
      BY Zenon, <1>1, <1>4 DEF ProcType, Yield, States
    <2> QED
      BY Zenon, <1>4, <2>1 DEF IInv, TypeInv, CpuType, PidType, LockType, ClockType, TimeType
  <1> QED
    BY Zenon, <1>4, <1>5, <1>6, <1>7, <1>8, <1>9, StepOfOne

(* The scheduler is back on its stack.                                     *)
LEMMA SwitchOutKeeps ==
  ASSUME IInv, NEW h \in Hart, SwitchOut(h)
  PROVE  IInv'
  <1>1. ProcType /\ CpuType /\ CpuInv
    BY Zenon DEF IInv, TypeInv
  <1>2. PICK p \in Slot : cpu[h] = p /\ plock[p]
    BY Zenon, Pointers DEF SwitchOut
  <1>3. Placed(p) /\ LockAt(p) /\ InitAlive
    BY Zenon DEF IInv, ThreadInv, LockInv
  <1>4. /\ ~plock'[p] /\ \A r \in Slot : r # p => plock'[r] = plock[r]
        /\ cpu'[h] = None /\ \A g \in Hart : g # h => cpu'[g] = cpu[g]
    BY Zenon, <1>1, <1>2 DEF ProcType, CpuType, SwitchOut
  <1>5. UNCHANGED <<state, chan, killed, pid, parent, rtime, ctime, etime, wait_lock,
                    tickslock, pc, np, ticks0, nextpid, ticks, clk>>
    BY Zenon DEF SwitchOut, fields, thread
  <1>6. state[p] # "RUNNING" /\ \A g \in Hart : cpu[g] = p => g = h
    BY Zenon, <1>1, <1>2, Names DEF CpuInv, OnCpu
  <1>7. Alone(p)
    BY Zenon, <1>4, <1>5 DEF Alone, Same
  <1>8. Quiet(p)
    BY Zenon, <1>5 DEF Quiet, KeepsParent, KeepsZombie, KeepsTick, KeepsTime, Waits
  <1>9. Placed(p)' /\ LockAt(p)'
    BY Zenon, <1>2, <1>3, <1>5 DEF Placed, LockAt
  <1>10. InitAlive'
    BY Zenon, <1>3, <1>5 DEF InitAlive
  <1>11. CpuInv'
    <2>1. ASSUME NEW g \in Hart, cpu'[g] # None
          PROVE  g # h /\ cpu'[g] = cpu[g] /\ cpu[g] # None /\ cpu[g] \in Slot /\ cpu[g] # p
      BY Zenon, <1>4, <1>6, <2>1, Pointers
    <2>2. ASSUME NEW g \in Hart, cpu'[g] # None
          PROVE  OnCpu(cpu[g])' /\ \A k \in Hart : cpu'[k] = cpu'[g] => k = g
      <3>1. OnCpu(cpu[g]) /\ \A k \in Hart : cpu[k] = cpu[g] => k = g
        BY Zenon, <1>1, <2>1, <2>2 DEF CpuInv
      <3>2. OnCpu(cpu[g])'
        BY Zenon, <1>4, <1>5, <2>1, <2>2, <3>1 DEF OnCpu
      <3> QED
        BY Zenon, <2>1, <2>2, <3>1, <3>2
    <2>3. ASSUME NEW r \in Slot, plock'[r] \/ state'[r] = "RUNNING" PROVE \E g \in Hart : cpu'[g] = r
      <3>1. r # p /\ (plock[r] \/ state[r] = "RUNNING")
        BY Zenon, <1>4, <1>5, <1>6, <2>3
      <3>2. PICK g \in Hart : cpu[g] = r
        BY Zenon, <1>1, <3>1 DEF CpuInv
      <3> QED
        BY Zenon, <1>2, <1>4, <3>1, <3>2
    <2> QED
      BY Zenon, <2>2, <2>3 DEF CpuInv, OnCpu
  <1>12. TypeInv'
    <2>1. ProcType' /\ CpuType'
      BY Zenon, <1>1, <1>2, <1>5 DEF ProcType, CpuType, SwitchOut
    <2> QED
      BY Zenon, <1>5, <2>1 DEF IInv, TypeInv, PidType, LockType, ClockType, TimeType
  <1> QED
    BY Zenon, <1>5, <1>7, <1>8, <1>9, <1>10, <1>11, <1>12, StepButCpu

(* The scheduler runs a process.                                           *)
LEMMA DispatchKeeps ==
  ASSUME IInv, NEW h \in Hart, NEW q \in Slot, Dispatch(h, q)
  PROVE  IInv'
  <1>1. ProcType /\ CpuType /\ CpuInv /\ Placed(q) /\ LockAt(q) /\ InitAlive
    BY Zenon DEF IInv, TypeInv, ThreadInv, LockInv
  <1>2. cpu[h] = None /\ ~plock[q] /\ state[q] = "RUNNABLE" /\ q # None
    BY Zenon, Names DEF Dispatch
  <1>3. /\ state'[q] = "RUNNING" /\ \A r \in Slot : r # q => state'[r] = state[r]
        /\ chan'[q] = None /\ \A r \in Slot : r # q => chan'[r] = chan[r]
        /\ cpu'[h] = q /\ \A g \in Hart : g # h => cpu'[g] = cpu[g]
    BY Zenon, <1>1 DEF ProcType, CpuType, Dispatch
  <1>4. UNCHANGED <<killed, pid, parent, rtime, ctime, etime, plock, wait_lock, tickslock, pc,
                    np, ticks0, nextpid, ticks, clk>>
    BY Zenon DEF Dispatch, locks, thread
  <1>5. \A g \in Hart : cpu[g] # q
    BY Zenon, <1>1, <1>2 DEF CpuInv, OnCpu
  <1>6. Alone(q)
    BY Zenon, <1>3, <1>4 DEF Alone, Same
  <1>7. Quiet(q)
    BY Zenon, <1>2, <1>3, <1>4 DEF Quiet, KeepsParent, KeepsZombie, KeepsTick, KeepsTime, Waits
  <1>8. Placed(q)' /\ LockAt(q)'
    BY Zenon, <1>1, <1>2, <1>3, <1>4 DEF Placed, LockAt
  <1>9. InitAlive'
    BY Zenon, <1>1, <1>3, <1>4, Names DEF InitAlive
  <1>10. CpuInv'
    <2>1. ASSUME NEW g \in Hart, cpu'[g] # None
          PROVE  OnCpu(cpu[g])' /\ \A k \in Hart : cpu'[k] = cpu'[g] => k = g
      <3>1. CASE g = h
        <4>1. ~plock'[q] /\ state'[q] = "RUNNING" /\ cpu'[g] = q
          BY Zenon, <1>2, <1>3, <1>4, <3>1
        <4>2. OnCpu(cpu[g])'
          BY Zenon, <4>1 DEF OnCpu
        <4>3. \A k \in Hart : cpu'[k] = q => k = h
          BY Zenon, <1>3, <1>5
        <4> QED
          BY Zenon, <3>1, <4>1, <4>2, <4>3
      <3>2. CASE g # h
        <4>1. cpu'[g] = cpu[g] /\ cpu[g] # None /\ cpu[g] \in Slot /\ cpu[g] # q
          BY Zenon, <1>3, <1>5, <2>1, <3>2, Pointers
        <4>2. OnCpu(cpu[g]) /\ \A k \in Hart : cpu[k] = cpu[g] => k = g
          BY Zenon, <1>1, <4>1 DEF CpuInv
        <4>3. state'[cpu[g]] = state[cpu[g]] /\ plock'[cpu[g]] = plock[cpu[g]]
          BY Zenon, <1>3, <1>4, <4>1
        <4>4. OnCpu(cpu[g])'
          BY Zenon, <4>1, <4>2, <4>3 DEF OnCpu
        <4> QED
          BY Zenon, <1>3, <4>1, <4>2, <4>4
      <3> QED
        BY Zenon, <3>1, <3>2
    <2>2. ASSUME NEW r \in Slot, plock'[r] \/ state'[r] = "RUNNING" PROVE \E g \in Hart : cpu'[g] = r
      <3>1. CASE r = q
        BY Zenon, <1>3, <3>1
      <3>2. CASE r # q
        <4>1. PICK g \in Hart : cpu[g] = r
          BY Zenon, <1>1, <1>3, <1>4, <2>2, <3>2 DEF CpuInv
        <4>2. g # h
          BY Zenon, <1>2, <4>1, Names
        <4> QED
          BY Zenon, <1>3, <4>1, <4>2
      <3> QED
        BY Zenon, <3>1, <3>2
    <2> QED
      BY Zenon, <2>1, <2>2 DEF CpuInv, OnCpu
  <1>11. TypeInv'
    <2>1. ProcType' /\ CpuType'
      BY Zenon, <1>1, <1>4 DEF ProcType, CpuType, Dispatch, States
    <2> QED
      BY Zenon, <1>4, <2>1 DEF IInv, TypeInv, PidType, LockType, ClockType, TimeType
  <1> QED
    BY Zenon, <1>4, <1>6, <1>7, <1>8, <1>9, <1>10, <1>11, StepButCpu

(* A step of clockintr() wakes processes at most.                          *)
LEMMA ClockKeeps ==
  ASSUME IInv, TypeInv', \A r \in Slot : Same(r), LockInv', TickInv', TimeInv',
         UNCHANGED <<killed, pid, parent, pc, np, cpu>>
  PROVE  IInv'
  <1>1. ProcType /\ CpuType /\ CpuInv /\ ThreadInv /\ ParentInv /\ ZombieInv
    BY Zenon DEF IInv, TypeInv
  <1>2. \A r \in Slot : KeepsCpu(r) /\ KeepsParent(r) /\ KeepsZombie(r) /\ Quiet(r)
    BY Zenon, SameIsCalm DEF Calm, Quiet
  <1>3. CpuInv' /\ ParentInv' /\ ZombieInv'
    BY Zenon, <1>1, <1>2, CpuKept, ParentKept, ZombieKept
  <1>4. InitAlive'
    BY Zenon, <1>1, Names DEF ThreadInv, InitAlive, Same
  <1>5. ThreadInv'
    BY Zenon, <1>1, <1>2, <1>4, SameIsCalm, NpKept DEF ThreadInv
  <1> QED
    BY Zenon, <1>3, <1>5 DEF IInv

(* clockintr counts a tick.                                                *)
LEMMA ClockTickKeeps ==
  ASSUME IInv, ClockTick
  PROVE  IInv'
  <1>1. ProcType /\ LockInv /\ TimeType /\ TickInv /\ TimeInv
    BY Zenon DEF IInv, TypeInv
  <1>2. UNCHANGED <<state, chan, killed, pid, parent, rtime, ctime, etime, plock, wait_lock,
                    pc, np, ticks0, cpu, nextpid>>
    BY Zenon DEF ClockTick, fields, thread
  <1>3. /\ tickslock = None /\ tickslock' = Clock /\ ticks' = ticks + 1 /\ clk = Idle
        /\ clk' = <<"update", 0>> /\ clk'[1] = "update" /\ clk'[2] = 0 /\ clk' # Idle
    BY Zenon, ClockFirst DEF ClockTick
  <1>4. \A r \in Slot : Same(r)
    BY Zenon, <1>2 DEF Same
  <1>5. LockInv'
    <2>1. \A r \in Slot : (wait_lock' = r <=> wait_lock = r) /\ (tickslock' = r <=> tickslock = r)
      BY Zenon, <1>2, <1>3, Names
    <2>2. \A r \in Slot : LockAt(r)'
      BY Zenon, <1>1, <1>4, <2>1, LockSame DEF LockInv
    <2> QED
      BY Zenon, <1>3, <2>2 DEF LockInv
  <1>6. TickInv'
    <2>1. \A r \in Slot : pc'[r] # "sleep_sleep"
      BY Zenon, <1>1, <1>2, <1>3, Names DEF LockInv, LockAt
    <2>2. "update" # "wakeup"
      BY Zenon
    <2> QED
      BY Zenon, <1>3, <2>1, <2>2 DEF TickInv
  <1>7. TimeInv'
    <2>1. ASSUME NEW q \in Slot, state'[q] # "UNUSED" PROVE TimeInv!(q)'
      <3>1. ticks \in Nat /\ rtime[q] \in Nat /\ ctime[q] \in Nat /\ etime[q] \in Nat
        BY Zenon, <1>1 DEF TimeType
      <3>2. /\ ctime[q] <= ticks /\ rtime[q] <= ticks - ctime[q] + 1
            /\ state[q] = "ZOMBIE" => ctime[q] <= etime[q] /\ rtime[q] <= etime[q] - ctime[q] + 1
        BY Zenon, <1>1, <1>2, <2>1 DEF TimeInv
      <3> QED
        BY <1>2, <1>3, <3>1, <3>2
    <2> QED
      BY Zenon, <2>1 DEF TimeInv
  <1>8. TypeInv'
    <2>1. TimeType'
      BY <1>1, <1>2, <1>3 DEF TimeType
    <2>2. ClockType' /\ LockType'
      BY <1>2, <1>3, ClockSlots DEF IInv, TypeInv, LockType, ClockType
    <2> QED
      BY Zenon, <1>2, <2>1, <2>2 DEF IInv, TypeInv, ProcType, CpuType, PidType
  <1> QED
    BY Zenon, <1>2, <1>4, <1>5, <1>6, <1>7, <1>8, ClockKeeps

(* update_time() looks at a slot.                                          *)
LEMMA UpdateTimeKeeps ==
  ASSUME IInv, UpdateTime
  PROVE  IInv'
  <1>1. LockInv /\ TimeType /\ ClockType /\ TickInv /\ TimeInv
    BY Zenon DEF IInv, TypeInv
  <1>2. UNCHANGED <<state, chan, killed, pid, parent, ctime, etime, plock, wait_lock,
                    tickslock, pc, np, ticks0, cpu, nextpid, ticks>>
    BY Zenon DEF UpdateTime, locks, thread
  <1>3. /\ clk[1] = "update" /\ clk[2] \in Slot /\ clk # Idle /\ clk' # Idle
        /\ clk' \in {"update", "wakeup"} \X Slot
        /\ \/ clk'[1] = "update" /\ clk'[2] = clk[2] + 1
           \/ clk'[1] = "wakeup" /\ clk'[2] = 0
    BY Zenon, <1>1, ClockUpdates
  <1>4. tickslock = Clock
    BY Zenon, <1>1, <1>3 DEF LockInv
  <1>5. \A r \in Slot : Same(r)
    BY Zenon, <1>2 DEF Same
  <1>6. LockInv'
    <2>1. \A r \in Slot : LockAt(r)'
      BY Zenon, <1>1, <1>2, <1>5, LockSame DEF LockInv
    <2> QED
      BY Zenon, <1>2, <1>3, <1>4, <2>1 DEF LockInv
  <1>7. TickInv'
    <2>1. \A r \in Slot : ~(clk'[1] = "wakeup" /\ r < clk'[2])
      <3>1. \A r \in Slot : ~(r < 0)
        BY ClockSlots
      <3>2. "update" # "wakeup"
        BY Zenon
      <3> QED
        BY Zenon, <1>3, <3>1, <3>2
    <2>2. \A r \in Slot : pc[r] = "sleep_sleep" => Early(r)
      BY Zenon, <1>1 DEF TickInv
    <2> QED
      BY Zenon, <1>2, <1>4, <2>1, <2>2 DEF TickInv, Early
  <1>8. TimeInv'
    <2>1. ASSUME NEW r \in Slot, state'[r] # "UNUSED" PROVE TimeInv!(r)'
      <3>1. /\ r \in Nat /\ clk[2] \in Nat /\ ticks \in Nat
            /\ rtime[r] \in Nat /\ ctime[r] \in Nat /\ etime[r] \in Nat
        BY Zenon, <1>1, <1>3, ClockSlots DEF TimeType
      <3>2. /\ ctime[r] <= ticks /\ rtime[r] <= ticks - ctime[r] + 1
            /\ clk[2] <= r => rtime[r] <= ticks - ctime[r]
            /\ state[r] = "ZOMBIE" => ctime[r] <= etime[r] /\ rtime[r] <= etime[r] - ctime[r] + 1
        BY Zenon, <1>1, <1>2, <1>3, <2>1 DEF TimeInv
      <3>3. CASE r = clk[2] /\ state[r] = "RUNNING"
        <4>1. rtime'[r] = rtime[r] + 1
          BY <1>1, <3>3 DEF TimeType, UpdateTime
        <4> QED
          BY <1>2, <1>3, <3>1, <3>2, <3>3, <4>1
      <3>4. CASE ~(r = clk[2] /\ state[r] = "RUNNING")
        <4>1. rtime'[r] = rtime[r]
          BY <1>1, <1>3, <3>4 DEF TimeType, UpdateTime
        <4>2. clk'[1] = "update" /\ clk'[2] <= r => clk[2] <= r
          BY <1>3, <3>1
        <4> QED
          BY Zenon, <1>2, <3>2, <4>1, <4>2
      <3> QED
        BY Zenon, <3>3, <3>4
    <2> QED
      BY Zenon, <2>1 DEF TimeInv
  <1>9. TypeInv'
    <2>1. rtime' \in [Slot -> Nat]
      BY <1>1, <1>3 DEF UpdateTime, TimeType
    <2> QED
      BY Zenon, <1>2, <1>3, <2>1 DEF IInv, TypeInv, ProcType, CpuType, PidType, LockType, ClockType, TimeType
  <1> QED
    BY Zenon, <1>2, <1>5, <1>6, <1>7, <1>8, <1>9, ClockKeeps

(* wakeup(&ticks) looks at a slot.                                         *)
LEMMA ClockWakeupKeeps ==
  ASSUME IInv, ClockWakeup
  PROVE  IInv'
  <1>1. ProcType /\ LockInv /\ ClockType /\ TickInv /\ TimeInv
    BY Zenon DEF IInv, TypeInv
  <1>2. UNCHANGED <<chan, killed, pid, parent, rtime, ctime, etime, plock, wait_lock, pc, np,
                    ticks0, cpu, nextpid, ticks>>
    BY Zenon DEF ClockWakeup, thread
  <1>3. /\ clk[1] = "wakeup" /\ clk[2] \in Slot /\ clk # Idle
        /\ \/ /\ clk' \in {"update", "wakeup"} \X Slot /\ clk' # Idle /\ tickslock' = tickslock
              /\ clk'[1] = "wakeup" /\ clk'[2] = clk[2] + 1
           \/ clk' = Idle /\ tickslock' = None /\ \A r \in Slot : r <= clk[2]
    BY Zenon, <1>1, ClockWakes
  <1>4. tickslock = Clock
    BY Zenon, <1>1, <1>3 DEF LockInv
  <1>5. /\ \A r \in Slot : state'[r] = state[r] \/ (state[r] = "SLEEPING" /\ state'[r] = "RUNNABLE")
        /\ ~(state'[clk[2]] = "SLEEPING" /\ chan[clk[2]] = Ticks)
    BY Zenon, <1>1, <1>3 DEF ProcType, ClockWakeup, Wake
  <1>6. \A r \in Slot : Same(r)
    BY Zenon, <1>2, <1>5 DEF Same
  <1>7. LockInv'
    <2>1. \A r \in Slot : (wait_lock' = r <=> wait_lock = r) /\ (tickslock' = r <=> tickslock = r)
      BY Zenon, <1>2, <1>3, <1>4, Names
    <2>2. \A r \in Slot : LockAt(r)'
      BY Zenon, <1>1, <1>6, <2>1, LockSame DEF LockInv
    <2>3. tickslock' = Clock <=> clk' # Idle
      BY Zenon, <1>3, <1>4, Names
    <2> QED
      BY Zenon, <2>2, <2>3 DEF LockInv
  <1>8. TickInv'
    <2>1. ASSUME NEW r \in Slot, state'[r] = "SLEEPING", chan'[r] = Ticks,
                 tickslock' # Clock \/ (clk'[1] = "wakeup" /\ r < clk'[2])
          PROVE  Early(r)
      <3>1. r # clk[2] /\ state[r] = "SLEEPING" /\ chan[r] = Ticks
        BY Zenon, <1>2, <1>5, <2>1
      <3>2. r \in Nat /\ clk[2] \in Nat
        BY Zenon, <1>3, ClockSlots
      <3>3. r <= clk[2]
        BY <1>3, <1>4, <2>1, <3>2
      <3>4. r < clk[2]
        BY <3>1, <3>2, <3>3
      <3> QED
        BY Zenon, <1>1, <1>3, <3>1, <3>4 DEF TickInv
    <2> QED
      BY Zenon, <1>1, <1>2, <2>1 DEF TickInv, Early
  <1>9. TimeInv'
    <2>1. clk'[1] # "update"
      BY <1>3 DEF Idle
    <2>2. \A r \in Slot : KeepsTime(r)
      BY Zenon, <1>6, SameIsCalm DEF Calm, Quiet
    <2> QED
      BY Zenon, <1>1, <1>2, <2>1, <2>2 DEF TimeInv, KeepsTime
  <1>10. TypeInv'
    <2>1. state' \in [Slot -> States]
      BY Zenon, <1>1, <1>3 DEF ClockWakeup, Wake, ProcType, States
    <2>2. ProcType' /\ ClockType'
      BY Zenon, <1>1, <1>2, <1>3, <2>1 DEF ProcType, ClockType
    <2>3. LockType'
      BY Zenon, <1>2, <1>3 DEF IInv, TypeInv, LockType
    <2> QED
      BY Zenon, <1>2, <2>2, <2>3 DEF IInv, TypeInv, CpuType, PidType, TimeType
  <1> QED
    BY Zenon, <1>2, <1>6, <1>7, <1>8, <1>9, <1>10, ClockKeeps

----------------------------------------------------------------------------
(* The invariant is kept by every step.                                    *)
LEMMA StepInv == IInv /\ [Next]_vars => IInv'
  <1> SUFFICES ASSUME IInv, [Next]_vars PROVE IInv'
    OBVIOUS
  <1>1. CASE UNCHANGED vars
    BY Zenon, <1>1, StutterKeeps
  <1>2. ASSUME NEW p \in Slot, Fork(p) PROVE IInv'
    BY Zenon, <1>2, ForkEither, ForkFailsKeeps, ForkMakesKeeps
  <1>3. ASSUME NEW p \in Slot, WaitReap(p) PROVE IInv'
    BY Zenon, <1>3, ReapEither, ReapFailsKeeps, ReapsKeeps
  <1>4. ASSUME NEW p \in Slot, Kill(p) PROVE IInv'
    BY Zenon, <1>4, KillEither, KillMissesKeeps, KillsKeeps
  <1>5. ASSUME NEW p \in Slot, KernelStep(p) PROVE IInv'
    BY Zenon, <1>2, <1>3, <1>4, <1>5, ForkParentKeeps, ForkRunKeeps, ExitReparentKeeps,
       ExitWakeKeeps, ExitZombieKeeps, WaitKeeps, WaitNoneKeeps, WaitSleepKeeps, SleepKeeps,
       SleepLoopKeeps, SleepSleepKeeps DEF KernelStep
  <1> QED
    BY Zenon, <1>1, <1>5, SyscallKeeps, YieldKeeps, SwitchOutKeeps, DispatchKeeps,
       ClockTickKeeps, UpdateTimeKeeps, ClockWakeupKeeps DEF Next, ClockStep, Stopped

(* So it holds in every reachable state.                                   *)
LEMMA ProcInv == Spec => []IInv
  BY InitInv, StepInv, PTL DEF Spec

----------------------------------------------------------------------------
(* The unsigned difference of waitx wraps around only for the extra tick.  *)
LEMMA UnsignedWrap ==
  ASSUME NEW e \in Nat, NEW c \in Nat, NEW r \in Nat, c <= e, r <= e - c + 1
  PROVE  (65536 + e - c - r) % 65536 <= e - c \/ (65536 + e - c - r) % 65536 = 65536 - 1
  OBVIOUS

----------------------------------------------------------------------------
(* The theorems.                                                           *)

(* Whatever the number of harts: sched() and the schedulers never let two  *)
(* of them run on one kernel stack, and wait() frees no stack in use.      *)
THEOREM KernelStacksPrivate == Spec => []StackPrivate
  <1>1. IInv => StackPrivate
    BY DEF IInv, CpuInv, OnCpu, StackPrivate
  <1> QED
    BY <1>1, ProcInv, PTL

(* No wakeup of exit(), reparent() or clockintr() is lost to a process     *)
(* that is about to sleep in wait() or sys_sleep().                        *)
THEOREM WakeupsArrive == Spec => []NoLostWakeup
  <1>1. ASSUME IInv PROVE NoLostWakeup
    <2>1. ASSUME NEW q \in Slot, state[q] # "UNUSED", parent[q] # None
          PROVE  /\ state[parent[q]] \notin {"UNUSED", "ZOMBIE"}
                 /\ state[q] = "ZOMBIE" => ~(state[parent[q]] = "SLEEPING" /\ chan[parent[q]] = parent[q])
      BY <1>1, <2>1 DEF IInv, ParentInv, ZombieInv, Waits
    <2>2. ASSUME NEW p \in Slot, tickslock # Clock, state[p] = "SLEEPING", chan[p] = Ticks
          PROVE  ticks - ticks0[p] < SleepTime
      BY <1>1, <2>2 DEF IInv, TickInv, Early
    <2>3. ASSUME NEW p \in Slot, plock[p] PROVE wait_lock # p /\ tickslock # p
      BY Zenon, <1>1, <2>3 DEF IInv, LockInv, LockAt
    <2> QED
      BY Zenon, <2>1, <2>2, <2>3 DEF NoLostWakeup
  <1> QED
    BY <1>1, ProcInv, PTL

(* The unsigned difference that waitx reports wraps around by one tick and *)
(* no more, for a process that was made inside clockintr().                *)
THEOREM WaitTimeWrapsByOne == Spec => []WaitTimeOffByOne
  <1>1. ASSUME IInv, NEW q \in Slot, state[q] = "ZOMBIE"
        PROVE  WTime(q) <= etime[q] - ctime[q] \/ WTime(q) = UintMod - 1
    <2>1. /\ etime[q] \in Nat /\ ctime[q] \in Nat /\ rtime[q] \in Nat
          /\ ctime[q] <= etime[q] /\ rtime[q] <= etime[q] - ctime[q] + 1
      BY <1>1 DEF IInv, TypeInv, TimeType, TimeInv
    <2> QED
      BY <2>1, UnsignedWrap DEF WTime, UintMod
  <1>2. IInv => WaitTimeOffByOne
    BY Zenon, <1>1 DEF WaitTimeOffByOne
  <1> QED
    BY <1>2, ProcInv, PTL
=============================================================================
