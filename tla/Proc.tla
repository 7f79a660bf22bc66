-------------------------------- MODULE Proc --------------------------------
(***************************************************************************)
(* The process table of kernel/proc.c: fork, exit, wait, waitx, kill,      *)
(* sleep and wakeup, the schedulers of the harts, and the clock interrupt. *)
(*                                                                         *)
(* A critical section that ends before another lock is asked for is one    *)
(* step.  The sections that are longer hold wait_lock, tickslock or, from  *)
(* the change of p->state to the switch of stacks in scheduler(), p->lock. *)
(* A process takes steps only while it is on a hart and outside sched().   *)
(***************************************************************************)
EXTENDS Integers, FiniteSets

CONSTANTS
    N,          \* NPROC
    Hart,       \* the harts; the clock interrupts hart 0
    None,       \* the null pointer
    Ticks,      \* the channel &ticks
    Clock,      \* clockintr as the holder of tickslock
    Call,       \* the system calls that the program in a slot makes
    KillPid,    \* the arguments of kill
    SleepTime,  \* the argument of sleep
    MaxPid,     \* bound: fork fails once nextpid reached it
    MaxTicks    \* bound on ticks

Slot == 0 .. N - 1
initproc == 0

ASSUME SlotAssumption == N \in Nat \ {0} /\ None \notin Nat /\ Ticks \notin Nat /\ Ticks # None
ASSUME HartAssumption == 0 \in Hart /\ Hart \subseteq Nat
ASSUME ClockAssumption == Clock \notin Slot /\ Clock # None
(* exit() panics when init calls it, so init does not, and nothing kills it.*)
ASSUME CallAssumption ==
    /\ Call \in [Slot -> SUBSET {"fork", "exit", "wait", "sleep", "kill"}]
    /\ "exit" \notin Call[initproc]
    /\ KillPid \subseteq Nat /\ 1 \notin KillPid
ASSUME BoundAssumption == SleepTime \in Nat /\ MaxPid \in Nat /\ MaxTicks \in Nat

VARIABLES
    state, chan, killed, pid, parent,  \* fields of struct proc
    rtime, ctime, etime,
    plock,                \* p->lock is held by a process inside sched()
    pc,                   \* where the kernel thread of a slot is
    np,                   \* fork's np
    ticks0,               \* sys_sleep's ticks0
    cpu,                  \* c->proc of every hart
    wait_lock, tickslock, \* who holds them, or None
    nextpid, ticks,
    clk                   \* clockintr: idle, or the loop and slot it is at

fields == <<state, chan, killed, pid, parent, rtime, ctime, etime>>
locks == <<plock, wait_lock, tickslock>>
thread == <<pc, np, ticks0>>
vars == <<fields, locks, thread, cpu, nextpid, ticks, clk>>

Idle == <<"idle", 0>>

----------------------------------------------------------------------------

(* userinit: init is runnable and will start in user mode.                 *)
Init ==
    /\ state = [q \in Slot |-> IF q = initproc THEN "RUNNABLE" ELSE "UNUSED"]
    /\ chan = [q \in Slot |-> None]
    /\ killed = [q \in Slot |-> FALSE]
    /\ pid = [q \in Slot |-> IF q = initproc THEN 1 ELSE 0]
    /\ parent = [q \in Slot |-> None]
    /\ rtime = [q \in Slot |-> 0]
    /\ ctime = [q \in Slot |-> 0]
    /\ etime = [q \in Slot |-> 0]
    /\ plock = [q \in Slot |-> FALSE]
    /\ pc = [q \in Slot |-> IF q = initproc THEN "user" ELSE "none"]
    /\ np = [q \in Slot |-> None]
    /\ ticks0 = [q \in Slot |-> 0]
    /\ cpu = [h \in Hart |-> None]
    /\ wait_lock = None
    /\ tickslock = None
    /\ nextpid = 2
    /\ ticks = 0
    /\ clk = Idle

(* A hart executes its own thread; the clock interrupt suspends hart 0's.  *)
Executing(h) == h = 0 => clk = Idle

Runs(p) == ~plock[p] /\ \E h \in Hart : cpu[h] = p /\ Executing(h)

At(p, label) == Runs(p) /\ pc[p] = label

(* Interrupts are off while a thread holds a spinlock.                     *)
Interruptible(p) == Runs(p) /\ wait_lock # p /\ tickslock # p

Goto(p, label) == pc' = [pc EXCEPT ![p] = label]

Children(p) == {q \in Slot : parent[q] = p}

(* wakeup(c), for the one process that may sleep on c.                     *)
Wake(q, c) ==
    /\ ~plock[q]
    /\ state' = IF state[q] = "SLEEPING" /\ chan[q] = c
                  THEN [state EXCEPT ![q] = "RUNNABLE"] ELSE state

(* sleep(c, lk), with lk released by the caller of this step: p->lock is   *)
(* taken first and kept until the scheduler has switched away.             *)
SleepOn(p, c) ==
    /\ chan' = [chan EXCEPT ![p] = c]
    /\ state' = [state EXCEPT ![p] = "SLEEPING"]
    /\ plock' = [plock EXCEPT ![p] = TRUE]

----------------------------------------------------------------------------
(* The scheduler.                                                          *)

(* scheduler() finds q runnable; the thread continues inside sched() and   *)
(* releases p->lock, in sleep() after it cleared p->chan.                  *)
Dispatch(h, q) ==
    /\ cpu[h] = None /\ Executing(h)
    /\ ~plock[q] /\ state[q] = "RUNNABLE"
    /\ state' = [state EXCEPT ![q] = "RUNNING"]
    /\ chan' = [chan EXCEPT ![q] = None]
    /\ cpu' = [cpu EXCEPT ![h] = q]
    /\ UNCHANGED <<killed, pid, parent, rtime, ctime, etime, locks, thread, nextpid, ticks, clk>>

(* sched() switched to the scheduler of the hart, which releases p->lock.  *)
SwitchOut(h) ==
    /\ cpu[h] # None /\ Executing(h)
    /\ plock[cpu[h]]
    /\ plock' = [plock EXCEPT ![cpu[h]] = FALSE]
    /\ cpu' = [cpu EXCEPT ![h] = None]
    /\ UNCHANGED <<fields, wait_lock, tickslock, thread, nextpid, ticks, clk>>

(* yield(), after a timer interrupt in user mode or in the kernel.         *)
Yield(p) ==
    /\ Interruptible(p)
    /\ pc[p] = "user" => ~killed[p]
    /\ state' = [state EXCEPT ![p] = "RUNNABLE"]
    /\ plock' = [plock EXCEPT ![p] = TRUE]
    /\ UNCHANGED <<chan, killed, pid, parent, rtime, ctime, etime, wait_lock, tickslock,
                   thread, cpu, nextpid, ticks, clk>>

----------------------------------------------------------------------------
(* usertrap: a killed process exits, another one starts a system call.     *)
(* The look at p->killed when a call returns is the one of the next trap.  *)

Syscall(p) ==
    /\ At(p, "user")
    /\ \/ killed[p] /\ Goto(p, "exit")
       \/ ~killed[p] /\ \E s \in Call[p] : Goto(p, s)
    /\ UNCHANGED <<fields, locks, np, ticks0, cpu, nextpid, ticks, clk>>

----------------------------------------------------------------------------
(* fork                                                                    *)

(* The times that allocproc sets; ticks is read without tickslock.         *)
StartTimes(q) ==
    /\ rtime' = [rtime EXCEPT ![q] = 0]
    /\ etime' = [etime EXCEPT ![q] = 0]
    /\ ctime' = [ctime EXCEPT ![q] = ticks]

(* allocproc and the copy of the process, all under np->lock.  Without     *)
(* memory the slot is given back by freeproc, with a fresh pid used up.    *)
Fork(p) ==
    /\ At(p, "fork")
    /\ \/ \E q \in Slot :
            /\ state[q] = "UNUSED" /\ ~plock[q]
            /\ nextpid' = IF nextpid < MaxPid THEN nextpid + 1 ELSE nextpid
            /\ \/ /\ nextpid < MaxPid
                  /\ state' = [state EXCEPT ![q] = "USED"]
                  /\ pid' = [pid EXCEPT ![q] = nextpid]
                  /\ StartTimes(q)
                  /\ np' = [np EXCEPT ![p] = q]
                  /\ pc' = [pc EXCEPT ![p] = "fork_parent", ![q] = "user"]
                  /\ UNCHANGED killed
               \/ /\ killed' = [killed EXCEPT ![q] = FALSE]
                  /\ Goto(p, "user")
                  /\ UNCHANGED <<state, pid, rtime, etime, ctime, np>>
       \/ /\ \A q \in Slot : state[q] # "UNUSED"
          /\ Goto(p, "user")
          /\ UNCHANGED <<state, killed, pid, rtime, etime, ctime, np, nextpid>>
    /\ UNCHANGED <<chan, parent, locks, ticks0, cpu, ticks, clk>>

ForkParent(p) ==
    /\ At(p, "fork_parent")
    /\ wait_lock = None
    /\ parent' = [parent EXCEPT ![np[p]] = p]
    /\ Goto(p, "fork_run")
    /\ UNCHANGED <<state, chan, killed, pid, rtime, ctime, etime, locks, np, ticks0, cpu,
                   nextpid, ticks, clk>>

ForkRun(p) ==
    /\ At(p, "fork_run")
    /\ state' = [state EXCEPT ![np[p]] = "RUNNABLE"]
    /\ np' = [np EXCEPT ![p] = None]
    /\ Goto(p, "user")
    /\ UNCHANGED <<chan, killed, pid, parent, rtime, ctime, etime, locks, ticks0, cpu,
                   nextpid, ticks, clk>>

----------------------------------------------------------------------------
(* exit, from the point where the files are closed.                        *)

(* wait_lock is taken; init becomes the parent of every child, and is      *)
(* woken if there is any.                                                  *)
ExitReparentSilently(p) ==
    /\ At(p, "exit") /\ p # initproc
    /\ wait_lock = None /\ wait_lock' = p
    /\ parent' = [q \in Slot |-> IF parent[q] = p THEN initproc ELSE parent[q]]
    /\ Goto(p, "exit_wake")
    /\ UNCHANGED <<state, chan, killed, pid, rtime, ctime, etime, plock, tickslock, np,
                   ticks0, cpu, nextpid, ticks, clk>>

ExitReparent(p) ==
    /\ At(p, "exit") /\ p # initproc
    /\ wait_lock = None /\ wait_lock' = p
    /\ parent' = [q \in Slot |-> IF parent[q] = p THEN initproc ELSE parent[q]]
    /\ IF Children(p) = {} THEN UNCHANGED state ELSE Wake(initproc, initproc)
    /\ Goto(p, "exit_wake")
    /\ UNCHANGED <<chan, killed, pid, rtime, ctime, etime, plock, tickslock, np, ticks0,
                   cpu, nextpid, ticks, clk>>

ExitWake(p) ==
    /\ At(p, "exit_wake")
    /\ Wake(parent[p], parent[p])
    /\ Goto(p, "exit_zombie")
    /\ UNCHANGED <<chan, killed, pid, parent, rtime, ctime, etime, locks, np, ticks0, cpu,
                   nextpid, ticks, clk>>

(* p->lock is taken before wait_lock is released, and kept through sched().*)
ExitZombie(p) ==
    /\ At(p, "exit_zombie")
    /\ state' = [state EXCEPT ![p] = "ZOMBIE"]
    /\ etime' = [etime EXCEPT ![p] = ticks]
    /\ wait_lock' = None
    /\ plock' = [plock EXCEPT ![p] = TRUE]
    /\ Goto(p, "none")
    /\ UNCHANGED <<chan, killed, pid, parent, rtime, ctime, tickslock, np, ticks0, cpu,
                   nextpid, ticks, clk>>

----------------------------------------------------------------------------
(* wait and waitx                                                          *)

Wait(p) ==
    /\ At(p, "wait")
    /\ wait_lock = None /\ wait_lock' = p
    /\ Goto(p, "scan")
    /\ UNCHANGED <<fields, plock, tickslock, np, ticks0, cpu, nextpid, ticks, clk>>

(* The zombie child that the scan finds: it needs the child's p->lock.     *)
ReapableRunning(p, q) ==
    /\ q \in Children(p) /\ state[q] = "ZOMBIE"
    /\ \A r \in Children(p) : r < q => state[r] # "ZOMBIE"

Reapable(p, q) ==
    /\ q \in Children(p) /\ state[q] = "ZOMBIE" /\ ~plock[q]
    /\ \A r \in Children(p) : r < q => state[r] # "ZOMBIE"

FreeProc(q) ==
    /\ state' = [state EXCEPT ![q] = "UNUSED"]
    /\ chan' = [chan EXCEPT ![q] = None]
    /\ killed' = [killed EXCEPT ![q] = FALSE]
    /\ pid' = [pid EXCEPT ![q] = 0]
    /\ parent' = [parent EXCEPT ![q] = None]

(* A zombie is freed, unless copyout of its status fails.                  *)
WaitReap(p) ==
    /\ At(p, "scan")
    /\ \E q \in Slot : Reapable(p, q) /\ (FreeProc(q) \/ UNCHANGED <<state, chan, killed, pid, parent>>)
    /\ wait_lock' = None
    /\ Goto(p, "user")
    /\ UNCHANGED <<rtime, ctime, etime, plock, tickslock, np, ticks0, cpu, nextpid, ticks, clk>>

(* No zombie: give up without children or when killed, else sleep.         *)
WaitNone(p) ==
    /\ At(p, "scan")
    /\ \A q \in Children(p) : state[q] # "ZOMBIE"
    /\ IF Children(p) = {} \/ killed[p]
         THEN wait_lock' = None /\ Goto(p, "user")
         ELSE Goto(p, "wait_sleep") /\ UNCHANGED wait_lock
    /\ UNCHANGED <<fields, plock, tickslock, np, ticks0, cpu, nextpid, ticks, clk>>

WaitSleep(p) ==
    /\ At(p, "wait_sleep")
    /\ SleepOn(p, p) /\ wait_lock' = None
    /\ Goto(p, "wait")
    /\ UNCHANGED <<killed, pid, parent, rtime, ctime, etime, tickslock, np, ticks0,
                   cpu, nextpid, ticks, clk>>

----------------------------------------------------------------------------
(* sys_sleep and kill                                                      *)

Sleep(p) ==
    /\ At(p, "sleep")
    /\ tickslock = None /\ tickslock' = p
    /\ ticks0' = [ticks0 EXCEPT ![p] = ticks]
    /\ Goto(p, "sleep_loop")
    /\ UNCHANGED <<fields, plock, wait_lock, np, cpu, nextpid, ticks, clk>>

(* The loop; after sleep() the thread asks for tickslock again.            *)
SleepLoop(p) ==
    /\ At(p, "sleep_loop")
    /\ tickslock \in {p, None}
    /\ IF ticks - ticks0[p] < SleepTime /\ ~killed[p]
         THEN tickslock' = p /\ Goto(p, "sleep_sleep") /\ UNCHANGED ticks0
         ELSE /\ tickslock' = None /\ Goto(p, "user")
              /\ ticks0' = [ticks0 EXCEPT ![p] = 0]
    /\ UNCHANGED <<fields, plock, wait_lock, np, cpu, nextpid, ticks, clk>>

SleepSleep(p) ==
    /\ At(p, "sleep_sleep")
    /\ SleepOn(p, Ticks) /\ tickslock' = None
    /\ Goto(p, "sleep_loop")
    /\ UNCHANGED <<killed, pid, parent, rtime, ctime, etime, wait_lock, np, ticks0,
                   cpu, nextpid, ticks, clk>>

(* The first slot with the pid; unused slots have pid 0.                   *)
Kill(p) ==
    /\ At(p, "kill")
    /\ \E x \in KillPid :
         \/ /\ \A q \in Slot : pid[q] # x
            /\ UNCHANGED <<state, killed>>
         \/ \E q \in Slot :
              /\ pid[q] = x /\ ~plock[q]
              /\ killed' = [killed EXCEPT ![q] = TRUE]
              /\ state' = IF state[q] = "SLEEPING" THEN [state EXCEPT ![q] = "RUNNABLE"] ELSE state
    /\ Goto(p, "user")
    /\ UNCHANGED <<chan, pid, parent, rtime, ctime, etime, locks, np, ticks0, cpu,
                   nextpid, ticks, clk>>

----------------------------------------------------------------------------
(* clockintr, on hart 0: ticks++, update_time(), wakeup(&ticks).           *)

ClockTick ==
    /\ clk = Idle /\ ticks < MaxTicks
    /\ cpu[0] # None => Interruptible(cpu[0])
    /\ tickslock = None /\ tickslock' = Clock
    /\ ticks' = ticks + 1
    /\ clk' = <<"update", 0>>
    /\ UNCHANGED <<fields, plock, wait_lock, thread, cpu, nextpid>>

UpdateTimeTwice ==
    LET q == clk[2]
    IN  /\ clk[1] = "update" /\ ~plock[q]
        /\ rtime' = IF state[q] = "RUNNING" THEN [rtime EXCEPT ![q] = @ + 2] ELSE rtime
        /\ clk' = IF q < N - 1 THEN <<"update", q + 1>> ELSE <<"wakeup", 0>>
        /\ UNCHANGED <<state, chan, killed, pid, parent, ctime, etime, locks, thread, cpu,
                       nextpid, ticks>>

UpdateTime ==
    LET q == clk[2]
    IN  /\ clk[1] = "update" /\ ~plock[q]
        /\ rtime' = IF state[q] = "RUNNING" THEN [rtime EXCEPT ![q] = @ + 1] ELSE rtime
        /\ clk' = IF q < N - 1 THEN <<"update", q + 1>> ELSE <<"wakeup", 0>>
        /\ UNCHANGED <<state, chan, killed, pid, parent, ctime, etime, locks, thread, cpu,
                       nextpid, ticks>>

ClockWakeup ==
    LET q == clk[2]
    IN  /\ clk[1] = "wakeup"
        /\ Wake(q, Ticks)
        /\ IF q < N - 1 THEN clk' = <<"wakeup", q + 1>> /\ UNCHANGED tickslock
           ELSE clk' = Idle /\ tickslock' = None
        /\ UNCHANGED <<chan, killed, pid, parent, rtime, ctime, etime, plock, wait_lock,
                       thread, cpu, nextpid, ticks>>

ClockStep == ClockTick \/ UpdateTime \/ ClockWakeup

(* The model's clock stops at MaxTicks, and everybody may wait for a tick. *)
Stopped ==
    /\ ticks = MaxTicks /\ clk = Idle
    /\ \A h \in Hart : cpu[h] = None
    /\ \E p \in Slot : state[p] = "SLEEPING" /\ chan[p] = Ticks
    /\ UNCHANGED vars

KernelStep(p) ==
    \/ Fork(p) \/ ForkParent(p) \/ ForkRun(p)
    \/ ExitReparent(p) \/ ExitWake(p) \/ ExitZombie(p)
    \/ Wait(p) \/ WaitReap(p) \/ WaitNone(p) \/ WaitSleep(p)
    \/ Sleep(p) \/ SleepLoop(p) \/ SleepSleep(p) \/ Kill(p)

Next ==
    \/ \E p \in Slot : Syscall(p) \/ KernelStep(p) \/ Yield(p)
    \/ \E h \in Hart : SwitchOut(h) \/ \E q \in Slot : Dispatch(h, q)
    \/ ClockStep
    \/ Stopped

Spec == Init /\ [][Next]_vars

----------------------------------------------------------------------------
(* Properties.                                                             *)

(* No wakeup is lost.  Every process can be reaped: its parent, own or     *)
(* from reparent(), is alive, and does not sleep in wait() when the        *)
(* process is a zombie.  Outside clockintr, whoever sleeps on ticks has    *)
(* not slept its time yet.  And a process enters sched() with p->lock      *)
(* alone ("sched locks"), so that it keeps no waker from its locks.        *)
NoLostWakeup ==
    /\ \A q \in Slot : (state[q] # "UNUSED" /\ parent[q] # None) =>
         LET p == parent[q]
         IN  /\ state[p] \notin {"UNUSED", "ZOMBIE"}
             /\ state[q] = "ZOMBIE" => ~(state[p] = "SLEEPING" /\ chan[p] = p)
    /\ \A p \in Slot :
         /\ (tickslock # Clock /\ state[p] = "SLEEPING" /\ chan[p] = Ticks)
              => ticks - ticks0[p] < SleepTime
         /\ plock[p] => wait_lock # p /\ tickslock # p

(* A hart runs only RUNNING processes or ones on their way into the        *)
(* scheduler, no process runs on two harts, and no slot is freed or reused *)
(* while a hart still uses its kernel stack.                               *)
StackPrivate ==
    \A h \in Hart : cpu[h] # None =>
      /\ plock[cpu[h]] \/ state[cpu[h]] = "RUNNING"
      /\ state[cpu[h]] \notin {"UNUSED", "USED"}
      /\ \A g \in Hart : cpu[g] = cpu[h] => g = h

(* What waitx reports as wtime, an unsigned difference.                    *)
UintMod == 65536
WTime(q) == (UintMod + etime[q] - ctime[q] - rtime[q]) % UintMod

(* The waiting time of a finished process is at most its life time, except *)
(* that it wraps to -1 when the process was created inside clockintr,      *)
(* between ticks++ and update_time().                                      *)
WaitTimeOffByOne ==
    \A q \in Slot : state[q] = "ZOMBIE" =>
      WTime(q) <= etime[q] - ctime[q] \/ WTime(q) = UintMod - 1
=============================================================================
