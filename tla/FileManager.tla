---------------------------- MODULE FileManager ----------------------------
(***************************************************************************)
(* One file of the LAZY file manager (concurrency/file_manager.c) and the  *)
(* threads, one per request, that READ, WRITE or DELETE it.  Requests for  *)
(* different files share no state.  Every access to a semaphore or to a    *)
(* field of the file is a step of its own: the semaphore `lock` starts at  *)
(* max_concurrent, so it need not exclude anybody from read_count, and     *)
(* read_count++ is a load and a store.                                     *)
(***************************************************************************)
EXTENDS Integers, FiniteSets

CONSTANTS
    Request,        \* the request threads
    Operation,      \* the operation of every request
    Inputs,         \* the sets of requests that the input may hold
    MaxConcurrent,  \* max_concurrent is at most this
    Patience        \* patience_time

ASSUME RequestAssumption ==
    /\ IsFiniteSet(Request)
    /\ Inputs \subseteq SUBSET Request
    /\ Operation \in [Request -> {"READ", "WRITE", "DELETE", "OTHER"}]
ASSUME ParameterAssumption ==
    /\ MaxConcurrent \in Nat \ {0}
    /\ Patience \in Nat

VARIABLES
    lock, write_lock, delete_lock,  \* values of the three semaphores
    is_deleted, read_count,         \* the other fields of the file
    pc,                             \* where every thread is
    tmp,                            \* read_count as a thread loaded it
    wait_time,                      \* the thread's wait_time
    overlap                         \* history: two threads were inside `lock` at once

file == <<lock, write_lock, delete_lock, is_deleted, read_count, overlap>>
vars == <<file, pc, tmp, wait_time>>

Label == {"loop",
          "r_lock", "r_check", "r_load", "r_store", "r_first", "r_delete", "r_unlock",
          "reading", "r_relock", "r_reload", "r_restore", "r_last", "r_post", "r_done",
          "w_wait", "w_lock", "w_check", "w_unlock", "writing",
          "d_try", "d_wait", "d_lock", "d_check", "d_unlock", "deleting", "d_post",
          "x_lock", "x_write", "x_delete", "sleep",
          "completed", "declined", "cancelled"}

Finished == {"completed", "declined", "cancelled"}

(* init_files, and main, which reads max_concurrent and the requests: each *)
(* starts its loop with wait_time 1.  A thread without a request is over.  *)
Init ==
    /\ lock \in 1 .. MaxConcurrent
    /\ write_lock = 1
    /\ delete_lock = 1
    /\ is_deleted = FALSE
    /\ read_count = 0
    /\ \E input \in Inputs :
          pc = [r \in Request |-> IF r \in input THEN "loop" ELSE "completed"]
    /\ tmp = [r \in Request |-> 0]
    /\ wait_time = [r \in Request |-> 1]
    /\ overlap = FALSE

Goto(r, from, to) == pc[r] = from /\ pc' = [pc EXCEPT ![r] = to]

----------------------------------------------------------------------------
(* Semaphore operations of a thread, as steps from one label to another.   *)

(* Between sem_wait(&lock) and sem_post(&lock).                            *)
Inside(r) == pc[r] \in {"r_check", "r_load", "r_store", "r_first", "r_delete", "r_unlock",
                        "r_reload", "r_restore", "r_last", "r_post", "r_done",
                        "w_check", "w_unlock", "d_check", "d_unlock", "x_lock"}

WaitLock(r, from, to) ==
    /\ Goto(r, from, to)
    /\ lock > 0 /\ lock' = lock - 1
    /\ overlap' = (overlap \/ \E s \in Request : Inside(s))
    /\ UNCHANGED <<write_lock, delete_lock, is_deleted, read_count, tmp, wait_time>>

PostLock(r, from, to) ==
    /\ Goto(r, from, to)
    /\ lock' = lock + 1
    /\ UNCHANGED <<overlap, write_lock, delete_lock, is_deleted, read_count, tmp, wait_time>>

WaitWriteUnchecked(r, from, to) ==
    /\ Goto(r, from, to)
    /\ write_lock' = 0
    /\ UNCHANGED <<overlap, lock, delete_lock, is_deleted, read_count, tmp, wait_time>>

WaitWrite(r, from, to) ==
    /\ Goto(r, from, to)
    /\ write_lock > 0 /\ write_lock' = write_lock - 1
    /\ UNCHANGED <<overlap, lock, delete_lock, is_deleted, read_count, tmp, wait_time>>

PostWrite(r, from, to) ==
    /\ Goto(r, from, to)
    /\ write_lock' = write_lock + 1
    /\ UNCHANGED <<overlap, lock, delete_lock, is_deleted, read_count, tmp, wait_time>>

WaitDelete(r, from, to) ==
    /\ Goto(r, from, to)
    /\ delete_lock > 0 /\ delete_lock' = delete_lock - 1
    /\ UNCHANGED <<overlap, lock, write_lock, is_deleted, read_count, tmp, wait_time>>

PostDelete(r, from, to) ==
    /\ Goto(r, from, to)
    /\ delete_lock' = delete_lock + 1
    /\ UNCHANGED <<overlap, lock, write_lock, is_deleted, read_count, tmp, wait_time>>

(* A step that only decides where to go.                                   *)
Branch(r, from, to) == Goto(r, from, to) /\ UNCHANGED <<file, tmp, wait_time>>

----------------------------------------------------------------------------
(* The loop of handle_request: dispatch, retry after a second, cancel.     *)

Target(op) == IF op = "READ" THEN "r_lock" ELSE IF op = "WRITE" THEN "w_wait"
              ELSE IF op = "DELETE" THEN "d_try" ELSE "sleep"

Loop(r) == Branch(r, "loop", IF wait_time[r] < Patience THEN Target(Operation[r])
                             ELSE "cancelled")

Retry(r) ==
    /\ Goto(r, "sleep", "loop")
    /\ wait_time' = [wait_time EXCEPT ![r] = @ + 1]
    /\ UNCHANGED <<file, tmp>>

----------------------------------------------------------------------------
(* READ *)

ReadEnter(r) == WaitLock(r, "r_lock", "r_check")

ReadCheck(r) == Branch(r, "r_check", IF is_deleted THEN "x_lock" ELSE "r_load")

(* file->read_count++ and file->read_count--, each a load and a store.     *)
LoadCount(r) ==
    /\ \/ Goto(r, "r_load", "r_store")
       \/ Goto(r, "r_reload", "r_restore")
    /\ tmp' = [tmp EXCEPT ![r] = read_count]
    /\ UNCHANGED <<file, wait_time>>

StoreCount(r) ==
    /\ \/ Goto(r, "r_store", "r_first") /\ read_count' = tmp[r] + 1
       \/ Goto(r, "r_restore", "r_last") /\ read_count' = tmp[r] - 1
    /\ tmp' = [tmp EXCEPT ![r] = 0]
    /\ UNCHANGED <<overlap, lock, write_lock, delete_lock, is_deleted, wait_time>>

(* The first reader locks delete, still holding `lock`.                    *)
ReadFirstAny(r) == Branch(r, "r_first", "r_unlock")

ReadFirst(r) == Branch(r, "r_first", IF read_count = 1 THEN "r_delete" ELSE "r_unlock")

ReadLockDelete(r) == WaitDelete(r, "r_delete", "r_unlock")
ReadStart(r) == PostLock(r, "r_unlock", "reading")
ReadEnd(r) == Branch(r, "reading", "r_relock")
ReadReenter(r) == WaitLock(r, "r_relock", "r_reload")

(* The last reader unlocks delete.                                         *)
ReadLast(r) == Branch(r, "r_last", IF read_count = 0 THEN "r_post" ELSE "r_done")

ReadUnlockDelete(r) == PostDelete(r, "r_post", "r_done")
ReadDone(r) == PostLock(r, "r_done", "completed")

----------------------------------------------------------------------------
(* WRITE *)

WriteWait(r) == WaitWrite(r, "w_wait", "w_lock")
WriteEnter(r) == WaitLock(r, "w_lock", "w_check")
WriteCheckForgotten(r) == Branch(r, "w_check", "w_unlock")
WriteCheck(r) == Branch(r, "w_check", IF is_deleted THEN "x_lock" ELSE "w_unlock")
WriteStart(r) == PostLock(r, "w_unlock", "writing")
WriteDone(r) == PostWrite(r, "writing", "completed")

----------------------------------------------------------------------------
(* DELETE *)

DeleteTry(r) ==
    \/ WaitDelete(r, "d_try", "d_wait")
    \/ delete_lock = 0 /\ Branch(r, "d_try", "sleep")

DeleteWait(r) == WaitWrite(r, "d_wait", "d_lock")
DeleteEnter(r) == WaitLock(r, "d_lock", "d_check")

DeleteCheck(r) ==
    \/ is_deleted /\ Branch(r, "d_check", "x_lock")
    \/ /\ ~is_deleted
       /\ Goto(r, "d_check", "d_unlock")
       /\ is_deleted' = TRUE
       /\ UNCHANGED <<overlap, lock, write_lock, delete_lock, read_count, tmp, wait_time>>

DeleteStart(r) == PostLock(r, "d_unlock", "deleting")
DeleteDone(r) == PostWrite(r, "deleting", "d_post")
DeleteUnlock(r) == PostDelete(r, "d_post", "completed")

----------------------------------------------------------------------------
(* A declined request gives its semaphores back in order.                  *)

DeclineLock(r) ==
    PostLock(r, "x_lock", IF Operation[r] = "READ" THEN "declined" ELSE "x_write")

DeclineWriteForgotten(r) ==
    Branch(r, "x_write", IF Operation[r] = "WRITE" THEN "declined" ELSE "x_delete")

DeclineWrite(r) ==
    PostWrite(r, "x_write", IF Operation[r] = "WRITE" THEN "declined" ELSE "x_delete")

DeclineDelete(r) == PostDelete(r, "x_delete", "declined")

Step(r) ==
    \/ Loop(r) \/ Retry(r)
    \/ ReadEnter(r) \/ ReadCheck(r) \/ LoadCount(r) \/ StoreCount(r) \/ ReadFirst(r)
    \/ ReadLockDelete(r) \/ ReadStart(r) \/ ReadEnd(r) \/ ReadReenter(r) \/ ReadLast(r)
    \/ ReadUnlockDelete(r) \/ ReadDone(r)
    \/ WriteWait(r) \/ WriteEnter(r) \/ WriteCheck(r) \/ WriteStart(r) \/ WriteDone(r)
    \/ DeleteTry(r) \/ DeleteWait(r) \/ DeleteEnter(r) \/ DeleteCheck(r) \/ DeleteStart(r)
    \/ DeleteDone(r) \/ DeleteUnlock(r)
    \/ DeclineLock(r) \/ DeclineWrite(r) \/ DeclineDelete(r)

(* start_simulation joined every thread.                                   *)
Joined == (\A r \in Request : pc[r] \in Finished) /\ UNCHANGED vars

Next == (\E r \in Request : Step(r)) \/ Joined

Spec == Init /\ [][Next]_vars

(* Some thread that can take a step does so: a thread runs until it ends   *)
(* or waits for a semaphore, and its loop is bounded by patience_time.     *)
Fairness == WF_vars(Next)

----------------------------------------------------------------------------
(* Properties.                                                             *)

(* The values every variable ranges over. *)
TypeOK ==
    /\ lock \in Nat /\ write_lock \in {0, 1} /\ delete_lock \in Nat
    /\ is_deleted \in BOOLEAN /\ overlap \in BOOLEAN
    /\ read_count \in Int
    /\ pc \in [Request -> Label]
    /\ tmp \in [Request -> Int]
    /\ wait_time \in [Request -> Nat]

(* "Allows only one WRITE at a time": from the test of is_deleted to the   *)
(* end of its processing, a WRITE or DELETE excludes the others.           *)
Changing(r) == pc[r] \in {"w_unlock", "writing", "d_unlock", "deleting"}
WriteExclusive == \A r, s \in Request : Changing(r) /\ Changing(s) => r = s

(* A request that found the file present writes it before it is deleted:   *)
(* nobody writes a deleted file.                                           *)
NoWriteAfterDelete == is_deleted => \A r \in Request : pc[r] # "writing"

(* "Allows DELETE only when no readers/writers": nobody reads the file     *)
(* while it is being deleted or afterwards.                                *)
NoReadDuringDelete == is_deleted => \A r \in Request : pc[r] # "reading"

(* read_count and delete_lock keep READ and DELETE apart as long as `lock` *)
(* has not admitted two threads at once: to read a deleted file, threads   *)
(* must have overlapped in read_count++, read_count-- or the tests after.  *)
ReadsExcludeDelete == ~overlap => NoReadDuringDelete

(* Every request is completed, declined or cancelled, so that              *)
(* start_simulation joins its threads and ends, unless a READ that holds   *)
(* `lock` waits for delete_lock for good: because of a DELETE that has it  *)
(* and waits for `lock`, or because a race on read_count lost its post.    *)
(* Nothing else stops a request: not WRITE, not a declined request.        *)
EndsUnlessReaderWaits ==
    <>[](\/ \A r \in Request : pc[r] \in Finished
         \/ \E r \in Request : pc[r] = "r_delete")
=============================================================================
