------------------------- MODULE FileManagerProofs -------------------------
(***************************************************************************)
(* For any number of requests and any max_concurrent, `write_lock` makes   *)
(* WRITE and DELETE exclude each other, and no deleted file is written.    *)
(* The data race on read_count does not matter here: the argument uses     *)
(* only write_lock.  As long as no two threads were inside `lock` at once, *)
(* read_count is exact, and no file is read while or after it is deleted.  *)
(***************************************************************************)
EXTENDS FileManager, FiniteSetTheorems, TLAPS

(* The labels that belong to one operation.                                *)
ReadLabel == {"r_lock", "r_check", "r_load", "r_store", "r_first", "r_delete", "r_unlock",
              "reading", "r_relock", "r_reload", "r_restore", "r_last", "r_post", "r_done"}

(* A declined READ holds only `lock`; a declined WRITE or DELETE holds     *)
(* write_lock too.                                                         *)
OperationInv ==
    \A r \in Request : /\ pc[r] \in ReadLabel => Operation[r] = "READ"
                       /\ pc[r] \in {"w_wait", "w_lock", "w_check", "w_unlock", "writing"}
                            => Operation[r] = "WRITE"
                       /\ pc[r] \in {"d_try", "d_wait", "d_lock", "d_check", "d_unlock",
                                     "deleting", "d_post"} => Operation[r] = "DELETE"
                       /\ pc[r] = "x_lock" => Operation[r] # "OTHER"
                       /\ pc[r] = "x_write" => Operation[r] \in {"WRITE", "DELETE"}

(* Between sem_wait(&write_lock) and sem_post(&write_lock).                *)
HoldsWrite(r) ==
    \/ pc[r] \in {"w_lock", "w_check", "w_unlock", "writing",
                  "d_lock", "d_check", "d_unlock", "deleting", "x_write"}
    \/ pc[r] = "x_lock" /\ Operation[r] # "READ"

WriteInv ==
    /\ \A r \in Request : HoldsWrite(r) => write_lock = 0
    /\ \A r, s \in Request : HoldsWrite(r) /\ HoldsWrite(s) => r = s

(* Nobody who found the file present is still to write it once it is       *)
(* deleted.                                                                *)
DeletedInv == is_deleted => \A r \in Request : pc[r] \notin {"w_unlock", "writing"}

IInv == TypeOK /\ OperationInv /\ WriteInv /\ DeletedInv

(* The initial state satisfies the invariant. *)
LEMMA InitIInv == Init => IInv
  <1> SUFFICES ASSUME Init PROVE IInv
    OBVIOUS
  <1>1. is_deleted = FALSE /\ is_deleted \in BOOLEAN /\ overlap \in BOOLEAN
    BY Zenon DEF Init
  <1>2. pc \in [Request -> {"loop", "completed"}]
    BY DEF Init
  <1>3. TypeOK
    BY <1>1, <1>2, ParameterAssumption DEF Init, TypeOK, Label
  <1>4. OperationInv /\ WriteInv /\ DeletedInv
    BY <1>1, <1>2 DEF OperationInv, WriteInv, DeletedInv, HoldsWrite, ReadLabel
  <1> QED BY <1>3, <1>4 DEF IInv

(* Every step of a thread preserves the invariant. *)
LEMMA StepIInv == ASSUME IInv, NEW r \in Request, Step(r) PROVE IInv'
  <1> USE RequestAssumption, ParameterAssumption
        DEF IInv, TypeOK, Label, OperationInv, ReadLabel, WriteInv, HoldsWrite, DeletedInv,
            Goto, file
  <1>1. CASE Loop(r)
    BY <1>1 DEF Loop, Branch, Target
  <1>2. CASE Retry(r)
    BY <1>2 DEF Retry
  <1>3. CASE ReadEnter(r)
    BY <1>3 DEF ReadEnter, WaitLock
  <1>4. CASE ReadCheck(r)
    BY <1>4 DEF ReadCheck, Branch
  <1>5. CASE LoadCount(r)
    BY <1>5 DEF LoadCount
  <1>6. CASE StoreCount(r)
    BY <1>6 DEF StoreCount
  <1>7. CASE ReadFirst(r)
    BY <1>7 DEF ReadFirst, Branch
  <1>8. CASE ReadLockDelete(r)
    BY <1>8 DEF ReadLockDelete, WaitDelete
  <1>9. CASE ReadStart(r)
    BY <1>9 DEF ReadStart, PostLock
  <1>10. CASE ReadEnd(r)
    BY <1>10 DEF ReadEnd, Branch
  <1>11. CASE ReadReenter(r)
    BY <1>11 DEF ReadReenter, WaitLock
  <1>12. CASE ReadLast(r)
    BY <1>12 DEF ReadLast, Branch
  <1>13. CASE ReadUnlockDelete(r)
    BY <1>13 DEF ReadUnlockDelete, PostDelete
  <1>14. CASE ReadDone(r)
    BY <1>14 DEF ReadDone, PostLock
  <1>15. CASE WriteWait(r)
    BY <1>15 DEF WriteWait, WaitWrite
  <1>16. CASE WriteEnter(r)
    BY <1>16 DEF WriteEnter, WaitLock
  <1>17. CASE WriteCheck(r)
    BY <1>17 DEF WriteCheck, Branch
  <1>18. CASE WriteStart(r)
    BY <1>18 DEF WriteStart, PostLock
  <1>19. CASE WriteDone(r)
    BY <1>19 DEF WriteDone, PostWrite
  <1>20. CASE DeleteTry(r)
    BY <1>20 DEF DeleteTry, WaitDelete, Branch
  <1>21. CASE DeleteWait(r)
    BY <1>21 DEF DeleteWait, WaitWrite
  <1>22. CASE DeleteEnter(r)
    BY <1>22 DEF DeleteEnter, WaitLock
  <1>23. CASE DeleteCheck(r)
    <2>1. CASE is_deleted /\ Branch(r, "d_check", "x_lock")
      BY <2>1 DEF Branch
    <2>2. CASE ~is_deleted /\ Goto(r, "d_check", "d_unlock") /\ is_deleted' = TRUE
               /\ UNCHANGED <<overlap, lock, write_lock, delete_lock, read_count, tmp, wait_time>>
      <3>1. TypeOK' /\ OperationInv' /\ WriteInv'
        BY <2>2
      <3>2. DeletedInv'
        BY <2>2
      <3> QED BY <3>1, <3>2
    <2> QED BY Zenon, <1>23, <2>1, <2>2 DEF DeleteCheck
  <1>24. CASE DeleteStart(r)
    BY <1>24 DEF DeleteStart, PostLock
  <1>25. CASE DeleteDone(r)
    BY <1>25 DEF DeleteDone, PostWrite
  <1>26. CASE DeleteUnlock(r)
    BY <1>26 DEF DeleteUnlock, PostDelete
  <1>27. CASE DeclineLock(r)
    BY <1>27 DEF DeclineLock, PostLock
  <1>28. CASE DeclineWrite(r)
    BY <1>28 DEF DeclineWrite, PostWrite
  <1>29. CASE DeclineDelete(r)
    BY <1>29 DEF DeclineDelete, PostDelete
  <1> QED BY ZenonT(30), <1>1, <1>2, <1>3, <1>4, <1>5, <1>6, <1>7, <1>8, <1>9, <1>10, <1>11, <1>12,
           <1>13, <1>14, <1>15, <1>16, <1>17, <1>18, <1>19, <1>20, <1>21, <1>22, <1>23,
           <1>24, <1>25, <1>26, <1>27, <1>28, <1>29 DEF Step

(* So does the end of the simulation, which changes nothing.               *)
LEMMA NextIInv == IInv /\ [Next]_vars => IInv'
  <1> SUFFICES ASSUME IInv, [Next]_vars PROVE IInv'
    OBVIOUS
  <1>1. ASSUME NEW r \in Request, Step(r) PROVE IInv'
    BY <1>1, StepIInv
  <1>2. CASE UNCHANGED vars
    BY <1>2 DEF vars, file, IInv, TypeOK, OperationInv, WriteInv, HoldsWrite, DeletedInv
  <1> QED BY <1>1, <1>2 DEF Next, Joined

(* write_lock alone makes WRITE and DELETE exclusive, however many         *)
(* requests the counting semaphore `lock` lets in.                         *)
THEOREM WritesExclude == Spec => []WriteExclusive
  <1>1. IInv => WriteExclusive
    BY DEF IInv, WriteInv, HoldsWrite, WriteExclusive, Changing
  <1> QED BY <1>1, InitIInv, NextIInv, PTL DEF Spec

(* A request never writes a file that was deleted before or meanwhile.     *)
THEOREM DeletedNotWritten == Spec => []NoWriteAfterDelete
  <1>1. IInv => NoWriteAfterDelete
    BY DEF IInv, DeletedInv, NoWriteAfterDelete
  <1> QED BY <1>1, InitIInv, NextIInv, PTL DEF Spec

(* Every variable keeps its type; in particular write_lock stays binary.   *)
THEOREM TypeCorrect == Spec => []TypeOK
  <1>1. IInv => TypeOK
    BY DEF IInv
  <1> QED BY <1>1, InitIInv, NextIInv, PTL DEF Spec

----------------------------------------------------------------------------
(* Readers and DELETE, while threads take turns inside `lock`.             *)

AloneInv == \A r, s \in Request : Inside(r) /\ Inside(s) => r = s

(* The requests between read_count++ and read_count--.                     *)
Readers == {r \in Request : pc[r] \in {"r_first", "r_delete", "r_unlock", "reading",
                                       "r_relock", "r_reload", "r_restore"}}

CountInv ==
    /\ IsFiniteSet(Readers) /\ read_count = Cardinality(Readers)
    /\ \A r \in Request : pc[r] \in {"r_store", "r_restore"} => tmp[r] = read_count

(* delete_lock is held by the readers together or by one DELETE.           *)
ReaderHolds(r) ==
    \/ pc[r] \in {"r_unlock", "reading", "r_relock", "r_reload", "r_restore", "r_post"}
    \/ pc[r] = "r_last" /\ read_count = 0

DeleterHolds(r) ==
    \/ pc[r] \in {"d_wait", "d_lock", "d_check", "d_unlock", "deleting", "d_post", "x_delete"}
    \/ pc[r] \in {"x_lock", "x_write"} /\ Operation[r] = "DELETE"

DeleteInv ==
    /\ delete_lock \in {0, 1}
    /\ \A r \in Request : ReaderHolds(r) \/ DeleterHolds(r) => delete_lock = 0
    /\ \A r, s \in Request : DeleterHolds(r) /\ (DeleterHolds(s) \/ ReaderHolds(s)) => r = s
    /\ \A r \in Request : pc[r] = "r_post" => read_count = 0

(* No reader is past its test of is_deleted once the file is deleted.      *)
GoneInv == is_deleted =>
    \A r \in Request : pc[r] \notin ReadLabel \ {"r_lock", "r_check", "r_done"}

RInv == AloneInv /\ CountInv /\ DeleteInv /\ GoneInv

(* A step that is no store to read_count keeps the set of readers.         *)
LEMMA SameReaders ==
  ASSUME IInv, NEW r \in Request, Step(r),
         pc[r] \notin {"r_store", "r_restore"}
  PROVE  Readers' = Readers /\ read_count' = read_count
  BY DEF IInv, TypeOK, Readers, Goto, file, Step, Loop, Branch, Target, Retry, ReadEnter,
         WaitLock, ReadCheck, LoadCount, StoreCount, ReadFirst, ReadLockDelete, WaitDelete,
         ReadStart, PostLock, ReadEnd, ReadReenter, ReadLast, ReadUnlockDelete, PostDelete,
         ReadDone, WriteWait, WaitWrite, WriteEnter, WriteCheck, WriteStart, WriteDone,
         PostWrite, DeleteTry, DeleteWait, DeleteEnter, DeleteCheck, DeleteStart,
         DeleteDone, DeleteUnlock, DeclineLock, DeclineWrite, DeclineDelete

(* Who enters `lock` without overlapping finds nobody there.               *)
LEMMA NobodyInside ==
  ASSUME NEW r \in Request, NEW from, NEW to, WaitLock(r, from, to), ~overlap'
  PROVE  \A s \in Request : ~Inside(s)
  BY Zenon DEF WaitLock

(* A step after which no two threads have overlapped leaves at most one    *)
(* thread inside `lock`.                                                   *)
LEMMA AloneStep ==
  ASSUME IInv, AloneInv, NEW r \in Request, Step(r), ~overlap'
  PROVE  AloneInv'
  <1> USE RequestAssumption DEF IInv, TypeOK, OperationInv, AloneInv, Inside, Goto, file
  <1>1. CASE Loop(r)
    BY <1>1 DEF Loop, Branch, Target
  <1>2. CASE Retry(r)
    BY <1>2 DEF Retry
  <1>3. CASE ReadEnter(r)
    <2>1. \A s \in Request : ~Inside(s)
      BY Zenon, <1>3, NobodyInside DEF ReadEnter
    <2> QED
      BY <1>3, <2>1 DEF ReadEnter, WaitLock
  <1>4. CASE ReadCheck(r)
    BY <1>4 DEF ReadCheck, Branch
  <1>5. CASE LoadCount(r)
    BY <1>5 DEF LoadCount
  <1>6. CASE StoreCount(r)
    BY <1>6 DEF StoreCount
  <1>7. CASE ReadFirst(r)
    BY <1>7 DEF ReadFirst, Branch
  <1>8. CASE ReadLockDelete(r)
    BY <1>8 DEF ReadLockDelete, WaitDelete
  <1>9. CASE ReadStart(r)
    BY <1>9 DEF ReadStart, PostLock
  <1>10. CASE ReadEnd(r)
    BY <1>10 DEF ReadEnd, Branch
  <1>11. CASE ReadReenter(r)
    <2>1. \A s \in Request : ~Inside(s)
      BY Zenon, <1>11, NobodyInside DEF ReadReenter
    <2> QED
      BY <1>11, <2>1 DEF ReadReenter, WaitLock
  <1>12. CASE ReadLast(r)
    BY <1>12 DEF ReadLast, Branch
  <1>13. CASE ReadUnlockDelete(r)
    BY <1>13 DEF ReadUnlockDelete, PostDelete
  <1>14. CASE ReadDone(r)
    BY <1>14 DEF ReadDone, PostLock
  <1>15. CASE WriteWait(r)
    BY <1>15 DEF WriteWait, WaitWrite
  <1>16. CASE WriteEnter(r)
    <2>1. \A s \in Request : ~Inside(s)
      BY Zenon, <1>16, NobodyInside DEF WriteEnter
    <2> QED
      BY <1>16, <2>1 DEF WriteEnter, WaitLock
  <1>17. CASE WriteCheck(r)
    BY <1>17 DEF WriteCheck, Branch
  <1>18. CASE WriteStart(r)
    BY <1>18 DEF WriteStart, PostLock
  <1>19. CASE WriteDone(r)
    BY <1>19 DEF WriteDone, PostWrite
  <1>20. CASE DeleteTry(r)
    BY <1>20 DEF DeleteTry, WaitDelete, Branch
  <1>21. CASE DeleteWait(r)
    BY <1>21 DEF DeleteWait, WaitWrite
  <1>22. CASE DeleteEnter(r)
    <2>1. \A s \in Request : ~Inside(s)
      BY Zenon, <1>22, NobodyInside DEF DeleteEnter
    <2> QED
      BY <1>22, <2>1 DEF DeleteEnter, WaitLock
  <1>23. CASE DeleteCheck(r)
    BY <1>23 DEF DeleteCheck, Branch
  <1>24. CASE DeleteStart(r)
    BY <1>24 DEF DeleteStart, PostLock
  <1>25. CASE DeleteDone(r)
    BY <1>25 DEF DeleteDone, PostWrite
  <1>26. CASE DeleteUnlock(r)
    BY <1>26 DEF DeleteUnlock, PostDelete
  <1>27. CASE DeclineLock(r)
    BY <1>27 DEF DeclineLock, PostLock
  <1>28. CASE DeclineWrite(r)
    BY <1>28 DEF DeclineWrite, PostWrite
  <1>29. CASE DeclineDelete(r)
    BY <1>29 DEF DeclineDelete, PostDelete
  <1> QED
    BY ZenonT(30), <1>1, <1>2, <1>3, <1>4, <1>5, <1>6, <1>7, <1>8, <1>9, <1>10, <1>11, <1>12,
       <1>13, <1>14, <1>15, <1>16, <1>17, <1>18, <1>19, <1>20, <1>21, <1>22, <1>23,
       <1>24, <1>25, <1>26, <1>27, <1>28, <1>29 DEF Step

(* read_count counts the readers: nobody else is between load and store.   *)
LEMMA CountStep ==
  ASSUME IInv, AloneInv, CountInv, NEW r \in Request, Step(r)
  PROVE  CountInv'
  <1>1. CASE pc[r] = "r_store"
    <2>1. /\ pc' = [pc EXCEPT ![r] = "r_first"] /\ read_count' = read_count + 1
          /\ tmp' = [tmp EXCEPT ![r] = 0]
      BY Zenon, <1>1 DEF IInv, TypeOK, CountInv, Goto, file, Step, Loop, Branch, Retry, ReadEnter,
         WaitLock, ReadCheck, LoadCount, StoreCount, ReadFirst, ReadLockDelete, WaitDelete,
         ReadStart, PostLock, ReadEnd, ReadReenter, ReadLast, ReadUnlockDelete, PostDelete,
         ReadDone, WriteWait, WaitWrite, WriteEnter, WriteCheck, WriteStart, WriteDone,
         PostWrite, DeleteTry, DeleteWait, DeleteEnter, DeleteCheck, DeleteStart,
         DeleteDone, DeleteUnlock, DeclineLock, DeclineWrite, DeclineDelete
    <2>2. Readers' = Readers \cup {r} /\ r \notin Readers
      BY <1>1, <2>1 DEF IInv, TypeOK, Readers
    <2>3. IsFiniteSet(Readers') /\ read_count' = Cardinality(Readers')
      BY <2>1, <2>2, FS_AddElement DEF CountInv
    <2>4. \A s \in Request : pc'[s] \notin {"r_store", "r_restore"}
      BY <1>1, <2>1 DEF IInv, TypeOK, AloneInv, Inside
    <2> QED
      BY <2>3, <2>4 DEF CountInv
  <1>2. CASE pc[r] = "r_restore"
    <2>1. /\ pc' = [pc EXCEPT ![r] = "r_last"] /\ read_count' = read_count - 1
          /\ tmp' = [tmp EXCEPT ![r] = 0]
      BY Zenon, <1>2 DEF IInv, TypeOK, CountInv, Goto, file, Step, Loop, Branch, Retry, ReadEnter,
         WaitLock, ReadCheck, LoadCount, StoreCount, ReadFirst, ReadLockDelete, WaitDelete,
         ReadStart, PostLock, ReadEnd, ReadReenter, ReadLast, ReadUnlockDelete, PostDelete,
         ReadDone, WriteWait, WaitWrite, WriteEnter, WriteCheck, WriteStart, WriteDone,
         PostWrite, DeleteTry, DeleteWait, DeleteEnter, DeleteCheck, DeleteStart,
         DeleteDone, DeleteUnlock, DeclineLock, DeclineWrite, DeclineDelete
    <2>2. Readers' = Readers \ {r} /\ r \in Readers
      BY <1>2, <2>1 DEF IInv, TypeOK, Readers
    <2>3. IsFiniteSet(Readers') /\ read_count' = Cardinality(Readers')
      BY <2>1, <2>2, FS_RemoveElement DEF CountInv
    <2>4. \A s \in Request : pc'[s] \notin {"r_store", "r_restore"}
      BY <1>2, <2>1 DEF IInv, TypeOK, AloneInv, Inside
    <2> QED
      BY <2>3, <2>4 DEF CountInv
  <1>3. CASE pc[r] \notin {"r_store", "r_restore"}
    <2>1. Readers' = Readers /\ read_count' = read_count
      BY <1>3, SameReaders
    <2>2. \A s \in Request : pc'[s] \in {"r_store", "r_restore"} => tmp'[s] = read_count
      <3>1. \A s \in Request \ {r} : pc'[s] = pc[s] /\ tmp'[s] = tmp[s]
        BY Zenon, <1>3 DEF IInv, TypeOK, Goto, file, Step, Loop, Branch, Target, Retry,
           ReadEnter, WaitLock, ReadCheck, LoadCount, StoreCount, ReadFirst, ReadLockDelete,
           WaitDelete, ReadStart, PostLock, ReadEnd, ReadReenter, ReadLast, ReadUnlockDelete,
           PostDelete, ReadDone, WriteWait, WaitWrite, WriteEnter, WriteCheck, WriteStart,
           WriteDone, PostWrite, DeleteTry, DeleteWait, DeleteEnter, DeleteCheck, DeleteStart,
           DeleteDone, DeleteUnlock, DeclineLock, DeclineWrite, DeclineDelete
      <3>2. pc'[r] \in {"r_store", "r_restore"} => tmp'[r] = read_count
        BY Zenon, <1>3 DEF IInv, TypeOK, Goto, file, Step, Loop, Branch, Target, Retry,
           ReadEnter, WaitLock, ReadCheck, LoadCount, StoreCount, ReadFirst, ReadLockDelete,
           WaitDelete, ReadStart, PostLock, ReadEnd, ReadReenter, ReadLast, ReadUnlockDelete,
           PostDelete, ReadDone, WriteWait, WaitWrite, WriteEnter, WriteCheck, WriteStart,
           WriteDone, PostWrite, DeleteTry, DeleteWait, DeleteEnter, DeleteCheck, DeleteStart,
           DeleteDone, DeleteUnlock, DeclineLock, DeclineWrite, DeclineDelete
      <3> QED
        BY SMTT(30), <3>1, <3>2 DEF CountInv
    <2> QED
      BY <2>1, <2>2 DEF CountInv
  <1> QED
    BY <1>1, <1>2, <1>3

(* What read_count tells a reader about the others.                        *)
LEMMA CountTells ==
  ASSUME CountInv
  PROVE  /\ read_count = 0 => Readers = {}
         /\ \A r \in Readers : read_count # 1 => \E s \in Readers : s # r
  <1>1. read_count = 0 => Readers = {}
    BY Zenon, FS_EmptySet DEF CountInv
  <1>2. ASSUME NEW r \in Readers, \A s \in Readers : s = r PROVE read_count = 1
    <2>1. Readers = {r}
      BY <1>2
    <2> QED
      BY Zenon, <2>1, FS_Singleton DEF CountInv
  <1> QED
    BY <1>1, <1>2

(* The readers and a DELETE exclude each other from delete_lock.           *)
LEMMA DeleteStep ==
  ASSUME IInv, AloneInv, CountInv, DeleteInv, NEW r \in Request, Step(r)
  PROVE  DeleteInv'
  <1> USE RequestAssumption, CountTells
        DEF IInv, TypeOK, OperationInv, ReadLabel, AloneInv, Inside, Readers, DeleteInv,
            ReaderHolds, DeleterHolds, Goto, file
  <1>1. CASE Loop(r)
    BY <1>1 DEF Loop, Branch, Target
  <1>2. CASE Retry(r)
    BY <1>2 DEF Retry
  <1>3. CASE ReadEnter(r)
    BY <1>3 DEF ReadEnter, WaitLock
  <1>4. CASE ReadCheck(r)
    BY <1>4 DEF ReadCheck, Branch
  <1>5. CASE LoadCount(r)
    BY <1>5 DEF LoadCount
  <1>6. CASE StoreCount(r)
    BY <1>6 DEF StoreCount
  <1>7. CASE ReadFirst(r)
    BY <1>7 DEF ReadFirst, Branch
  <1>8. CASE ReadLockDelete(r)
    BY <1>8 DEF ReadLockDelete, WaitDelete
  <1>9. CASE ReadStart(r)
    BY <1>9 DEF ReadStart, PostLock
  <1>10. CASE ReadEnd(r)
    BY <1>10 DEF ReadEnd, Branch
  <1>11. CASE ReadReenter(r)
    BY <1>11 DEF ReadReenter, WaitLock
  <1>12. CASE ReadLast(r)
    BY <1>12 DEF ReadLast, Branch
  <1>13. CASE ReadUnlockDelete(r)
    BY <1>13 DEF ReadUnlockDelete, PostDelete
  <1>14. CASE ReadDone(r)
    BY <1>14 DEF ReadDone, PostLock
  <1>15. CASE WriteWait(r)
    BY <1>15 DEF WriteWait, WaitWrite
  <1>16. CASE WriteEnter(r)
    BY <1>16 DEF WriteEnter, WaitLock
  <1>17. CASE WriteCheck(r)
    BY <1>17 DEF WriteCheck, Branch
  <1>18. CASE WriteStart(r)
    BY <1>18 DEF WriteStart, PostLock
  <1>19. CASE WriteDone(r)
    BY <1>19 DEF WriteDone, PostWrite
  <1>20. CASE DeleteTry(r)
    BY <1>20 DEF DeleteTry, WaitDelete, Branch
  <1>21. CASE DeleteWait(r)
    BY <1>21 DEF DeleteWait, WaitWrite
  <1>22. CASE DeleteEnter(r)
    BY <1>22 DEF DeleteEnter, WaitLock
  <1>23. CASE DeleteCheck(r)
    BY <1>23 DEF DeleteCheck, Branch
  <1>24. CASE DeleteStart(r)
    BY <1>24 DEF DeleteStart, PostLock
  <1>25. CASE DeleteDone(r)
    BY <1>25 DEF DeleteDone, PostWrite
  <1>26. CASE DeleteUnlock(r)
    BY <1>26 DEF DeleteUnlock, PostDelete
  <1>27. CASE DeclineLock(r)
    BY <1>27 DEF DeclineLock, PostLock
  <1>28. CASE DeclineWrite(r)
    <2>1. PICK to \in {"declined", "x_delete"} :
             /\ PostWrite(r, "x_write", to)
             /\ to = IF Operation[r] = "WRITE" THEN "declined" ELSE "x_delete"
      BY Zenon, <1>28 DEF DeclineWrite
    <2>2. Operation[r] = "WRITE" \/ Operation[r] = "DELETE"
      BY Zenon, <1>28, <2>1 DEF PostWrite
    <2>3. CASE Operation[r] = "WRITE"
      BY <2>1, <2>3 DEF PostWrite
    <2>4. CASE Operation[r] = "DELETE"
      BY <2>1, <2>4 DEF PostWrite
    <2> QED
      BY Zenon, <2>2, <2>3, <2>4
  <1>29. CASE DeclineDelete(r)
    BY <1>29 DEF DeclineDelete, PostDelete
  <1> QED
    BY ZenonT(30), <1>1, <1>2, <1>3, <1>4, <1>5, <1>6, <1>7, <1>8, <1>9, <1>10, <1>11, <1>12,
       <1>13, <1>14, <1>15, <1>16, <1>17, <1>18, <1>19, <1>20, <1>21, <1>22, <1>23,
       <1>24, <1>25, <1>26, <1>27, <1>28, <1>29 DEF Step

(* A deleted file has no readers.                                          *)
LEMMA GoneStep ==
  ASSUME IInv, AloneInv, DeleteInv, GoneInv, NEW r \in Request, Step(r)
  PROVE  GoneInv'
  <1> USE DEF IInv, TypeOK, AloneInv, Inside, DeleteInv, ReaderHolds, DeleterHolds,
              GoneInv, ReadLabel, Goto, file
  <1>1. CASE Loop(r)
    BY Zenon, <1>1 DEF Loop, Branch, Target
  <1>2. CASE Retry(r)
    BY Zenon, <1>2 DEF Retry
  <1>3. CASE ReadEnter(r)
    BY Zenon, <1>3 DEF ReadEnter, WaitLock
  <1>4. CASE ReadCheck(r)
    BY Zenon, <1>4 DEF ReadCheck, Branch
  <1>5. CASE LoadCount(r)
    BY Zenon, <1>5 DEF LoadCount
  <1>6. CASE StoreCount(r)
    BY Zenon, <1>6 DEF StoreCount
  <1>7. CASE ReadFirst(r)
    BY Zenon, <1>7 DEF ReadFirst, Branch
  <1>8. CASE ReadLockDelete(r)
    BY Zenon, <1>8 DEF ReadLockDelete, WaitDelete
  <1>9. CASE ReadStart(r)
    BY Zenon, <1>9 DEF ReadStart, PostLock
  <1>10. CASE ReadEnd(r)
    BY Zenon, <1>10 DEF ReadEnd, Branch
  <1>11. CASE ReadReenter(r)
    BY Zenon, <1>11 DEF ReadReenter, WaitLock
  <1>12. CASE ReadLast(r)
    BY Zenon, <1>12 DEF ReadLast, Branch
  <1>13. CASE ReadUnlockDelete(r)
    BY Zenon, <1>13 DEF ReadUnlockDelete, PostDelete
  <1>14. CASE ReadDone(r)
    BY Zenon, <1>14 DEF ReadDone, PostLock
  <1>15. CASE WriteWait(r)
    BY Zenon, <1>15 DEF WriteWait, WaitWrite
  <1>16. CASE WriteEnter(r)
    BY Zenon, <1>16 DEF WriteEnter, WaitLock
  <1>17. CASE WriteCheck(r)
    BY Zenon, <1>17 DEF WriteCheck, Branch
  <1>18. CASE WriteStart(r)
    BY Zenon, <1>18 DEF WriteStart, PostLock
  <1>19. CASE WriteDone(r)
    BY Zenon, <1>19 DEF WriteDone, PostWrite
  <1>20. CASE DeleteTry(r)
    <2>1. CASE WaitDelete(r, "d_try", "d_wait")
      BY Zenon, <2>1 DEF WaitDelete
    <2>2. CASE Branch(r, "d_try", "sleep")
      BY Zenon, <2>2 DEF Branch
    <2> QED
      BY Zenon, <1>20, <2>1, <2>2 DEF DeleteTry
  <1>21. CASE DeleteWait(r)
    BY Zenon, <1>21 DEF DeleteWait, WaitWrite
  <1>22. CASE DeleteEnter(r)
    BY Zenon, <1>22 DEF DeleteEnter, WaitLock
  <1>23. CASE DeleteCheck(r)
    <2>1. CASE is_deleted /\ Branch(r, "d_check", "x_lock")
      BY Zenon, <2>1 DEF Branch
    <2>2. CASE ~is_deleted /\ Goto(r, "d_check", "d_unlock")
      <3>1. \A s \in Request : pc[s] \in ReadLabel => ~ReaderHolds(s) /\ s # r
        BY Zenon, <2>2
      <3> QED
        BY ZenonT(30), <2>2, <3>1
    <2> QED
      BY Zenon, <1>23, <2>1, <2>2 DEF DeleteCheck
  <1>24. CASE DeleteStart(r)
    BY Zenon, <1>24 DEF DeleteStart, PostLock
  <1>25. CASE DeleteDone(r)
    BY Zenon, <1>25 DEF DeleteDone, PostWrite
  <1>26. CASE DeleteUnlock(r)
    BY Zenon, <1>26 DEF DeleteUnlock, PostDelete
  <1>27. CASE DeclineLock(r)
    BY Zenon, <1>27 DEF DeclineLock, PostLock
  <1>28. CASE DeclineWrite(r)
    BY Zenon, <1>28 DEF DeclineWrite, PostWrite
  <1>29. CASE DeclineDelete(r)
    BY Zenon, <1>29 DEF DeclineDelete, PostDelete
  <1> QED
    BY ZenonT(30), <1>1, <1>2, <1>3, <1>4, <1>5, <1>6, <1>7, <1>8, <1>9, <1>10, <1>11, <1>12,
       <1>13, <1>14, <1>15, <1>16, <1>17, <1>18, <1>19, <1>20, <1>21, <1>22, <1>23,
       <1>24, <1>25, <1>26, <1>27, <1>28, <1>29 DEF Step

(* The history never forgets an overlap.                                   *)
LEMMA OverlapStays ==
  ASSUME IInv, NEW r \in Request, Step(r), overlap
  PROVE  overlap'
  BY Zenon DEF Goto, file, Step, Loop, Branch, Retry, ReadEnter, WaitLock, ReadCheck, LoadCount,
         StoreCount, ReadFirst, ReadLockDelete, WaitDelete, ReadStart, PostLock, ReadEnd,
         ReadReenter, ReadLast, ReadUnlockDelete, PostDelete, ReadDone, WriteWait, WaitWrite,
         WriteEnter, WriteCheck, WriteStart, WriteDone, PostWrite, DeleteTry, DeleteWait,
         DeleteEnter, DeleteCheck, DeleteStart, DeleteDone, DeleteUnlock, DeclineLock,
         DeclineWrite, DeclineDelete

(* "Allows DELETE only when no readers/writers", for any requests and any  *)
(* max_concurrent: no request reads a file while it is being deleted or    *)
(* afterwards unless two threads have been inside `lock` at once.          *)
THEOREM ReadersExcludeDelete == Spec => []ReadsExcludeDelete
  <1> DEFINE Turns == ~overlap => RInv
  <1>1. Init => Turns
    <2> SUFFICES ASSUME Init PROVE RInv
      OBVIOUS
    <2>1. pc \in [Request -> {"loop", "completed"}] /\ read_count = 0 /\ ~is_deleted
      BY DEF Init
    <2>2. Readers = {}
      BY <2>1 DEF Readers
    <2>3. CountInv
      BY <2>1, <2>2, FS_EmptySet DEF CountInv
    <2>4. AloneInv /\ DeleteInv /\ GoneInv
      BY <2>1 DEF Init, AloneInv, Inside, DeleteInv, ReaderHolds, DeleterHolds, GoneInv
    <2> QED
      BY <2>3, <2>4 DEF RInv
  <1>2. IInv /\ Turns /\ [Next]_vars => Turns'
    <2> SUFFICES ASSUME IInv, Turns, [Next]_vars, ~overlap' PROVE RInv'
      OBVIOUS
    <2>1. ASSUME NEW r \in Request, Step(r) PROVE RInv'
      <3>1. RInv
        BY <2>1, OverlapStays
      <3> QED
        BY <2>1, <3>1, AloneStep, CountStep, DeleteStep, GoneStep DEF RInv
    <2>2. CASE UNCHANGED vars
      <3>1. RInv
        BY Zenon, <2>2 DEF vars, file
      <3> QED
        BY ZenonT(30), <2>2, <3>1 DEF vars, file, RInv, AloneInv, Inside, CountInv, Readers,
           DeleteInv, ReaderHolds, DeleterHolds, GoneInv
    <2> QED
      BY <2>1, <2>2 DEF Next, Joined
  <1>3. Turns => ReadsExcludeDelete
    BY DEF RInv, GoneInv, ReadLabel, NoReadDuringDelete, ReadsExcludeDelete
  <1> QED
    BY <1>1, <1>2, <1>3, InitIInv, NextIInv, PTL DEF Spec
=============================================================================
