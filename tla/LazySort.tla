------------------------------ MODULE LazySort ------------------------------
(***************************************************************************)
(* LAZY sort (concurrency/lazy_sort.c): the array of files, and the four   *)
(* threads that sort parts of it at the same time.  A thread copies the    *)
(* two halves of a merge in one step and puts the files back one by one.   *)
(* qsort belongs to the C library: it sorts its part in some stable or     *)
(* unstable order.                                                         *)
(***************************************************************************)
EXTENDS Naturals, Sequences, FiniteSets, Functions

CONSTANTS
    THRESHOLD,
    Arrays,     \* the inputs: functions from 0 .. num_files - 1 to files
    Columns     \* the columns that may be asked for, of the three known

VARIABLES
    files, given,   \* the array, and what was read into it
    sort_column,
    main,           \* where sort_files is: threads created, joined, or done
    thread          \* per thread: what it still has to do

vars == <<files, given, sort_column, main, thread>>

Threads == 0 .. 3
num_files == Cardinality(DOMAIN given)
chunk_size == num_files \div 4
start_idx(i) == i * chunk_size
end_idx(i) == IF i = 3 THEN num_files - 1 ELSE (i + 1) * chunk_size - 1

Idle == [todo |-> <<>>, L |-> <<>>, R |-> <<>>, k |-> 0]

Init ==
    /\ given \in Arrays
    /\ files = given
    /\ sort_column \in Columns
    /\ main = <<"create", 0>>
    /\ thread = [i \in Threads |-> Idle]

----------------------------------------------------------------------------
(* compare_by_name, compare_by_id and compare_by_timestamp.  An id is not  *)
(* negative, so that the difference of two of them is an int.              *)
Key(f, column) == f[column]
LessEq(f, g, column) == Key(f, column) <= Key(g, column)
SortedPart(a, l, r, column) == \A x, y \in l .. r : x < y => LessEq(a[x], a[y], column)

(* qsort(&files[l], r - l + 1, sizeof(File), compare).                     *)
Qsorted(a, l, r, column) ==
    {b \in {[x \in DOMAIN a |-> IF x \in l .. r THEN a[p[x]] ELSE a[x]] : p \in Bijection(l .. r, l .. r)} :
        SortedPart(b, l, r, column)}

(* The merges of merge_sort(l, r), in the order they are made.             *)
RECURSIVE MergeSort(_, _)
MergeSort(l, r) ==
    IF l >= r THEN <<>>
    ELSE LET mid == l + (r - l) \div 2
         IN  MergeSort(l, mid) \o MergeSort(mid + 1, r) \o <<<<"merge", l, mid, r>>>>

(* thread_merge_sort.                                                      *)
ThreadWork(l, r) == IF r - l < 2 THEN <<<<"qsort", l, l, r>>>> ELSE MergeSort(l, r)

(* sort_files: few files are sorted by main itself.                        *)
CountSort ==
    /\ num_files < THRESHOLD /\ main = <<"create", 0>>
    /\ files' \in Qsorted(files, 0, num_files - 1, sort_column)
    /\ main' = <<"done", 0>>
    /\ UNCHANGED <<given, sort_column, thread>>

CreateThread ==
    /\ num_files >= THRESHOLD /\ main[1] = "create" /\ main[2] \in Threads
    /\ thread' = [thread EXCEPT ![main[2]].todo = ThreadWork(start_idx(main[2]), end_idx(main[2]))]
    /\ main' = <<"create", main[2] + 1>>
    /\ UNCHANGED <<files, given, sort_column>>

Finished(i) == thread[i].todo = <<>>
JoinSome == main = <<"create", 4>> /\ (\E i \in Threads : Finished(i))
JoinAll == main = <<"create", 4>> /\ (\A i \in Threads : Finished(i))
JoinThreads ==
    /\ JoinAll
    /\ main' = <<"done", 0>>
    /\ UNCHANGED <<files, given, sort_column, thread>>

----------------------------------------------------------------------------
Job(i) == Head(thread[i].todo)
Idx(l, r) == [x \in 1 .. r - l + 1 |-> files[l + x - 1]]
Merging(i) == thread[i].L # <<>> \/ thread[i].R # <<>>

Qsort(i) ==
    /\ ~Finished(i) /\ Job(i)[1] = "qsort"
    /\ files' \in Qsorted(files, Job(i)[2], Job(i)[4], "Name")
    /\ thread' = [thread EXCEPT ![i].todo = Tail(@)]
    /\ UNCHANGED <<given, sort_column, main>>

MergeCopy(i) ==
    /\ ~Finished(i) /\ Job(i)[1] = "merge" /\ ~Merging(i)
    /\ LET l == Job(i)[2]  mid == Job(i)[3]  r == Job(i)[4]
       IN  thread' = [thread EXCEPT ![i].L = Idx(l, mid), ![i].R = Idx(mid + 1, r), ![i].k = l]
    /\ UNCHANGED <<files, given, sort_column, main>>

FromLeft(L, R) == L # <<>> /\ (R = <<>> \/ LessEq(Head(L), Head(R), "Name"))
MergePut(i) ==
    /\ Merging(i)
    /\ LET L == thread[i].L
           R == thread[i].R
           left == FromLeft(L, R)
           last == Len(L) + Len(R) = 1
       IN  /\ files' = [files EXCEPT ![thread[i].k] = IF left THEN Head(L) ELSE Head(R)]
           /\ thread' = [thread EXCEPT ![i] =
                 IF last THEN [Idle EXCEPT !.todo = Tail(thread[i].todo)]
                 ELSE [@ EXCEPT !.k = @ + 1, !.L = IF left THEN Tail(L) ELSE L,
                                !.R = IF left THEN R ELSE Tail(R)]]
    /\ UNCHANGED <<given, sort_column, main>>

Next ==
    \/ CountSort \/ CreateThread \/ JoinThreads
    \/ \E i \in Threads : Qsort(i) \/ MergeCopy(i) \/ MergePut(i)
Spec == Init /\ [][Next]_vars

----------------------------------------------------------------------------
(* What sort_files prints.  The files are a rearrangement of the input     *)
(* although four threads wrote to the array; below THRESHOLD they are in   *)
(* the order of the column asked for; from THRESHOLD on each quarter is in *)
(* the order of the names, whatever the column, and no more is promised.   *)
SortsParts ==
    main[1] = "done" =>
        /\ \A f \in Range(given) : Cardinality({x \in DOMAIN files : files[x] = f})
                                     = Cardinality({x \in DOMAIN given : given[x] = f})
        /\ IF num_files < THRESHOLD
           THEN SortedPart(files, 0, num_files - 1, sort_column)
           ELSE \A i \in Threads : SortedPart(files, start_idx(i), end_idx(i), "Name")
=============================================================================
