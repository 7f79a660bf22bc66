----------------------------- MODULE MCPrograms -----------------------------
(***************************************************************************)
(* The programs and library functions that run on their own, side by side  *)
(* in one instance: a behaviour is one job, which is a line for the shell  *)
(* to run, a pattern and an input for grep, calls of malloc and free, an   *)
(* array for LAZY sort, requests for one file of the LAZY file manager, or *)
(* files for mkfs; or it is a question put to one of the functions that    *)
(* compute a result from their arguments: the parser of the shell, exec,   *)
(* memmove and the string functions.                                       *)
(***************************************************************************)
EXTENDS MCFileManager, Sequences, SequencesExt

CONSTANTS
    MAXARGS, Input, NPROC, Limits, NOFILE,              \* the shell
    BufSize, Jobs,                                      \* grep
    MinCore, MaxAddr, Requests,                         \* malloc
    THRESHOLD, Arrays, Columns,                         \* LAZY sort
    PGSIZE, PtrSize, Align, AddrMod, MAXARG, TablePages,    \* exec
    BSIZE, NDIRECT, NINDIRECT, FSSIZE, NINODES, DirentSize  \* mkfs

VARIABLES
    job,
    proc, pipes, limit,
    pattern, text, rest, buf, out, done,
    heap, live,
    files, given, sort_column, main, thread,
    disk, made      \* mkfs: the disk so far, and the files on it

Sh == INSTANCE Shell
Gr == INSTANCE Grep
Um == INSTANCE Umalloc
Lz == INSTANCE LazySort
Ex == INSTANCE Exec
Mk == INSTANCE Mkfs
St == INSTANCE Strings

shell == <<proc, pipes, limit>>
grep == <<pattern, text, rest, buf, out, done>>
malloc == <<heap, live>>
sort == <<files, given, sort_column, main, thread>>
mkfs == <<disk, made>>
allVars == <<job, shell, grep, malloc, sort, mkfs, vars>>

----------------------------------------------------------------------------
(* The inputs.                                                             *)

(* Lines that are run: pipes of two and three commands, lists and          *)
(* background commands on either side of a pipe, redirections.             *)
RunLines ==
    {<<"a", "|", "a">>, <<"a", "|", "a", "|", "a">>, <<"a", "&", ";", "a">>,
     <<"(", "a", ";", "a", ")", "|", "a">>, <<"a", "|", "(", "a", ";", "a", ")">>,
     <<"(", "a", "&", ";", "a", ")", "|", "a">>, <<"a", "|", "a", "&">>,
     <<"a", ">", "a", "|", "a", "<", "a">>, <<"a", ";", "a", "|">>}

(* Lines that are only parsed: every one of up to five characters.  A job  *)
(* is the start of one, and asks about every line that goes on from it.    *)
ShortLines(n) == BoundedSeq({Sh!Ordinary, Sh!Space} \cup Sh!Symbols, n)

(* One pattern on every input of up to five characters, with NUL and new   *)
(* line; and every short pattern on every short line.                      *)
Metas == {"a", ".", "*", "^", "$"}
GrepJobs ==
    ({<<"a", "$">>} \X BoundedSeq({"a", "b", "n", "0"}, 5))
    \cup {<<re, Append(t, "n")>> : re \in BoundedSeq(Metas, 3), t \in BoundedSeq({"a", "$"}, 3)}
    \cup {<<re, Append(t, "n")>> : re \in BoundedSeq(Metas, 4), t \in BoundedSeq({"a", "$"}, 2)}

(* Arrays below THRESHOLD, ones whose last quarter needs merges and whose  *)
(* others are single files, and one whose quarters do not divide evenly;   *)
(* the ids run against the names.                                          *)
FilesNamed(name) ==
    [x \in DOMAIN name |-> [Name |-> name[x], ID |-> Cardinality(DOMAIN name) - x]]
SmallArrays ==
    {FilesNamed(name) : name \in [0 .. 2 -> 1 .. 2] \cup {n \in [0 .. 6 -> 1 .. 2] : n[0] = 2 /\ n[1] = 1 /\ n[2] = 1}}
    \cup {FilesNamed([x \in 0 .. 8 |-> (x * 5) % 9])}

(* Programs of one segment of every shape, and of two good ones, with one  *)
(* argument; and one program with many argument lists.                     *)
Program(segs) == [found |-> TRUE, segs |-> segs, file |-> [k \in 1 .. 18 |-> 100 + k]]
Segments == [load : BOOLEAN, vaddr : {0, 16, 17, 48}, memsz : {0, 5, 16, 17}, filesz : {0, 5, 17},
             off : {0, 3}, write : BOOLEAN]
GoodSegments == {s \in Segments : s.load /\ s.vaddr < 17 /\ s.memsz \in {5, 17} /\ s.filesz \in {0, 5} /\ s.off = 3}
TextSegment == [load |-> TRUE, vaddr |-> 0, memsz |-> 5, filesz |-> 3, off |-> 0, write |-> FALSE]
ArgLists == BoundedSeq({<<>>, <<1>>, <<1, 1, 2>>, [k \in 1 .. 11 |-> k], [k \in 1 .. 16 |-> k]}, 4)
ExecJobs ==
    [kind : {"exec"}, args : {<<<<1>>>>}, free : 0 .. 9,
     prog : {Program(<<s>>) : s \in Segments} \cup {Program(<<s, t>>) : s, t \in GoodSegments \cup {TextSegment}}]
    \cup [kind : {"exec"}, args : ArgLists, free : {3, 8, 12},
          prog : {Program(<<TextSegment>>), [Program(<<>>) EXCEPT !.found = FALSE]}]

(* Up to three files, of sizes that end in each kind of block.              *)
Bytes(n) == [k \in 1 .. n |-> k]
FileSizes == {0, 1, 2, 3, 5, 8}

(* Every source, destination and length in a small memory; and every pair  *)
(* of names of up to three characters.                                     *)
MoveJobs ==
    {j \in [kind : {"move"}, d : 0 .. 6, s : 0 .. 6, n : 0 .. 7] : j.d + j.n <= 7 /\ j.s + j.n <= 7}
NameJobs ==
    [kind : {"name"}, n : 0 .. 4,
     mem : {[a \in 0 .. 11 |-> IF a < 4 THEN 9 ELSE IF a \in {7, 11} THEN 0 ELSE f[a]] :
                f \in [{4, 5, 6, 8, 9, 10} -> 0 .. 2]}]

----------------------------------------------------------------------------
(* A program that is not the job does nothing.                             *)
ShellOff == proc = [q \in 1 .. NPROC |-> Sh!Unused] /\ pipes = 0 /\ limit = 0
GrepOff ==
    /\ pattern = <<>> /\ text = <<>> /\ rest = <<>>
    /\ buf = <<>> /\ out = <<>> /\ done = TRUE
SortOff ==
    /\ given = <<>> /\ files = <<>> /\ sort_column = "Name"
    /\ main = <<"done", 0>> /\ thread = [i \in 0 .. 3 |-> Lz!Idle]
MallocOff == Um!Init
FileOff ==
    /\ lock = 1 /\ write_lock = 1 /\ delete_lock = 1 /\ is_deleted = FALSE /\ read_count = 0
    /\ overlap = FALSE
    /\ pc = [q \in Request |-> "completed"]
    /\ tmp = [q \in Request |-> 0] /\ wait_time = [q \in Request |-> 1]

AllInit ==
    /\ disk = Mk!RootOnly /\ made = <<>>
    /\ \/ job = [kind |-> "shell"] /\ Sh!Init /\ GrepOff /\ MallocOff /\ SortOff /\ FileOff
       \/ job = [kind |-> "grep"] /\ ShellOff /\ Gr!Init /\ MallocOff /\ SortOff /\ FileOff
       \/ job = [kind |-> "malloc"] /\ ShellOff /\ GrepOff /\ Um!Init /\ SortOff /\ FileOff
       \/ job = [kind |-> "sort"] /\ ShellOff /\ GrepOff /\ MallocOff /\ Lz!Init /\ FileOff
       \/ job = [kind |-> "file"] /\ ShellOff /\ GrepOff /\ MallocOff /\ SortOff /\ Init
       \/ /\ \/ job = [kind |-> "mkfs"]
             \/ job \in [kind : {"parse"}, start : ShortLines(2)]
             \/ job \in ExecJobs
             \/ job \in MoveJobs
             \/ job \in NameJobs
          /\ ShellOff /\ GrepOff /\ MallocOff /\ SortOff /\ FileOff

ShellStep == job.kind = "shell" /\ Sh!Next /\ UNCHANGED <<job, grep, malloc, sort, mkfs, vars>>
GrepStep == job.kind = "grep" /\ Gr!Next /\ UNCHANGED <<job, shell, malloc, sort, mkfs, vars>>
MallocStep == job.kind = "malloc" /\ Um!Next /\ UNCHANGED <<job, shell, grep, sort, mkfs, vars>>
SortStep == job.kind = "sort" /\ Lz!Next /\ UNCHANGED <<job, shell, grep, malloc, mkfs, vars>>
FileStep == job.kind = "file" /\ Next /\ UNCHANGED <<job, shell, grep, malloc, sort, mkfs>>
MkfsStep ==
    /\ job.kind = "mkfs" /\ Len(made) < NINODES - 1
    /\ \E n \in FileSizes : disk' = Mk!AddFile(disk, Bytes(n)) /\ made' = Append(made, Bytes(n))
    /\ UNCHANGED <<job, shell, grep, malloc, sort, vars>>

AllNext == ShellStep \/ GrepStep \/ MallocStep \/ SortStep \/ FileStep \/ MkfsStep

AllSpec == AllInit /\ [][AllNext]_allVars /\ Sh!Fairness /\ Fairness

----------------------------------------------------------------------------
(* The shell accepts exactly the lines of its language, and cuts out their *)
(* words (parsecmd, gettoken, nulterminate).                               *)
ShellParses ==
    job.kind = "parse" => \A more \in ShortLines(3) : Sh!ParsesExactly(job.start \o more)

(* Every line the shell runs comes to an end, with no process left over    *)
(* (runcmd: no end of a pipe stays open in a process that waits).          *)
ShellLineEnds == Sh!LineEnds

(* grep writes exactly the matching lines, however its input arrives       *)
(* (match, matchstar and the buffer of grep).                              *)
GrepExact == Gr!GrepExact

(* The free list is a sorted circle of blocks that do not touch, and no    *)
(* unit is lost or in two blocks (malloc, free, morecore).                 *)
HeapSound == Um!HeapSound

(* Four threads rearrange the array, each its quarter, by name             *)
(* (sort_files, thread_merge_sort, merge).                                 *)
SortsParts == Lz!SortsParts

(* exec makes the image the program file describes with its arguments on   *)
(* the stack, or fails without losing a page; it ends its transaction once *)
(* either way (exec, loadseg, sys_exec).                                   *)
ExecSound == job.kind = "exec" => Ex!ExecSound(job.prog, job.args, job.free, 2)

(* mkfs marks exactly the blocks it has used, each used once, and every    *)
(* file reads back as it was given.  The root directory, whose size it     *)
(* rounds to the next block even when it is a whole number of blocks, ends *)
(* in a block that does not exist exactly when its entries fill theirs.    *)
MkfsSound ==
    job.kind = "mkfs" =>
        LET img == Mk!Finished(disk)
        IN  /\ Mk!BlocksAccounted(img)
            /\ \A k \in DOMAIN made :
                  Mk!NoHole(img, k + 1) /\ Mk!Content(img, img.ino[k + 1]) = made[k]
            /\ Mk!NoHole(img, Mk!ROOTINO) <=> ((Len(made) + 2) * DirentSize) % BSIZE # 0

(* The memory and string functions of the kernel, and memmove of the user  *)
(* library, move overlapping bytes and keep and compare names of limited   *)
(* length.                                                                 *)
StringsExact ==
    /\ job.kind = "move" => St!MovesExactly([a \in 0 .. 6 |-> a], job.d, job.s, job.n)
    /\ job.kind = "name" => St!NamesKept(job.mem, 0, 4, 8, job.n)
=============================================================================
