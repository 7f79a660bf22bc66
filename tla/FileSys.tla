------------------------------- MODULE FileSys -------------------------------
(***************************************************************************)
(* Inodes, directories and path names (kernel/fs.c) under the system calls *)
(* of kernel/sysfile.c: open, mkdir, link, unlink, chdir and close by      *)
(* several processes.  A step is what is done under the lock of an inode.  *)
(* An inode stands for its copy on disk and its entry in the inode table,  *)
(* which agree whenever the lock is free; contents of files are left out.  *)
(***************************************************************************)
EXTENDS Naturals, Sequences, FiniteSets, FiniteSetsExt

CONSTANTS
    Proc, None,
    NINODES,   \* inodes on the disk
    Name,      \* names in directories, other than "." and ".."
    Calls      \* the system calls of a process: kind, path, second path of link;
               \* a path says whether it starts with a slash, and its elements

ROOTINO == 1
Inum == 1 .. NINODES

IsPath(path) == path[1] \in BOOLEAN /\ path[2] \in Seq(Name \cup {".."}) \ {<<>>}

ASSUME FileSysAssumption ==
    /\ NINODES \in Nat \ {0}
    /\ \A p \in Proc : \A c \in Calls[p] :
         /\ c[1] \in {"open", "create", "mkdir", "unlink", "link", "chdir"}
         /\ IsPath(c[2]) /\ (c[1] = "link" => IsPath(c[3]))

VARIABLES
    inode,     \* type, nlink, entries, ref and valid of every inode
    lock,      \* process that holds ip->lock between two steps, or None
    cwd, fd,   \* current directory and open file of every process
    call,      \* the system call
    at, rest,  \* namex: the inode reached, and the elements left
    ip,        \* another inode that the system call refers to
    dropping,  \* inodes that iput has freed and not given up yet
    pc, panicked

vars == <<inode, lock, cwd, fd, call, at, rest, ip, dropping, pc, panicked>>

NoEntries == [n \in Name \cup {".."} |-> 0]
Free == [type |-> "free", nlink |-> 0, entry |-> NoEntries, ref |-> 0, valid |-> FALSE]
Root == [type |-> "dir", nlink |-> 1, entry |-> [NoEntries EXCEPT ![".."] = ROOTINO],
         ref |-> Cardinality(Proc), valid |-> TRUE]

(* An empty disk, as mkfs makes it; every process starts in the root.      *)
Init ==
    /\ inode = [i \in Inum |-> IF i = ROOTINO THEN Root ELSE Free]
    /\ lock = [i \in Inum |-> None]
    /\ cwd = [p \in Proc |-> ROOTINO]
    /\ fd = [p \in Proc |-> None]
    /\ call = [p \in Proc |-> None]
    /\ at = [p \in Proc |-> None] /\ ip = [p \in Proc |-> None]
    /\ rest = [p \in Proc |-> <<>>]
    /\ dropping = [p \in Proc |-> {}]
    /\ pc = [p \in Proc |-> "user"]
    /\ panicked = "no"

----------------------------------------------------------------------------
(* Operations on inodes: f is the function inode, or what became of it.    *)

(* iget: a new entry of the table is not valid.                            *)
Iget(f, i) == [f EXCEPT ![i].ref = @ + 1, ![i].valid = @ /\ f[i].ref > 0]

(* ilock reads the inode.                                                  *)
Ilock(f, i) == [f EXCEPT ![i].valid = TRUE]

(* iput: the last reference to an inode without links frees it on disk.    *)
LastUnlinked(f, i) == f[i].valid /\ f[i].nlink = 0
Last(f, i) == f[i].ref = 1 /\ f[i].valid /\ f[i].nlink = 0

Iput(f, i) ==
    IF Last(f, i) THEN [f EXCEPT ![i].type = "free", ![i].entry = NoEntries, ![i].valid = FALSE]
    ELSE [f EXCEPT ![i].ref = @ - 1]

(* dirlink, and the removal of an entry; the number of links.              *)
SetEntry(f, d, n, i) == [f EXCEPT ![d].entry[n] = i]
AddLinks(f, i, k) == [f EXCEPT ![i].nlink = @ + k]
DropLink(f, i) == [f EXCEPT ![i].nlink = @ - 1]

(* create: an inode of that type, with its link; "." is not modelled.      *)
NewInode(f, i, type, d) ==
    [f EXCEPT ![i] = [type |-> type, nlink |-> 1, ref |-> @.ref + 1, valid |-> TRUE,
                      entry |-> IF type = "dir" THEN [NoEntries EXCEPT ![".."] = d] ELSE NoEntries]]

Unused == {i \in Inum : inode[i].type = "free"}
IsDir(i) == inode[i].type = "dir"
IsDirEmpty(i) == \A n \in Name : inode[i].entry[n] = 0

----------------------------------------------------------------------------
(* Steps of a system call.                                                 *)

(* The process can run, and nobody holds the lock it asks for next.        *)
Ready(p, label) == panicked = "no" /\ pc[p] = label /\ dropping[p] = {}
Wanted(p) == IF pc[p] \in {"unlink_ip", "link_bad"} THEN ip[p] ELSE at[p]
AtLock(p, label) == Ready(p, label) /\ lock[Wanted(p)] = None
Allocated(p, label) == AtLock(p, label) /\ inode[Wanted(p)].type # "free"

(* The step leaves inodes f, of which iput freed those in dead.            *)
Leave(p, f, dead) == inode' = f /\ dropping' = [dropping EXCEPT ![p] = dead]
Lasts(f, S) == {i \in S : Last(f, i)}

(* One iput after the other work of the step, or two.                      *)
LeavePut(p, f, i) == Leave(p, Iput(f, i), Lasts(f, {i}))
LeavePut2(p, f, i, j) == Leave(p, Iput(Iput(f, i), j), Lasts(f, {i, j}))

Return(p) ==
    /\ pc' = [pc EXCEPT ![p] = "user"]
    /\ call' = [call EXCEPT ![p] = None]
    /\ at' = [at EXCEPT ![p] = None] /\ ip' = [ip EXCEPT ![p] = None]
    /\ rest' = [rest EXCEPT ![p] = <<>>]

(* link undoes what it did; the other system calls just return.            *)
Fail(p) ==
    IF call[p][1] # "link_to" THEN Return(p)
    ELSE /\ pc' = [pc EXCEPT ![p] = "link_bad"]
         /\ at' = [at EXCEPT ![p] = None] /\ rest' = [rest EXCEPT ![p] = <<>>]
         /\ UNCHANGED <<call, ip>>

Goto(p, label) == pc' = [pc EXCEPT ![p] = label] /\ UNCHANGED <<call, at, ip, rest>>

(* ilock finds an inode that is not allocated.                             *)
NoType(p) ==
    /\ pc[p] \notin {"user", "create_bad", "unlink_done", "link_put"} /\ AtLock(p, pc[p]) /\ inode[Wanted(p)].type = "free"
    /\ panicked' = "ilock: no type"
    /\ UNCHANGED <<inode, lock, cwd, fd, call, at, rest, ip, dropping, pc>>

(* begin_op and the start of namex.                                        *)
Start(path, p) == IF path[1] THEN ROOTINO ELSE cwd[p]

SysCall(p, c) ==
    /\ Ready(p, "user")
    /\ Leave(p, Iget(inode, Start(c[2], p)), {})
    /\ call' = [call EXCEPT ![p] = c]
    /\ at' = [at EXCEPT ![p] = Start(c[2], p)]
    /\ rest' = [rest EXCEPT ![p] = c[2][2]]
    /\ pc' = [pc EXCEPT ![p] = "namex"]
    /\ UNCHANGED <<lock, cwd, fd, ip, panicked>>

(* One round of namex.                                                     *)
NameiParent(p) == call[p][1] \in {"create", "mkdir", "unlink", "link_to"}

Namex(p) ==
    /\ Allocated(p, "namex")
    /\ LET f == Ilock(inode, at[p])
           next == inode[at[p]].entry[Head(rest[p])]
       IN  IF IsDir(at[p]) /\ NameiParent(p) /\ Len(rest[p]) = 1
             THEN Leave(p, f, {}) /\ Goto(p, call[p][1])
             ELSE IF ~IsDir(at[p]) \/ next = 0
             THEN LeavePut(p, f, at[p]) /\ Fail(p)
             ELSE /\ LeavePut(p, Iget(f, next), at[p])
                  /\ at' = [at EXCEPT ![p] = next]
                  /\ rest' = [rest EXCEPT ![p] = Tail(@)]
                  /\ pc' = [pc EXCEPT ![p] = IF Len(rest[p]) = 1 THEN call[p][1] ELSE "namex"]
                  /\ UNCHANGED <<call, ip>>
    /\ UNCHANGED <<lock, cwd, fd, panicked>>

(* The end of sys_open: a file descriptor refers to the locked inode.      *)
OpenFile(p, f, i) ==
    IF fd[p] = None THEN Leave(p, f, {}) /\ fd' = [fd EXCEPT ![p] = i]
    ELSE LeavePut(p, f, i) /\ UNCHANGED fd

Open(p) ==
    /\ Allocated(p, "open")
    /\ LET f == Ilock(inode, at[p])
       IN  \/ OpenFile(p, f, at[p])
           \/ IsDir(at[p]) /\ LeavePut(p, f, at[p]) /\ UNCHANGED fd
    /\ Return(p)
    /\ UNCHANGED <<lock, cwd, panicked>>

(* The directory stays locked after the step.                              *)
HoldNothing(p) == UNCHANGED lock
HoldDir(p) == lock' = [lock EXCEPT ![at[p]] = p]

(* create in the directory at[p]; there may be no inode, or no block for   *)
(* the entry: then the inode is given up first, and the directory next.    *)
CreateFails(p, label) ==
    /\ Allocated(p, label) /\ inode[at[p]].entry[Head(rest[p])] = 0
    /\ LET f == Ilock(inode, at[p])
           i == Min(Unused)
           type == IF label = "mkdir" THEN "dir" ELSE "file"
       IN  \/ Unused = {} /\ LeavePut(p, f, at[p]) /\ Return(p) /\ UNCHANGED lock
           \/ /\ Unused # {}
              /\ LeavePut(p, DropLink(NewInode(f, i, type, at[p]), i), i)
              /\ HoldDir(p)
              /\ Goto(p, "create_bad")
    /\ UNCHANGED <<cwd, fd, panicked>>

CreateBad(p) ==
    /\ Ready(p, "create_bad")
    /\ LeavePut(p, inode, at[p])
    /\ lock' = [lock EXCEPT ![at[p]] = None]
    /\ Return(p)
    /\ UNCHANGED <<cwd, fd, panicked>>

CreateExisting(p, label) ==
    /\ Allocated(p, label)
    /\ LET i == inode[at[p]].entry[Head(rest[p])]
       IN  /\ i # 0
           /\ LeavePut(p, Iget(Ilock(inode, at[p]), i), at[p])
           /\ at' = [at EXCEPT ![p] = i]
    /\ rest' = [rest EXCEPT ![p] = <<>>]
    /\ pc' = [pc EXCEPT ![p] = "existing"]
    /\ UNCHANGED <<lock, cwd, fd, call, ip, panicked>>

Existing(p) ==
    /\ Allocated(p, "existing")
    /\ LET f == Ilock(inode, at[p])
       IN  IF call[p][1] = "create" /\ ~IsDir(at[p]) THEN OpenFile(p, f, at[p])
           ELSE LeavePut(p, f, at[p]) /\ UNCHANGED fd
    /\ Return(p)
    /\ UNCHANGED <<lock, cwd, panicked>>

CreateFile(p) ==
    /\ Allocated(p, "create") /\ Unused # {} /\ inode[at[p]].entry[Head(rest[p])] = 0
    /\ LET i == Min(Unused)
           d == at[p]
           f == SetEntry(NewInode(Ilock(inode, d), i, "file", d), d, Head(rest[p]), i)
           g == Iput(f, d)
       IN  /\ fd' = IF fd[p] = None THEN [fd EXCEPT ![p] = i] ELSE fd
           /\ Leave(p, IF fd[p] = None THEN g ELSE Iput(g, i), Lasts(f, {d}))
    /\ Return(p)
    /\ UNCHANGED <<lock, cwd, panicked>>

MkDir(p) ==
    /\ Allocated(p, "mkdir") /\ Unused # {} /\ inode[at[p]].entry[Head(rest[p])] = 0
    /\ LET i == Min(Unused)
           d == at[p]
           f == SetEntry(NewInode(Ilock(inode, d), i, "dir", d), d, Head(rest[p]), i)
       IN  LeavePut2(p, AddLinks(f, d, 1), d, i)
    /\ Return(p)
    /\ UNCHANGED <<lock, cwd, fd, panicked>>

(* sys_unlink keeps the directory locked while it locks the inode.         *)
Unlink(p) ==
    /\ Allocated(p, "unlink")
    /\ LET n == Head(rest[p])
           i == inode[at[p]].entry[n]
           f == Ilock(inode, at[p])
       IN  IF n = ".." \/ i = 0
             THEN LeavePut(p, f, at[p]) /\ Return(p) /\ UNCHANGED lock
             ELSE /\ Leave(p, Iget(f, i), {})
                  /\ HoldDir(p)
                  /\ ip' = [ip EXCEPT ![p] = i]
                  /\ pc' = [pc EXCEPT ![p] = "unlink_ip"]
                  /\ UNCHANGED <<call, at, rest>>
    /\ UNCHANGED <<cwd, fd, panicked>>

UnlinkInode(p) ==
    /\ Allocated(p, "unlink_ip")
    /\ LET d == at[p]
           i == ip[p]
           f == Ilock(inode, i)
           g == SetEntry(f, d, Head(rest[p]), 0)
       IN  \/ /\ inode[i].nlink < 1
              /\ panicked' = "unlink: nlink < 1"
              /\ UNCHANGED <<inode, dropping, lock, call, at, rest, ip, pc>>
           \/ /\ inode[i].nlink >= 1 /\ IsDir(i) /\ ~IsDirEmpty(i)
              /\ LeavePut2(p, f, i, d)
              /\ lock' = [lock EXCEPT ![d] = None]
              /\ Return(p) /\ UNCHANGED panicked
           \/ /\ inode[i].nlink >= 1 /\ (IsDir(i) => IsDirEmpty(i))
              /\ LeavePut(p, IF IsDir(i) THEN DropLink(g, d) ELSE g, d)
              /\ lock' = [lock EXCEPT ![d] = None, ![i] = p]
              /\ at' = [at EXCEPT ![p] = None] /\ rest' = [rest EXCEPT ![p] = <<>>]
              /\ pc' = [pc EXCEPT ![p] = "unlink_done"]
              /\ UNCHANGED <<call, ip, panicked>>
    /\ UNCHANGED <<cwd, fd>>

UnlinkDone(p) ==
    /\ Ready(p, "unlink_done")
    /\ LeavePut(p, DropLink(inode, ip[p]), ip[p])
    /\ lock' = [lock EXCEPT ![ip[p]] = None]
    /\ Return(p)
    /\ UNCHANGED <<cwd, fd, panicked>>

(* sys_link: one more link, then the entry.                                *)
Link(p) ==
    /\ Allocated(p, "link")
    /\ LET i == at[p]
           new == call[p][3]
           f == Ilock(inode, i)
       IN  IF IsDir(i) THEN LeavePut(p, f, i) /\ Return(p)
           ELSE /\ Leave(p, Iget(AddLinks(f, i, 1), Start(new, p)), {})
                /\ ip' = [ip EXCEPT ![p] = i]
                /\ call' = [call EXCEPT ![p] = <<"link_to">>]
                /\ at' = [at EXCEPT ![p] = Start(new, p)]
                /\ rest' = [rest EXCEPT ![p] = new[2]]
                /\ pc' = [pc EXCEPT ![p] = "namex"]
    /\ UNCHANGED <<lock, cwd, fd, panicked>>

LinkTo(p) ==
    /\ Allocated(p, "link_to")
    /\ LET d == at[p]
           n == Head(rest[p])
           f == Ilock(inode, d)
       IN  \/ LeavePut(p, f, d) /\ Fail(p)
           \/ /\ inode[d].entry[n] = 0
              /\ LeavePut(p, SetEntry(f, d, n, ip[p]), d)
              /\ at' = [at EXCEPT ![p] = None] /\ rest' = [rest EXCEPT ![p] = <<>>]
              /\ pc' = [pc EXCEPT ![p] = "link_put"]
              /\ UNCHANGED <<call, ip>>
    /\ UNCHANGED <<lock, cwd, fd, panicked>>

LinkPut(p) ==
    /\ Ready(p, "link_put")
    /\ LeavePut(p, inode, ip[p])
    /\ Return(p)
    /\ UNCHANGED <<lock, cwd, fd, panicked>>

LinkBad(p) ==
    /\ Allocated(p, "link_bad")
    /\ LeavePut(p, DropLink(Ilock(inode, ip[p]), ip[p]), ip[p])
    /\ Return(p)
    /\ UNCHANGED <<lock, cwd, fd, panicked>>

Chdir(p) ==
    /\ Allocated(p, "chdir")
    /\ LET f == Ilock(inode, at[p])
       IN  IF IsDir(at[p]) THEN LeavePut(p, f, cwd[p]) /\ cwd' = [cwd EXCEPT ![p] = at[p]]
           ELSE LeavePut(p, f, at[p]) /\ UNCHANGED cwd
    /\ Return(p)
    /\ UNCHANGED <<lock, fd, panicked>>

(* close: the last reference to the file gives up the inode.               *)
Close(p) ==
    /\ Ready(p, "user") /\ fd[p] # None
    /\ LeavePut(p, inode, fd[p])
    /\ fd' = [fd EXCEPT ![p] = None]
    /\ UNCHANGED <<lock, cwd, call, at, rest, ip, pc, panicked>>

(* The end of an iput that freed the inode, back under itable.lock.        *)
IputDrop(p) ==
    /\ panicked = "no"
    /\ \E i \in dropping[p] : Leave(p, [inode EXCEPT ![i].ref = @ - 1], dropping[p] \ {i})
    /\ UNCHANGED <<lock, cwd, fd, call, at, rest, ip, pc, panicked>>

Halted == panicked # "no" /\ UNCHANGED vars

Next ==
    \/ \E p \in Proc :
         \/ \E c \in Calls[p] : SysCall(p, c)
         \/ \E label \in {"create", "mkdir"} : CreateFails(p, label) \/ CreateExisting(p, label)
         \/ NoType(p) \/ Namex(p) \/ Open(p) \/ Existing(p) \/ CreateFile(p) \/ MkDir(p)
         \/ CreateBad(p) \/ Unlink(p) \/ UnlinkInode(p) \/ UnlinkDone(p)
         \/ Link(p) \/ LinkTo(p) \/ LinkPut(p) \/ LinkBad(p)
         \/ Chdir(p) \/ Close(p) \/ IputDrop(p)
    \/ Halted

Spec == Init /\ [][Next]_vars

----------------------------------------------------------------------------
(* Properties.                                                             *)

(* The pointers to an inode: open files, current directories and system    *)
(* calls in progress.                                                      *)
Pointers(i) == Cardinality({p \in Proc : fd[p] = i}) + Cardinality({p \in Proc : cwd[p] = i})
               + Cardinality({p \in Proc : at[p] = i}) + Cardinality({p \in Proc : ip[p] = i})
               + Cardinality({p \in Proc : i \in dropping[p]})

(* Names of an inode: ".." counts in a directory that has a name.          *)
Names(i) == {<<d, n>> \in Inum \X (Name \cup {".."}) :
                /\ inode[d].entry[n] = i
                /\ n = ".." => \E e \in Inum, m \in Name : inode[e].entry[m] = d}

(* An inode is not freed, or used for another file, as long as it has a    *)
(* name, is open or is a current directory: ref counts its pointers, and   *)
(* nlink at least its names.                                               *)
InodesKept ==
    /\ \A i \in Inum :
         /\ inode[i].ref = Pointers(i)
         /\ Names(i) # {} => inode[i].type # "free" /\ inode[i].nlink >= Cardinality(Names(i))
    /\ \A p \in Proc : IsDir(cwd[p]) /\ (fd[p] # None => inode[fd[p]].type # "free")

(* ilock and unlink panic for one reason only: the process that panics is  *)
(* in a removed directory, the parent of which has been removed as well,   *)
(* and locks the inode that ".." of its current directory names.           *)
DotDotGone(p) ==
    NoType(p) /\ inode[cwd[p]].nlink = 0 /\ Wanted(p) = inode[cwd[p]].entry[".."]
PanicsOnDotDot == panicked = "no" /\ [][\E p \in Proc : DotDotGone(p)]_panicked
=============================================================================
