------------------------------ MODULE FileData ------------------------------
(***************************************************************************)
(* Contents of files: the block bitmap, bmap, readi, writei, itrunc and    *)
(* iput of kernel/fs.c under read, write, open, unlink and close of        *)
(* kernel/file.c, with open files that processes share, disks that fill up *)
(* and crashes.  A step is one change of the bitmap, or what is done at    *)
(* once under the lock of an inode; writei copies its data in the step     *)
(* that ends it.  The log is what AtomicDisk promises: calls that overlap  *)
(* become durable together.                                                *)
(***************************************************************************)
EXTENDS Mkfs

CONSTANTS
    Proc, None,
    File,         \* entries of the file table
    MAXOPBLOCKS,
    Image,        \* contents of the files on the disk that mkfs made
    Payload,      \* what a process may write: sequences of bytes
    MaxCalls,     \* bound on the system calls
    MaxCrash      \* bound on the crashes

ASSUME FileDataAssumption ==
    /\ None \notin Proc \cup File
    /\ MAXOPBLOCKS \in Nat /\ MAXOPBLOCKS >= 6

VARIABLES
    mem,          \* the disk as the buffer cache shows it
    disk,         \* the disk as it will be after a crash
    committing,   \* the last call of a transaction has ended
    ic,           \* inode table: ref, valid, and the inode as it is in memory
    lock,         \* process that holds ip->lock, or None
    ftable, fd,   \* file table, and the open file of every process
    pc, ip,       \* where a process is, and the inode it works on
    todo,         \* bytes that write has not written yet
    wrote,        \* blocks that the call has given to log_write
    calls, crashes, panicked

local == <<pc, ip, todo, wrote>>
vars == <<mem, disk, committing, ic, lock, ftable, fd, local, calls, crashes, panicked>>

Entry == [ref |-> 0, valid |-> FALSE, d |-> FreeInode]
NoFile == [ref |-> 0, ip |-> 0, off |-> 0]

Idle == [p \in Proc |-> "user"]

Init ==
    /\ disk = Mkfs(Image) /\ mem = disk /\ committing = FALSE
    /\ ic = [i \in Inum |-> Entry] /\ lock = [i \in Inum |-> None]
    /\ ftable = [f \in File |-> NoFile] /\ fd = [p \in Proc |-> None]
    /\ pc = Idle /\ ip = [p \in Proc |-> 0]
    /\ todo = [p \in Proc |-> <<>>] /\ wrote = [p \in Proc |-> {}]
    /\ calls = 0 /\ crashes = 0 /\ panicked = FALSE

At(p, label) == ~panicked /\ pc[p] = label
Goto(p, label) == pc' = [pc EXCEPT ![p] = label]
Logs(p, B) == wrote' = [wrote EXCEPT ![p] = @ \cup B]
Call == calls < MaxCalls /\ crashes = 0 /\ calls' = calls + 1

----------------------------------------------------------------------------
(* Transactions.                                                           *)

InOp(p) == pc[p] \notin {"user", "write"}
BeginOp == ~committing

(* end_op, and the return to label.                                        *)
EndOp(p, label) ==
    /\ Goto(p, label)
    /\ wrote' = [wrote EXCEPT ![p] = {}]
    /\ committing' = \A q \in Proc \ {p} : ~InOp(q)

Commit ==
    /\ ~panicked /\ committing
    /\ disk' = mem
    /\ committing' = FALSE
    /\ UNCHANGED <<mem, ic, lock, ftable, fd, local, calls, crashes, panicked>>

----------------------------------------------------------------------------
(* Inodes.                                                                 *)

(* iget and ilock: the entry is read from disk when it is not valid.       *)
Iget(i) == [ic EXCEPT ![i].ref = @ + 1, ![i].valid = @ /\ ic[i].ref > 0]
Loaded(i) == IF ic[i].valid THEN ic[i] ELSE [ic[i] EXCEPT !.valid = TRUE, !.d = mem.ino[i]]
Unlocked(i) == lock[i] = None

Iupdate(img, i, d) == [img EXCEPT !.ino[i] = d]

(* iput: the last reference to an inode without links.                     *)
LastNever(i) == ic[i].ref = 0 /\ ic[i].valid /\ ic[i].d.nlink = 0
LastPut(i) == ic[i].ref = 1 /\ ic[i].valid /\ ic[i].d.nlink = 0

Iput(p) ==
    /\ At(p, "iput")
    /\ LET i == ip[p]
       IN  IF LastPut(i)
             THEN /\ lock' = [lock EXCEPT ![i] = p]
                  /\ Goto(p, "iput_trunc")
                  /\ UNCHANGED <<ic, ip, wrote, committing>>
             ELSE /\ ic' = [ic EXCEPT ![i].ref = @ - 1]
                  /\ ip' = [ip EXCEPT ![p] = 0]
                  /\ EndOp(p, "user")
                  /\ UNCHANGED lock
    /\ UNCHANGED <<mem, disk, ftable, fd, todo, calls, crashes, panicked>>

(* The inode is free on disk, and its entry is given up in the next step.  *)
IputFree(p) ==
    /\ At(p, "iput_free")
    /\ LET i == ip[p]
       IN  /\ mem' = Iupdate(mem, i, [ic[i].d EXCEPT !.type = "free"])
           /\ ic' = [ic EXCEPT ![i].d.type = "free", ![i].valid = FALSE]
           /\ lock' = [lock EXCEPT ![i] = None]
    /\ Logs(p, {InodeBlock})
    /\ Goto(p, "iput_drop")
    /\ UNCHANGED <<disk, committing, ftable, fd, ip, todo, calls, crashes, panicked>>

IputDrop(p) ==
    /\ At(p, "iput_drop")
    /\ ic' = [ic EXCEPT ![ip[p]].ref = @ - 1]
    /\ ip' = [ip EXCEPT ![p] = 0]
    /\ EndOp(p, "user")
    /\ UNCHANGED <<mem, disk, lock, ftable, fd, todo, calls, crashes, panicked>>

----------------------------------------------------------------------------
(* Truncation, one bfree per step.                                         *)

(* The direct and the indirect addresses that are in use.                  *)
Direct(d) == {k \in 0 .. NDIRECT - 1 : d.addrs[k] # 0}
IndirectNone(d) == {}
Indirect(d) == IF d.addrs[NDIRECT] = 0 THEN {}
               ELSE {j \in 0 .. NINDIRECT - 1 : mem.data[d.addrs[NDIRECT]][j] # 0}

Bfree(p, b) ==
    /\ panicked' = ~mem.bit[b]
    /\ mem' = [mem EXCEPT !.bit[b] = FALSE]
    /\ Logs(p, {BitmapBlock})

TruncDirect(p) ==
    LET d == ic[ip[p]].d
    IN  /\ Direct(d) # {}
        /\ LET k == Min(Direct(d))
           IN  Bfree(p, d.addrs[k]) /\ ic' = [ic EXCEPT ![ip[p]].d.addrs[k] = 0]
        /\ UNCHANGED <<todo, pc, lock, ip, committing>>

(* The indirect block is only read: todo counts the entries done.          *)
TruncIndirect(p) ==
    LET d == ic[ip[p]].d
        a == mem.data[d.addrs[NDIRECT]]
        J == {j \in Indirect(d) : j >= Len(todo[p])}
    IN  /\ Direct(d) = {} /\ d.addrs[NDIRECT] # 0
        /\ IF J # {}
             THEN /\ Bfree(p, a[Min(J)])
                  /\ todo' = [todo EXCEPT ![p] = [k \in 1 .. Min(J) + 1 |-> 0]]
                  /\ UNCHANGED ic
             ELSE /\ Bfree(p, d.addrs[NDIRECT])
                  /\ ic' = [ic EXCEPT ![ip[p]].d.addrs[NDIRECT] = 0]
                  /\ todo' = [todo EXCEPT ![p] = <<>>]
        /\ UNCHANGED <<pc, lock, ip, committing>>

(* The end of sys_open: iunlock and end_op.                                *)
OpenEnd(p) ==
    /\ lock' = [lock EXCEPT ![ip[p]] = None]
    /\ ip' = [ip EXCEPT ![p] = 0]
    /\ EndOp(p, "user")

TruncEnd(p) ==
    LET i == ip[p]
        d == [ic[i].d EXCEPT !.size = 0]
    IN  /\ d.addrs = NoAddrs
        /\ ic' = [ic EXCEPT ![i].d = d]
        /\ mem' = Iupdate(mem, i, d)
        /\ IF pc[p] = "iput_trunc"
             THEN /\ Logs(p, {InodeBlock})
                  /\ Goto(p, "iput_free")
                  /\ UNCHANGED <<lock, ip, committing>>
             ELSE OpenEnd(p)
        /\ UNCHANGED <<todo, panicked>>

Itrunc(p) ==
    /\ At(p, "iput_trunc") \/ At(p, "open_trunc")
    /\ \/ TruncDirect(p) \/ TruncIndirect(p)
       \/ TruncEnd(p)
    /\ UNCHANGED <<disk, ftable, fd, calls, crashes>>

----------------------------------------------------------------------------
(* open, unlink, close, and the sharing of an open file by dup and fork.   *)

(* The name of a file is found and removed under the lock of a directory.  *)
Named(i) == /\ mem.ino[i].type = "file" /\ mem.ino[i].nlink > 0
            /\ \A q \in Proc : pc[q] = "unlink" => ip[q] # i

(* namei finds the inode, which is locked in a later step.                 *)
Lookup(p, i, label) ==
    /\ At(p, "user") /\ Call /\ BeginOp
    /\ Named(i)
    /\ ic' = Iget(i)
    /\ ip' = [ip EXCEPT ![p] = i]
    /\ Goto(p, label)
    /\ UNCHANGED <<mem, disk, committing, lock, ftable, fd, todo, wrote, crashes, panicked>>

OpenLock(p) ==
    /\ At(p, "open") /\ Unlocked(ip[p])
    /\ ic' = [ic EXCEPT ![ip[p]] = Loaded(ip[p])]
    /\ lock' = [lock EXCEPT ![ip[p]] = p]
    /\ Goto(p, "opened")
    /\ UNCHANGED <<mem, disk, committing, ftable, fd, ip, todo, wrote, calls, crashes, panicked>>

(* create: ialloc takes the first free inode; the name is left out.        *)
Create(p) ==
    /\ At(p, "user") /\ Call /\ BeginOp
    /\ \E i \in Inum :
         /\ mem.ino[i].type = "free" /\ \A j \in 1 .. i - 1 : mem.ino[j].type # "free"
         /\ LET d == [FreeInode EXCEPT !.type = "file", !.nlink = 1]
            IN  /\ mem' = Iupdate(mem, i, d)
                /\ ic' = [ic EXCEPT ![i] = [ref |-> @.ref + 1, valid |-> TRUE, d |-> d]]
         /\ lock[i] = None /\ lock' = [lock EXCEPT ![i] = p]
         /\ ip' = [ip EXCEPT ![p] = i]
    /\ Logs(p, {InodeBlock})
    /\ Goto(p, "opened")
    /\ UNCHANGED <<disk, committing, ftable, fd, todo, crashes, panicked>>

(* filealloc and fdalloc, or neither: then the inode is given up.  The     *)
(* file is truncated, or not, when it has a descriptor.                    *)
Opened(p) ==
    /\ At(p, "opened")
    /\ LET unused == {f \in File : ftable[f].ref = 0}
       IN  IF unused = {} \/ fd[p] # None
             THEN /\ lock' = [lock EXCEPT ![ip[p]] = None]
                  /\ Goto(p, "iput")
                  /\ UNCHANGED <<ftable, fd, ip, wrote, committing>>
             ELSE /\ \E f \in unused :
                       /\ ftable' = [ftable EXCEPT ![f] = [ref |-> 1, ip |-> ip[p], off |-> 0]]
                       /\ fd' = [fd EXCEPT ![p] = f]
                  /\ \/ OpenEnd(p)
                     \/ Goto(p, "open_trunc") /\ UNCHANGED <<lock, ip, wrote, committing>>
    /\ UNCHANGED <<mem, disk, ic, todo, calls, crashes, panicked>>

(* unlink: one link less.                                                  *)
UnlinkLock(p) ==
    /\ At(p, "unlink") /\ Unlocked(ip[p])
    /\ LET i == ip[p]
           d == [Loaded(i).d EXCEPT !.nlink = @ - 1]
       IN  /\ ic' = [ic EXCEPT ![i] = [Loaded(i) EXCEPT !.d = d]]
           /\ mem' = Iupdate(mem, i, d)
    /\ Logs(p, {InodeBlock})
    /\ Goto(p, "iput")
    /\ UNCHANGED <<disk, committing, lock, ftable, fd, ip, todo, calls, crashes, panicked>>

(* filedup, for a descriptor that dup or fork copies.                      *)
Share(p, q) ==
    /\ At(p, "user") /\ At(q, "user") /\ fd[p] # None /\ fd[q] = None
    /\ Call
    /\ fd' = [fd EXCEPT ![q] = fd[p]]
    /\ ftable' = [ftable EXCEPT ![fd[p]].ref = @ + 1]
    /\ UNCHANGED <<mem, disk, committing, ic, lock, local, crashes, panicked>>

(* fileclose: the last reference to the file gives up the inode.           *)
Close(p) ==
    /\ At(p, "user") /\ fd[p] # None
    /\ LET f == fd[p]
       IN  IF ftable[f].ref > 1
             THEN ftable' = [ftable EXCEPT ![f].ref = @ - 1] /\ UNCHANGED <<ip, pc>>
             ELSE /\ BeginOp
                  /\ ftable' = [ftable EXCEPT ![f] = NoFile]
                  /\ ip' = [ip EXCEPT ![p] = ftable[f].ip]
                  /\ Goto(p, "iput")
    /\ fd' = [fd EXCEPT ![p] = None]
    /\ UNCHANGED <<mem, disk, committing, ic, lock, todo, wrote, calls, crashes, panicked>>

----------------------------------------------------------------------------
(* read and write.                                                         *)

(* fileread of n bytes.  A block that is not there would be allocated, and *)
(* log_write panics outside of a transaction.                              *)
Read(p, n) ==
    /\ At(p, "user") /\ fd[p] # None /\ Unlocked(ftable[fd[p]].ip)
    /\ Call
    /\ LET f == ftable[fd[p]]
           d == Loaded(f.ip).d
           r == IF f.off > d.size THEN 0 ELSE Min({n, d.size - f.off})
           bns == {(f.off + k) \div BSIZE : k \in 0 .. r - 1}
       IN  /\ ic' = [ic EXCEPT ![f.ip] = Loaded(f.ip)]
           /\ ftable' = [ftable EXCEPT ![fd[p]].off = @ + r]
           /\ panicked' = \E bn \in bns : Addr(mem, d.addrs, bn) = 0
    /\ UNCHANGED <<mem, disk, committing, lock, fd, local, crashes>>

SysWrite(p, s) ==
    /\ At(p, "user") /\ fd[p] # None
    /\ Call
    /\ todo' = [todo EXCEPT ![p] = s]
    /\ Goto(p, "write")
    /\ UNCHANGED <<mem, disk, committing, ic, lock, ftable, fd, ip, wrote, crashes, panicked>>

(* filewrite writes a few blocks in a transaction.                         *)
NoMax == MAXFILE * BSIZE
WriteMax == ((MAXOPBLOCKS - 1 - 1 - 2) \div 2) * BSIZE
Chunk(p) == SubSeq(todo[p], 1, Min({Len(todo[p]), WriteMax}))
Off(p) == ftable[fd[p]].off

WriteLock(p) ==
    /\ At(p, "write") /\ BeginOp
    /\ LET i == ftable[fd[p]].ip
       IN  /\ Unlocked(i)
           /\ lock' = [lock EXCEPT ![i] = p]
           /\ ic' = [ic EXCEPT ![i] = Loaded(i)]
           /\ ip' = [ip EXCEPT ![p] = i]
    /\ Goto(p, "writei")
    /\ UNCHANGED <<mem, disk, committing, ftable, fd, todo, wrote, calls, crashes, panicked>>

(* The tests at the start of writei, and the blocks it asks bmap for.      *)
Refused(p) == Off(p) > ic[ip[p]].d.size \/ Off(p) + Len(Chunk(p)) > MAXFILE * BSIZE
Touched(p) == {(Off(p) + k - 1) \div BSIZE : k \in 1 .. Len(Chunk(p))}
Missing(p) == {bn \in Touched(p) : Addr(mem, ic[ip[p]].d.addrs, bn) = 0}
FreeBlocks == {b \in Blk : ~mem.bit[b]}

(* bmap: one balloc, for the data or for the indirect block.               *)
Balloc(p) ==
    /\ At(p, "writei") /\ ~Refused(p)
    /\ Missing(p) # {} /\ FreeBlocks # {}
    /\ LET b == Min(FreeBlocks)
           a == ic[ip[p]].d.addrs
           bn == Min(Missing(p))
           r == Attach([mem EXCEPT !.bit[b] = TRUE, !.data[b] = Zeroes], a, bn, b)
       IN  /\ mem' = r[1]
           /\ ic' = [ic EXCEPT ![ip[p]].d.addrs = r[2]]
           /\ Logs(p, {BitmapBlock, b} \cup
                      (IF r[2] = a THEN {a[NDIRECT]} ELSE {}))
    /\ UNCHANGED <<disk, committing, lock, ftable, fd, pc, ip, todo, calls, crashes, panicked>>

(* How many bytes are written: all, those before the block for which the   *)
(* disk had no room, or those before the one for which either_copyin found *)
(* no user page.                                                           *)
Before(p, bn) == Max({0, bn * BSIZE - Off(p)})
Room(p) == IF Missing(p) = {} THEN {Len(Chunk(p))}
           ELSE IF FreeBlocks = {} THEN {Before(p, Min(Missing(p)))} ELSE {}
Faults(p) == {Before(p, bn) : bn \in {b \in Touched(p) : \A x \in Missing(p) : b < x}}

Grow(d, end) == [d EXCEPT !.size = IF end > @ THEN end ELSE @]

Writei(p) ==
    /\ At(p, "writei")
    /\ \E r \in IF Refused(p) THEN {0} ELSE Room(p) \cup Faults(p) :
         LET i == ip[p]
             s == SubSeq(Chunk(p), 1, r)
             d == Grow(ic[i].d, Off(p) + r)
             more == r = Len(Chunk(p)) /\ r < Len(todo[p])
         IN  /\ IF Refused(p) THEN UNCHANGED <<mem, ic>>
                ELSE /\ mem' = Iupdate(PutBytes(mem, d.addrs, Off(p), s), i, d)
                     /\ ic' = [ic EXCEPT ![i].d = d]
             /\ ftable' = [ftable EXCEPT ![fd[p]].off = @ + r]
             /\ lock' = [lock EXCEPT ![i] = None]
             /\ todo' = [todo EXCEPT ![p] = IF more THEN SubSeq(@, r + 1, Len(@)) ELSE <<>>]
             /\ EndOp(p, IF more THEN "write" ELSE "user")
    /\ ip' = [ip EXCEPT ![p] = 0]
    /\ UNCHANGED <<disk, fd, calls, crashes, panicked>>

----------------------------------------------------------------------------
Crash ==
    /\ crashes < MaxCrash /\ crashes' = crashes + 1
    /\ mem' = disk /\ committing' = FALSE
    /\ ic' = [i \in Inum |-> Entry] /\ lock' = [i \in Inum |-> None]
    /\ ftable' = [f \in File |-> NoFile] /\ fd' = [p \in Proc |-> None]
    /\ pc' = Idle /\ ip' = [p \in Proc |-> 0]
    /\ todo' = [p \in Proc |-> <<>>] /\ wrote' = [p \in Proc |-> {}]
    /\ panicked' = FALSE
    /\ UNCHANGED <<disk, calls>>

Done == (calls = MaxCalls \/ crashes > 0) /\ (\A p \in Proc : pc[p] = "user") /\ UNCHANGED vars

Next ==
    \/ \E p \in Proc :
         \/ \E i \in Inum : Lookup(p, i, "open") \/ Lookup(p, i, "unlink")
         \/ OpenLock(p) \/ Create(p) \/ Opened(p) \/ UnlinkLock(p) \/ Close(p)
         \/ Iput(p) \/ Itrunc(p) \/ IputFree(p) \/ IputDrop(p)
         \/ \E q \in Proc : Share(p, q)
         \/ Read(p, BSIZE) \/ WriteLock(p) \/ Balloc(p) \/ Writei(p)
         \/ \E s \in Payload : SysWrite(p, s)
    \/ Commit \/ Crash \/ Done

Spec == Init /\ [][Next]_vars

----------------------------------------------------------------------------
(* Properties.                                                             *)

(* A truncation takes effect for others when it starts.                    *)
Truncating(i) == \E p \in Proc : ip[p] = i /\ pc[p] \in {"iput_trunc", "iput_free", "open_trunc"}

Bytes(img, i) == IF img.ino[i].type = "free" THEN None ELSE Content(img, img.ino[i])

Pieces == UNION {{SubSeq(s, j, k) : j, k \in 1 .. Len(s)} : s \in Payload}

F == INSTANCE Files
       WITH Absent <- None, Payload <- Pieces,
            file <- [i \in Inum |-> IF Truncating(i) THEN <<>> ELSE Bytes(mem, i)],
            durable <- [i \in Inum |-> Bytes(disk, i)],
            open <- [f \in File |-> [ip |-> ftable[f].ip, off |-> ftable[f].off]]


(* After a crash at any moment the disk needs no repair: the bitmap marks  *)
(* exactly the blocks in use, each belongs to one file, and no file has a  *)
(* hole, which readi would fill outside of a transaction.                  *)
CrashConsistent ==
    /\ BlocksAccounted(disk)
    /\ \A i \in Inum : NoHole(disk, i)
    /\ ~panicked

(* A call gives log_write fewer different blocks than begin_op reserves    *)
(* for it, as RoomAssumption of Log demands: filewrite splits a write so   *)
(* that this holds.                                                        *)
WriteSet(p) ==
    wrote[p] \cup
    IF pc[p] # "writei" \/ Refused(p) THEN {}
    ELSE {InodeBlock} \cup
         {Addr(mem, ic[ip[p]].d.addrs, (Off(p) + k - 1) \div BSIZE) : k \in 1 .. Len(Chunk(p))}
TransactionFits == \A p \in Proc : Cardinality(WriteSet(p) \ {0}) < MAXOPBLOCKS

(* An inode stays allocated without a link and without a reference only    *)
(* when a crash came between unlink and the last close, or when iput had   *)
(* freed it, and ialloc gave it to another process, before iput gave up    *)
(* its reference.                                                          *)
Orphans == {i \in Inum : mem.ino[i].type # "free" /\ mem.ino[i].nlink = 0 /\ ic[i].ref = 0}
OrphanStep ==
    Orphans' \subseteq Orphans
      \/ crashes' # crashes
      \/ \E p \in Proc : pc[p] = "iput_drop" /\ Orphans' \ Orphans = {ip[p]}
OrphanedByRaceOrCrash == [][OrphanStep]_vars
=============================================================================
