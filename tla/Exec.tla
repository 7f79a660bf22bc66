-------------------------------- MODULE Exec --------------------------------
(***************************************************************************)
(* exec (kernel/exec.c, sys_exec): the new image of a process made from a  *)
(* program and arguments, or the old one kept.  An address space is the    *)
(* permissions of its mapped pages and the bytes of its memory; a pointer  *)
(* takes PtrSize bytes, and is kept in the first of them.                  *)
(***************************************************************************)
EXTENDS Integers, Sequences, FiniteSets

CONSTANTS
    PGSIZE, PtrSize, Align,
    AddrMod,        \* 2^64
    MAXARG,
    TablePages      \* pages of a page table

(* A program is a record of:                                               *)
(*   found   the path names a file with an ELF header                      *)
(*   segs    program headers: load, vaddr, memsz, filesz, off, write       *)
(*   file    the bytes of the file                                         *)

PGROUNDUP(n) == ((n + PGSIZE - 1) \div PGSIZE) * PGSIZE
Page(va) == va \div PGSIZE
Pages(sz) == 0 .. Page(PGROUNDUP(sz)) - 1

(* ok is false once exec has gone to bad, ip tells whether the variable    *)
(* holds the locked inode of the program, and held counts the inodes and   *)
(* transactions that exec has to end.                                      *)
Empty(free) == [ok |-> TRUE, panic |-> FALSE, ip |-> TRUE, held |-> 1,
                sz |-> 0, perm |-> <<>>, mem |-> <<>>, free |-> free - TablePages]
Bad(st) == [st EXCEPT !.ok = FALSE]

(* iunlockput and end_op, and ip is zero.                                  *)
EndOp(st) == [st EXCEPT !.ip = FALSE, !.held = @ - 1]

(* uvmalloc: pages from the rounded old size up to newsz, zeroed; all or   *)
(* none of them.  A size of 0 counts as failure.  TablePages counts the    *)
(* page table pages, all taken by proc_pagetable.                          *)
Uvmalloc(st, newsz, perm) ==
    LET new == {p \in Pages(newsz) : p \notin Pages(st.sz)}
    IN  IF newsz < st.sz THEN st
        ELSE IF Cardinality(new) > st.free \/ newsz = 0 THEN Bad(st)
        ELSE [st EXCEPT !.sz = newsz, !.free = @ - Cardinality(new),
                        !.perm = [p \in DOMAIN @ \cup new |-> IF p \in new THEN perm ELSE @[p]],
                        !.mem = [a \in 0 .. PGROUNDUP(newsz) - 1 |-> IF a \in DOMAIN @ THEN @[a] ELSE 0]]

(* loadseg, whose reads of the file must not come short.                   *)
LoadSeg(st, ph, file) ==
    IF ~st.ok THEN st
    ELSE IF \E va \in ph.vaddr .. ph.vaddr + ph.filesz - 1 : Page(va) \notin DOMAIN st.perm
    THEN [Bad(st) EXCEPT !.panic = TRUE]
    ELSE IF ph.off + ph.filesz > Len(file) THEN Bad(st)
    ELSE [st EXCEPT !.mem = [a \in DOMAIN @ |->
              IF a \in ph.vaddr .. ph.vaddr + ph.filesz - 1 THEN file[ph.off + a - ph.vaddr + 1] ELSE @[a]]]

BadSeg(ph) ==
    \/ ph.memsz < ph.filesz
    \/ (ph.vaddr + ph.memsz) % AddrMod < ph.vaddr
    \/ ph.vaddr % PGSIZE # 0

(* A program header that cannot be read ends exec like a bad one.          *)
RECURSIVE LoadAll(_, _, _), PushAll(_, _, _, _)
LoadAll(st, segs, file) ==
    IF ~st.ok \/ segs = <<>> THEN st
    ELSE LET ph == Head(segs)
         IN  IF ~ph.load THEN LoadAll(st, Tail(segs), file)
             ELSE IF BadSeg(ph) THEN Bad(st)
             ELSE LoadAll(LoadSeg(Uvmalloc(st, ph.vaddr + ph.memsz, IF ph.write THEN {"U", "W"} ELSE {"U"}), ph, file),
                          Tail(segs), file)

(* The program is loaded; then the guard page and the stack page.          *)
Loaded(st) == IF st.ok THEN EndOp(st) ELSE st
Stack(st) ==
    LET up == Uvmalloc([st EXCEPT !.sz = PGROUNDUP(@)], PGROUNDUP(st.sz) + 2 * PGSIZE, {"U", "W"})
    IN  IF ~st.ok \/ ~up.ok THEN Bad(st)
        ELSE [up EXCEPT !.perm[Page(up.sz - 2 * PGSIZE)] = @ \ {"U"}]

Aligned(sp) == sp - (sp % Align)
Store(mem, at, bytes) ==
    [a \in DOMAIN mem |-> IF a \in at .. at + Len(bytes) - 1 THEN bytes[a - at + 1] ELSE mem[a]]

(* The strings, pushed one below the other, and the pointers to them.      *)
PushAll(st, argv, sp, ustack) ==
    IF argv = <<>> THEN [st |-> st, sp |-> sp, ustack |-> ustack]
    ELSE LET arg == Append(Head(argv), 0)
             at == Aligned(sp - Len(arg))
         IN  IF Len(ustack) >= MAXARG \/ at < st.sz - PGSIZE
             THEN [st |-> Bad(st), sp |-> sp, ustack |-> ustack]
             ELSE PushAll([st EXCEPT !.mem = Store(@, at, arg)], Tail(argv), at, Append(ustack, at))

(* The array of pointers, ended by a zero.                                 *)
Pointers(ustack) ==
    [b \in 1 .. (Len(ustack) + 1) * PtrSize |->
        IF (b - 1) % PtrSize = 0 /\ b <= Len(ustack) * PtrSize THEN ustack[(b - 1) \div PtrSize + 1] ELSE 0]

(* The end of exec, and of sys_exec, that failed.                          *)
Refused(st, free) == [ok |-> FALSE, st |-> st, free |-> free, argc |-> 0, sp |-> 0]
Failed(st, free) == Refused(IF st.ip THEN EndOp(st) ELSE st, free)

(* The pages given back by proc_freepagetable(pagetable, sz).              *)
Freed(st) == st.free + TablePages + Cardinality(Pages(st.sz))

Exec(prog, argv, free, old) ==
    LET loaded == Stack(Loaded(LoadAll(Empty(free), prog.segs, prog.file)))
        p == PushAll(loaded, argv, loaded.sz, <<>>)
        sp == Aligned(p.sp - (Len(p.ustack) + 1) * PtrSize)
    IN  IF ~prog.found \/ free < TablePages THEN Failed(Empty(free), free)
        ELSE IF ~loaded.ok THEN Failed(loaded, Freed(loaded))
        ELSE IF ~p.st.ok \/ sp < loaded.sz - PGSIZE THEN Failed(p.st, Freed(p.st))
        ELSE [ok |-> TRUE, argc |-> Len(argv), sp |-> sp,
              st |-> [p.st EXCEPT !.mem = Store(@, sp, Pointers(p.ustack))],
              free |-> p.st.free + old]

(* sys_exec: the arguments are copied to pages of their own, at most       *)
(* MAXARG - 1 of them, since the array also holds their end.  An argument  *)
(* that cannot be fetched ends it like one that is too long.               *)
TooManyArgs(args) == Len(args) > MAXARG
TooMany(args) == Len(args) >= MAXARG
SysExec(prog, args, free, old) ==
    IF TooMany(args) \/ Len(args) > free \/ (\E k \in 1 .. Len(args) : Len(args[k]) >= PGSIZE)
    THEN Refused([Empty(free) EXCEPT !.ip = FALSE, !.held = 0], free)
    ELSE LET r == Exec(prog, args, free - Len(args), old)
         IN  [r EXCEPT !.free = @ + Len(args)]

----------------------------------------------------------------------------
(* The bytes a program header puts at an address.                          *)
Covers(ph, va) == ph.load /\ va \in ph.vaddr .. ph.vaddr + ph.filesz - 1
ByteAt(prog, va) ==
    LET on == {k \in 1 .. Len(prog.segs) : Covers(prog.segs[k], va)}
    IN  IF on = {} THEN 0
        ELSE LET ph == prog.segs[CHOOSE k \in on : \A j \in on : j <= k]
             IN  prog.file[ph.off + va - ph.vaddr + 1]

StringAt(mem, a) ==
    LET end == CHOOSE e \in DOMAIN mem : e >= a /\ mem[e] = 0 /\ \A x \in a .. e - 1 : mem[x] # 0
    IN  [k \in 1 .. end - a |-> mem[a + k - 1]]

InOrder(segs) ==
    \A j, k \in 1 .. Len(segs) : j < k /\ segs[j].load /\ segs[k].load =>
        PGROUNDUP(segs[j].vaddr + segs[j].memsz) <= segs[k].vaddr

(* The guard page.                                                         *)
Guard(st) == Page(st.sz) - 2

(* exec lets go of the inode of the program, and ends its transaction,     *)
(* once, wherever it fails.  A failed exec gives back every page it took   *)
(* and leaves the old image; loadseg never panics, ustack is never         *)
(* overrun, and the pages that proc_freepagetable is told to free are the  *)
(* ones mapped.  A successful exec has the bytes of the file and zeros     *)
(* below the guard page, which the user cannot touch; main finds its       *)
(* arguments, ended by a zero, at an aligned pointer inside the stack      *)
(* page; and no page is lost.                                              *)
ImageSound(prog, args, free, old, r) ==
    /\ ~r.st.panic /\ ~r.st.ip /\ r.st.held = 0
    /\ DOMAIN r.st.perm = Pages(r.st.sz)
    /\ ~r.ok => r.free = free
    /\ r.ok =>
         /\ r.argc = Len(args) /\ r.argc < MAXARG
         /\ r.free = free + old - TablePages - Cardinality(DOMAIN r.st.perm)
         /\ \A va \in 0 .. Guard(r.st) * PGSIZE - 1 : r.st.mem[va] = ByteAt(prog, va)
         /\ {p \in DOMAIN r.st.perm : "U" \notin r.st.perm[p]} = {Guard(r.st)}
         /\ InOrder(prog.segs) =>
              \A ph \in {prog.segs[k] : k \in 1 .. Len(prog.segs)} : ph.load =>
                \A va \in ph.vaddr .. ph.vaddr + ph.memsz - 1 : ("W" \in r.st.perm[Page(va)]) = ph.write
         /\ r.sp % Align = 0 /\ r.sp >= r.st.sz - PGSIZE
         /\ \A k \in 1 .. r.argc : StringAt(r.st.mem, r.st.mem[r.sp + (k - 1) * PtrSize]) = args[k]
         /\ r.st.mem[r.sp + r.argc * PtrSize] = 0
ExecSound(prog, args, free, old) == ImageSound(prog, args, free, old, SysExec(prog, args, free, old))
=============================================================================
