------------------------------- MODULE Cow -------------------------------
(***************************************************************************)
(* The memory of user processes under copy-on-write fork: the page         *)
(* allocator with its reference counts (kernel/kalloc.c), the user page    *)
(* tables (kernel/vm.c), the page fault handler (kernel/trap.c) and the    *)
(* parts of fork, sbrk, exit and wait that touch memory (kernel/proc.c).   *)
(*                                                                         *)
(* Every process has one kernel thread, so every slot of the process table *)
(* has one program counter.  A step is what runs between two acquisitions  *)
(* of kmem.lock or refcntmgr.lock; threads on different harts interleave   *)
(* between steps.  A page table is private to the thread that works on it. *)
(***************************************************************************)
EXTENDS Naturals, FiniteSets

CONSTANTS
    Proc,            \* slots of the process table
    First,           \* the slot of the process that exists initially
    NoProc,
    Frame,           \* physical pages managed by kalloc
    NoFrame,         \* the null page
    Value,           \* contents a user program can give a page
    Zero, Junk,      \* contents after memset(0), and after kalloc/kfree
    PGSIZE,          \* bytes in a page
    MaxPages,        \* MAXVA, in pages
    PagesPerTable,   \* pages that one leaf page-table page maps
    InitSize,        \* pages of the first process
    ReadOnly,        \* its pages without PTE_W (text)
    Guard,           \* its pages without PTE_U (the stack guard)
    SP,              \* the user stack pointer, trapframe->sp
    UserAddr,        \* addresses that user code loads from and stores to
    CopyRange,       \* page ranges <<first, last>> handed to copyout
    MaxRef,          \* fork is not called once some count reached this bound
    CodePages,       \* pages without which the program cannot run
    MaxGrow,         \* most pages that one sbrk adds or removes
    Boot             \* the pages that the first process starts with

MAXVA == MaxPages * PGSIZE
VPage == 0 .. (MaxPages - 1)
Region == 0 .. ((MaxPages - 1) \div PagesPerTable)
PageOf(a) == a \div PGSIZE
RegionOf(va) == va \div PagesPerTable
Content == Value \cup {Zero, Junk}
BootTables == RegionOf(InitSize - 1) + 1

ASSUME ProcAssumption == /\ First \in Proc /\ NoProc \notin Proc
                         /\ IsFiniteSet(Proc)
ASSUME FrameAssumption == /\ IsFiniteSet(Frame) /\ NoFrame \notin Frame
ASSUME SizeAssumption == /\ PGSIZE \in Nat \ {0}
                         /\ MaxPages \in Nat \ {0}
                         /\ PagesPerTable \in Nat \ {0}
                         /\ InitSize \in 1 .. MaxPages
                         /\ SP \in Nat
                         /\ CodePages \in Nat /\ MaxRef \in Nat
                         /\ MaxGrow \in Nat
                         /\ UserAddr \subseteq Nat
                         /\ CopyRange \subseteq Nat \X Nat
ASSUME BootAssumption ==
    /\ Boot \in [0 .. InitSize + BootTables + 1 -> Frame]
    /\ \A i, j \in DOMAIN Boot : Boot[i] = Boot[j] => i = j

(* A page table entry: the page, PTE_W, PTE_C and PTE_U; PTE_V is f #      *)
(* NoFrame.                                                                *)
NoPte == [f |-> NoFrame, w |-> FALSE, c |-> FALSE, u |-> FALSE]
Access == [a : UserAddr, v : Value]
NoAccess == [a |-> 0, v |-> Zero]

VARIABLES
    freelist,   \* kmem.freelist
    ref,        \* refcntmgr.pageRefCount
    data,       \* contents of every physical page
    freeing,    \* page that a thread inside kfree has yet to push
    pt,         \* user page table entries of every slot
    leaf,       \* leaf page-table pages, by region of the address space
    pagetable,  \* p->pagetable: the root page
    trapframe,  \* p->trapframe
    sz,         \* p->sz, in pages
    pc,         \* where the slot's thread is
    frm,        \* page held in a local variable (mem, pa, new_memory)
    cur, lim,   \* loop counter and bound of the running loop
    ret,        \* where uvmunmap or handle_page_fault returns to
    req,        \* size that sbrk ends with
    kid,        \* np of a running fork
    acc,        \* user load or store, or copyout, in progress
    panicked    \* some thread called panic

mem == <<freelist, ref, data, freeing>>
tables == <<pt, leaf, pagetable, trapframe, sz>>
loop == <<pc, cur, lim>>
vars == <<mem, tables, loop, frm, ret, req, kid, acc, panicked>>

----------------------------------------------------------------------------
(* Reading page tables.                                                    *)

(* walk(pagetable, va, 0) != 0 *)
Walked(p, va) == leaf[p][RegionOf(va)] # NoFrame
Valid(p, va) == pt[p][va].f # NoFrame

(* walkaddr: a user page of the process.                                   *)
WalkAddr(p, va) == va < MaxPages /\ Walked(p, va) /\ Valid(p, va) /\ pt[p][va].u

(* What the hardware lets a user-mode load and store do.                   *)
CanLoad(p, a) == a < MAXVA /\ WalkAddr(p, PageOf(a))
CanStore(p, a) == CanLoad(p, a) /\ pt[p][PageOf(a)].w

----------------------------------------------------------------------------
(* kalloc and kfree.                                                       *)

OutOfMemory == freelist = {}

(* IncrementAndGetPageReference *)
Increment(f) == [ref EXCEPT ![f] = @ + 1]

Kalloc(f) ==
    /\ f \in freelist
    /\ freelist' = freelist \ {f}
    /\ ref' = Increment(f)

(* The count at which DecrementAndGetPageReference releases the page.      *)
LastReference(f) == ref[f] = 1

(* kfree up to the test of the count.  A page whose count reached zero is  *)
(* filled with junk and pushed by KfreePush, before the thread goes on.    *)
Kfree(p, f) ==
    /\ IF ref[f] = 0
         THEN /\ panicked' = TRUE
              /\ UNCHANGED <<ref, freeing, data>>
         ELSE /\ ref' = [ref EXCEPT ![f] = @ - 1]
              /\ IF LastReference(f)
                   THEN /\ freeing' = [freeing EXCEPT ![p] = f]
                        /\ data' = [data EXCEPT ![f] = Junk]
                   ELSE UNCHANGED <<freeing, data>>
              /\ UNCHANGED panicked
    /\ UNCHANGED freelist

KfreePush(p) ==
    /\ ~panicked
    /\ freeing[p] # NoFrame
    /\ freelist' = freelist \cup {freeing[p]}
    /\ freeing' = [freeing EXCEPT ![p] = NoFrame]
    /\ UNCHANGED <<ref, data, tables, loop, frm, ret, req, kid, acc, panicked>>

----------------------------------------------------------------------------
(* Control.                                                                *)

At(p, label) == ~panicked /\ freeing[p] = NoFrame /\ pc[p] = label

Goto(p, label, c, l) ==
    /\ pc' = [pc EXCEPT ![p] = label]
    /\ cur' = [cur EXCEPT ![p] = c]
    /\ lim' = [lim EXCEPT ![p] = l]

(* The first process, as exec leaves it: its user pages, then the leaf      *)
(* tables that map them, the root page and the trapframe page.             *)
BootPte(va) == [f |-> Boot[va], w |-> va \notin ReadOnly, c |-> FALSE,
                u |-> va \notin Guard]

(* User code runs.  A program that gave its code back with sbrk takes an   *)
(* instruction page fault, which usertrap answers with exit.               *)
User(p) == At(p, "user") /\ sz[p] >= CodePages

Init ==
    /\ freelist = Frame \ {Boot[i] : i \in DOMAIN Boot}
    /\ ref = [f \in Frame |-> IF f \in freelist THEN 0 ELSE 1]
    /\ data = [f \in Frame |->
                 IF \E va \in 0 .. InitSize - 1 : Boot[va] = f THEN Zero ELSE Junk]
    /\ freeing = [p \in Proc |-> NoFrame]
    /\ pt = [p \in Proc |-> [va \in VPage |->
               IF p = First /\ va < InitSize THEN BootPte(va) ELSE NoPte]]
    /\ leaf = [p \in Proc |-> [r \in Region |->
               IF p = First /\ r < BootTables THEN Boot[InitSize + r] ELSE NoFrame]]
    /\ pagetable = [p \in Proc |->
               IF p = First THEN Boot[InitSize + BootTables] ELSE NoFrame]
    /\ trapframe = [p \in Proc |->
               IF p = First THEN Boot[InitSize + BootTables + 1] ELSE NoFrame]
    /\ sz = [p \in Proc |-> IF p = First THEN InitSize ELSE 0]
    /\ pc = [p \in Proc |-> IF p = First THEN "user" ELSE "unused"]
    /\ frm = [p \in Proc |-> NoFrame]
    /\ cur = [p \in Proc |-> 0]
    /\ lim = [p \in Proc |-> 0]
    /\ ret = [p \in Proc |-> "user"]
    /\ req = [p \in Proc |-> 0]
    /\ kid = [p \in Proc |-> NoProc]
    /\ acc = [p \in Proc |-> NoAccess]
    /\ panicked = FALSE

----------------------------------------------------------------------------
(* Page faults.                                                            *)

(* The tests of handle_page_fault on the faulting byte address; the        *)
(* subtraction of PGSIZE wraps around when the stack is in the first page. *)
IsBelowStack(a) ==
    LET base == SP - (SP % PGSIZE)
    IN  base >= PGSIZE /\ a >= base - PGSIZE /\ a <= base

(* What handle_page_fault does: refuses with -1 or -2, dereferences the    *)
(* null pointer that walk returned, copies a copy-on-write page, or        *)
(* returns 0 having done nothing.                                          *)
PageFault(p, a) ==
    LET va == PageOf(a)
    IN  IF a >= MAXVA \/ IsBelowStack(a) THEN "refused"
        ELSE IF ~Walked(p, va) THEN "null"
        ELSE IF ~Valid(p, va) THEN "refused"
        ELSE IF ~pt[p][va].c THEN "nothing"
        ELSE IF OutOfMemory THEN "refused" ELSE "copy"

(* handle_page_fault up to and including kalloc.                           *)
BeginCow(p, va, back) ==
    \E f \in Frame :
      /\ Kalloc(f)
      /\ frm' = [frm EXCEPT ![p] = f]
      /\ ret' = [ret EXCEPT ![p] = back]
      /\ Goto(p, "cow", va, lim[p])
      /\ UNCHANGED <<data, freeing, tables, req, kid, acc, panicked>>

(* The entry that replaces a copy-on-write one. *)
CowPteStillShared(pte, f) == [pte EXCEPT !.w = TRUE, !.c = FALSE]

CowPte(pte, f) == [pte EXCEPT !.f = f, !.w = TRUE, !.c = FALSE]

(* memmove to the new page. *)
CopyForgotten(old, new) == data
CopyPage(old, new) == [data EXCEPT ![new] = data[old]]

(* The new entry then replaces the old one. *)
CowCopy(p) ==
    LET old == pt[p][cur[p]].f
    IN  /\ At(p, "cow")
        /\ data' = CopyPage(old, frm[p])
        /\ pt' = [pt EXCEPT ![p][cur[p]] = CowPte(@, frm[p])]
        /\ frm' = [frm EXCEPT ![p] = old]
        /\ Goto(p, "cowfree", cur[p], lim[p])
        /\ UNCHANGED <<freelist, ref, freeing, leaf, pagetable, trapframe, sz,
                       ret, req, kid, acc, panicked>>

(* kfree of the page that was shared.                                      *)
CowFreeForgotten(p) ==
    /\ At(p, "cowfree")
    /\ frm' = [frm EXCEPT ![p] = NoFrame]
    /\ Goto(p, ret[p], cur[p], lim[p])
    /\ ret' = [ret EXCEPT ![p] = "user"]
    /\ UNCHANGED <<mem, tables, req, kid, acc, panicked>>

CowFree(p) ==
    /\ At(p, "cowfree")
    /\ Kfree(p, frm[p])
    /\ frm' = [frm EXCEPT ![p] = NoFrame]
    /\ Goto(p, ret[p], cur[p], lim[p])
    /\ ret' = [ret EXCEPT ![p] = "user"]
    /\ UNCHANGED <<tables, req, kid, acc>>

----------------------------------------------------------------------------
(* User-mode loads and stores.                                             *)

StoreBegin(p) ==
    /\ User(p)
    /\ acc' \in {[acc EXCEPT ![p] = x] : x \in Access}
    /\ Goto(p, "store", 0, 0)
    /\ UNCHANGED <<mem, tables, frm, ret, req, kid, panicked>>

Store(p) ==
    /\ At(p, "store")
    /\ CanStore(p, acc[p].a)
    /\ data' = [data EXCEPT ![pt[p][PageOf(acc[p].a)].f] = acc[p].v]
    /\ acc' = [acc EXCEPT ![p] = NoAccess]
    /\ Goto(p, "user", 0, 0)
    /\ UNCHANGED <<freelist, ref, freeing, tables, frm, ret, req, kid, panicked>>

(* A load that the page table does not permit; any other changes nothing.  *)
LoadBegin(p) ==
    /\ User(p)
    /\ \E a \in UserAddr : ~CanLoad(p, a) /\ acc' = [acc EXCEPT ![p].a = a]
    /\ Goto(p, "load", 0, 0)
    /\ UNCHANGED <<mem, tables, frm, ret, req, kid, panicked>>

(* usertrap for scause 13 and 15: the access is tried again after a copy,  *)
(* and after a fault for which handle_page_fault did nothing; the process  *)
(* exits when the fault is refused.  handle_page_fault reads the entry     *)
(* before it tests the pointer to it: the kernel faults on a null pointer. *)
UserTrap(p) ==
    LET a == acc[p].a
    IN  /\ At(p, "load") \/ (At(p, "store") /\ ~CanStore(p, a))
        /\ \/ /\ PageFault(p, a) = "copy"
              /\ BeginCow(p, PageOf(a), pc[p])
           \/ /\ PageFault(p, a) = "refused"
              /\ Goto(p, "zombie", 0, 0)
              /\ acc' = [acc EXCEPT ![p] = NoAccess]
              /\ UNCHANGED <<mem, tables, frm, ret, req, kid, panicked>>
           \/ /\ PageFault(p, a) = "null"
              /\ panicked' = TRUE
              /\ UNCHANGED <<mem, tables, loop, frm, ret, req, kid, acc>>
           \/ PageFault(p, a) = "nothing" /\ UNCHANGED vars

----------------------------------------------------------------------------
(* copyout: the kernel stores into user memory for a system call.          *)

CopyoutBegin(p) ==
    /\ User(p)
    /\ \E r \in CopyRange, v \in Value :
         /\ acc' = [acc EXCEPT ![p].v = v]
         /\ Goto(p, "copyout", r[1], r[2])
    /\ UNCHANGED <<mem, tables, frm, ret, req, kid, panicked>>

(* One iteration up to memmove.  The result of handle_page_fault is        *)
(* ignored.                                                                *)
Copyout(p) ==
    LET va == cur[p]
    IN  /\ At(p, "copyout")
        /\ \/ /\ va > lim[p] \/ ~WalkAddr(p, va)
              /\ acc' = [acc EXCEPT ![p] = NoAccess]
              /\ Goto(p, "user", 0, 0)
              /\ UNCHANGED <<mem, tables, frm, ret, req, kid, panicked>>
           \/ /\ va <= lim[p] /\ WalkAddr(p, va)
              /\ ~pt[p][va].c \/ PageFault(p, va * PGSIZE) = "refused"
              /\ Goto(p, "memmove", va, lim[p])
              /\ UNCHANGED <<mem, tables, frm, ret, req, kid, acc, panicked>>
           \/ /\ va <= lim[p] /\ WalkAddr(p, va)
              /\ pt[p][va].c /\ PageFault(p, va * PGSIZE) = "copy"
              /\ BeginCow(p, va, "memmove")

CopyoutMove(p) ==
    /\ At(p, "memmove")
    /\ data' = [data EXCEPT ![pt[p][cur[p]].f] = acc[p].v]
    /\ Goto(p, "copyout", cur[p] + 1, lim[p])
    /\ UNCHANGED <<freelist, ref, freeing, tables, frm, ret, req, kid, acc, panicked>>

----------------------------------------------------------------------------
(* uvmunmap(pagetable, cur, lim - cur, 1) on the page table of slot p.     *)

(* kfree runs before the entry is cleared.                                 *)
UvmUnmap(p) ==
    /\ At(p, "uvmunmap")
    /\ cur[p] < lim[p]
    /\ IF Walked(p, cur[p]) /\ Valid(p, cur[p])
         THEN /\ Kfree(p, pt[p][cur[p]].f)
              /\ Goto(p, "clearpte", cur[p], lim[p])
         ELSE /\ panicked' = TRUE
              /\ UNCHANGED <<mem, loop>>
    /\ UNCHANGED <<tables, frm, ret, req, kid, acc>>

ClearPte(p) ==
    /\ At(p, "clearpte")
    /\ pt' = [pt EXCEPT ![p][cur[p]] = NoPte]
    /\ Goto(p, "uvmunmap", cur[p] + 1, lim[p])
    /\ UNCHANGED <<mem, leaf, pagetable, trapframe, sz, frm, ret, req, kid, acc, panicked>>

UnmapReturn(p) ==
    /\ At(p, "uvmunmap")
    /\ cur[p] >= lim[p]
    /\ Goto(p, ret[p], 0, 0)
    /\ ret' = [ret EXCEPT ![p] = "user"]
    /\ UNCHANGED <<mem, tables, frm, req, kid, acc, panicked>>

----------------------------------------------------------------------------
(* mappages(pagetable of slot q, va, f, flags) for one page.  It finds the *)
(* leaf table there, or allocates it, or fails for lack of memory.         *)

MapOk(q, va, pte) ==
    /\ IF Valid(q, va)
         THEN panicked' = TRUE /\ UNCHANGED pt
         ELSE pt' = [pt EXCEPT ![q][va] = pte] /\ UNCHANGED panicked
    /\ \/ /\ Walked(q, va)
          /\ UNCHANGED <<leaf, freelist, ref>>
       \/ /\ ~Walked(q, va)
          /\ \E f \in Frame : /\ Kalloc(f)
                              /\ leaf' = [leaf EXCEPT ![q][RegionOf(va)] = f]
    /\ UNCHANGED <<data, freeing, pagetable, trapframe, sz>>

MapFails(q, va) == ~Walked(q, va) /\ OutOfMemory

----------------------------------------------------------------------------
(* fork: allocproc, uvmcopy page by page, and the two error paths.  A fork *)
(* that finds no unused slot or no page for the trapframe changes nothing. *)
(* One that fails has np->lock until it returns.                           *)

ForkBegin(p, q) ==
    /\ User(p)
    /\ At(q, "unused") /\ \A r \in Proc : kid[r] # q
    /\ \A f \in Frame : ref[f] < MaxRef
    /\ \E f \in Frame : /\ Kalloc(f)
                        /\ trapframe' = [trapframe EXCEPT ![q] = f]
    /\ pc' = [pc EXCEPT ![p] = "uvmcreate", ![q] = "embryo"]
    /\ kid' = [kid EXCEPT ![p] = q]
    /\ UNCHANGED <<data, freeing, pt, leaf, pagetable, sz, cur, lim, frm, ret, req, acc, panicked>>

(* proc_pagetable; the pages that map the trampoline and the trapframe     *)
(* count as the root: when one of them cannot be had, proc_pagetable gives *)
(* the others back before it fails.                                        *)
ForkPagetable(p) ==
    LET q == kid[p]
    IN  /\ At(p, "uvmcreate")
        /\ \/ /\ \E f \in Frame : /\ Kalloc(f)
                                  /\ pagetable' = [pagetable EXCEPT ![q] = f]
              /\ pc' = [pc EXCEPT ![p] = "uvmcopy"]
              /\ lim' = [lim EXCEPT ![p] = sz[p]]
           \/ /\ OutOfMemory
              /\ pc' = [pc EXCEPT ![p] = "forkfail", ![q] = "freeproc"]
              /\ UNCHANGED <<freelist, ref, pagetable, lim>>
        /\ UNCHANGED <<data, freeing, pt, leaf, trapframe, sz, cur, frm, ret, req, kid, acc, panicked>>

(* The flags of a page that fork shares. *)
Share(pte) == IF pte.w THEN [pte EXCEPT !.w = FALSE, !.c = TRUE] ELSE pte

(* uvmcopy: one more reference to the page, and the parent's entry loses   *)
(* PTE_W.                                                                  *)
UvmCopyShare(p) ==
    LET va == cur[p]
        f == pt[p][va].f
    IN  /\ At(p, "uvmcopy")
        /\ va < lim[p]
        /\ IF Walked(p, va) /\ Valid(p, va)
             THEN /\ ref' = Increment(f)
                  /\ pt' = [pt EXCEPT ![p][va] = Share(@)]
                  /\ frm' = [frm EXCEPT ![p] = f]
                  /\ Goto(p, "mappages", va, lim[p])
                  /\ UNCHANGED panicked
             ELSE /\ panicked' = TRUE
                  /\ UNCHANGED <<ref, pt, frm, loop>>
        /\ UNCHANGED <<freelist, data, freeing, leaf, pagetable, trapframe, sz, ret, req, kid, acc>>

(* uvmcopy: the child's entry, with the flags of the parent's.  On failure *)
(* uvmunmap takes back the pages below this one, and freeproc the rest.    *)
UvmCopyMap(p) ==
    LET va == cur[p]
        q == kid[p]
    IN  /\ At(p, "mappages")
        /\ frm' = [frm EXCEPT ![p] = NoFrame]
        /\ \/ /\ MapOk(q, va, pt[p][va])
              /\ Goto(p, "uvmcopy", va + 1, lim[p])
              /\ UNCHANGED ret
           \/ /\ MapFails(q, va)
              /\ pc' = [pc EXCEPT ![p] = "forkfail", ![q] = "uvmunmap"]
              /\ cur' = [cur EXCEPT ![p] = 0, ![q] = 0]
              /\ lim' = [lim EXCEPT ![p] = 0, ![q] = va]
              /\ ret' = [ret EXCEPT ![q] = "freeproc"]
              /\ UNCHANGED <<mem, tables, panicked>>
        /\ UNCHANGED <<req, kid, acc>>

ForkDone(p) ==
    LET q == kid[p]
    IN  /\ At(p, "uvmcopy")
        /\ cur[p] >= lim[p]
        /\ sz' = [sz EXCEPT ![q] = sz[p]]
        /\ pc' = [pc EXCEPT ![p] = "user", ![q] = "user"]
        /\ cur' = [cur EXCEPT ![p] = 0]
        /\ lim' = [lim EXCEPT ![p] = 0]
        /\ kid' = [kid EXCEPT ![p] = NoProc]
        /\ UNCHANGED <<mem, pt, leaf, pagetable, trapframe, frm, ret, req, acc, panicked>>

(* The parent runs uvmunmap and freeproc on the child's slot, whose own    *)
(* program counter stands for that call; fork returns -1 after it.         *)
ForkFailed(p) ==
    /\ At(p, "forkfail")
    /\ At(kid[p], "unused")
    /\ Goto(p, "user", 0, 0)
    /\ kid' = [kid EXCEPT ![p] = NoProc]
    /\ UNCHANGED <<mem, tables, frm, ret, req, acc, panicked>>

----------------------------------------------------------------------------
(* sbrk: growproc with uvmalloc and uvmdealloc.                            *)

Grow(p) ==
    /\ User(p)
    /\ \E n \in 1 .. MaxGrow :
         /\ sz[p] + n <= MaxPages
         /\ req' = [req EXCEPT ![p] = sz[p] + n]
         /\ Goto(p, "uvmalloc", sz[p], sz[p] + n)
    /\ UNCHANGED <<mem, tables, frm, ret, kid, acc, panicked>>

(* uvmdealloc(pagetable, a, oldsz), then growproc fails with the old size. *)
GrowUndoForgotten(p) ==
    /\ Goto(p, "setsz", 0, 0)
    /\ req' = [req EXCEPT ![p] = sz[p]]
    /\ UNCHANGED ret

GrowUndo(p) ==
    /\ Goto(p, "uvmunmap", sz[p], cur[p])
    /\ ret' = [ret EXCEPT ![p] = "setsz"]
    /\ req' = [req EXCEPT ![p] = sz[p]]

UvmAlloc(p) ==
    /\ At(p, "uvmalloc")
    /\ cur[p] < lim[p]
    /\ \/ /\ \E f \in Frame : /\ Kalloc(f)
                              /\ frm' = [frm EXCEPT ![p] = f]
                              /\ data' = [data EXCEPT ![f] = Zero]
          /\ Goto(p, "growmap", cur[p], lim[p])
          /\ UNCHANGED <<freeing, ret, req>>
       \/ /\ OutOfMemory
          /\ GrowUndo(p)
          /\ UNCHANGED <<mem, frm>>
    /\ UNCHANGED <<tables, kid, acc, panicked>>

UvmAllocMap(p) ==
    /\ At(p, "growmap")
    /\ frm' = [frm EXCEPT ![p] = NoFrame]
    /\ \/ /\ MapOk(p, cur[p], [f |-> frm[p], w |-> TRUE, c |-> FALSE, u |-> TRUE])
          /\ Goto(p, "uvmalloc", cur[p] + 1, lim[p])
          /\ UNCHANGED <<ret, req>>
       \/ /\ MapFails(p, cur[p])
          /\ Kfree(p, frm[p])
          /\ GrowUndo(p)
          /\ UNCHANGED tables
    /\ UNCHANGED <<kid, acc>>

UvmAllocDone(p) ==
    /\ At(p, "uvmalloc")
    /\ cur[p] >= lim[p]
    /\ Goto(p, "setsz", 0, 0)
    /\ UNCHANGED <<mem, tables, frm, ret, req, kid, acc, panicked>>

Shrink(p) ==
    /\ User(p)
    /\ \E n \in 1 .. MaxGrow :
         /\ n <= sz[p]
         /\ req' = [req EXCEPT ![p] = sz[p] - n]
         /\ Goto(p, "uvmunmap", sz[p] - n, sz[p])
    /\ ret' = [ret EXCEPT ![p] = "setsz"]
    /\ UNCHANGED <<mem, tables, frm, kid, acc, panicked>>

SetSz(p) ==
    /\ At(p, "setsz")
    /\ sz' = [sz EXCEPT ![p] = req[p]]
    /\ req' = [req EXCEPT ![p] = 0]
    /\ Goto(p, "user", 0, 0)
    /\ UNCHANGED <<mem, pt, leaf, pagetable, trapframe, frm, ret, kid, acc, panicked>>

----------------------------------------------------------------------------
(* exit, and freeproc as wait runs it on a zombie.                         *)

Exit(p) ==
    /\ At(p, "user")
    /\ Goto(p, "zombie", 0, 0)
    /\ UNCHANGED <<mem, tables, frm, ret, req, kid, acc, panicked>>

Reap(p) ==
    /\ At(p, "zombie")
    /\ Goto(p, "freeproc", 0, 0)
    /\ UNCHANGED <<mem, tables, frm, ret, req, kid, acc, panicked>>

(* freeproc: the trapframe, then uvmfree if there is a page table.         *)
FreeProc(p) ==
    /\ At(p, "freeproc")
    /\ Kfree(p, trapframe[p])
    /\ trapframe' = [trapframe EXCEPT ![p] = NoFrame]
    /\ IF pagetable[p] = NoFrame
         THEN Goto(p, "unused", 0, 0) /\ UNCHANGED ret
         ELSE /\ Goto(p, "uvmunmap", 0, sz[p])
              /\ ret' = [ret EXCEPT ![p] = "freewalk"]
    /\ UNCHANGED <<pt, leaf, pagetable, sz, frm, req, kid, acc>>

(* freewalk: the leaf tables, none of which may map a page, then the root. *)
FreeWalk(p) ==
    /\ At(p, "freewalk")
    /\ \/ \E r \in Region :
            /\ leaf[p][r] # NoFrame
            /\ IF \E va \in VPage : RegionOf(va) = r /\ Valid(p, va)
                 THEN panicked' = TRUE /\ UNCHANGED <<mem, leaf>>
                 ELSE /\ Kfree(p, leaf[p][r])
                      /\ leaf' = [leaf EXCEPT ![p][r] = NoFrame]
            /\ UNCHANGED <<loop, pagetable, sz>>
       \/ /\ \A r \in Region : leaf[p][r] = NoFrame
          /\ Kfree(p, pagetable[p])
          /\ pagetable' = [pagetable EXCEPT ![p] = NoFrame]
          /\ sz' = [sz EXCEPT ![p] = 0]
          /\ Goto(p, "unused", 0, 0)
          /\ UNCHANGED leaf
    /\ UNCHANGED <<pt, trapframe, frm, ret, req, kid, acc>>

----------------------------------------------------------------------------
(* Every process is gone and the harts idle in scheduler(), or one of them *)
(* spins in panic().                                                       *)
Idle == (panicked \/ \A p \in Proc : At(p, "unused")) /\ UNCHANGED vars

UserStep(p) == \/ StoreBegin(p) \/ LoadBegin(p) \/ CopyoutBegin(p) \/ Grow(p) \/ Shrink(p) \/ Exit(p)
               \/ \E q \in Proc : ForkBegin(p, q)

KernelStep(p) ==
    \/ KfreePush(p) \/ CowCopy(p) \/ CowFree(p) \/ Store(p) \/ UserTrap(p)
    \/ Copyout(p) \/ CopyoutMove(p)
    \/ UvmUnmap(p) \/ ClearPte(p) \/ UnmapReturn(p)
    \/ ForkPagetable(p) \/ UvmCopyShare(p) \/ UvmCopyMap(p) \/ ForkDone(p) \/ ForkFailed(p)
    \/ UvmAlloc(p) \/ UvmAllocMap(p) \/ UvmAllocDone(p) \/ SetSz(p)
    \/ Reap(p) \/ FreeProc(p) \/ FreeWalk(p)

Next == (\E p \in Proc : UserStep(p) \/ KernelStep(p)) \/ Idle

Spec == Init /\ [][Next]_vars

----------------------------------------------------------------------------
(* Properties.                                                             *)

(* The places that can refer to a physical page, and the page each refers  *)
(* to.  An entry that uvmunmap has released but not cleared yet no longer  *)
(* counts.                                                                 *)
RefSlot == ({"pte"} \X Proc \X VPage) \cup ({"leaf"} \X Proc \X Region)
             \cup ({"pagetable", "trapframe", "frm"} \X Proc \X {0})

Released(p, va) == pc[p] = "clearpte" /\ cur[p] = va

Target == [x \in RefSlot |->
    CASE x[1] = "pte" -> IF Released(x[2], x[3]) THEN NoFrame ELSE pt[x[2]][x[3]].f
      [] x[1] = "leaf" -> leaf[x[2]][x[3]]
      [] x[1] = "pagetable" -> pagetable[x[2]]
      [] x[1] = "trapframe" -> trapframe[x[2]]
      [] x[1] = "frm" -> frm[x[2]]]

Holders(f) == {x \in RefSlot : Target[x] = f}

(* A page's count is the number of references to it, so that kfree frees   *)
(* it with the last one and not before.  One step breaks the rule, and     *)
(* loses the page: when mappages fails in uvmcopy, the count that was      *)
(* raised for the child is not lowered again.                              *)
Surplus(f) == ref[f] - Cardinality(Holders(f))
FailsToMap(p, f) == pc[p] = "mappages" /\ pc'[p] = "forkfail" /\ pt[p][cur[p]].f = f
RefExactButForFork ==
    /\ \A f \in Frame : Surplus(f) = 0
    /\ [][\A f \in Frame :
            \/ Surplus(f)' = Surplus(f)
            \/ Surplus(f)' = Surplus(f) + 1 /\ \E p \in Proc : FailsToMap(p, f)]_vars

(* A page that some process can write is reachable through that one entry: *)
(* fork, faults and kfree never leave a writable page shared.              *)
WritableIsPrivate ==
    \A p \in Proc, va \in VPage :
      (pt[p][va].w /\ ~Released(p, va)) =>
         Holders(pt[p][va].f) = {<<"pte", p, va>>}

(* The kernel stops for one reason only: a user program reads or writes an *)
(* address in a part of its address space for which walk finds no leaf     *)
(* table, and handle_page_fault reads the entry through the null pointer.  *)
(* Nobody panics: not "DecrementAndGetPageReference", "mappages: remap",   *)
(* "uvmunmap", "uvmcopy" nor "freewalk: leaf", whatever failed before.     *)
NullEntry(p) == PageFault(p, acc[p].a) = "null" /\ UserTrap(p)
StopsOnlyAtNullEntry == ~panicked /\ [][\E p \in Proc : NullEntry(p)]_panicked

(* The memory that a process sees through its page table.                  *)
Alive == {p \in Proc :
            /\ pc[p] \notin {"unused", "embryo", "zombie", "freeproc", "freewalk"}
            /\ pc[p] \in {"uvmunmap", "clearpte"} => ret[p] = "setsz"}

View == [p \in Proc |-> [va \in VPage |->
           IF p \in Alive /\ Valid(p, va) /\ ~Released(p, va)
             THEN data[pt[p][va].f] ELSE NoFrame]]

Eager == INSTANCE UserMemory WITH NoPage <- NoFrame, alive <- Alive, view <- View

(* Sharing pages until they are written is invisible: every process sees   *)
(* the memory it would have had if fork had copied it at once.             *)
ImplementsUserMemory == Eager!Spec

(* copyout goes on to a page that the process itself may not write: the    *)
(* fault was refused, for want of memory or because the page holds the     *)
(* stack pointer, or the page is read-only.                                *)
MovesRegardless(p) == ~pt[p][cur[p]].w /\ CopyoutMove(p)

(* Whatever fails, every step keeps the memory of the processes apart but  *)
(* one: memmove of a copyout to a page that is not writable.               *)
IsolatedButForCopyout ==
    Eager!Init /\ [][Eager!Next \/ \E p \in Proc : MovesRegardless(p)]_<<Alive, View>>
=============================================================================
