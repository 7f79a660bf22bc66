------------------------------ MODULE Umalloc -------------------------------
(***************************************************************************)
(* malloc and free of the user programs (user/umalloc.c).  Addresses count *)
(* units of sizeof(Header); a block of n units starts with its header.     *)
(***************************************************************************)
EXTENDS Integers, FiniteSets

CONSTANTS
    MinCore,    \* the 4096 units that morecore asks for at least
    MaxAddr,    \* where sbrk fails
    Requests    \* the sizes that programs ask for, in units

VARIABLES
    heap,       \* s.ptr and s.size of the headers, freep, and the break
    live        \* the blocks in use: <<address, units>>

vars == <<heap, live>>

Base == 0       \* &base, in the bss, below the heap
Null == -1
HeapStart == 2
Addrs == 0 .. MaxAddr

(* Fresh memory is zero.                                                   *)
Init ==
    /\ heap = [ptr |-> [a \in Addrs |-> 0], size |-> [a \in Addrs |-> 0],
               freep |-> Null, brk |-> HeapStart, got |-> {}]
    /\ live = {}

----------------------------------------------------------------------------
(* The loop of free: the free block p after which bp belongs.              *)
RECURSIVE Place(_, _, _)
Place(h, p, bp) ==
    LET q == h.ptr[p]
    IN  IF (bp > p /\ bp < q) \/ (p >= q /\ (bp > p \/ bp < q)) THEN p
        ELSE Place(h, q, bp)

(* Joining bp with the block after it, and the block before it with bp.    *)
JoinUp(h, p, bp) ==
    LET q == h.ptr[p]
    IN  IF bp + h.size[bp] = q
        THEN [h EXCEPT !.size[bp] = @ + h.size[q], !.ptr[bp] = h.ptr[q]]
        ELSE [h EXCEPT !.ptr[bp] = q]
JoinDownNever(h, p, bp) == [h EXCEPT !.ptr[p] = bp, !.freep = p]
JoinDown(h, p, bp) ==
    IF p + h.size[p] = bp
    THEN [h EXCEPT !.size[p] = @ + h.size[bp], !.ptr[p] = h.ptr[bp], !.freep = p]
    ELSE [h EXCEPT !.ptr[p] = bp, !.freep = p]

FreeBlock(h, bp) == LET p == Place(h, h.freep, bp) IN JoinDown(JoinUp(h, p, bp), p, bp)

(* morecore, when sbrk succeeds.  got records the units it was given.      *)
CoreUnits(nu) == IF nu < MinCore THEN MinCore ELSE nu
HasCore(h, nu) == h.brk + CoreUnits(nu) <= MaxAddr
MoreCore(h, nu) ==
    LET n == CoreUnits(nu)
    IN  FreeBlock([h EXCEPT !.size[h.brk] = n, !.brk = @ + n, !.got = @ \cup (h.brk .. h.brk + n - 1)], h.brk)

(* Taking nunits from the block p after prevp: all of it, or its tail.     *)
Take(h, prevp, p, n) ==
    IF h.size[p] = n
    THEN [heap |-> [h EXCEPT !.ptr[prevp] = h.ptr[p], !.freep = prevp], at |-> p]
    ELSE LET b == p + h.size[p] - n
         IN  [heap |-> [h EXCEPT !.size[p] = @ - n, !.size[b] = n, !.freep = prevp], at |-> b]

RECURSIVE Search(_, _, _, _)
Search(h, prevp, p, n) ==
    IF h.size[p] >= n THEN Take(h, prevp, p, n)
    ELSE IF p # h.freep THEN Search(h, p, h.ptr[p], n)
    ELSE IF ~HasCore(h, n) THEN [heap |-> h, at |-> Null]
    ELSE LET more == MoreCore(h, n) IN Search(more, more.freep, more.ptr[more.freep], n)

Ready(h) == IF h.freep # Null THEN h
            ELSE [h EXCEPT !.ptr[Base] = Base, !.size[Base] = 0, !.freep = Base]

(* What is no header any more is the program's, or never read: it counts   *)
(* as zero.                                                                *)
RECURSIVE FreeFrom(_, _, _)
FreeFrom(h, a, seen) == IF a \in seen THEN seen ELSE FreeFrom(h, h.ptr[a], seen \cup {a})
FreeList(h) == FreeFrom(h, Base, {})
Forget(h, used) ==
    LET free == FreeList(h)
    IN  [h EXCEPT !.ptr = [a \in Addrs |-> IF a \in free THEN @[a] ELSE 0],
                  !.size = [a \in Addrs |-> IF a \in free \cup used THEN @[a] ELSE 0]]

Malloc(n) ==
    LET h == Ready(heap)
        r == Search(h, h.freep, h.ptr[h.freep], n)
    IN  /\ live' = IF r.at = Null THEN live ELSE live \cup {<<r.at, n>>}
        /\ heap' = Forget(r.heap, {b[1] : b \in live'})

Free(b) ==
    /\ b \in live
    /\ live' = live \ {b}
    /\ heap' = Forget(FreeBlock(heap, b[1]), {c[1] : c \in live'})

(* The program may call sbrk itself, which leaves a gap in the heap.       *)
Sbrk ==
    /\ heap.brk < MaxAddr
    /\ heap' = [heap EXCEPT !.brk = @ + 1]
    /\ UNCHANGED live

Next == (\E n \in Requests : Malloc(n)) \/ (\E b \in live : Free(b)) \/ Sbrk
Spec == Init /\ [][Next]_vars

----------------------------------------------------------------------------
Units(a, n) == a .. a + n - 1
FreeBlocks == {<<a, heap.size[a]>> : a \in FreeList(heap)}

(* The free list is one circle in the order of addresses with freep on it; *)
(* no two free blocks touch; and the free blocks and the blocks in use,    *)
(* which keep their sizes, divide exactly the memory that sbrk gave.       *)
HeapSound ==
    heap.freep # Null =>
        LET blocks == FreeBlocks \cup live
        IN  /\ heap.freep \in FreeList(heap)
            /\ Cardinality({a \in FreeList(heap) : heap.ptr[a] <= a}) = 1
            /\ \A b, c \in FreeBlocks : b[1] + b[2] # c[1] \/ b = c
            /\ \A b \in live : heap.size[b[1]] = b[2]
            /\ \A b, c \in blocks : b # c => Units(b[1], b[2]) \cap Units(c[1], c[2]) = {}
            /\ UNION {Units(b[1], b[2]) : b \in blocks} = heap.got
=============================================================================
