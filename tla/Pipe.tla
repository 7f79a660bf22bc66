-------------------------------- MODULE Pipe --------------------------------
(***************************************************************************)
(* Pipes (kernel/pipe.c).  Processes that share the two ends read, write,  *)
(* close and are killed.  A writer holds pi->lock for one byte after the   *)
(* other, and a kill may come between two bytes.  Every write call writes  *)
(* N bytes, every read call asks for N.                                    *)
(***************************************************************************)
EXTENDS Integers, Sequences

CONSTANTS
    Reader, Writer,  \* processes that have the read end, the write end
    None,
    N,               \* bytes of a call
    PIPESIZE,
    UintMod          \* nread and nwrite count modulo this (2^32 in the code)

ASSUME PipeAssumption ==
    /\ Reader \cap Writer = {} /\ None \notin Reader \cup Writer
    /\ N \in Nat \ {0} /\ PIPESIZE \in Nat \ {0}
    /\ UintMod \in Nat /\ UintMod % PIPESIZE = 0 /\ UintMod > PIPESIZE

Proc == Reader \cup Writer
Byte == 0 .. N - 1  \* of a write call, the j-th byte is j

VARIABLES
    lock,                  \* holder of pi->lock
    data, nread, nwrite,
    readopen, writeopen,
    freed,                 \* the page of the pipe was given back
    open,                  \* processes that have not closed their end
    killed,
    i,                     \* bytes written by the call
    out,                   \* bytes that the last read call returned
    pc

vars == <<lock, data, nread, nwrite, readopen, writeopen, freed, open, killed, i, out, pc>>
ring == <<data, nread, nwrite>>
ends == <<readopen, writeopen, freed, open>>

(* pipealloc, and forks that left every process one end.                   *)
Init ==
    /\ lock = None
    /\ data = [j \in 0 .. PIPESIZE - 1 |-> CHOOSE b \in Byte : TRUE]
    /\ nread = 0 /\ nwrite = 0
    /\ readopen = TRUE /\ writeopen = TRUE /\ freed = FALSE
    /\ open = Proc /\ killed = {}
    /\ i = [w \in Writer |-> 0]
    /\ out = [r \in Reader |-> <<>>]
    /\ pc = [p \in Proc |-> "user"]

Used == (nwrite - nread) % UintMod
Full == nwrite = (nread + PIPESIZE) % UintMod

Goto(p, label) == pc' = [pc EXCEPT ![p] = label]

(* wakeup(&pi->nread), wakeup(&pi->nwrite): back to acquire(&pi->lock)      *)
WakeNobody(S, f) == f
Wake(S, f) == [p \in Proc |-> IF p \in S /\ f[p] = "asleep" THEN "acquire" ELSE f[p]]

(* sys_read, sys_write on an open end.                                     *)
Call(p) ==
    /\ pc[p] = "user" /\ p \in open /\ p \notin killed
    /\ Goto(p, "acquire")
    /\ out' = [r \in Reader |-> IF r = p THEN <<>> ELSE out[r]]
    /\ UNCHANGED <<lock, ring, ends, killed, i>>

Acquire(p) ==
    /\ pc[p] = "acquire" /\ lock = None
    /\ lock' = p
    /\ Goto(p, "loop")
    /\ UNCHANGED <<ring, ends, killed, i, out>>

----------------------------------------------------------------------------
(* pipewrite *)

AtLoop(p) == pc[p] = "loop" /\ lock = p

WriteFails(w) ==
    /\ AtLoop(w) /\ i[w] < N
    /\ ~readopen \/ w \in killed
    /\ lock' = None
    /\ Goto(w, "user")
    /\ i' = [i EXCEPT ![w] = 0]
    /\ UNCHANGED <<ring, ends, killed, out>>

WriteSleeps(w) ==
    /\ AtLoop(w) /\ i[w] < N /\ readopen /\ w \notin killed
    /\ Full
    /\ lock' = None
    /\ pc' = [Wake(Reader, pc) EXCEPT ![w] = "asleep"]
    /\ UNCHANGED <<ring, ends, killed, i, out>>

PlaceAfter == (nwrite + 1) % PIPESIZE
Place == nwrite % PIPESIZE

WriteByte(w) ==
    /\ AtLoop(w) /\ i[w] < N /\ readopen /\ w \notin killed
    /\ ~Full
    /\ data' = [data EXCEPT ![Place] = i[w]]
    /\ nwrite' = (nwrite + 1) % UintMod
    /\ i' = [i EXCEPT ![w] = @ + 1]
    /\ UNCHANGED <<lock, nread, ends, killed, out, pc>>

(* All is written, or copyin fails.                                        *)
WriteReturns(w) ==
    /\ AtLoop(w)
    /\ i[w] = N \/ (readopen /\ w \notin killed /\ ~Full)
    /\ lock' = None
    /\ pc' = [Wake(Reader, pc) EXCEPT ![w] = "user"]
    /\ i' = [i EXCEPT ![w] = 0]
    /\ UNCHANGED <<ring, ends, killed, out>>

----------------------------------------------------------------------------
(* piperead *)

EmptyAndOpen == nread = nwrite /\ writeopen

ReadFails(r) ==
    /\ AtLoop(r) /\ EmptyAndOpen /\ r \in killed
    /\ lock' = None
    /\ Goto(r, "user")
    /\ UNCHANGED <<ring, ends, killed, i, out>>

ReadSleeps(r) ==
    /\ AtLoop(r) /\ EmptyAndOpen /\ r \notin killed
    /\ lock' = None
    /\ Goto(r, "asleep")
    /\ UNCHANGED <<ring, ends, killed, i, out>>

(* The copy loop: all the bytes there are, at most N, or up to the first   *)
(* that copyout fails for, which is taken from the pipe all the same.      *)
AfterReadSilent(r) == [pc EXCEPT ![r] = "user"]
AfterRead(r) == [Wake(Writer, pc) EXCEPT ![r] = "user"]

ReadCopies(r) ==
    /\ AtLoop(r) /\ ~EmptyAndOpen
    /\ LET most == IF Used < N THEN Used ELSE N
       IN  \E n \in 0 .. most :
             /\ nread' = (nread + (IF n = most THEN n ELSE n + 1)) % UintMod
             /\ out' = [out EXCEPT ![r] = [j \in 1 .. n |-> data[(nread + j - 1) % PIPESIZE]]]
    /\ lock' = None
    /\ pc' = AfterRead(r)
    /\ UNCHANGED <<data, nwrite, ends, killed, i>>

----------------------------------------------------------------------------
(* close or exit: the last process that closes an end calls pipeclose.     *)
FreeAtOnce == TRUE
FreeWhenBoth == ~readopen' /\ ~writeopen'

Close(p) ==
    /\ pc[p] = "user" /\ p \in open /\ lock = None
    /\ open' = open \ {p}
    /\ writeopen' = (writeopen /\ open' \cap Writer # {})
    /\ readopen' = (readopen /\ open' \cap Reader # {})
    /\ pc' = IF writeopen' # writeopen THEN Wake(Reader, pc)
             ELSE IF readopen' # readopen THEN Wake(Writer, pc) ELSE pc
    /\ freed' = (freed \/ (<<readopen, writeopen>>' # <<readopen, writeopen>> /\ FreeWhenBoth))
    /\ UNCHANGED <<lock, ring, killed, i, out>>

(* kill: sets p->killed, without pi->lock, and wakes a sleeper.            *)
Kill(p) ==
    /\ p \notin killed
    /\ killed' = killed \cup {p}
    /\ pc' = Wake({p}, pc)
    /\ UNCHANGED <<lock, ring, ends, i, out>>

(* Every process has closed its end.                                       *)
Done == open = {} /\ UNCHANGED vars

WriteStep(w) == WriteFails(w) \/ WriteSleeps(w) \/ WriteByte(w) \/ WriteReturns(w)
ReadStep(r) == ReadFails(r) \/ ReadSleeps(r) \/ ReadCopies(r)

Next ==
    \/ \E w \in Writer : WriteStep(w)
    \/ \E r \in Reader : ReadStep(r)
    \/ \E p \in Proc : Call(p) \/ Acquire(p) \/ Close(p) \/ Kill(p)
    \/ Done

Spec == Init /\ [][Next]_vars

(* The holder of pi->lock goes on, one of those who wait for it gets it, a *)
(* reader reads until it closes its end, and a killed one exits.           *)
FairSpec ==
    /\ Spec
    /\ WF_vars(\E w \in Writer : WriteStep(w))
    /\ WF_vars(\E r \in Reader : ReadStep(r))
    /\ WF_vars(\E p \in Proc : Acquire(p))
    /\ \A r \in Reader : WF_vars(Call(r)) /\ WF_vars(r \in killed /\ Close(r))

----------------------------------------------------------------------------
(* Properties.                                                             *)

(* The values every variable ranges over. *)
TypeOK ==
    /\ lock \in Proc \cup {None}
    /\ data \in [0 .. PIPESIZE - 1 -> Byte]
    /\ nread \in 0 .. UintMod - 1 /\ nwrite \in 0 .. UintMod - 1 /\ Used <= PIPESIZE
    /\ readopen \in BOOLEAN /\ writeopen \in BOOLEAN /\ freed \in BOOLEAN
    /\ open \subseteq Proc /\ killed \subseteq Proc
    /\ i \in [Writer -> 0 .. N]
    /\ \A r \in Reader : Len(out[r]) <= N
    /\ pc \in [Proc -> {"user", "acquire", "loop", "asleep"}]

(* The bytes between nread and nwrite.                                     *)
Contents == [j \in 1 .. Used |-> data[(nread + j - 1) % PIPESIZE]]
Stream == INSTANCE ByteStream WITH queue <- Contents, Capacity <- PIPESIZE, Most <- N

(* The ring buffer and its counters, which wrap, behave like a bounded     *)
(* queue with end of file, for any number of readers and writers.          *)
ImplementsByteStream == Stream!Spec

(* The page of the pipe is not used after pipeclose gave it back.          *)
NoUseAfterFree == freed => lock = None /\ \A p \in Proc : pc[p] = "user"

(* While nobody holds the lock, a reader sleeps only when there is nothing *)
(* to read and a writer is left.  The exception: a write that a kill ends  *)
(* between two bytes returns without a wakeup, and leaves readers asleep   *)
(* although there are bytes.                                               *)
ReadersSleepEmpty ==
    (lock = None /\ \E r \in Reader : pc[r] = "asleep") =>
        writeopen /\ (nread = nwrite \/ killed \cap Writer # {})

(* A writer that sleeps for room is woken, by readers that read or close.  *)
WriterWakes == \A w \in Writer : pc[w] = "asleep" ~> pc[w] # "asleep"
=============================================================================
