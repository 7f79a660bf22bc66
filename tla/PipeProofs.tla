----------------------------- MODULE PipeProofs -----------------------------
(***************************************************************************)
(* For any number of readers and writers, any call size, any buffer size   *)
(* and any width of the counters: the ring buffer never holds more than    *)
(* PIPESIZE bytes, nobody uses a pipe that was freed, readers sleep only   *)
(* on an empty pipe, but for the writes that a kill ends, and the pipe     *)
(* implements ByteStream.                                                  *)
(***************************************************************************)
EXTENDS Pipe, TLAPS

(* TypeOK, and that `out` is a function.                                   *)
TypeInv == TypeOK /\ out = [r \in Reader |-> out[r]]

(* The holder of pi->lock is the process in one of the two loops.          *)
LockInv == \A p \in Proc : pc[p] = "loop" <=> lock = p

(* A process in a call has its end open, an end that some process has open *)
(* is open, and the page is freed when both are closed.                    *)
OpenInv ==
    /\ \A p \in Proc : pc[p] # "user" => p \in open
    /\ open \cap Writer # {} => writeopen
    /\ open \cap Reader # {} => readopen
    /\ freed => ~readopen /\ ~writeopen

(* ReadersSleepEmpty, while a writer that holds the lock may have put      *)
(* bytes that it has not announced yet.                                    *)
SleepInv ==
    (\E r \in Reader : pc[r] = "asleep") =>
        writeopen /\ (lock \in Writer \/ nread = nwrite \/ killed \cap Writer # {})

CallInv == LockInv /\ OpenInv /\ SleepInv

----------------------------------------------------------------------------
(* The counters.                                                           *)

(* Three facts about the C remainder on counters that wrapped at most once. *)
LEMMA ModSmall == ASSUME NEW M \in Nat \ {0}, NEW a \in 0 .. M - 1 PROVE a % M = a
  BY SMTT(30)

(* See ModSmall. *)
LEMMA ModOver == ASSUME NEW M \in Nat \ {0}, NEW a \in M .. 2 * M - 1 PROVE a % M = a - M
  BY SMTT(30)

(* See ModSmall. *)
LEMMA ModBelow == ASSUME NEW M \in Nat \ {0}, NEW a \in -M .. -1 PROVE a % M = a + M
  BY SMTT(30)

(* A remainder is an index of the buffer, or a value of the counter. *)
LEMMA ModRange == ASSUME NEW M \in Nat \ {0}, NEW a \in Int PROVE a % M \in 0 .. M - 1
  BY SMTT(30)

(* The remainder is the only number below M that differs from a by a       *)
(* multiple of M.                                                          *)
LEMMA ModUnique ==
  ASSUME NEW M \in Nat \ {0}, NEW k \in Int, NEW r \in 0 .. M - 1
  PROVE  (M * k + r) % M = r
  BY SMTT(30)

(* See ModUnique. *)
LEMMA ModDiffers ==
  ASSUME NEW M \in Nat \ {0}, NEW a \in Int
  PROVE  \E k \in Int : a = M * k + (a % M)
  <1>1. a \div M \in Int /\ a = M * (a \div M) + (a % M)
    BY SMTT(30)
  <1> QED BY Zenon, <1>1

(* Because the buffer size divides the modulus of the counters, a counter  *)
(* that wraps keeps its place in the buffer.                               *)
LEMMA SamePlace ==
  ASSUME NEW size \in Nat \ {0}, NEW M \in Nat, M % size = 0, NEW a \in Int
  PROVE  (a - M) % size = a % size
  <1>1. PICK q \in Int : M = size * q
    <2>1. M \in Int
      OBVIOUS
    <2>2. PICK q \in Int : M = size * q + (M % size)
      BY Zenon, <2>1, ModDiffers
    <2>3. M = size * q
      BY <2>2
    <2> QED BY Zenon, <2>3
  <1>2. PICK k \in Int : a = size * k + (a % size)
    BY Zenon, ModDiffers
  <1>3. PICK r \in 0 .. size - 1 : r = a % size
    BY Zenon, ModRange
  <1>4. a - M = size * (k - q) + r /\ k - q \in Int
    BY <1>1, <1>2, <1>3
  <1>5. (size * (k - q) + r) % size = r
    BY Zenon, <1>4, ModUnique
  <1> QED BY Zenon, <1>3, <1>4, <1>5

(* Less than a buffer apart, two counters have different places.           *)
LEMMA OtherPlace ==
  ASSUME NEW size \in Nat \ {0}, NEW a \in Int, NEW b \in Int,
         a < b, b < a + size
  PROVE  a % size # b % size
  <1> SUFFICES ASSUME a % size = b % size PROVE FALSE
    OBVIOUS
  <1>1. PICK q \in Int : a = size * q + (a % size)
    BY Zenon, ModDiffers
  <1>2. PICK k \in Int : b = size * k + (b % size)
    BY Zenon, ModDiffers
  <1>3. PICK r \in 0 .. size - 1 : r = a % size
    BY Zenon, ModRange
  <1>4. b - a = size * (k - q)
    BY <1>1, <1>2, <1>3
  <1>5. ~(k - q >= 1) /\ ~(k - q <= -1)
    BY <1>4
  <1> QED BY <1>4, <1>5

(* How far the write counter is ahead, whichever of the two wrapped last. *)
LEMMA Distance ==
  ASSUME NEW M \in Nat \ {0}, NEW a \in 0 .. M - 1, NEW b \in 0 .. M - 1
  PROVE  (b - a) % M = IF a <= b THEN b - a ELSE b - a + M
  <1>1. CASE a <= b
    BY <1>1, b - a \in 0 .. M - 1, ModSmall
  <1>2. CASE ~(a <= b)
    BY <1>2, b - a \in -M .. -1, ModBelow
  <1> QED BY <1>1, <1>2

(* A counter that advances by at most a full turn. *)
LEMMA Advance ==
  ASSUME NEW M \in Nat \ {0}, NEW a \in 0 .. M - 1, NEW n \in 0 .. M
  PROVE  (a + n) % M = IF a + n < M THEN a + n ELSE a + n - M
  <1>1. CASE a + n < M
    BY <1>1, a + n \in 0 .. M - 1, ModSmall
  <1>2. CASE ~(a + n < M)
    BY <1>2, a + n \in M .. 2 * M - 1, ModOver
  <1> QED BY <1>1, <1>2

----------------------------------------------------------------------------
(* Type correctness.                                                       *)

(* The constants as the lemmas above want them. *)
LEMMA Constants ==
  /\ UintMod \in Nat \ {0} /\ PIPESIZE \in Nat \ {0} /\ UintMod > PIPESIZE
  /\ N \in Nat \ {0} /\ 0 \in Byte
  BY PipeAssumption DEF Byte

(* What a wakeup leaves of the labels. *)
LEMMA WakeType ==
  ASSUME NEW S, NEW f \in [Proc -> {"user", "acquire", "loop", "asleep"}]
  PROVE  Wake(S, f) \in [Proc -> {"user", "acquire", "loop", "asleep"}]
  BY DEF Wake

(* A read returns as many bytes as it copied. *)
LEMMA LenCopied ==
  ASSUME NEW n \in Nat, NEW f, f = [j \in 1 .. n |-> data[(nread + j - 1) % PIPESIZE]]
  PROVE  Len(f) = n
  OBVIOUS

(* The initial state has the types. *)
LEMMA InitTypeInv == Init => TypeInv
  <1> SUFFICES ASSUME Init PROVE TypeInv
    OBVIOUS
  <1>1. data \in [0 .. PIPESIZE - 1 -> Byte]
    BY Constants DEF Init
  <1>2. nread \in 0 .. UintMod - 1 /\ nwrite \in 0 .. UintMod - 1
    BY Constants DEF Init
  <1>3. Used <= PIPESIZE
    <2>1. (0 - 0) % UintMod = 0
      BY Constants, ModSmall
    <2> QED BY <2>1, Constants DEF Init, Used
  <1>4. readopen \in BOOLEAN /\ writeopen \in BOOLEAN /\ freed \in BOOLEAN
    BY Zenon DEF Init
  <1>5. \A r \in Reader : Len(out[r]) <= N
    <2>1. Len(<<>>) = 0 /\ 0 <= N
      BY Constants
    <2>2. \A r \in Reader : out[r] = <<>>
      BY Zenon DEF Init
    <2> QED BY Zenon, <2>1, <2>2
  <1>6. i \in [Writer -> 0 .. N]
    BY Constants DEF Init
  <1>7. out = [r \in Reader |-> out[r]]
    BY DEF Init
  <1>8. /\ lock \in Proc \cup {None} /\ open \subseteq Proc /\ killed \subseteq Proc
        /\ pc \in [Proc -> {"user", "acquire", "loop", "asleep"}]
    BY DEF Init
  <1> QED BY Zenon, <1>1, <1>2, <1>3, <1>4, <1>5, <1>6, <1>7, <1>8 DEF TypeInv, TypeOK

(* The counters before a step, as the lemmas about them want them. *)
LEMMA Counters ==
  ASSUME TypeInv
  PROVE  /\ nread \in 0 .. UintMod - 1 /\ nwrite \in 0 .. UintMod - 1
         /\ (nwrite - nread) % UintMod <= PIPESIZE
  BY DEF TypeInv, TypeOK, Used

(* A byte written is one byte more in the buffer, which had room for it,   *)
(* also when nwrite wraps.                                                 *)
LEMMA WriteCounts ==
  ASSUME TypeInv, NEW w \in Writer, WriteByte(w)
  PROVE  /\ nwrite' \in 0 .. UintMod - 1 /\ Used \in 0 .. PIPESIZE - 1
         /\ (nwrite' - nread) % UintMod = Used + 1
  <1>0. /\ 1 \in 0 .. UintMod /\ PIPESIZE \in 0 .. UintMod /\ UintMod \in Nat \ {0}
        /\ nread \in 0 .. UintMod - 1 /\ nwrite \in 0 .. UintMod - 1
        /\ nwrite' = (nwrite + 1) % UintMod /\ nwrite # (nread + PIPESIZE) % UintMod
    BY Constants, Counters DEF WriteByte, Full
  <1>1. nwrite' = IF nwrite + 1 < UintMod THEN nwrite + 1 ELSE nwrite + 1 - UintMod
    BY Zenon, <1>0, Advance
  <1>2. nwrite # IF nread + PIPESIZE < UintMod THEN nread + PIPESIZE
                 ELSE nread + PIPESIZE - UintMod
    BY Zenon, <1>0, Advance
  <1>3. Used = IF nread <= nwrite THEN nwrite - nread ELSE nwrite - nread + UintMod
    BY Zenon, <1>0, Distance DEF Used
  <1>4. nwrite' \in 0 .. UintMod - 1
    BY <1>0, <1>1
  <1>5. (nwrite' - nread) % UintMod =
            IF nread <= nwrite' THEN nwrite' - nread ELSE nwrite' - nread + UintMod
    BY Zenon, <1>0, <1>4, Distance
  <1>6. Used \in 0 .. PIPESIZE - 1
    <2>1. Used <= PIPESIZE /\ PIPESIZE \in Nat \ {0} /\ UintMod \in Nat
      BY Constants DEF TypeInv, TypeOK
    <2>2. nread \in 0 .. UintMod - 1 /\ nwrite \in 0 .. UintMod - 1
      BY <1>0
    <2> QED BY <1>2, <1>3, <2>1, <2>2
  <1>7. (nwrite' - nread) % UintMod = Used + 1
    BY <1>0, <1>1, <1>3, <1>5, <1>6, Constants
  <1> QED BY <1>4, <1>6, <1>7

(* m bytes read are m bytes less, also when nread wraps.                   *)
LEMMA ReadCounts ==
  ASSUME TypeInv, NEW m \in 0 .. Used, nread' = (nread + m) % UintMod
  PROVE  /\ nread' \in 0 .. UintMod - 1 /\ m \in 0 .. UintMod
         /\ (nwrite - nread') % UintMod = Used - m
  <1>0. /\ UintMod \in Nat \ {0}
        /\ nread \in 0 .. UintMod - 1 /\ nwrite \in 0 .. UintMod - 1
    BY Constants, Counters
  <1>1. Used = IF nread <= nwrite THEN nwrite - nread ELSE nwrite - nread + UintMod
    BY Zenon, <1>0, Distance DEF Used
  <1>2. m \in 0 .. UintMod
    BY <1>0, <1>1
  <1>3. nread' = IF nread + m < UintMod THEN nread + m ELSE nread + m - UintMod
    BY Zenon, <1>0, <1>2, Advance
  <1>4. nread' \in 0 .. UintMod - 1
    BY <1>0, <1>2, <1>3
  <1>5. (nwrite - nread') % UintMod =
            IF nread' <= nwrite THEN nwrite - nread' ELSE nwrite - nread' + UintMod
    BY Zenon, <1>0, <1>4, Distance
  <1>6. (nwrite - nread') % UintMod = Used - m
    BY <1>0, <1>1, <1>2, <1>3, <1>5
  <1> QED BY <1>2, <1>4, <1>6

(* Every step keeps the types; the counters wrap within their bound. *)
LEMMA NextTypeInv == TypeInv /\ [Next]_vars => TypeInv'
  <1> SUFFICES ASSUME TypeInv, [Next]_vars PROVE TypeInv'
    OBVIOUS
  <1> DEFINE Label == {"user", "acquire", "loop", "asleep"}
  <1> USE Constants DEF TypeInv, TypeOK, AtLoop, Goto, ring, ends
  <1>1. ASSUME NEW p \in Proc, Call(p) PROVE TypeInv'
    BY SMTT(30), <1>1 DEF Call, Used
  <1>2. ASSUME NEW p \in Proc, Acquire(p) PROVE TypeInv'
    BY <1>2 DEF Acquire, Used
  <1>3. ASSUME NEW p \in Proc, Close(p) PROVE TypeInv'
    <2>1. readopen' \in BOOLEAN /\ writeopen' \in BOOLEAN /\ freed' \in BOOLEAN
      BY Zenon, <1>3 DEF Close
    <2>2. pc' \in [Proc -> Label]
      BY Zenon, <1>3, WakeType DEF Close
    <2>3. open' \subseteq Proc /\ UNCHANGED <<lock, data, nread, nwrite, killed, i, out>>
      BY <1>3 DEF Close
    <2> QED BY SMTT(30), <2>1, <2>2, <2>3 DEF Used
  <1>4. ASSUME NEW p \in Proc, Kill(p) PROVE TypeInv'
    BY SMTT(30), <1>4, WakeType DEF Kill, Used
  <1>5. ASSUME NEW w \in Writer, WriteFails(w) PROVE TypeInv'
    BY SMTT(30), <1>5 DEF WriteFails, Used, Proc
  <1>6. ASSUME NEW w \in Writer, WriteSleeps(w) PROVE TypeInv'
    BY Zenon, <1>6, WakeType DEF WriteSleeps, Used, Proc
  <1>7. ASSUME NEW w \in Writer, WriteByte(w) PROVE TypeInv'
    <2>1. i[w] \in Byte /\ i' \in [Writer -> 0 .. N]
      <3>1. i[w] \in 0 .. N /\ i[w] < N /\ i' = [i EXCEPT ![w] = @ + 1]
        BY <1>7 DEF WriteByte
      <3>2. i[w] + 1 \in 0 .. N
        BY <3>1
      <3> QED BY SMTT(30), <3>1, <3>2 DEF Byte
    <2>2. Place \in 0 .. PIPESIZE - 1
      BY ModRange DEF Place
    <2>3. data' \in [0 .. PIPESIZE - 1 -> Byte]
      BY <1>7, <2>1, <2>2 DEF WriteByte
    <2>4. nwrite' \in 0 .. UintMod - 1 /\ (nwrite' - nread) % UintMod <= PIPESIZE
      <3>1. nwrite' \in 0 .. UintMod - 1 /\ Used \in 0 .. PIPESIZE - 1
            /\ (nwrite' - nread) % UintMod = Used + 1
        BY Zenon, <1>7, WriteCounts
      <3> QED BY SMTT(30), <3>1
    <2>5. UNCHANGED <<lock, nread, readopen, writeopen, freed, open, killed, out, pc>>
      BY <1>7 DEF WriteByte
    <2> QED BY Zenon, <2>1, <2>3, <2>4, <2>5 DEF Used
  <1>8. ASSUME NEW w \in Writer, WriteReturns(w) PROVE TypeInv'
    <2>1. pc' \in [Proc -> Label]
      BY Zenon, <1>8, WakeType DEF WriteReturns, Proc
    <2>2. i' \in [Writer -> 0 .. N]
      BY <1>8 DEF WriteReturns
    <2>3. lock' = None /\ UNCHANGED <<data, nread, nwrite, readopen, writeopen, freed, open, killed, out>>
      BY <1>8 DEF WriteReturns
    <2> QED BY SMTT(30), <2>1, <2>2, <2>3 DEF Used
  <1>9. ASSUME NEW r \in Reader, ReadFails(r) PROVE TypeInv'
    BY SMTT(30), <1>9 DEF ReadFails, Used, Proc
  <1>10. ASSUME NEW r \in Reader, ReadSleeps(r) PROVE TypeInv'
    BY SMTT(30), <1>10 DEF ReadSleeps, Used, Proc
  <1>11. ASSUME NEW r \in Reader, ReadCopies(r) PROVE TypeInv'
    <2> DEFINE most == IF Used < N THEN Used ELSE N
    <2>1. PICK n \in 0 .. most :
            /\ nread' = (nread + (IF n = most THEN n ELSE n + 1)) % UintMod
            /\ out' = [out EXCEPT ![r] = [j \in 1 .. n |-> data[(nread + j - 1) % PIPESIZE]]]
      BY Zenon, <1>11 DEF ReadCopies
    <2>2. Used \in Nat
      <3>1. nwrite - nread \in Int /\ UintMod \in Nat \ {0}
        OBVIOUS
      <3>2. (nwrite - nread) % UintMod \in 0 .. UintMod - 1
        BY Zenon, <3>1, ModRange
      <3> QED BY <3>2 DEF Used
    <2>3. PICK m : m = IF n = most THEN n ELSE n + 1
      OBVIOUS
    <2>4. m \in 0 .. Used /\ n \in Nat /\ n <= N
      BY SMTT(30), <2>2, <2>3
    <2>5. /\ nread' \in 0 .. UintMod - 1
          /\ (nwrite - nread') % UintMod <= Used
      <3>1. nread' = (nread + m) % UintMod
        BY <2>1, <2>3
      <3>2. nread' \in 0 .. UintMod - 1 /\ (nwrite - nread') % UintMod = Used - m
        BY Zenon, <2>4, <3>1, ReadCounts
      <3> QED BY SMTT(30), <2>2, <2>4, <3>2
    <2>6. \A q \in Reader : Len(out'[q]) <= N
      BY <2>1, <2>4, LenCopied
    <2>7. out' = [q \in Reader |-> out'[q]]
      BY Zenon, <2>1
    <2>8. pc' \in [Proc -> Label]
      BY Zenon, <1>11, WakeType DEF ReadCopies, AfterRead, Proc
    <2>9. lock' = None /\ UNCHANGED <<data, nwrite, readopen, writeopen, freed, open, killed, i>>
      BY <1>11 DEF ReadCopies
    <2>10. Used' <= PIPESIZE
      <3>1. nwrite - nread' \in Int /\ UintMod \in Nat \ {0}
        BY <2>5
      <3>2. (nwrite - nread') % UintMod \in 0 .. UintMod - 1
        BY Zenon, <3>1, ModRange
      <3>3. Used' = (nwrite - nread') % UintMod
        BY <2>9 DEF Used
      <3>4. (nwrite - nread') % UintMod <= PIPESIZE
        BY <2>2, <2>5, <3>2
      <3> QED BY <3>3, <3>4
    <2> QED BY Zenon, <2>5, <2>6, <2>7, <2>8, <2>9, <2>10
  <1>12. CASE UNCHANGED vars
    BY SMTT(30), <1>12 DEF vars, Used
  <1> QED BY Zenon, <1>1, <1>2, <1>3, <1>4, <1>5, <1>6, <1>7, <1>8, <1>9, <1>10, <1>11, <1>12
          DEF Next, WriteStep, ReadStep, Done

(* The counters of a pipe stay within their width, and nwrite is never     *)
(* more than PIPESIZE ahead of nread, also when they wrap.                 *)
THEOREM PipeTypes == Spec => []TypeOK
  <1>1. TypeInv => TypeOK
    BY DEF TypeInv
  <1> QED BY <1>1, InitTypeInv, NextTypeInv, PTL DEF Spec

----------------------------------------------------------------------------
(* The ends, the lock and the sleepers.                                    *)

(* The initial state satisfies the invariant. *)
LEMMA InitCallInv == Init => CallInv
  <1> SUFFICES ASSUME Init PROVE CallInv
    OBVIOUS
  <1>1. LockInv /\ SleepInv
    BY PipeAssumption DEF Init, LockInv, SleepInv, Proc
  <1>2. OpenInv
    BY Zenon DEF Init, OpenInv
  <1> QED BY <1>1, <1>2 DEF CallInv

(* Every step of any process preserves the invariant. *)
LEMMA NextCallInv == TypeInv /\ CallInv /\ [Next]_vars => CallInv'
  <1> SUFFICES ASSUME TypeInv, CallInv, [Next]_vars PROVE CallInv'
    OBVIOUS
  <1>0. /\ Reader \cap Writer = {} /\ None \notin Proc
        /\ lock \in Proc \cup {None} /\ open \subseteq Proc
        /\ readopen \in BOOLEAN /\ writeopen \in BOOLEAN /\ freed \in BOOLEAN
        /\ pc \in [Proc -> {"user", "acquire", "loop", "asleep"}]
    BY PipeAssumption DEF TypeInv, TypeOK, Proc
  <1> USE <1>0 DEF CallInv, LockInv, OpenInv, SleepInv, AtLoop, Goto, ring, ends, Proc
  <1>1. ASSUME NEW p \in Proc, Call(p) PROVE CallInv'
    BY <1>1 DEF Call
  <1>2. ASSUME NEW p \in Proc, Acquire(p) PROVE CallInv'
    BY <1>2 DEF Acquire
  <1>3. ASSUME NEW p \in Proc, Close(p) PROVE CallInv'
    BY Zenon, <1>3 DEF Close, Wake, FreeWhenBoth
  <1>4. ASSUME NEW p \in Proc, Kill(p) PROVE CallInv'
    BY <1>4 DEF Kill, Wake
  <1>5. ASSUME NEW w \in Writer, WriteFails(w) PROVE CallInv'
    BY <1>5 DEF WriteFails
  <1>6. ASSUME NEW w \in Writer, WriteSleeps(w) PROVE CallInv'
    BY Zenon, <1>6 DEF WriteSleeps, Wake
  <1>7. ASSUME NEW w \in Writer, WriteByte(w) PROVE CallInv'
    BY <1>7 DEF WriteByte
  <1>8. ASSUME NEW w \in Writer, WriteReturns(w) PROVE CallInv'
    BY Zenon, <1>8 DEF WriteReturns, Wake
  <1>9. ASSUME NEW r \in Reader, ReadFails(r) PROVE CallInv'
    BY <1>9 DEF ReadFails
  <1>10. ASSUME NEW r \in Reader, ReadSleeps(r) PROVE CallInv'
    BY <1>10 DEF ReadSleeps, EmptyAndOpen
  <1>11. ASSUME NEW r \in Reader, ReadCopies(r) PROVE CallInv'
    BY Zenon, <1>11 DEF ReadCopies, EmptyAndOpen, AfterRead, Wake
  <1>12. CASE UNCHANGED vars
    BY <1>12 DEF vars
  <1> QED BY Zenon, <1>1, <1>2, <1>3, <1>4, <1>5, <1>6, <1>7, <1>8, <1>9, <1>10, <1>11, <1>12
          DEF Next, WriteStep, ReadStep, Done

(* The three invariants together. *)
LEMMA SpecCallInv == Spec => [](TypeInv /\ CallInv)
  BY InitTypeInv, NextTypeInv, InitCallInv, NextCallInv, PTL DEF Spec

(* pipeclose gives the page back only after the last process that had      *)
(* either end has left its last call.                                      *)
THEOREM PipeNoUseAfterFree == Spec => []NoUseAfterFree
  <1>1. TypeInv /\ CallInv => NoUseAfterFree
    BY PipeAssumption
       DEF TypeInv, TypeOK, CallInv, LockInv, OpenInv, NoUseAfterFree, Proc
  <1> QED BY <1>1, SpecCallInv, PTL

(* No wakeup of a reader is lost, except the one that a write that a kill  *)
(* ends does not make.                                                     *)
THEOREM PipeReadersSleepEmpty == Spec => []ReadersSleepEmpty
  <1>1. TypeInv /\ CallInv => ReadersSleepEmpty
    BY PipeAssumption DEF CallInv, SleepInv, ReadersSleepEmpty, Proc
  <1> QED BY <1>1, SpecCallInv, PTL

----------------------------------------------------------------------------
(* The ring buffer implements the bounded queue of ByteStream.             *)

(* Contents is a sequence of as many bytes as the counters are apart. *)
ContentsOK ==
    /\ Used \in Nat /\ Contents \in Seq(Byte) /\ Len(Contents) = Used
    /\ \A j \in 1 .. Used : Contents[j] = data[(nread + j - 1) % PIPESIZE]

(* See ContentsOK. *)
LEMMA ContentsSeq == TypeInv => ContentsOK
  <1> SUFFICES ASSUME TypeInv PROVE ContentsOK
    OBVIOUS
  <1>1. Used \in Nat
    <2>1. nwrite - nread \in Int /\ UintMod \in Nat \ {0}
      BY Constants, Counters
    <2>2. (nwrite - nread) % UintMod \in 0 .. UintMod - 1
      BY Zenon, <2>1, ModRange
    <2> QED BY <2>2 DEF Used
  <1>2. \A j \in 1 .. Used : data[(nread + j - 1) % PIPESIZE] \in Byte
    <2> SUFFICES ASSUME NEW j \in 1 .. Used
                 PROVE  data[(nread + j - 1) % PIPESIZE] \in Byte
      OBVIOUS
    <2>1. nread + j - 1 \in Int /\ PIPESIZE \in Nat \ {0}
      BY <1>1, Constants, Counters
    <2>2. (nread + j - 1) % PIPESIZE \in 0 .. PIPESIZE - 1
      BY Zenon, <2>1, ModRange
    <2>3. data \in [0 .. PIPESIZE - 1 -> Byte]
      BY DEF TypeInv, TypeOK
    <2> QED BY Zenon, <2>2, <2>3
  <1>3. Contents \in [1 .. Used -> Byte]
    BY Zenon, <1>2 DEF Contents
  <1>4. Contents \in Seq(Byte) /\ Len(Contents) = Used
    BY <1>1, <1>3
  <1>5. \A j \in 1 .. Used : Contents[j] = data[(nread + j - 1) % PIPESIZE]
    BY Zenon DEF Contents
  <1> QED BY <1>1, <1>4, <1>5 DEF ContentsOK

(* The place of the next byte is the one after the bytes in the buffer.    *)
LEMMA WritePlace ==
  ASSUME TypeInv
  PROVE  Place = (nread + Used) % PIPESIZE
  <1>0. /\ PIPESIZE \in Nat \ {0} /\ UintMod \in Nat \ {0} /\ UintMod % PIPESIZE = 0
        /\ nread \in 0 .. UintMod - 1 /\ nwrite \in 0 .. UintMod - 1 /\ UintMod \in Nat
    BY Constants, Counters, PipeAssumption
  <1>1. Used = IF nread <= nwrite THEN nwrite - nread ELSE nwrite - nread + UintMod
    BY Zenon, <1>0, Distance DEF Used
  <1>2. CASE nread <= nwrite
    <2>1. nread + Used = nwrite
      BY <1>0, <1>1, <1>2
    <2> QED BY Zenon, <2>1 DEF Place
  <1>3. CASE ~(nread <= nwrite)
    <2>1. /\ nread + Used = nwrite + UintMod
          /\ nwrite + UintMod \in Int /\ (nwrite + UintMod) - UintMod = nwrite
      BY <1>0, <1>1, <1>3
    <2>2. ((nwrite + UintMod) - UintMod) % PIPESIZE = (nwrite + UintMod) % PIPESIZE
      BY Zenon, <1>0, <2>1, SamePlace
    <2> QED BY Zenon, <2>1, <2>2 DEF Place
  <1> QED BY <1>2, <1>3

(* The j-th byte after a read is the one m + j places after the old nread. *)
LEMMA ReadPlace ==
  ASSUME TypeInv, NEW m \in 0 .. UintMod, nread' = (nread + m) % UintMod, NEW j \in Int
  PROVE  (nread' + j) % PIPESIZE = (nread + m + j) % PIPESIZE
  <1>0. /\ PIPESIZE \in Nat \ {0} /\ UintMod \in Nat \ {0} /\ UintMod % PIPESIZE = 0
        /\ nread \in 0 .. UintMod - 1 /\ UintMod \in Nat
    BY Constants, Counters, PipeAssumption
  <1>1. nread' = IF nread + m < UintMod THEN nread + m ELSE nread + m - UintMod
    BY Zenon, <1>0, Advance
  <1>2. CASE nread + m < UintMod
    <2>1. nread' = nread + m
      BY <1>1, <1>2
    <2> QED BY Zenon, <2>1
  <1>3. CASE ~(nread + m < UintMod)
    <2>1. nread' + j = (nread + m + j) - UintMod /\ nread + m + j \in Int
      BY <1>0, <1>1, <1>3
    <2>2. ((nread + m + j) - UintMod) % PIPESIZE = (nread + m + j) % PIPESIZE
      BY Zenon, <1>0, <2>1, SamePlace
    <2> QED BY Zenon, <2>1, <2>2
  <1> QED BY <1>2, <1>3

(* A byte written is appended, and no byte in the pipe is overwritten.     *)
LEMMA WriteAppends ==
  ASSUME TypeInv, TypeInv', NEW w \in Writer, WriteByte(w)
  PROVE  /\ Len(Contents) < PIPESIZE /\ i[w] \in Byte
         /\ Contents' = Append(Contents, i[w])
  <1>1. /\ nread' = nread /\ data' = [data EXCEPT ![Place] = i[w]] /\ i[w] \in 0 .. N /\ i[w] < N
        /\ data \in [0 .. PIPESIZE - 1 -> Byte] /\ PIPESIZE \in Nat \ {0}
    BY Constants DEF WriteByte, TypeInv, TypeOK
  <1>2. i[w] \in Byte
    BY <1>1, Constants DEF Byte
  <1>3. /\ Used \in Nat /\ Contents \in Seq(Byte) /\ Len(Contents) = Used
        /\ \A j \in 1 .. Used : Contents[j] = data[(nread + j - 1) % PIPESIZE]
    BY ContentsSeq DEF ContentsOK
  <1>4. Used \in 0 .. PIPESIZE - 1 /\ Used' = Used + 1
    BY Zenon, <1>1, WriteCounts DEF Used
  <1>5. /\ Contents' \in Seq(Byte) /\ Len(Contents') = Used + 1
        /\ \A j \in 1 .. Used + 1 : Contents'[j] = data'[(nread + j - 1) % PIPESIZE]
    <2>1. /\ Contents' \in Seq(Byte) /\ Len(Contents') = Used'
          /\ \A j \in 1 .. Used' : Contents'[j] = data'[(nread' + j - 1) % PIPESIZE]
      <3>1. ContentsOK'
        BY ContentsSeq, PTL
      <3> QED BY <3>1 DEF ContentsOK
    <2> QED BY Zenon, <1>1, <1>4, <2>1
  <1>6. Place = (nread + Used) % PIPESIZE
    BY WritePlace
  <1>7. ASSUME NEW j \in 1 .. Used PROVE Contents'[j] = Contents[j]
    <2>1. /\ nread + j - 1 \in Int /\ nread + Used \in Int
          /\ nread + j - 1 < nread + Used /\ nread + Used < (nread + j - 1) + PIPESIZE
          /\ j \in 1 .. Used + 1
      <3>1. nread \in Nat /\ PIPESIZE \in Nat /\ Used \in 0 .. PIPESIZE - 1
        BY <1>4, Counters, Constants
      <3> QED BY <3>1
    <2>2. (nread + j - 1) % PIPESIZE # Place
      BY Zenon, <1>1, <1>6, <2>1, OtherPlace
    <2>3. (nread + j - 1) % PIPESIZE \in 0 .. PIPESIZE - 1
      BY Zenon, <1>1, <2>1, ModRange
    <2>4. data'[(nread + j - 1) % PIPESIZE] = data[(nread + j - 1) % PIPESIZE]
      BY Zenon, <1>1, <2>2, <2>3
    <2> QED BY Zenon, <1>3, <1>5, <2>1, <2>4
  <1>8. Contents'[Used + 1] = i[w]
    <2>1. Used + 1 \in 1 .. Used + 1 /\ nread + (Used + 1) - 1 = nread + Used
          /\ nread + Used \in Int
      BY <1>3, Counters, Constants
    <2>2. Place \in 0 .. PIPESIZE - 1
      BY Zenon, <1>1, <1>6, <2>1, ModRange
    <2>3. data'[Place] = i[w]
      BY Zenon, <1>1, <2>2
    <2> QED BY Zenon, <1>5, <1>6, <2>1, <2>3
  <1>9. Contents' = Append(Contents, i[w])
    BY <1>2, <1>3, <1>5, <1>7, <1>8
  <1>10. Len(Contents) < PIPESIZE
    <2>1. Len(Contents) = Used /\ PIPESIZE \in Nat
      BY <1>3, Constants
    <2> QED BY <1>4, <2>1
  <1> QED BY Zenon, <1>2, <1>9, <1>10

(* What is left of a sequence without its first m elements.                *)
LEMMA Rest ==
  ASSUME NEW S, NEW s \in Seq(S), NEW rest \in Seq(S), NEW m \in 0 .. Len(s),
         Len(rest) = Len(s) - m, \A j \in 1 .. Len(s) - m : rest[j] = s[m + j]
  PROVE  rest = SubSeq(s, m + 1, Len(s))
  <1> DEFINE tail == SubSeq(s, m + 1, Len(s))
  <1>1. PICK n \in Nat : n = Len(s) - m
    <2>1. Len(s) - m \in Nat
      OBVIOUS
    <2> QED BY Zenon, <2>1
  <1>2. tail \in Seq(S) /\ Len(tail) = n
    BY <1>1
  <1>3. \A j \in 1 .. n : tail[j] = s[m + j]
    BY <1>1
  <1> HIDE DEF tail
  <1>4. tail \in [1 .. n -> S] /\ rest \in [1 .. n -> S]
    BY <1>1, <1>2
  <1>5. \A j \in 1 .. n : rest[j] = tail[j]
    BY <1>1, <1>3
  <1>6. rest = tail
    BY <1>4, <1>5
  <1> QED BY <1>6 DEF tail

(* A read takes the oldest m bytes, and returns n of them, in order.       *)
LEMMA ReadTakes ==
  ASSUME TypeInv, TypeInv', NEW m \in 0 .. Used, NEW n \in 0 .. m,
         nread' = (nread + m) % UintMod, UNCHANGED <<data, nwrite>>
  PROVE  /\ Contents' = SubSeq(Contents, m + 1, Len(Contents))
         /\ [j \in 1 .. n |-> data[(nread + j - 1) % PIPESIZE]] = SubSeq(Contents, 1, n)
  <1>1. /\ Used \in Nat /\ Contents \in Seq(Byte) /\ Len(Contents) = Used
        /\ \A j \in 1 .. Used : Contents[j] = data[(nread + j - 1) % PIPESIZE]
    BY ContentsSeq DEF ContentsOK
  <1>2. m \in 0 .. UintMod /\ Used' = Used - m
    BY Zenon, ReadCounts DEF Used
  <1>3. /\ Contents' \in Seq(Byte) /\ Len(Contents') = Used - m
        /\ \A j \in 1 .. Used - m : Contents'[j] = data[(nread' + j - 1) % PIPESIZE]
    <2>1. /\ Contents' \in Seq(Byte) /\ Len(Contents') = Used'
          /\ \A j \in 1 .. Used' : Contents'[j] = data'[(nread' + j - 1) % PIPESIZE]
      <3>1. ContentsOK'
        BY ContentsSeq, PTL
      <3> QED BY <3>1 DEF ContentsOK
    <2> QED BY Zenon, <1>2, <2>1
  <1>4. ASSUME NEW j \in 1 .. Used - m PROVE Contents'[j] = Contents[m + j]
    <2>1. /\ PIPESIZE \in Nat \ {0} /\ UintMod \in Nat \ {0} /\ UintMod % PIPESIZE = 0
          /\ nread \in 0 .. UintMod - 1 /\ j - 1 \in Int
      BY <1>1, Constants, Counters, PipeAssumption
    <2>2. (nread' + (j - 1)) % PIPESIZE = (nread + m + (j - 1)) % PIPESIZE
      BY Zenon, <1>2, <2>1, ReadPlace
    <2>3. /\ nread + m + (j - 1) = nread + (m + j) - 1 /\ m + j \in 1 .. Used
      BY <1>1, <2>1
    <2>4. nread' + (j - 1) = nread' + j - 1
      BY <1>1, ReadCounts, Constants
    <2>5. Contents'[j] = data[(nread' + (j - 1)) % PIPESIZE]
      BY Zenon, <1>3, <2>4
    <2>6. Contents[m + j] = data[(nread + m + (j - 1)) % PIPESIZE]
      BY Zenon, <1>1, <2>3
    <2> QED BY Zenon, <2>2, <2>5, <2>6
  <1>5. Contents' = SubSeq(Contents, m + 1, Len(Contents))
    <2>1. m \in 0 .. Len(Contents) /\ Contents \in Seq(Byte) /\ Contents' \in Seq(Byte)
      BY <1>1, <1>3
    <2>2. \A j \in 1 .. Len(Contents) - m : Contents'[j] = Contents[m + j]
      BY <1>1, <1>4
    <2>3. Len(Contents') = Len(Contents) - m
      BY <1>1, <1>3
    <2> QED BY <2>1, <2>2, <2>3, Rest
  <1>6. \A j \in 1 .. n : j \in 1 .. Used
    BY <1>1
  <1>7. [j \in 1 .. n |-> data[(nread + j - 1) % PIPESIZE]] = [j \in 1 .. n |-> Contents[j]]
    BY Zenon, <1>1, <1>6
  <1>8. [j \in 1 .. n |-> Contents[j]] = SubSeq(Contents, 1, n)
    BY <1>1
  <1> QED BY <1>5, <1>7, <1>8

(* A read takes something, unless the pipe is empty and closed: the bytes  *)
(* it returns and the one that copyout failed for.                         *)
LEMMA ReadGets ==
  ASSUME TypeInv, TypeInv', CallInv, NEW r \in Reader, ReadCopies(r)
  PROVE  \E k \in 0 .. PIPESIZE, lost \in 0 .. 1 : Stream!Get(r, k, lost)
  <1> DEFINE most == IF Used < N THEN Used ELSE N
  <1>1. PICK n \in 0 .. most :
          /\ nread' = (nread + (IF n = most THEN n ELSE n + 1)) % UintMod
          /\ out' = [out EXCEPT ![r] = [j \in 1 .. n |-> data[(nread + j - 1) % PIPESIZE]]]
    BY Zenon DEF ReadCopies
  <1>2. Used \in Nat /\ Used <= PIPESIZE /\ N \in Nat \ {0} /\ PIPESIZE \in Nat
    BY SMTT(30), ContentsSeq, Constants DEF ContentsOK, TypeInv, TypeOK
  <1>3. PICK lost \in 0 .. 1 : lost = IF n = most THEN 0 ELSE 1
    OBVIOUS
  <1>4. /\ n \in 0 .. PIPESIZE /\ n + lost \in 0 .. Used /\ n \in 0 .. n + lost
        /\ n + lost <= N /\ (n + lost = 0 => Used = 0)
        /\ nread' = (nread + (n + lost)) % UintMod
    <2>1. n + lost = IF n = most THEN n ELSE n + 1
      BY <1>2, <1>3
    <2>2. nread' = (nread + (n + lost)) % UintMod
      BY Zenon, <1>1, <2>1
    <2>3. /\ n \in 0 .. PIPESIZE /\ n + lost \in 0 .. Used /\ n \in 0 .. n + lost
          /\ n + lost <= N /\ (n + lost = 0 => Used = 0)
      BY <1>2, <1>3
    <2> QED BY Zenon, <2>2, <2>3
  <1>5. UNCHANGED <<data, nwrite, open>>
    BY DEF ReadCopies, ends
  <1>6. /\ Contents' = SubSeq(Contents, n + lost + 1, Len(Contents))
        /\ out' = [out EXCEPT ![r] = SubSeq(Contents, 1, n)]
    <2>1. /\ Contents' = SubSeq(Contents, n + lost + 1, Len(Contents))
          /\ [j \in 1 .. n |-> data[(nread + j - 1) % PIPESIZE]] = SubSeq(Contents, 1, n)
      BY SMTT(30), <1>4, <1>5, ReadTakes
    <2> QED BY Zenon, <1>1, <2>1
  <1>7. Len(Contents) = Used /\ Contents \in Seq(Byte)
    BY ContentsSeq DEF ContentsOK
  <1>8. r \in open
    BY DEF ReadCopies, AtLoop, CallInv, OpenInv, Proc
  <1>9. ASSUME Used = 0 PROVE Contents = <<>> /\ open \cap Writer = {}
    <2>1. Contents = <<>>
      BY <1>7, <1>9
    <2>2. nread = nwrite
      <3>1. /\ UintMod \in Nat \ {0}
            /\ nread \in 0 .. UintMod - 1 /\ nwrite \in 0 .. UintMod - 1
        BY Constants, Counters
      <3>2. Used = IF nread <= nwrite THEN nwrite - nread ELSE nwrite - nread + UintMod
        BY Zenon, <3>1, Distance DEF Used
      <3> QED BY <1>9, <3>1, <3>2
    <2>3. ~writeopen
      BY <2>2 DEF ReadCopies, EmptyAndOpen
    <2> QED BY <2>1, <2>3 DEF CallInv, OpenInv
  <1>10. Stream!Get(r, n, lost)
    BY <1>4, <1>5, <1>6, <1>7, <1>8, <1>9 DEF Stream!Get
  <1> QED BY <1>4, <1>10

(* Every step of the pipe is a step of the queue, or none.                 *)
LEMMA StreamStep ==
  TypeInv /\ TypeInv' /\ CallInv /\ [Next]_vars => [Stream!Next]_(Stream!svars)
  <1> SUFFICES ASSUME TypeInv, TypeInv', CallInv, [Next]_vars
               PROVE  [Stream!Next]_(Stream!svars)
    OBVIOUS
  <1>0. UNCHANGED ring => Contents' = Contents
    BY DEF ring, Contents, Used
  <1> USE DEF Stream!svars
  <1>1. ASSUME NEW p \in Proc, Call(p) PROVE [Stream!Next]_(Stream!svars)
    <2>1. UNCHANGED <<ring, open>> /\ p \in open
      BY <1>1 DEF Call, ends
    <2>2. CASE p \in Reader
      <3>1. out' = [out EXCEPT ![p] = <<>>]
        BY <1>1, <2>2 DEF Call, TypeInv
      <3>2. Stream!Ask(p)
        BY <1>0, <2>1, <3>1 DEF Stream!Ask
      <3> QED BY <2>2, <3>2 DEF Stream!Next
    <2>3. CASE p \notin Reader
      <3>1. out' = out
        BY <1>1, <2>3 DEF Call, TypeInv
      <3> QED BY <1>0, <2>1, <3>1
    <2> QED BY <2>2, <2>3
  <1>2. ASSUME NEW p \in Proc, Acquire(p) PROVE [Stream!Next]_(Stream!svars)
    BY <1>0, <1>2 DEF Acquire, ends
  <1>3. ASSUME NEW p \in Proc, Close(p) PROVE [Stream!Next]_(Stream!svars)
    BY Zenon, <1>0, <1>3 DEF Close, Stream!Close, Stream!Next, Proc
  <1>4. ASSUME NEW p \in Proc, Kill(p) PROVE [Stream!Next]_(Stream!svars)
    BY <1>0, <1>4 DEF Kill, ends
  <1>5. ASSUME NEW w \in Writer, WriteFails(w) PROVE [Stream!Next]_(Stream!svars)
    BY <1>0, <1>5 DEF WriteFails, ends
  <1>6. ASSUME NEW w \in Writer, WriteSleeps(w) PROVE [Stream!Next]_(Stream!svars)
    BY <1>0, <1>6 DEF WriteSleeps, ends
  <1>7. ASSUME NEW w \in Writer, WriteByte(w) PROVE [Stream!Next]_(Stream!svars)
    <2>1. w \in open
      BY <1>7 DEF WriteByte, AtLoop, CallInv, OpenInv, Proc
    <2>2. Stream!Put(w, i[w]) /\ i[w] \in Byte
      BY Zenon, <1>7, <2>1, WriteAppends DEF WriteByte, ends, Stream!Put
    <2> QED BY <2>2 DEF Stream!Next
  <1>8. ASSUME NEW w \in Writer, WriteReturns(w) PROVE [Stream!Next]_(Stream!svars)
    BY <1>0, <1>8 DEF WriteReturns, ends
  <1>9. ASSUME NEW r \in Reader, ReadFails(r) PROVE [Stream!Next]_(Stream!svars)
    BY <1>0, <1>9 DEF ReadFails, ends
  <1>10. ASSUME NEW r \in Reader, ReadSleeps(r) PROVE [Stream!Next]_(Stream!svars)
    BY <1>0, <1>10 DEF ReadSleeps, ends
  <1>11. ASSUME NEW r \in Reader, ReadCopies(r) PROVE [Stream!Next]_(Stream!svars)
    BY <1>11, ReadGets DEF Stream!Next
  <1>12. CASE UNCHANGED vars
    BY <1>0, <1>12 DEF vars, ring
  <1> QED BY <1>1, <1>2, <1>3, <1>4, <1>5, <1>6, <1>7, <1>8, <1>9, <1>10, <1>11, <1>12
          DEF Next, WriteStep, ReadStep, Done

(* The bytes come out of the pipe in the order in which they went in, none *)
(* twice and none lost but at a failed copyout, and a read returns nothing *)
(* only at the end of file, whichever way the counters wrap.               *)
THEOREM PipeImplementsByteStream == Spec => ImplementsByteStream
  <1>1. Init => Stream!Init
    <2> SUFFICES ASSUME Init PROVE Stream!Init
      OBVIOUS
    <2>1. Contents = <<>>
      <3>1. Used = 0
        <4>1. (0 - 0) % UintMod = 0
          BY Constants, ModSmall
        <4> QED BY <4>1 DEF Init, Used
      <3> QED BY <3>1 DEF Contents
    <2> QED BY <2>1 DEF Init, Stream!Init, Proc
  <1> QED
    BY <1>1, SpecCallInv, StreamStep, PTL DEF Spec, ImplementsByteStream, Stream!Spec
=============================================================================
