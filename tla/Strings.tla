------------------------------ MODULE Strings -------------------------------
(***************************************************************************)
(* The memory and string functions of the kernel (kernel/string.c), and    *)
(* memmove of the user library (user/ulib.c), byte by byte over a memory   *)
(* that maps addresses to bytes.  NUL is the byte 0.                       *)
(***************************************************************************)
EXTENDS Integers, FiniteSets, FiniteSetsExt

NUL == 0

(* The loops that copy n bytes upwards, and downwards from the ends d, s.  *)
RECURSIVE CopyUp(_, _, _, _), CopyDown(_, _, _, _)
CopyUp(mem, d, s, n) ==
    IF n = 0 THEN mem ELSE CopyUp([mem EXCEPT ![d] = mem[s]], d + 1, s + 1, n - 1)
CopyDown(mem, d, s, n) ==
    IF n = 0 THEN mem ELSE CopyDown([mem EXCEPT ![d - 1] = mem[s - 1]], d - 1, s - 1, n - 1)

BackwardNever(d, s, n) == FALSE
Backward(d, s, n) == s < d /\ s + n > d

KernelMemmove(mem, d, s, n) ==
    IF Backward(d, s, n) THEN CopyDown(mem, d + n, s + n, n) ELSE CopyUp(mem, d, s, n)
UserMemmove(mem, d, s, n) ==
    IF s > d THEN CopyUp(mem, d, s, n) ELSE CopyDown(mem, d + n, s + n, n)

Memset(mem, d, c, n) == [a \in DOMAIN mem |-> IF a \in d .. d + n - 1 THEN c ELSE mem[a]]

RECURSIVE Memcmp(_, _, _, _), Strncmp(_, _, _, _), CopyString(_, _, _, _), StrlenFrom(_, _, _)
Memcmp(mem, p, q, n) ==
    IF n = 0 THEN 0
    ELSE IF mem[p] # mem[q] THEN mem[p] - mem[q]
    ELSE Memcmp(mem, p + 1, q + 1, n - 1)

Strncmp(mem, p, q, n) ==
    IF n > 0 /\ mem[p] # NUL /\ mem[p] = mem[q] THEN Strncmp(mem, p + 1, q + 1, n - 1)
    ELSE IF n = 0 THEN 0 ELSE mem[p] - mem[q]

(* The loop of strncpy that copies up to a NUL: memory, s and n after it.  *)
CopyString(mem, s, t, n) ==
    IF n = 0 THEN <<mem, s, 0>>
    ELSE IF mem[t] = NUL THEN <<[mem EXCEPT ![s] = NUL], s + 1, n - 1>>
    ELSE CopyString([mem EXCEPT ![s] = mem[t]], s + 1, t + 1, n - 1)

Strncpy(mem, s, t, n) ==
    LET c == CopyString(mem, s, t, n) IN Memset(c[1], c[2], NUL, c[3])

(* The copy stops at n - 1 characters or behind the NUL, which the last    *)
(* store then follows.                                                     *)
Safestrcpy(mem, s, t, n) ==
    IF n <= 0 THEN mem
    ELSE LET c == CopyString(mem, s, t, n - 1) IN [c[1] EXCEPT ![c[2]] = NUL]

StrlenFrom(mem, s, n) == IF mem[s + n] = NUL THEN n ELSE StrlenFrom(mem, s, n + 1)
Strlen(mem, s) == StrlenFrom(mem, s, 0)

----------------------------------------------------------------------------
(* Both memmove functions copy as if all bytes were read first, also when  *)
(* the source and the destination overlap.                                 *)
Moved(mem, d, s, n) == [a \in DOMAIN mem |-> IF a \in d .. d + n - 1 THEN mem[s + a - d] ELSE mem[a]]
MovesExactly(mem, d, s, n) ==
    KernelMemmove(mem, d, s, n) = Moved(mem, d, s, n) /\ UserMemmove(mem, d, s, n) = Moved(mem, d, s, n)

(* A name that dirlink stores with strncpy in n bytes, without room for a  *)
(* NUL when it is long, is the one strncmp finds for another name exactly  *)
(* when the two agree in their first n characters; safestrcpy leaves a     *)
(* string that fits and begins the original.                               *)
Text(mem, s) == [k \in 0 .. Strlen(mem, s) - 1 |-> mem[s + k]]
Cut(t, n) == [k \in {x \in DOMAIN t : x < n} |-> t[k]]
NamesKept(mem, d, s, t, n) ==
    /\ (Strncmp(Strncpy(mem, d, s, n), d, t, n) = 0) <=> (Cut(Text(mem, s), n) = Cut(Text(mem, t), n))
    /\ n > 0 => Text(Safestrcpy(mem, d, s, n), d) = Cut(Text(mem, s), n - 1)
    /\ (Memcmp(mem, s, t, n) = 0) <=> (\A k \in 0 .. n - 1 : mem[s + k] = mem[t + k])
    /\ \A a \in DOMAIN mem \ (d .. d + n - 1) :
          Strncpy(mem, d, s, n)[a] = mem[a] /\ Safestrcpy(mem, d, s, n)[a] = mem[a]
=============================================================================
