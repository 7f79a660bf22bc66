-------------------------------- MODULE Grep --------------------------------
(***************************************************************************)
(* grep (user/grep.c): the matcher and the loop that cuts its input into   *)
(* lines.  The input comes from a file, a pipe or the console, so a read   *)
(* may return any part of what was asked for.                              *)
(***************************************************************************)
EXTENDS Naturals, Sequences, FiniteSets, SequencesExt

CONSTANTS
    BufSize,    \* sizeof(buf)
    Jobs        \* pairs of a pattern and an input

VARIABLES
    pattern, text,  \* the arguments
    rest,           \* what is still unread
    buf,            \* the first m characters of buf
    out,            \* the lines written
    done

vars == <<pattern, text, rest, buf, out, done>>

NewLine == "n"
NUL == "0"

----------------------------------------------------------------------------
(* match, matchhere and matchstar, on what is left of both strings.        *)
RECURSIVE MatchHere(_, _), MatchStar(_, _, _)

One(c, t) == t # <<>> /\ (c = "." \/ c = Head(t))

MatchHere(re, t) ==
    IF re = <<>> THEN TRUE
    ELSE IF Len(re) > 1 /\ re[2] = "*" THEN MatchStar(re[1], Tail(Tail(re)), t)
    ELSE IF re = <<"$">> THEN t = <<>>
    ELSE One(re[1], t) /\ MatchHere(Tail(re), Tail(t))

MatchStarOnce(c, re, t) == MatchHere(re, t) \/ (One(c, t) /\ MatchHere(re, Tail(t)))
MatchStar(c, re, t) == MatchHere(re, t) \/ (One(c, t) /\ MatchStar(c, re, Tail(t)))

Match(re, t) ==
    IF re # <<>> /\ re[1] = "^" THEN MatchHere(Tail(re), t)
    ELSE \E k \in 1 .. Len(t) + 1 : MatchHere(re, SubSeq(t, k, Len(t)))

----------------------------------------------------------------------------
(* The lines complete in buf, up to a NUL, where strchr stops looking, and *)
(* what is left over.                                                      *)
Seen(b) == SelectInSeq(b, LAMBDA c : c = NUL)
Ends(b) == {k \in 1 .. Len(b) : b[k] = NewLine /\ (Seen(b) = 0 \/ k < Seen(b))}
RECURSIVE Cut(_)
Cut(b) ==
    IF Ends(b) = {} THEN [lines |-> <<>>, left |-> b]
    ELSE LET k == CHOOSE x \in Ends(b) : \A y \in Ends(b) : x <= y
             c == Cut(SubSeq(b, k + 1, Len(b)))
         IN  [lines |-> <<SubSeq(b, 1, k - 1)>> \o c.lines, left |-> c.left]

Start(re, t) ==
    pattern = re /\ text = t /\ rest = t /\ buf = <<>> /\ out = <<>> /\ done = FALSE
Init == \E j \in Jobs : Start(j[1], j[2])

(* read returns n characters, 0 at the end of the input or when the buffer *)
(* is full, and -1 when it fails, as in fileread of an unreadable file or  *)
(* in consoleread of a killed process.                                     *)
Space == BufSize - Len(buf) - 1

ReadSome ==
    /\ ~done
    /\ \E n \in 1 .. Len(rest) :
          LET c == Cut(buf \o SubSeq(rest, 1, n))
          IN  /\ n <= Space
              /\ rest' = SubSeq(rest, n + 1, Len(rest))
              /\ buf' = c.left
              /\ out' = out \o SelectSeq(c.lines, LAMBDA l : Match(pattern, l))
    /\ UNCHANGED <<pattern, text, done>>

ReadNone ==
    /\ ~done
    /\ rest = <<>> \/ Space = 0
    /\ done' = TRUE
    /\ UNCHANGED <<pattern, text, rest, buf, out>>

ReadFails ==
    /\ ~done
    /\ done' = TRUE
    /\ UNCHANGED <<pattern, text, rest, buf, out>>

Next == ReadSome \/ ReadNone \/ ReadFails
Spec == Init /\ [][Next]_vars

----------------------------------------------------------------------------
(* What a pattern means: after a leading ^, it is a sequence of items, a   *)
(* character with or without a star; the last one may be a $.              *)
RECURSIVE Items(_)
Items(re) ==
    IF re = <<>> THEN <<>>
    ELSE IF Len(re) > 1 /\ re[2] = "*" THEN <<<<re[1], TRUE>>>> \o Items(Tail(Tail(re)))
    ELSE <<<<re[1], FALSE>>>> \o Items(Tail(re))

Fits(c, x) == c = "." \/ c = x

(* The text matches when its positions can be divided among the items.     *)
Matches(re, t) ==
    LET anchored == re # <<>> /\ re[1] = "^"
        all == Items(IF anchored THEN Tail(re) ELSE re)
        atEnd == all # <<>> /\ all[Len(all)] = <<"$", FALSE>>
        items == IF atEnd THEN SubSeq(all, 1, Len(all) - 1) ELSE all
        n == Len(items)
    IN  \E f \in [0 .. n -> 0 .. Len(t)] :
          /\ anchored => f[0] = 0
          /\ atEnd => f[n] = Len(t)
          /\ \A k \in 1 .. n :
                /\ f[k - 1] <= f[k]
                /\ ~items[k][2] => f[k] = f[k - 1] + 1
                /\ \A x \in f[k - 1] + 1 .. f[k] : Fits(items[k][1], t[x])

(* The lines of the input up to the first one that holds a NUL, is not     *)
(* ended, or does not fit into the buffer with its new line.               *)
LinesOf(t) ==
    LET stops == {k \in 1 .. Len(t) : t[k] = NewLine}
        First(k) == 1 + Max({0} \cup {x \in stops : x < k})
        good == {k \in stops : \A x \in {y \in stops : y <= k} :
                    /\ x - First(x) + 1 < BufSize
                    /\ \A z \in First(x) .. x : t[z] # NUL}
    IN  [i \in 1 .. Cardinality(good) |->
            LET k == CHOOSE x \in good : Cardinality({y \in good : y <= x}) = i
            IN  SubSeq(t, First(k), k - 1)]

(* However the input is cut into reads, grep writes exactly those lines    *)
(* that match the pattern; a line without a new line at the end of the     *)
(* input is dropped, and nothing follows a line longer than the buffer.    *)
(* When a read fails it has written the first of them.                     *)
GrepExact ==
    done => LET lines == SelectSeq(LinesOf(text), LAMBDA l : Matches(pattern, l))
            IN  /\ IsPrefix(out, lines)
                /\ rest = <<>> \/ Space = 0 => out = lines
=============================================================================
