---------------------------- MODULE ShellParser -----------------------------
(***************************************************************************)
(* The parser of the shell (user/sh.c) on lines of characters.  A position *)
(* is an index into the line; a word is the pair of its first position and *)
(* the position after it, like q and eq in the code.  "a" stands for every *)
(* ordinary character and " " for every white space.                       *)
(***************************************************************************)
EXTENDS Naturals, Sequences, FiniteSets, FiniteSetsExt

CONSTANT MAXARGS

NUL == "0"
Symbols == {"<", "|", ">", "&", ";", "(", ")"}
Ordinary == "a"
Space == " "

CharAt(s, p) == IF p > Len(s) THEN NUL ELSE s[p]

(* The first position from p on where the line has something else.         *)
Skip(s, p, C) == Min({k \in p .. Len(s) + 1 : CharAt(s, k) \notin C})
SkipSpace(s, p) == Skip(s, p, {Space})

(* gettoken: ret, q, eq and the new *ps.                                   *)
TokenEndOne(s, q) ==
    IF CharAt(s, q) = NUL THEN q
    ELSE IF CharAt(s, q) \in Symbols THEN q + 1
    ELSE Skip(s, q, {Ordinary})
TokenEnd(s, q) ==
    IF CharAt(s, q) = NUL THEN q
    ELSE IF CharAt(s, q) = ">" /\ CharAt(s, q + 1) = ">" THEN q + 2
    ELSE IF CharAt(s, q) \in Symbols THEN q + 1
    ELSE Skip(s, q, {Ordinary})

GetToken(s, p) ==
    LET q == SkipSpace(s, p)
        eq == TokenEnd(s, q)
    IN  [tok |-> IF eq = q + 2 /\ CharAt(s, q) = ">" THEN ">>" ELSE CharAt(s, q),
         word |-> <<q, eq>>, next |-> SkipSpace(s, eq)]

Peek(s, p, toks) == CharAt(s, SkipSpace(s, p)) \in toks

(* A parse function returns a command and a position, or it panics.        *)
Parsed(cmd, p) == [ok |-> TRUE, cmd |-> cmd, p |-> p]
Panic == [ok |-> FALSE, cmd |-> <<>>, p |-> 0]

(* A block holds a line, so parseline is a function of the positions,      *)
(* which the parse functions below it take as Line.                        *)
RECURSIVE ParseRedirs(_, _), ParseArgs(_, _, _, _), Backs(_, _)

(* The loop of parseredirs around the command of r.                        *)
ParseRedirs(s, r) ==
    IF ~r.ok \/ ~Peek(s, r.p, {"<", ">"}) THEN r
    ELSE LET t == GetToken(s, r.p)
             f == GetToken(s, t.next)
         IN  IF f.tok # Ordinary THEN Panic
             ELSE ParseRedirs(s, Parsed(<<"REDIR", r.cmd, f.word, t.tok>>, f.next))

EndBlock(s, r) ==
    IF ~r.ok \/ ~Peek(s, r.p, {")"}) THEN Panic
    ELSE ParseRedirs(s, Parsed(r.cmd, GetToken(s, r.p).next))
ParseBlock(s, p, Line) == EndBlock(s, Line[GetToken(s, p).next])

(* The loop of parseexec: r holds the redirections, around the command     *)
(* whose arguments args are still growing.                                 *)
RECURSIVE Fill(_, _)
Fill(cmd, args) ==
    IF cmd[1] = "EXEC" THEN <<"EXEC", args>>
    ELSE <<"REDIR", Fill(cmd[2], args), cmd[3], cmd[4]>>

ParseArgs(s, r, args, max) ==
    LET t == GetToken(s, r.p)
    IN  IF ~r.ok THEN r
        ELSE IF Peek(s, r.p, {"|", ")", "&", ";", NUL}) THEN Parsed(Fill(r.cmd, args), r.p)
        ELSE IF t.tok # Ordinary \/ Len(args) + 1 >= max THEN Panic
        ELSE ParseArgs(s, ParseRedirs(s, Parsed(r.cmd, t.next)), Append(args, t.word), max)

ParseExec(s, p, Line) ==
    IF Peek(s, p, {"("}) THEN ParseBlock(s, p, Line)
    ELSE ParseArgs(s, ParseRedirs(s, Parsed(<<"EXEC", <<>>>>, p)), <<>>, MAXARGS)

(* What follows l after symbol c is parsed by Rest.                        *)
Join(kind, l, r) == IF r.ok THEN Parsed(<<kind, l.cmd, r.cmd>>, r.p) ELSE Panic
Followed(s, l, c, kind, Rest) ==
    IF ~l.ok \/ ~Peek(s, l.p, {c}) THEN l
    ELSE Join(kind, l, Rest[GetToken(s, l.p).next])

ParsePipe(s, Line) ==
    LET Pipe[p \in 1 .. Len(s) + 1] == Followed(s, ParseExec(s, p, Line), "|", "PIPE", Pipe)
    IN  Pipe

Backs(s, r) == IF ~r.ok \/ ~Peek(s, r.p, {"&"}) THEN r
               ELSE Backs(s, Parsed(<<"BACK", r.cmd>>, GetToken(s, r.p).next))

ParseLine(s) ==
    LET Line[p \in 1 .. Len(s) + 1] ==
          Followed(s, Backs(s, ParsePipe(s, Line)[p]), ";", "LIST", Line)
    IN  Line

AtEnd(s, r) == IF r.ok /\ SkipSpace(s, r.p) = Len(s) + 1 THEN r ELSE Panic
ParseCmd(s) == AtEnd(s, ParseLine(s)[1])

(* nulterminate: the positions that become NUL.                            *)
RECURSIVE Words(_)
Words(cmd) ==
    CASE cmd[1] = "EXEC" -> {cmd[2][k] : k \in 1 .. Len(cmd[2])}
      [] cmd[1] = "REDIR" -> Words(cmd[2]) \cup {cmd[3]}
      [] cmd[1] = "BACK" -> Words(cmd[2])
      [] OTHER -> Words(cmd[2]) \cup Words(cmd[3])

NulTerminate(s, cmd) ==
    [k \in 1 .. Len(s) + 1 |-> IF \E x \in Words(cmd) : x[2] = k THEN NUL ELSE CharAt(s, k)]
CString(buf, q) == SubSeq(buf, q, Min({k \in q .. Len(buf) : buf[k] = NUL}) - 1)

----------------------------------------------------------------------------
(* The language of the shell, defined by what a line may consist of.       *)

(* A token starts at a symbol, except the second > of >>, and at the       *)
(* beginning of a run of ordinary characters.                              *)
RunLength(s, k) == k - Max({0} \cup {j \in 1 .. k - 1 : s[j] # s[k]}) - 1
StartsToken(s, k) ==
    IF s[k] = ">" THEN RunLength(s, k) % 2 = 0
    ELSE s[k] \in Symbols \/ (s[k] = Ordinary /\ RunLength(s, k) = 0)
TokenAt(s, k) ==
    IF s[k] = ">" THEN IF CharAt(s, k + 1) = ">" THEN <<">>", k, k + 2>> ELSE <<">", k, k + 1>>
    ELSE IF s[k] \in Symbols THEN <<s[k], k, k + 1>>
    ELSE <<Ordinary, k, Min({j \in k .. Len(s) + 1 : CharAt(s, j) # Ordinary})>>
Tokens(s) ==
    LET at == {k \in 1 .. Len(s) : StartsToken(s, k)}
    IN  [n \in 1 .. Cardinality(at) |->
            TokenAt(s, CHOOSE k \in at : Cardinality({j \in at : j <= k}) = n)]

Word(x) == <<x[2], x[3]>>

RECURSIVE Redirected(_, _)

(* Commands c followed by redirections t.                                  *)
Redirected(C, t) ==
    IF t = <<>> THEN C
    ELSE IF Len(t) < 2 THEN {}
    ELSE IF t[1][1] \notin {"<", ">", ">>"} \/ t[2][1] # Ordinary THEN {}
    ELSE Redirected({<<"REDIR", c, Word(t[2]), t[1][1]>> : c \in C}, SubSeq(t, 3, Len(t)))

(* Words and redirections in any order.                                    *)
Redirs(t) == {k \in 1 .. Len(t) : t[k][1] \in {"<", ">", ">>"}}
Simple(t) ==
    LET files == {k + 1 : k \in Redirs(t)}
        args == (1 .. Len(t)) \ (Redirs(t) \cup files)
        Pick(K) == [n \in 1 .. Cardinality(K) |-> t[CHOOSE k \in K : Cardinality({j \in K : j <= k}) = n]]
        words == Pick(args)
    IN  IF \/ \E k \in args \cup files : k > Len(t) \/ t[k][1] # Ordinary
           \/ Len(words) >= MAXARGS THEN {}
        ELSE Redirected({<<"EXEC", [n \in 1 .. Len(words) |-> Word(words[n])]>>},
                        Pick(Redirs(t) \cup files))

(* The commands, pipelines and lines that tokens i .. j are; Line is the   *)
(* function Lines, for blocks.                                             *)
Commands(t, i, j, Line) ==
    Simple(SubSeq(t, i, j)) \cup
    UNION {IF t[i][1] = "(" /\ t[k][1] = ")"
             THEN Redirected(Line[i + 1, k - 1], SubSeq(t, k + 1, j)) ELSE {} : k \in i + 1 .. j}

RECURSIVE Pipes(_, _, _, _), Background(_, _, _, _)
Pipes(t, i, j, Line) ==
    Commands(t, i, j, Line) \cup
    UNION {IF t[k][1] = "|"
             THEN {<<"PIPE", l, r>> : l \in Commands(t, i, k - 1, Line), r \in Pipes(t, k + 1, j, Line)}
             ELSE {} : k \in i .. j}

Background(t, i, j, Line) ==
    IF i <= j /\ t[j][1] = "&" THEN {<<"BACK", c>> : c \in Background(t, i, j - 1, Line)}
    ELSE Pipes(t, i, j, Line)

Lines(t) ==
    LET Line[i \in 1 .. Len(t) + 1, j \in 0 .. Len(t)] ==
          Background(t, i, j, Line) \cup
          UNION {IF t[k][1] = ";"
                   THEN {<<"LIST", l, r>> : l \in Background(t, i, k - 1, Line), r \in Line[k + 1, j]}
                   ELSE {} : k \in i .. j}
    IN  Line[1, Len(t)]

(* The parser accepts a line exactly when it is a line of the language,    *)
(* and builds its one meaning; the strings that exec and open get are the  *)
(* words of the line, although the line is cut in place.                   *)
WordsCut(buf, s, words) == \A x \in words : CString(buf, x[1]) = SubSeq(s, x[1], x[2] - 1)
Exact(s, r) ==
    /\ Lines(Tokens(s)) = IF r.ok THEN {r.cmd} ELSE {}
    /\ r.ok => WordsCut(NulTerminate(s, r.cmd), s, Words(r.cmd))
ParsesExactly(s) == Exact(s, ParseCmd(s))
=============================================================================
