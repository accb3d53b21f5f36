----------------------------- MODULE ShellParse -----------------------------
(***************************************************************************)
(* The recursive-descent parser of the shell (sh.c), on tokens: gettoken() *)
(* and peek() skip white space and return the character of a symbol, "a"   *)
(* for a word and "+" for >>.  It is compared with a reference that splits *)
(* the line at its operators, the loosest first.                           *)
(*                                                                         *)
(* A parse function takes the tokens that are left and returns the tree    *)
(* and what is left then; ok is FALSE once panic() has been called.  Words *)
(* are numbered by their distance from the end of the line.                *)
(***************************************************************************)
EXTENDS Integers, Sequences, FiniteSets

CONSTANTS
    MAXARGS,
    MaxLen    \* bound: tokens of a line

Tokens == {"a", "|", "&", ";", "(", ")", "<", ">", "+"}

VARIABLE line  \* the line as typed so far

Init == line = <<>>
Type(t) == Len(line) < MaxLen /\ line' = Append(line, t)
Next == \E t \in Tokens : Type(t)
Spec == Init /\ [][Next]_line

-----------------------------------------------------------------------------
Panic == [type |-> "PANIC"]

execcmd(argv) == [type |-> "EXEC", argv |-> argv]
redircmd(c, file, mode, f) ==
    [type |-> "REDIR", cmd |-> c, file |-> file, mode |-> mode, fd |-> f]
pipecmd(l, r) == [type |-> "PIPE", left |-> l, right |-> r]
listcmd(l, r) == [type |-> "LIST", left |-> l, right |-> r]
backcmd(c)    == [type |-> "BACK", cmd |-> c]

Result(c, s)  == [ok |-> TRUE, cmd |-> c, rest |-> s]
Ok(x)         == x.ok
Fail(s)       == [ok |-> FALSE, cmd |-> Panic, rest |-> s]
peek(s, toks) == s # <<>> /\ Head(s) \in toks
Word(s)       == Len(s)

\* The wrappers of a redirection around c.
Redir(c, tok, file) ==
    IF tok = "<" THEN redircmd(c, file, "rd", 0) ELSE redircmd(c, file, "wr", 1)

RECURSIVE parseline(_), parsepipe(_), parseexec(_), parseredirs(_, _),
          parseargs(_, _, _), Background(_)

\* The redirections are collected in the order in which they come; Wrap() puts
\* them around the command, the first innermost.
parseredirs(c, s) ==
    IF ~peek(s, {"<", ">", "+"}) THEN Result(c, s)
    ELSE LET t == Tail(s) IN
         IF ~peek(t, {"a"}) THEN Fail(s)
         ELSE parseredirs(Append(c, <<Head(s), Word(t)>>), Tail(t))

Wrap(c, redirs) ==
    LET f[i \in 0..Len(redirs)] ==
          IF i = 0 THEN c ELSE Redir(f[i - 1], redirs[i][1], redirs[i][2])
    IN  f[Len(redirs)]

\* The loop of parseexec().
parseargs(argv, redirs, s) ==
    IF s = <<>> \/ peek(s, {"|", ")", "&", ";"})
    THEN Result(Wrap(execcmd(argv), redirs), s)
    ELSE IF Head(s) # "a" \/ Len(argv) + 1 >= MAXARGS THEN Fail(s)
    ELSE LET x == parseredirs(redirs, Tail(s)) IN
         IF ~Ok(x) THEN x ELSE parseargs(Append(argv, Word(s)), x.cmd, x.rest)

parseblock(s) ==
    LET x == parseline(Tail(s)) IN
    IF ~Ok(x) \/ ~peek(x.rest, {")"}) THEN Fail(s)
    ELSE LET y == parseredirs(<<>>, Tail(x.rest)) IN
         IF ~Ok(y) THEN y ELSE Result(Wrap(x.cmd, y.cmd), y.rest)

parseexec(s) ==
    IF peek(s, {"("}) THEN parseblock(s)
    ELSE LET x == parseredirs(<<>>, s) IN
         IF ~Ok(x) THEN x ELSE parseargs(<<>>, x.cmd, x.rest)

\* Fault: the operators of a pipeline associate to the left.
parsepipeLeft(s) ==
    LET x == parseexec(s)
        y == parseexec(Tail(x.rest))
        z == parseexec(Tail(y.rest)) IN
    IF ~Ok(x) \/ ~peek(x.rest, {"|"}) THEN x
    ELSE IF ~Ok(y) \/ ~peek(y.rest, {"|"})
         THEN IF ~Ok(y) THEN y ELSE Result(pipecmd(x.cmd, y.cmd), y.rest)
    ELSE IF ~Ok(z) THEN z ELSE Result(pipecmd(pipecmd(x.cmd, y.cmd), z.cmd), z.rest)

parsepipe(s) ==
    LET x == parseexec(s) IN
    IF ~Ok(x) \/ ~peek(x.rest, {"|"}) THEN x
    ELSE LET y == parsepipe(Tail(x.rest)) IN
         IF ~Ok(y) THEN y ELSE Result(pipecmd(x.cmd, y.cmd), y.rest)

Background(x) ==
    IF peek(x.rest, {"&"}) THEN Background(Result(backcmd(x.cmd), Tail(x.rest))) ELSE x

parseline(s) ==
    LET p == parsepipe(s)
        x == IF ~Ok(p) THEN p ELSE Background(p) IN
    IF ~Ok(x) \/ ~peek(x.rest, {";"}) THEN x
    ELSE LET y == parseline(Tail(x.rest)) IN
         IF ~Ok(y) THEN y ELSE Result(listcmd(x.cmd, y.cmd), y.rest)

\* "leftovers" is an error.
parsecmd(s) == LET x == parseline(s) IN
               IF ~Ok(x) \/ x.rest # <<>> THEN Panic ELSE x.cmd

-----------------------------------------------------------------------------
(* The reference.  Positions of s outside of parentheses; words keep their  *)
(* numbers because a piece of a line is given by its bounds.                *)

Depth(s) ==
    LET d[i \in 0..Len(s)] ==
          IF i = 0 THEN 0
          ELSE d[i - 1] + (IF s[i] = "(" THEN 1 ELSE IF s[i] = ")" THEN -1 ELSE 0)
    IN  d

Balanced(s) == Depth(s)[Len(s)] = 0 /\ \A i \in 1..Len(s) : Depth(s)[i] >= 0

\* The first operator t of s[i..j] at the level of i, or 0.
First(s, i, j, t) ==
    LET P == {k \in i..j : s[k] = t /\ Depth(s)[k] = Depth(s)[i - 1]} IN
    IF P = {} THEN 0 ELSE CHOOSE k \in P : \A l \in P : k <= l

\* The redirections of s[i..j]: pairs of an operator and a word.
IsFile(s, i, k)  == k > i /\ s[k - 1] \in {"<", ">", "+"}
WordsOf(s, i, j) == SelectSeq([k \in 1..(j - i + 1) |-> i + k - 1],
                              LAMBDA k : s[k] = "a" /\ ~IsFile(s, i, k))
FilesOf(s, i, j) == SelectSeq([k \in 1..(j - i + 1) |-> i + k - 1],
                              LAMBDA k : s[k] = "a" /\ IsFile(s, i, k))
Num(s, k) == Len(s) - k + 1

\* No operator but redirections, each with its file.
Flat(s, i, j) ==
    \A k \in i..j : \/ s[k] = "a"
                    \/ s[k] \in {"<", ">", "+"} /\ k < j /\ s[k + 1] = "a"

Dressed(s, i, j, c) ==
    LET F == FilesOf(s, i, j) IN
    Wrap(c, [k \in DOMAIN F |-> <<s[F[k] - 1], Num(s, F[k])>>])

RECURSIVE Tree(_, _, _)
Tree(s, i, j) ==
    LET list == First(s, i, j, ";")
        amp  == First(s, i, j, "&")
        pipe == First(s, i, j, "|")
        shut == CHOOSE k \in i..j :
                   /\ s[k] = ")" /\ Depth(s)[k] = Depth(s)[i - 1]
                   /\ \A l \in i..(k - 1) : Depth(s)[l] > Depth(s)[i - 1]
        binary(make(_, _), k) ==
            LET l == Tree(s, i, k - 1)
                r == Tree(s, k + 1, j) IN
            IF Panic \in {l, r} THEN Panic ELSE make(l, r)
    IN  IF list # 0 THEN binary(listcmd, list)
        ELSE IF amp # 0
             THEN LET l == Tree(s, i, j - 1) IN
                  IF s[j] # "&" \/ l = Panic THEN Panic ELSE backcmd(l)
        ELSE IF pipe # 0 THEN binary(pipecmd, pipe)
        ELSE IF i <= j /\ s[i] = "("
             THEN LET l == Tree(s, i + 1, shut - 1) IN
                  IF l = Panic \/ ~Flat(s, shut + 1, j) \/ WordsOf(s, shut + 1, j) # <<>>
                  THEN Panic ELSE Dressed(s, shut + 1, j, l)
        ELSE LET W == WordsOf(s, i, j) IN
             IF ~Flat(s, i, j) \/ Len(W) >= MAXARGS THEN Panic
             ELSE Dressed(s, i, j, execcmd([k \in DOMAIN W |-> Num(s, W[k])]))

-----------------------------------------------------------------------------
\* The parser accepts exactly the lines of the grammar and builds the tree with
\* the right precedence and association: ";" binds less than "&", "&" less than
\* "|", and redirections belong to the command or block they stand at.
ParsesRight == parsecmd(line) = IF Balanced(line) THEN Tree(line, 1, Len(line)) ELSE Panic
=============================================================================
