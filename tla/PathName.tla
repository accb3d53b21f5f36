------------------------------ MODULE PathName ------------------------------
(***************************************************************************)
(* How namex() cuts a path into elements (skipelem() of fs.c), compared    *)
(* with a definition of the elements by their places in the path.  A path  *)
(* is a sequence of slashes and other characters; an element longer than   *)
(* DIRSIZ is cut, as the name in a directory entry is.                     *)
(***************************************************************************)
EXTENDS Integers, Sequences, SequencesExt

CONSTANTS
    DIRSIZ,
    Chars,    \* characters other than the slash
    MaxLen    \* bound: characters of a path

VARIABLE path

Init == path = <<>>
Type(c) == Len(path) < MaxLen /\ path' = Append(path, c)
Next == \E c \in Chars \cup {"/"} : Type(c)
Spec == Init /\ [][Next]_path

-----------------------------------------------------------------------------
\* p without its first n characters, n the most with all of them in S.
Skip(p, S) ==
    LET n == CHOOSE i \in 0..Len(p) :
               /\ \A j \in 1..i : p[j] \in S
               /\ i = Len(p) \/ p[i + 1] \notin S
    IN  SubSeq(p, n + 1, Len(p))

\* Fault: an element may fill the buffer, its terminating 0 included.
CutShort(s) == IF Len(s) >= DIRSIZ THEN SubSeq(s, 1, DIRSIZ - 1) ELSE s

Cut(s) == IF Len(s) >= DIRSIZ THEN SubSeq(s, 1, DIRSIZ) ELSE s

skipelem(p) ==
    LET s    == Skip(p, {"/"})
        rest == Skip(s, Chars)
    IN  IF s = <<>> THEN [found |-> FALSE]
        ELSE [found |-> TRUE,
              name  |-> Cut(SubSeq(s, 1, Len(s) - Len(rest))),
              rest  |-> Skip(rest, {"/"})]

\* The loop of namex(): the elements it looks up, and the ones it looks up for
\* nameiparent before it stops with a name.
Walk(p) ==
    LET f[i \in 0..Len(p)] ==
          IF i = 0 THEN [names |-> <<>>, rest |-> p, end |-> FALSE]
          ELSE LET w == f[i - 1]
                   e == skipelem(w.rest)
               IN  IF w.end \/ ~e.found THEN [w EXCEPT !.end = TRUE]
                   ELSE [names |-> Append(w.names, e.name), rest |-> e.rest, end |-> FALSE]
    IN  f[Len(p)].names
Parent(p) ==
    LET f[i \in 0..Len(p)] ==
          IF i = 0 THEN [names |-> <<>>, rest |-> p, last |-> <<>>]
          ELSE LET w == f[i - 1]
                   e == skipelem(w.rest)
               IN  IF w.last # <<>> \/ ~e.found THEN w
                   ELSE IF e.rest = <<>> THEN [w EXCEPT !.last = e.name]
                   ELSE [w EXCEPT !.names = Append(@, e.name), !.rest = e.rest]
    IN  [dir |-> f[Len(p)].names, name |-> f[Len(p)].last]

-----------------------------------------------------------------------------
\* The places where an element starts: after a slash or at the beginning.
Starts(p) == {i \in 1..Len(p) : p[i] # "/" /\ (i = 1 \/ p[i - 1] = "/")}
Elem(p, i) ==
    LET ends == {j \in i..Len(p) : \A m \in i..j : p[m] # "/"}
        last == CHOOSE j \in ends : \A m \in ends : m <= j
    IN  SubSeq(p, i, IF last - i + 1 > DIRSIZ THEN i + DIRSIZ - 1 ELSE last)
Elems(p) == LET at == SetToSortSeq(Starts(p), <) IN [i \in DOMAIN at |-> Elem(p, at[i])]

\* namex() looks up the elements of the path in their order, whatever slashes
\* stand before, between and after them, and nameiparent gives the directory
\* of the last one and its name, or no name for a path without elements
\* (fs.c:590-613, 629-650).
PathSplit ==
    /\ Walk(path) = Elems(path)
    /\ LET r == Parent(path) IN
       IF Elems(path) = <<>> THEN r.name = <<>>
       ELSE Append(r.dir, r.name) = Elems(path)
=============================================================================
