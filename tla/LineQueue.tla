----------------------------- MODULE LineQueue -----------------------------
(***************************************************************************)
(* What the console promises its readers: a line may be edited until it is *)
(* entered; from then on its characters come out in order, none twice and  *)
(* none missing.  A line that fills the buffer counts as entered.          *)
(***************************************************************************)
EXTENDS Integers, Sequences

CONSTANTS Chars, NL, Capacity

VARIABLES
    line,  \* the line being edited
    q,     \* entered and not yet read
    out    \* the character delivered last

Init == line = <<>> /\ q = <<>> /\ out \in Chars

Room == Len(q) + Len(line) < Capacity

Type(c) ==
    /\ Room
    /\ IF c = NL \/ Len(q) + Len(line) + 1 = Capacity
       THEN q' = q \o Append(line, c) /\ line' = <<>>
       ELSE q' = q /\ line' = Append(line, c)
    /\ UNCHANGED out

\* Backspace takes one character back, kill-line all of them.
Erase(k) ==
    /\ line' = SubSeq(line, 1, Len(line) - k)
    /\ UNCHANGED <<q, out>>

Take ==
    /\ q # <<>>
    /\ out' = Head(q) /\ q' = Tail(q)
    /\ UNCHANGED line

Next == \/ \E c \in Chars : Type(c)
        \/ \E k \in {1, Len(line)} : line # <<>> /\ Erase(k)
        \/ Take

Spec == Init /\ [][Next]_<<line, q, out>>
=============================================================================
