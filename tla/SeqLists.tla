------------------------------ MODULE SeqLists ------------------------------
(***************************************************************************)
(* The state lists as sequences: what proc.c means by them and what        *)
(* ProcTable uses.  A process joins a list at its end, leaves it from      *)
(* wherever it is, and is on one list at most.                             *)
(***************************************************************************)
EXTENDS Integers, Sequences

CONSTANTS Procs, Lists

VARIABLE list

Members(s) == {s[i] : i \in DOMAIN s}

\* The list s without p, which is on it.
Index(s, p) == CHOOSE i \in DOMAIN s : s[i] = p
Without(s, p) == [j \in 1..(Len(s) - 1) |-> IF j < Index(s, p) THEN s[j] ELSE s[j + 1]]

Insert(p, l) == /\ \A k \in Lists : p \notin Members(list[k])
                /\ list' = [list EXCEPT ![l] = Append(@, p)]

Remove(p, l) == /\ p \in Members(list[l])
                /\ list' = [list EXCEPT ![l] = Without(@, p)]

Move(p, l, m) == /\ p \in Members(list[l]) /\ l # m
                 /\ list' = [list EXCEPT ![l] = Without(@, p),
                                         ![m] = Append(@, p)]

Init == /\ list \in [Lists -> Seq(Procs)]
        /\ \A l, m \in Lists : \A i \in DOMAIN list[l], j \in DOMAIN list[m] :
              list[l][i] = list[m][j] => l = m /\ i = j

Next == \E p \in Procs, l \in Lists :
           \/ Insert(p, l)
           \/ Remove(p, l)
           \/ \E m \in Lists : Move(p, l, m)

Step == UNCHANGED list \/ Next

Spec == Init /\ [][Next]_list
=============================================================================
