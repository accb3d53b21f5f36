----------------------------- MODULE ByteQueue -----------------------------
(***************************************************************************)
(* What a pipe promises: the bytes come out in the order in which they     *)
(* went in, none twice and none missing, and at most Capacity are inside.  *)
(***************************************************************************)
EXTENDS Integers, Sequences

CONSTANTS Bytes, Capacity

VARIABLES
    q,    \* the bytes inside
    out   \* the byte delivered last

Init == q = <<>> /\ out \in Bytes

Put(b) == /\ Len(q) < Capacity
          /\ q' = Append(q, b)
          /\ UNCHANGED out

Take == /\ q # <<>>
        /\ out' = Head(q)
        /\ q' = Tail(q)

Next == Take \/ \E b \in Bytes : Put(b)

Step == Next \/ UNCHANGED <<q, out>>

Spec == Init /\ [][Next]_<<q, out>>
=============================================================================
