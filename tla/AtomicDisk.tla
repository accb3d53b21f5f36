----------------------------- MODULE AtomicDisk -----------------------------
(***************************************************************************)
(* What the log promises to the file system: a disk whose updates are      *)
(* grouped by begin_op()/end_op() and survive a crash all together or not  *)
(* at all.  A group is made durable only when no operation is under way.   *)
(***************************************************************************)
CONSTANTS Procs, Blocks, Vals, InitVal

VARIABLES
    store,   \* what a crash leaves
    cur,     \* what the file system reads
    active   \* processes between begin_op() and end_op()

vars == <<store, cur, active>>

Init == /\ store = [b \in Blocks |-> InitVal]
        /\ cur = store
        /\ active = {}

Begin(p) == /\ p \notin active
            /\ active' = active \cup {p}
            /\ UNCHANGED <<store, cur>>

Write(p, b, v) == /\ p \in active
                  /\ cur' = [cur EXCEPT ![b] = v]
                  /\ UNCHANGED <<store, active>>

End(p) == /\ p \in active
          /\ active' = active \ {p}
          /\ UNCHANGED <<store, cur>>

Commit == /\ active = {}
          /\ store' = cur
          /\ UNCHANGED <<cur, active>>

Crash == /\ cur' = store
         /\ active' = {}
         /\ UNCHANGED store

Next == \/ \E p \in Procs : Begin(p) \/ End(p)
        \/ \E p \in Procs, b \in Blocks, v \in Vals : Write(p, b, v)
        \/ Commit
        \/ Crash

Spec == Init /\ [][Next]_vars
=============================================================================
