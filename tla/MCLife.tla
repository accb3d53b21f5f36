------------------------------- MODULE MCLife ------------------------------
(***************************************************************************)
(* The life of processes, and below it the spin lock that makes a section  *)
(* under ptable.lock one step.  They are independent: part says which one  *)
(* moves, the other stays as it was initialised.                           *)
(***************************************************************************)
EXTENDS MCProcTable

VARIABLES
    part,
    spin_lock, spin_if, spin_ncli, spin_intena, spin_run, spin_k, spin_halted

spinVars == <<spin_lock, spin_if, spin_ncli, spin_intena, spin_run, spin_k, spin_halted>>

Sp == INSTANCE Spinlock WITH
    Procs <- {"t1", "t2"}, CPUs <- {"c1", "c2"}, NONE <- "none",
    lock <- spin_lock, IF_ <- spin_if, ncli <- spin_ncli, intena <- spin_intena,
    run <- spin_run, k <- spin_k, halted <- spin_halted

LifeInit == part \in {"table", "locks"} /\ Init /\ Sp!Init

LifeNext == /\ \/ part = "table" /\ Next /\ UNCHANGED spinVars
               \/ part = "locks" /\ Sp!Next /\ UNCHANGED vars
            /\ UNCHANGED part

LifeSpec == LifeInit /\ [][LifeNext]_<<vars, spinVars, part>>
-----------------------------------------------------------------------------
\* Spin locks: no panic, no interrupt inside a lock, the flag restored.
LocksRight == part = "locks" => Sp!LocksRight
============================================================================
