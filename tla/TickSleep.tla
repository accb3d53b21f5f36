----------------------------- MODULE TickSleep -----------------------------
(***************************************************************************)
(* sys_sleep() and the clock.  ticks is incremented on CPU 0 without a     *)
(* lock, and sys_sleep() tests it and sleeps without a lock, so a tick may *)
(* come between the two and its wakeup is missed.                          *)
(***************************************************************************)
EXTENDS Integers, Sequences

CONSTANTS
    Procs,
    Ns,       \* bound: the arguments of sleep()
    UINTMOD,
    LAG,      \* bound: ticks for which a process that could run does not
    WAKEONE   \* TRUE in the builds with process lists

VARIABLES
    ticks,
    inc,      \* the tick is counted, wakeup(&ticks) is still to come
    tq,       \* sleepers on &ticks
    pc, ticks0, n, killed,
    slept     \* ticks since the call, up to n + LAG (for the properties, the bound)

vars == <<ticks, inc, tq, pc, ticks0, n, killed, slept>>

Init ==
    /\ ticks \in {0, UINTMOD - 1} /\ inc = FALSE /\ tq = <<>>
    /\ pc = [p \in Procs |-> "user"]
    /\ ticks0 = [p \in Procs |-> 0]
    /\ n = [p \in Procs |-> 0]
    /\ killed = [p \in Procs |-> FALSE]
    /\ slept = [p \in Procs |-> 0]

Asleep(p) == \E i \in DOMAIN tq : tq[i] = p

\* Fault: the end is computed first and compared.
OverAbs(p) == ticks >= (ticks0[p] + n[p]) % UINTMOD

\* ticks - ticks0 < n is false; both sides are unsigned.
Over(p) == (ticks - ticks0[p]) % UINTMOD >= n[p]

Call(p, k) ==
    /\ pc[p] = "user" /\ ~killed[p]
    /\ pc' = [pc EXCEPT ![p] = "test"]
    /\ ticks0' = [ticks0 EXCEPT ![p] = ticks]
    /\ n' = [n EXCEPT ![p] = k]
    /\ slept' = [slept EXCEPT ![p] = 0]
    /\ UNCHANGED <<ticks, inc, tq, killed>>

\* The time is over, or the process is killed.
Return(p) ==
    /\ pc[p] = "test" /\ ~Asleep(p) /\ (Over(p) \/ killed[p])
    /\ pc' = [pc EXCEPT ![p] = "user"]
    /\ ticks0' = [ticks0 EXCEPT ![p] = 0] /\ n' = [n EXCEPT ![p] = 0]
    /\ slept' = [slept EXCEPT ![p] = 0]
    /\ UNCHANGED <<ticks, inc, tq, killed>>

Test(p) ==
    /\ pc[p] = "test" /\ ~Asleep(p) /\ ~Over(p) /\ ~killed[p]
    /\ pc' = [pc EXCEPT ![p] = "sleep"]
    /\ UNCHANGED <<ticks, inc, tq, ticks0, n, killed, slept>>

Sleep(p) ==
    /\ pc[p] = "sleep"
    /\ tq' = Append(tq, p)
    /\ pc' = [pc EXCEPT ![p] = "test"]
    /\ UNCHANGED <<ticks, inc, ticks0, n, killed, slept>>

\* The timer interrupt on CPU 0: atom_inc(&ticks), then wakeup(&ticks).
Tick ==
    /\ ~inc
    /\ \A p \in Procs : pc[p] # "user" /\ ~Asleep(p) => slept[p] < n[p] + LAG
    /\ ticks' = (ticks + 1) % UINTMOD
    /\ inc' = TRUE
    /\ slept' = [p \in Procs |-> IF pc[p] = "user" \/ slept[p] = n[p] + LAG THEN slept[p]
                                 ELSE slept[p] + 1]
    /\ UNCHANGED <<tq, pc, ticks0, n, killed>>

\* Fault: the wakeup goes to the process that fell asleep last.
TickWakeLast ==
    /\ inc
    /\ inc' = FALSE
    /\ tq' = IF WAKEONE /\ tq # <<>> THEN SubSeq(tq, 1, Len(tq) - 1) ELSE <<>>
    /\ UNCHANGED <<ticks, pc, ticks0, n, killed, slept>>

TickWake ==
    /\ inc
    /\ inc' = FALSE
    /\ tq' = IF WAKEONE /\ tq # <<>> THEN Tail(tq) ELSE <<>>
    /\ UNCHANGED <<ticks, pc, ticks0, n, killed, slept>>

Kill(p) ==
    /\ ~killed[p]
    /\ killed' = [killed EXCEPT ![p] = TRUE]
    /\ tq' = SelectSeq(tq, LAMBDA x : x # p)
    /\ UNCHANGED <<ticks, inc, pc, ticks0, n, slept>>

Step(p) == Return(p) \/ Test(p) \/ Sleep(p)

Next == \/ Tick \/ TickWake
        \/ \E p \in Procs : \/ Step(p) \/ Kill(p)
                            \/ \E k \in Ns : Call(p, k)

Spec == Init /\ [][Next]_vars

(* The clock does not stop, and a process that is awake gets to run.        *)
Fairness == WF_vars(Tick) /\ WF_vars(TickWake) /\ \A p \in Procs : WF_vars(Step(p))
-----------------------------------------------------------------------------
(* Properties.                                                              *)

\* Every sleep() ends, of a killed process too, although ticks are missed and
\* a tick wakes one sleeper only.
SleepEnds == \A p \in Procs : pc[p] # "user" ~> pc[p] = "user"

\* sleep(n) returns 0 only when n ticks have gone by, also if ticks wraps.
SleepsEnough ==
    [][\A p \in Procs : pc[p] = "test" /\ pc'[p] = "user" /\ ~killed[p]
                        => slept[p] >= n[p]]_vars

\* sleep(n) ends, and not before n ticks have gone by.
SleepRight == SleepEnds /\ SleepsEnough
=============================================================================
