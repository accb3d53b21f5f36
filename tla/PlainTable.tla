----------------------------- MODULE PlainTable -----------------------------
(***************************************************************************)
(* The process table of the build without lists (proc.c, CS333_P0, the     *)
(* default): every operation scans ptable.proc, wakeup1() wakes everybody, *)
(* and each CPU's scheduler walks round the table.                         *)
(*                                                                         *)
(* An action is a section under ptable.lock.  A process that gives up its  *)
(* CPU keeps the lock for the scheduler, which goes on with its walk, so   *)
(* giving up and picking the next process are one step.                    *)
(***************************************************************************)
EXTENDS Integers, FiniteSets

CONSTANTS NPROC, NCPU, IO   \* IO: the channel of everything that is not wait()

ASSUME TableAssumption ==
    /\ NPROC \in Nat \ {0} /\ NCPU \in Nat \ {0}
    /\ IO \notin 0..NPROC

Slots    == 1..NPROC
CPUs     == 1..NCPU
initproc == 1
NULL     == 0

VARIABLES
    state, parent, chan, killed,
    cpu,   \* c->proc, NULL in the scheduler
    scan,  \* where the walk of a CPU stands, 0 before its first process
    pc,    \* what the process does in the kernel
    np,    \* the variable np of fork()
    passed \* how often others were picked since p could run (for RoundRobin)

vars == <<state, parent, chan, killed, cpu, scan, pc, np, passed>>

\* userinit()
Init ==
    /\ state = [p \in Slots |-> IF p = initproc THEN "RUNNABLE" ELSE "UNUSED"]
    /\ parent = [p \in Slots |-> NULL]
    /\ chan = [p \in Slots |-> NULL]
    /\ killed = [p \in Slots |-> FALSE]
    /\ cpu = [c \in CPUs |-> NULL] /\ scan = [c \in CPUs |-> 0]
    /\ pc = [p \in Slots |-> "user"]
    /\ np = [p \in Slots |-> NULL]
    /\ passed = [p \in Slots |-> 0]

-----------------------------------------------------------------------------
\* Fault: the walk starts again at the first slot after every process.
AheadAlways(c, st) == {q \in Slots : st[q] = "RUNNABLE"}

\* Processes that the walk of c has still to come to.
Ahead(c, st) == {q \in Slots : q > scan[c] /\ st[q] = "RUNNABLE"}

\* The walk of c goes on, the states being st: the next runnable process, or the
\* end of the table, where the lock is released.
Walk(c, st) ==
    \/ /\ Ahead(c, st) = {}
       /\ state' = st
       /\ cpu' = [cpu EXCEPT ![c] = NULL] /\ scan' = [scan EXCEPT ![c] = 0]
       /\ UNCHANGED passed
    \/ \E q \in Ahead(c, st) :
       /\ \A x \in Ahead(c, st) : q <= x
       /\ state' = [p \in Slots |-> IF p = q THEN "RUNNING" ELSE st[p]]
       /\ cpu' = [cpu EXCEPT ![c] = q] /\ scan' = [scan EXCEPT ![c] = q]
       /\ passed' = [p \in Slots |-> IF p # q /\ st[p] = "RUNNABLE"
                                     THEN passed[p] + 1 ELSE 0]

scheduler(c) ==
    /\ cpu[c] = NULL
    /\ Ahead(c, state) # {}
    /\ Walk(c, state)
    /\ UNCHANGED <<parent, chan, killed, pc, np>>

Runs(c, p, l) == cpu[c] = p /\ pc[p] = l
cpus == <<cpu, scan, passed>>

\* The timer interrupt: yield().
yield(c, p) ==
    /\ cpu[c] = p
    /\ Walk(c, [state EXCEPT ![p] = "RUNNABLE"])
    /\ UNCHANGED <<parent, chan, killed, pc, np>>

\* sleep() of p on ch, and what it does when it is resumed.
Asleep(c, p, ch) ==
    /\ Walk(c, [state EXCEPT ![p] = "SLEEPING"])
    /\ chan' = [chan EXCEPT ![p] = ch]

\* wakeup1() of the channels in C, as a state function.
Wakeup1(st, C) == [p \in Slots |-> IF st[p] = "SLEEPING" /\ chan[p] \in C
                                   THEN "RUNNABLE" ELSE st[p]]

\* A system call waits for something else, and something else happens: an
\* interrupt, or another process.
SleepIO(c, p) ==
    /\ Runs(c, p, "user")
    /\ Asleep(c, p, IO)
    /\ UNCHANGED <<parent, killed, pc, np>>

wakeup ==
    /\ \E p \in Slots : state[p] = "SLEEPING" /\ chan[p] = IO
    /\ state' = Wakeup1(state, {IO})
    /\ UNCHANGED <<parent, chan, killed, cpus, pc, np>>

-----------------------------------------------------------------------------
\* fork(): allocproc() takes a slot ...
Allocproc(c, p) ==
    /\ Runs(c, p, "user")
    /\ \E q \in Slots :
          /\ state[q] = "UNUSED" /\ \A x \in Slots : state[x] = "UNUSED" => q <= x
          /\ state' = [state EXCEPT ![q] = "EMBRYO"]
          /\ np' = [np EXCEPT ![p] = q]
    /\ pc' = [pc EXCEPT ![p] = "fork"]
    /\ UNCHANGED <<parent, chan, killed, cpus>>

\* ... and the copy has a parent and is runnable, or could not be made.
ForkDone(c, p) ==
    /\ Runs(c, p, "fork")
    /\ state' = [state EXCEPT ![np[p]] = "RUNNABLE"]
    /\ parent' = [parent EXCEPT ![np[p]] = p]
    /\ pc' = [pc EXCEPT ![p] = "user"] /\ np' = [np EXCEPT ![p] = NULL]
    /\ UNCHANGED <<chan, killed, cpus>>

ForkFail(c, p) ==
    /\ Runs(c, p, "fork")
    /\ state' = [state EXCEPT ![np[p]] = "UNUSED"]
    /\ pc' = [pc EXCEPT ![p] = "user"] /\ np' = [np EXCEPT ![p] = NULL]
    /\ UNCHANGED <<parent, chan, killed, cpus>>

\* Fault: the wakeup goes to init, as if it were everybody's parent.
exitQuiet(c, p) ==
    /\ Runs(c, p, "user") /\ p # initproc
    /\ parent' = [q \in Slots |-> IF parent[q] = p THEN initproc ELSE parent[q]]
    /\ Walk(c, [Wakeup1(state, {initproc}) EXCEPT ![p] = "ZOMBIE"])
    /\ UNCHANGED <<chan, killed, pc, np>>

\* Fault: the children keep their parent.
exitOrphan(c, p) ==
    /\ Runs(c, p, "user") /\ p # initproc
    /\ Walk(c, [Wakeup1(state, {parent[p]}) EXCEPT ![p] = "ZOMBIE"])
    /\ UNCHANGED <<parent, chan, killed, pc, np>>

exit(c, p) ==
    /\ Runs(c, p, "user") /\ p # initproc
    /\ parent' = [q \in Slots |-> IF parent[q] = p THEN initproc ELSE parent[q]]
    /\ LET inherits == \E q \in Slots : parent[q] = p /\ state[q] = "ZOMBIE" IN
       Walk(c, [Wakeup1(state, {parent[p]} \cup IF inherits THEN {initproc} ELSE {})
                  EXCEPT ![p] = "ZOMBIE"])
    /\ UNCHANGED <<chan, killed, pc, np>>

Kids(p) == {q \in Slots : parent[q] = p}

\* The first zombie child is reaped.
WaitReap(c, p) ==
    /\ cpu[c] = p /\ pc[p] \in {"user", "wait"}
    /\ \E q \in Kids(p) :
          /\ state[q] = "ZOMBIE" /\ \A x \in Kids(p) : state[x] = "ZOMBIE" => q <= x
          /\ state' = [state EXCEPT ![q] = "UNUSED"]
          /\ parent' = [parent EXCEPT ![q] = NULL]
          /\ killed' = [killed EXCEPT ![q] = FALSE]
    /\ pc' = [pc EXCEPT ![p] = "user"]
    /\ UNCHANGED <<chan, cpus, np>>

NoZombie(p) == \A q \in Kids(p) : state[q] # "ZOMBIE"

WaitFail(c, p) ==
    /\ Runs(c, p, "wait") /\ NoZombie(p)
    /\ Kids(p) = {} \/ killed[p]
    /\ pc' = [pc EXCEPT ![p] = "user"]
    /\ UNCHANGED <<state, parent, chan, killed, cpus, np>>

WaitSleep(c, p) ==
    /\ cpu[c] = p /\ pc[p] \in {"user", "wait"} /\ NoZombie(p)
    /\ Kids(p) # {} /\ ~killed[p]
    /\ Asleep(c, p, p)
    /\ pc' = [pc EXCEPT ![p] = "wait"]
    /\ UNCHANGED <<parent, killed, np>>

\* kill() by somebody who runs, of the slot that has the pid, whatever its state: a
\* fork() that failed leaves its pid in an UNUSED slot, and slots never used have 0.
\* (A killed init panics when it is to exit: the machine stops.)
kill(q) ==
    /\ \E c \in CPUs, p \in Slots : Runs(c, p, "user")
    /\ killed' = [killed EXCEPT ![q] = TRUE]
    /\ state' = [state EXCEPT ![q] = IF @ = "SLEEPING" THEN "RUNNABLE" ELSE @]
    /\ UNCHANGED <<parent, chan, cpus, pc, np>>

Next ==
    \/ wakeup
    \/ \E q \in Slots : kill(q)
    \/ \E c \in CPUs : scheduler(c)
    \/ \E c \in CPUs, p \in Slots :
          \/ yield(c, p) \/ SleepIO(c, p)
          \/ Allocproc(c, p) \/ ForkDone(c, p) \/ ForkFail(c, p)
          \/ exit(c, p) \/ WaitReap(c, p) \/ WaitFail(c, p) \/ WaitSleep(c, p)

Spec == Init /\ [][Next]_vars
-----------------------------------------------------------------------------
(* Properties.                                                              *)

\* No exit is missed: a process that sleeps in wait() has children, none of them
\* a zombie, inherited ones included, and is not killed.
WaitJustified ==
    \A p \in Slots : state[p] = "SLEEPING" /\ chan[p] = p =>
       Kids(p) # {} /\ NoZombie(p) /\ ~killed[p]

\* The walks of two schedulers never pick the same process, and nobody loses
\* his parent: init inherits every orphan.
TableRight ==
    /\ \A p \in Slots : Cardinality({c \in CPUs : cpu[c] = p})
                        = IF state[p] = "RUNNING" THEN 1 ELSE 0
    /\ \A p \in Slots \ {initproc} : state[p] \notin {"UNUSED", "EMBRYO"} =>
          parent[p] # NULL /\ state[parent[p]] \notin {"UNUSED", "EMBRYO", "ZOMBIE"}

\* The walk is round-robin: a runnable process is passed over at most once by
\* every CPU for every other process, whatever the others do.
RoundRobin == \A p \in Slots : passed[p] <= NCPU * (NPROC - 1)

\* The default process table is sound: no exit is missed, no process runs twice or
\* is orphaned, and none is passed over for ever.
PlainRight == WaitJustified /\ TableRight /\ RoundRobin
=============================================================================
