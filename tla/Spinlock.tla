------------------------------ MODULE Spinlock ------------------------------
(***************************************************************************)
(* Spin locks and the interrupt flag (spinlock.c) of CPUs that take        *)
(* interrupts and switch between processes (sched() and scheduler() of     *)
(* proc.c).  pushcli() counts in the CPU (ncli) and keeps there whether    *)
(* interrupts were on (intena), although that is a matter of the thread:   *)
(* a thread may be interrupted, and moved to another CPU, between two of   *)
(* its instructions, and sched() must carry intena over.                   *)
(*                                                                         *)
(* A thread is a list of instructions.  What a process does under the      *)
(* locks is left out: there is ptable.lock, and dev, a lock that interrupt *)
(* handlers take too (idelock, tickslock).  When a process is woken is     *)
(* left open: the scheduler may choose any that does not run.              *)
(***************************************************************************)
EXTENDS Integers, Sequences, FiniteSets

CONSTANTS Procs, CPUs, NONE

Locks   == {"ptable", "dev"}
Threads == Procs \cup CPUs     \* a CPU stands for its scheduler

VARIABLES
    lock,         \* locked and cpu of each lock
    IF_,          \* FL_IF of each CPU
    ncli, intena, \* of struct cpu
    run,          \* the thread on each CPU
    k,            \* the instructions of each thread
    halted        \* a panic

vars == <<lock, IF_, ncli, intena, run, k, halted>>

Ins(op, l, v) == [op |-> op, l |-> l, v |-> v]
pushcli    == <<Ins("readeflags", NONE, FALSE)>>
popcli     == <<Ins("popcli", NONE, FALSE)>>
acquire(l) == pushcli \o <<Ins("xchg", l, FALSE)>>

\* Fault: the lock is free before its owner is cleared.
releaseEarly(l) == <<Ins("unlock", l, FALSE), Ins("disown", l, FALSE)>> \o popcli

release(l) == <<Ins("disown", l, FALSE), Ins("unlock", l, FALSE)>> \o popcli
sched      == <<Ins("sched", NONE, FALSE)>>
iret       == <<Ins("iret", NONE, FALSE)>>

\* A new process has the intena of the one that ran before it, until it
\* returns to user space, where interrupts are on.
forkret == release("ptable") \o <<Ins("trapret", NONE, FALSE)>>

\* wakeup(), yield() and sleep(chan, lk).
wakeup == acquire("ptable") \o release("ptable")
yield == acquire("ptable") \o sched \o release("ptable")
sleep == acquire("ptable") \o release("dev") \o sched \o release("ptable")
         \o acquire("dev")

Init ==
    /\ lock = [l \in Locks |-> [locked |-> FALSE, cpu |-> NONE]]
    /\ IF_ = [c \in CPUs |-> FALSE]
    /\ ncli = [c \in CPUs |-> 0] /\ intena = [c \in CPUs |-> FALSE]
    /\ run = [c \in CPUs |-> c]
    /\ k = [t \in Threads |-> IF t \in Procs THEN forkret ELSE <<>>]
    /\ halted = FALSE

Holding(c, l) == lock[l].locked /\ lock[l].cpu = c

At(c, op) == ~halted /\ k[run[c]] # <<>> /\ Head(k[run[c]]).op = op
Arg(c)    == Head(k[run[c]])
Then(c, prog) == k' = [k EXCEPT ![run[c]] = prog \o Tail(@)]
Panics(p) == halted' = p
cpu       == <<IF_, ncli, intena>>

\* The first half of pushcli() where interrupts are on: one may follow.
Readeflags(c) ==
    /\ At(c, "readeflags") /\ IF_[c]
    /\ Then(c, <<Ins("cli", NONE, TRUE)>>)
    /\ UNCHANGED <<lock, cpu, run, halted>>

\* The second half, or all of it where they are off.
Cli(c) ==
    /\ At(c, "cli") \/ (At(c, "readeflags") /\ ~IF_[c])
    /\ IF_' = [IF_ EXCEPT ![c] = FALSE]
    /\ intena' = [intena EXCEPT ![c] = IF ncli[c] = 0 THEN At(c, "cli") ELSE @]
    /\ ncli' = [ncli EXCEPT ![c] = @ + 1]
    /\ Then(c, <<>>)
    /\ UNCHANGED <<lock, run, halted>>

\* Fault: the first popcli() turns interrupts on again.
PopcliFirst(c) ==
    /\ At(c, "popcli")
    /\ ncli' = [ncli EXCEPT ![c] = @ - 1]
    /\ Panics(IF_[c] \/ ncli[c] = 0)
    /\ IF_' = [IF_ EXCEPT ![c] = intena[c]]
    /\ Then(c, <<>>)
    /\ UNCHANGED <<lock, intena, run>>

Popcli(c) ==
    /\ At(c, "popcli")
    /\ ncli' = [ncli EXCEPT ![c] = @ - 1]
    /\ Panics(IF_[c] \/ ncli[c] = 0)
    /\ IF_' = [IF_ EXCEPT ![c] = ncli[c] = 1 /\ intena[c]]
    /\ Then(c, <<>>)
    /\ UNCHANGED <<lock, intena, run>>

\* The loop ends when the lock is free, and lk->cpu is set (what another CPU sees
\* in between is a lock that is not its own); acquire() of a lock one has panics.
Xchg(c) ==
    LET l == Arg(c).l IN
    /\ At(c, "xchg")
    /\ Holding(c, l) \/ ~lock[l].locked
    /\ Panics(Holding(c, l))
    /\ lock' = [lock EXCEPT ![l] = [locked |-> TRUE, cpu |-> c]]
    /\ Then(c, <<>>)
    /\ UNCHANGED <<cpu, run>>

Disown(c) ==
    /\ At(c, "disown")
    /\ Panics(~Holding(c, Arg(c).l))
    /\ lock' = [lock EXCEPT ![Arg(c).l].cpu = NONE]
    /\ Then(c, <<>>)
    /\ UNCHANGED <<cpu, run>>

Unlock(c) ==
    /\ At(c, "unlock")
    /\ lock' = [lock EXCEPT ![Arg(c).l].locked = FALSE]
    /\ Then(c, <<>>)
    /\ UNCHANGED <<cpu, run, halted>>

\* Fault: intena stays what the last thread on the CPU made it.
SchedLoses(c) ==
    /\ At(c, "sched")
    /\ Panics(~Holding(c, "ptable") \/ ncli[c] # 1 \/ IF_[c])
    /\ Then(c, <<>>)
    /\ run' = [run EXCEPT ![c] = c]
    /\ UNCHANGED <<lock, cpu>>

\* sched(): intena is kept on the stack of the process over swtch().
Sched(c) ==
    /\ At(c, "sched")
    /\ Panics(~Holding(c, "ptable") \/ ncli[c] # 1 \/ IF_[c])
    /\ Then(c, <<Ins("intena", NONE, intena[c])>>)
    /\ run' = [run EXCEPT ![c] = c]
    /\ UNCHANGED <<lock, cpu>>

Intena(c) ==
    /\ At(c, "intena")
    /\ intena' = [intena EXCEPT ![c] = Arg(c).v]
    /\ Then(c, <<>>)
    /\ UNCHANGED <<lock, IF_, ncli, run, halted>>

\* The loop of scheduler(): sti(), acquire, switch to a process and back.
Scheduler(c) ==
    /\ run[c] = c /\ k[c] = <<>> /\ ~halted
    /\ IF_' = [IF_ EXCEPT ![c] = TRUE]
    /\ k' = [k EXCEPT ![c] = acquire("ptable") \o <<Ins("pick", NONE, FALSE)>>]
    /\ UNCHANGED <<lock, ncli, intena, run, halted>>

\* The walk over the table goes on with the lock when a process comes back.
Pick(c) ==
    /\ At(c, "pick")
    /\ \/ \E p \in Procs : /\ \A d \in CPUs : run[d] # p
                           /\ run' = [run EXCEPT ![c] = p]
                           /\ UNCHANGED k
       \/ Then(c, release("ptable")) /\ UNCHANGED run
    /\ UNCHANGED <<lock, cpu, halted>>

\* A system call takes a lock for a while, or sleeps with it.
Syscall(c) ==
    /\ run[c] \in Procs /\ k[run[c]] = <<>> /\ ~halted
    /\ \E body \in {<<>>, sleep} :
         k' = [k EXCEPT ![run[c]] = acquire("dev") \o body \o release("dev")]
    /\ UNCHANGED <<lock, cpu, run, halted>>

\* An interrupt: the gate turns interrupts off.  The timer makes a process
\* yield before it returns.
Interrupt(c) ==
    /\ IF_[c] /\ ~halted
    /\ IF_' = [IF_ EXCEPT ![c] = FALSE]
    /\ \E tail \in (IF run[c] \in Procs THEN {<<>>, yield} ELSE {<<>>}) :
         k' = [k EXCEPT ![run[c]] =
                 acquire("dev") \o wakeup \o release("dev") \o tail \o iret \o @]
    /\ UNCHANGED <<lock, ncli, intena, run, halted>>

Iret(c) ==
    /\ At(c, "iret") \/ At(c, "trapret")
    /\ IF_' = [IF_ EXCEPT ![c] = TRUE]
    /\ Then(c, <<>>)
    /\ UNCHANGED <<lock, ncli, intena, run, halted>>

Next ==
    \E c \in CPUs :
        \/ Readeflags(c) \/ Cli(c) \/ Popcli(c) \/ Xchg(c) \/ Disown(c)
        \/ Unlock(c) \/ Sched(c) \/ Intena(c) \/ Scheduler(c) \/ Pick(c)
        \/ Syscall(c) \/ Interrupt(c) \/ Iret(c)

Spec == Init /\ [][Next]_vars

-----------------------------------------------------------------------------
\* None of the panics of acquire(), release(), popcli() and sched(): ncli and
\* the owner of a lock are right on whatever CPU a thread goes on
\* (spinlock.c:28, 49, 119-122, proc.c:993-1000).
SpinNoPanic == ~halted

\* A CPU that has a lock takes no interrupt, so that no handler waits for the
\* thread it interrupted (spinlock.c:27).
LocksMasked == \A c \in CPUs : IF_[c] => \A l \in Locks : ~Holding(c, l)

\* Outside of locks a process has the interrupts as they were before: on, but
\* off in an interrupt handler, also after it has been switched to another CPU
\* (spinlock.c:111-124, proc.c:1004-1006).  A process is excepted until it has
\* returned from fork().
InterruptsRestored ==
    \A c \in CPUs :
        run[c] \in Procs /\ ncli[c] = 0
          => LET ops == {k[run[c]][i].op : i \in DOMAIN k[run[c]]}
             IN  "trapret" \notin ops => (IF_[c] <=> "iret" \notin ops)

\* Locks and interrupts: no panic, no interrupt inside a lock, and the flag as it
\* was outside of locks.
LocksRight == SpinNoPanic /\ LocksMasked /\ InterruptsRestored
=============================================================================
