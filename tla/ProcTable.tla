----------------------------- MODULE ProcTable -----------------------------
(***************************************************************************)
(* The process table of the CS333_P4 build (proc.c, and the timer part of  *)
(* trap.c): process life cycle, the state lists and ready lists protected  *)
(* by ptable.lock, the MLFQ scheduler running on every CPU, and the timer  *)
(* interrupt.                                                              *)
(*                                                                         *)
(* A section of code executed under ptable.lock is one action.  The lock   *)
(* is held across a context switch in one place where that is visible:     *)
(* wait() is resumed by the scheduler with the lock still held and scans   *)
(* the table again before anyone else can take it.  `ptlock' names the     *)
(* process in that situation.                                              *)
(***************************************************************************)
EXTENDS Integers, Sequences

CONSTANTS
    NPROC,            \* size of ptable.proc
    NCPU,             \* number of CPUs
    Chans,            \* sleep channels other than the process addresses
    TICKS,            \* the channel &ticks
    MAXPRIO,          \* highest priority; 0 turns the MLFQ off
    DEFAULTPRIO,      \* priority given by allocproc
    BUDGET,           \* ticks a process may use at one priority
    TICKS_TO_PROMOTE, \* ticks between two promotions
    SCHED_INTERVAL,   \* a timer interrupt yields when ticks is a multiple
    TICKMOD,          \* ticks is an unsigned counter modulo TICKMOD
    MaxPid            \* bound: allocproc stops handing out pids here

Procs      == 1..NPROC
CPUs       == 0..(NCPU - 1)
NoProc     == 0               \* the null struct proc*, and the null chan
initproc   == 1
Prios      == 0..MAXPRIO
ListStates == {"UNUSED", "EMBRYO", "SLEEPING", "RUNNING", "ZOMBIE"}
States     == ListStates \cup {"RUNNABLE"}

\* Where the kernel thread of a process stands.
ForkPCs    == {"alloc", "fork", "copy", "place", "undo"}
PCs        == {"none", "user", "kernel", "ret", "wait", "exit", "panic"}
                 \cup ForkPCs

ASSUME SizesAssumption ==
    /\ NPROC \in Nat \ {0} /\ NCPU \in Nat \ {0} /\ MaxPid \in Nat
ASSUME MLFQAssumption ==
    /\ MAXPRIO \in Nat /\ DEFAULTPRIO \in 0..MAXPRIO
    /\ BUDGET \in Nat \ {0} /\ SCHED_INTERVAL \in Nat \ {0}
    /\ TICKS_TO_PROMOTE \in Nat /\ TICKMOD \in Nat \ {0}
ASSUME ChansAssumption ==
    /\ TICKS \in Chans /\ \A ch \in Chans : ch \notin 0..NPROC

VARIABLES
    \* struct proc
    state, pid, parent, chan, killed, priority, budget, cpu_ticks_in,
    \* ptable and nextpid
    list, ready, PromoteAtTime, nextpid,
    \* kernel threads: program counter, and the child fork() is building
    pc, np,
    \* CPUs: c->proc and where the scheduler loop stands
    cproc, spc,
    \* process resumed inside wait() with ptable.lock held, or NoProc
    ptlock,
    \* timer: ticks, and the progress of CPU 0 through the timer interrupt
    ticks, intr

procVars  == <<state, pid, parent, chan, killed>>
mlfqVars  == <<priority, budget, cpu_ticks_in>>
listVars  == <<list, ready>>
cpuVars   == <<cproc, spc>>
timeVars  == <<ticks, intr>>
vars == <<procVars, mlfqVars, listVars, PromoteAtTime, nextpid,
          pc, np, cpuVars, ptlock, timeVars>>

-----------------------------------------------------------------------------
(* State lists.  stateListAdd appends at the tail; stateListRemove unlinks  *)
(* one process wherever it is (module StateList has the pointers).          *)

Members(s) == {s[i] : i \in DOMAIN s}

Index(s, p) == CHOOSE i \in DOMAIN s : s[i] = p

\* Fault: insertion at the head instead of the tail.
stateListPush(s, p) == <<p>> \o s

stateListAdd(s, p) == Append(s, p)

\* Fault: only the head of the list is ever unlinked.
stateListRemoveHead(s, p) == IF s # <<>> /\ s[1] = p THEN Tail(s) ELSE s

stateListRemove(s, p) ==
    IF p \in Members(s)
    THEN [j \in 1..(Len(s) - 1) |->
             IF j < Index(s, p) THEN s[j] ELSE s[j + 1]]
    ELSE s

\* initFreeList: every slot but the one userinit takes, in array order.
FreeList == [i \in 1..(NPROC - 1) |-> i + 1]

\* The processes that a scan of all lists but UNUSED meets.  A process that
\* fork() has taken off the EMBRYO list is on none.
OnScannedList(p) ==
    \/ \E s \in ListStates \ {"UNUSED"} : p \in Members(list[s])
    \/ \E k \in Prios : p \in Members(ready[k])

-----------------------------------------------------------------------------
(* State after userinit(): the first process is runnable, all other slots   *)
(* are on the free list, every CPU enters scheduler().                      *)

Init ==
    /\ state = [p \in Procs |-> IF p = initproc THEN "RUNNABLE" ELSE "UNUSED"]
    /\ pid = [p \in Procs |-> IF p = initproc THEN 1 ELSE 0]
    /\ parent = [p \in Procs |-> NoProc]
    /\ chan = [p \in Procs |-> NoProc]
    /\ killed = [p \in Procs |-> 0]
    /\ priority = [p \in Procs |-> IF p = initproc THEN DEFAULTPRIO ELSE 0]
    /\ budget = [p \in Procs |-> IF p = initproc THEN BUDGET ELSE 0]
    /\ cpu_ticks_in = [p \in Procs |-> 0]
    /\ list = [s \in ListStates |-> IF s = "UNUSED" THEN FreeList ELSE <<>>]
    /\ ready = [k \in Prios |-> IF k = DEFAULTPRIO THEN <<initproc>> ELSE <<>>]
    /\ PromoteAtTime = TICKS_TO_PROMOTE % TICKMOD
    /\ nextpid = 2
    /\ pc = [p \in Procs |-> IF p = initproc THEN "user" ELSE "none"]
    /\ np = [p \in Procs |-> NoProc]
    /\ cproc = [c \in CPUs |-> NoProc]
    /\ spc = [c \in CPUs |-> "promote"]
    /\ ptlock = NoProc
    /\ ticks = 0
    /\ intr = "none"

-----------------------------------------------------------------------------
(* Helpers shared by the actions.                                           *)

LockFree == ptlock = NoProc

\* CPU c executes scheduler or process code: CPU 0 is not in the timer
\* interrupt, and c runs p (or the scheduler when p = NoProc).
Executes(c, p) == cproc[c] = p /\ (c = 0 => intr = "none")

\* Process p is at point l of its kernel thread (or in user mode) and may
\* take a step on CPU c.
At(c, p, l) == Executes(c, p) /\ pc[p] = l

\* exit() called by p: init must not exit.
ExitPC(p) == IF p = initproc THEN "panic" ELSE "exit"

\* The budget arithmetic done by yield, sleep and exit when the MLFQ is on.
Spent(p) == budget[p] - ((ticks - cpu_ticks_in[p]) % TICKMOD)

\* Fault: an exactly used-up budget is not noticed.
ExhaustedLate(p) == MAXPRIO # 0 /\ Spent(p) < 0

Exhausted(p) == MAXPRIO # 0 /\ Spent(p) <= 0

ChargedBudget(p) ==
    IF MAXPRIO = 0 THEN budget[p]
    ELSE IF Exhausted(p) THEN BUDGET ELSE Spent(p)

\* Fault: demotion below priority 0.
DemotedBelowZero(p) == IF Exhausted(p) THEN priority[p] - 1 ELSE priority[p]

ChargedPriority(p) ==
    IF Exhausted(p) /\ priority[p] > 0 THEN priority[p] - 1 ELSE priority[p]

Charge(p) ==
    /\ budget' = [budget EXCEPT ![p] = ChargedBudget(p)]
    /\ priority' = [priority EXCEPT ![p] = ChargedPriority(p)]
    /\ UNCHANGED cpu_ticks_in

\* Fault: the scheduler does not clear c->proc when a process comes back.
ToSchedulerStale(c) ==
    /\ cproc' = cproc
    /\ spc' = [spc EXCEPT ![c] = "promote"]

\* swtch into the scheduler of CPU c, which clears c->proc, releases
\* ptable.lock and starts its loop again.
ToScheduler(c) ==
    /\ cproc' = [cproc EXCEPT ![c] = NoProc]
    /\ spc' = [spc EXCEPT ![c] = "promote"]

\* Fault: wakeup1 looks at the first process of the SLEEPING list only.
HeadSleeper(ch, w) ==
    LET S == list["SLEEPING"]
        Hit == S # <<>> /\ chan[S[1]] = ch
    IN  IF Hit THEN w = S[1] ELSE w = NoProc

\* Fault: the walk starts behind the head of the list.
SkipHeadSleeper(ch, w) ==
    LET S == list["SLEEPING"]
        Hit(i) == i > 1 /\ state[S[i]] = "SLEEPING" /\ chan[S[i]] = ch
    IN  \/ w = NoProc /\ \A i \in DOMAIN S : ~Hit(i)
        \/ \E i \in DOMAIN S : /\ w = S[i] /\ Hit(i)
                               /\ \A j \in DOMAIN S : j < i => ~Hit(j)

\* wakeup1: the walk over the SLEEPING list follows p->next after p was made
\* the tail of a ready list, so it ends at the first process it wakes.  It
\* wakes w, or nobody if w is NoProc.
FirstSleeper(ch, w) ==
    LET S == list["SLEEPING"]
        Hit(i) == state[S[i]] = "SLEEPING" /\ chan[S[i]] = ch
    IN  \/ w = NoProc /\ \A i \in DOMAIN S : ~Hit(i)
        \/ \E i \in DOMAIN S : /\ w = S[i] /\ Hit(i)
                               /\ \A j \in DOMAIN S : j < i => ~Hit(j)

\* Process w, if any, joins the ready list of its priority.
AddReady(r, w) == IF w = NoProc THEN r
                  ELSE [r EXCEPT ![priority[w]] = stateListAdd(@, w)]

wakeup1(ch) ==
    \E w \in Procs \cup {NoProc} :
       /\ FirstSleeper(ch, w)
       /\ state' = [p \in Procs |-> IF p = w THEN "RUNNABLE" ELSE state[p]]
       /\ list' = [list EXCEPT !["SLEEPING"] = stateListRemove(@, w)]
       /\ ready' = AddReady(ready, w)

-----------------------------------------------------------------------------
(* Traps.                                                                   *)

\* trap(), system call entry: a killed process exits instead.
SyscallEnter(c, p) ==
    /\ At(c, p, "user")
    /\ pc' = [pc EXCEPT ![p] = IF killed[p] = 1 THEN ExitPC(p) ELSE "kernel"]
    /\ UNCHANGED <<procVars, mlfqVars, listVars, PromoteAtTime, nextpid, np,
                   cpuVars, ptlock, timeVars>>

\* trap(), return to user mode from a system call, or from a timer interrupt
\* after the yield: a killed process exits instead.
TrapReturn(c, p) ==
    /\ At(c, p, "kernel") \/ At(c, p, "ret")
    /\ pc' = [pc EXCEPT ![p] = IF killed[p] = 1 THEN ExitPC(p) ELSE "user"]
    /\ UNCHANGED <<procVars, mlfqVars, listVars, PromoteAtTime, nextpid, np,
                   cpuVars, ptlock, timeVars>>

\* trap(), default case in user mode: the process misbehaved.
UserFault(c, p) ==
    /\ At(c, p, "user")
    /\ killed' = [killed EXCEPT ![p] = 1]
    /\ pc' = [pc EXCEPT ![p] = ExitPC(p)]
    /\ UNCHANGED <<state, pid, parent, chan, mlfqVars, listVars,
                   PromoteAtTime, nextpid, np, cpuVars, ptlock, timeVars>>

-----------------------------------------------------------------------------
(* fork() and allocproc(): five critical sections and unlocked steps, with  *)
(* p preemptible between any two of them.                                   *)

\* Fault: nextpid is not incremented.
TakeSamePid(q) ==
    /\ pid' = [pid EXCEPT ![q] = nextpid]
    /\ nextpid' = nextpid

\* p->pid = nextpid++
TakePid(q) ==
    /\ pid' = [pid EXCEPT ![q] = nextpid]
    /\ nextpid' = nextpid + 1

ForkAlloc(c, p) ==
    LET q == Head(list["UNUSED"]) IN
    /\ At(c, p, "kernel") /\ LockFree
    /\ list["UNUSED"] # <<>>
    /\ nextpid <= MaxPid
    /\ list' = [list EXCEPT !["UNUSED"] = stateListRemove(@, q),
                            !["EMBRYO"] = stateListAdd(@, q)]
    /\ state' = [state EXCEPT ![q] = "EMBRYO"]
    /\ TakePid(q)
    /\ np' = [np EXCEPT ![p] = q]
    /\ pc' = [pc EXCEPT ![p] = "alloc"]
    /\ UNCHANGED <<parent, chan, killed, mlfqVars, ready, PromoteAtTime,
                   cpuVars, ptlock, timeVars>>

\* kalloc succeeds: rest of allocproc, without the lock.
AllocStack(c, p) ==
    /\ At(c, p, "alloc")
    /\ priority' = [priority EXCEPT ![np[p]] = DEFAULTPRIO]
    /\ budget' = [budget EXCEPT ![np[p]] = BUDGET]
    /\ cpu_ticks_in' = [cpu_ticks_in EXCEPT ![np[p]] = 0]
    /\ pc' = [pc EXCEPT ![p] = "fork"]
    /\ UNCHANGED <<procVars, listVars, PromoteAtTime, nextpid, np, cpuVars,
                   ptlock, timeVars>>

\* kalloc fails: the slot goes back to the free list, fork returns -1.
AllocFail(c, p) ==
    /\ At(c, p, "alloc") /\ LockFree
    /\ list' = [list EXCEPT !["EMBRYO"] = stateListRemove(@, np[p]),
                            !["UNUSED"] = stateListAdd(@, np[p])]
    /\ state' = [state EXCEPT ![np[p]] = "UNUSED"]
    /\ np' = [np EXCEPT ![p] = NoProc]
    /\ pc' = [pc EXCEPT ![p] = "kernel"]
    /\ UNCHANGED <<pid, parent, chan, killed, mlfqVars, ready, PromoteAtTime,
                   nextpid, cpuVars, ptlock, timeVars>>

\* fork takes the child off the EMBRYO list.
ForkDetach(c, p) ==
    /\ At(c, p, "fork") /\ LockFree
    /\ list' = [list EXCEPT !["EMBRYO"] = stateListRemove(@, np[p])]
    /\ pc' = [pc EXCEPT ![p] = "copy"]
    /\ UNCHANGED <<procVars, mlfqVars, ready, PromoteAtTime, nextpid, np,
                   cpuVars, ptlock, timeVars>>

\* copyuvm succeeds: the child gets its parent, without the lock.
CopyOk(c, p) ==
    /\ At(c, p, "copy")
    /\ parent' = [parent EXCEPT ![np[p]] = p]
    /\ pc' = [pc EXCEPT ![p] = "place"]
    /\ UNCHANGED <<state, pid, chan, killed, mlfqVars, listVars,
                   PromoteAtTime, nextpid, np, cpuVars, ptlock, timeVars>>

\* copyuvm fails: the child becomes UNUSED without the lock ...
CopyFail(c, p) ==
    /\ At(c, p, "copy")
    /\ state' = [state EXCEPT ![np[p]] = "UNUSED"]
    /\ pc' = [pc EXCEPT ![p] = "undo"]
    /\ UNCHANGED <<pid, parent, chan, killed, mlfqVars, listVars,
                   PromoteAtTime, nextpid, np, cpuVars, ptlock, timeVars>>

\* ... and is then put on the free list; fork returns -1.
ForkUndo(c, p) ==
    /\ At(c, p, "undo") /\ LockFree
    /\ list' = [list EXCEPT !["UNUSED"] = stateListAdd(@, np[p])]
    /\ np' = [np EXCEPT ![p] = NoProc]
    /\ pc' = [pc EXCEPT ![p] = "kernel"]
    /\ UNCHANGED <<procVars, mlfqVars, ready, PromoteAtTime, nextpid,
                   cpuVars, ptlock, timeVars>>

\* The child becomes RUNNABLE; it will start in user mode (forkret).
ForkPlace(c, p) ==
    /\ At(c, p, "place") /\ LockFree
    /\ state' = [state EXCEPT ![np[p]] = "RUNNABLE"]
    /\ ready' = AddReady(ready, np[p])
    /\ np' = [np EXCEPT ![p] = NoProc]
    /\ pc' = [pc EXCEPT ![p] = "kernel", ![np[p]] = "user"]
    /\ UNCHANGED <<pid, parent, chan, killed, mlfqVars, list, PromoteAtTime,
                   nextpid, cpuVars, ptlock, timeVars>>

-----------------------------------------------------------------------------
(* exit()                                                                   *)

\* sys_exit: from here to ExitFinish p closes its files and may sleep.
ExitStart(c, p) ==
    /\ At(c, p, "kernel")
    /\ pc' = [pc EXCEPT ![p] = ExitPC(p)]
    /\ UNCHANGED <<procVars, mlfqVars, listVars, PromoteAtTime, nextpid, np,
                   cpuVars, ptlock, timeVars>>

\* Fault: exit() does not scan the ready lists for children.
OrphansNotReady(p) ==
    {q \in Procs : /\ \E s \in ListStates : q \in Members(list[s])
                   /\ parent[q] = p}

Orphans(p) == {q \in Procs : OnScannedList(q) /\ parent[q] = p}

\* The critical section: wake the parent (w), hand the children to init and
\* wake init (v) if one of them is a zombie, become ZOMBIE, never come back.
\* Only init sleeps on its own address, so wakeup1(initproc) for a second
\* zombie, or after init was woken as the parent, finds nobody.
ExitFinish(c, p) ==
    /\ At(c, p, "exit") /\ LockFree
    /\ \E w, v \in Procs \cup {NoProc} :
         /\ FirstSleeper(parent[p], w)
         /\ IF w # initproc /\ \E q \in Orphans(p) : state[q] = "ZOMBIE"
            THEN FirstSleeper(initproc, v) ELSE v = NoProc
         /\ state' = [q \in Procs |-> IF q = p THEN "ZOMBIE"
                                      ELSE IF q \in {w, v} THEN "RUNNABLE"
                                      ELSE state[q]]
         /\ list' = [list EXCEPT
                       !["SLEEPING"] = stateListRemove(stateListRemove(@, w), v),
                       !["RUNNING"]  = stateListRemove(@, p),
                       !["ZOMBIE"]   = stateListAdd(@, p)]
         /\ ready' = AddReady(AddReady(ready, w), v)
    /\ parent' = [q \in Procs |->
                    IF q \in Orphans(p) THEN initproc ELSE parent[q]]
    /\ Charge(p)
    /\ pc' = [pc EXCEPT ![p] = "none"]
    /\ ToScheduler(c)
    /\ UNCHANGED <<pid, chan, killed, PromoteAtTime, nextpid, np, ptlock,
                   timeVars>>

-----------------------------------------------------------------------------
(* sleep, yield, wait                                                       *)

\* Shared part of sleep(chan, lk), entered with ptable.lock held.
SleepOn(c, p, ch) ==
    /\ chan' = [chan EXCEPT ![p] = ch]
    /\ state' = [state EXCEPT ![p] = "SLEEPING"]
    /\ list' = [list EXCEPT !["RUNNING"]  = stateListRemove(@, p),
                            !["SLEEPING"] = stateListAdd(@, p)]
    /\ Charge(p)
    /\ ToScheduler(c)

\* Kernel code (a system call, or exit closing files) sleeps on ch.
Sleep(c, p, ch) ==
    /\ At(c, p, "kernel") \/ At(c, p, "exit")
    /\ LockFree
    /\ SleepOn(c, p, ch)
    /\ UNCHANGED <<pid, parent, killed, ready, PromoteAtTime, nextpid, pc, np,
                   ptlock, timeVars>>

Children(p) == {q \in Procs : OnScannedList(q) /\ parent[q] = p}

\* The scan meets q first among p's zombie children, if there is one.
ZombieChild(p, q) ==
    LET Z == list["ZOMBIE"]
        Hit(i) == parent[Z[i]] = p /\ state[Z[i]] = "ZOMBIE"
    IN  \E i \in DOMAIN Z : /\ q = Z[i] /\ Hit(i)
                            /\ \A j \in DOMAIN Z : j < i => ~Hit(j)

NoZombieChild(p) == \A q \in Members(list["ZOMBIE"]) :
                       ~(parent[q] = p /\ state[q] = "ZOMBIE")

\* p holds ptable.lock inside wait(): on entry from the system call, or
\* because the scheduler has just resumed it there.
InWait(c, p) == \/ At(c, p, "kernel") /\ LockFree
                \/ At(c, p, "wait") /\ ptlock = p

\* A zombie child is freed; wait returns its pid.
WaitReap(c, p) ==
    /\ InWait(c, p)
    /\ \E q \in Procs :
         /\ ZombieChild(p, q)
         /\ pid' = [pid EXCEPT ![q] = 0]
         /\ parent' = [parent EXCEPT ![q] = NoProc]
         /\ killed' = [killed EXCEPT ![q] = 0]
         /\ state' = [state EXCEPT ![q] = "UNUSED"]
         /\ list' = [list EXCEPT !["ZOMBIE"] = stateListRemove(@, q),
                                 !["UNUSED"] = stateListAdd(@, q)]
    /\ pc' = [pc EXCEPT ![p] = "kernel"]
    /\ ptlock' = NoProc
    /\ UNCHANGED <<chan, mlfqVars, ready, PromoteAtTime, nextpid, np, cpuVars,
                   timeVars>>

\* No zombie child, and no child at all or p was killed: return -1.
WaitFail(c, p) ==
    /\ InWait(c, p)
    /\ NoZombieChild(p)
    /\ Children(p) = {} \/ killed[p] = 1
    /\ pc' = [pc EXCEPT ![p] = "kernel"]
    /\ ptlock' = NoProc
    /\ UNCHANGED <<procVars, mlfqVars, listVars, PromoteAtTime, nextpid, np,
                   cpuVars, timeVars>>

\* Otherwise sleep on its own address until a child exits.
WaitSleep(c, p) ==
    /\ InWait(c, p)
    /\ NoZombieChild(p)
    /\ Children(p) # {} /\ killed[p] = 0
    /\ SleepOn(c, p, p)
    /\ pc' = [pc EXCEPT ![p] = "wait"]
    /\ ptlock' = NoProc
    /\ UNCHANGED <<pid, parent, killed, ready, PromoteAtTime, nextpid, np,
                   timeVars>>

-----------------------------------------------------------------------------
(* wakeup, kill, setpriority                                                *)

\* wakeup(ch) from any kernel code or device interrupt.
Wakeup(ch) ==
    /\ LockFree
    /\ wakeup1(ch)
    /\ UNCHANGED <<pid, parent, chan, killed, mlfqVars, PromoteAtTime,
                   nextpid, pc, np, cpuVars, ptlock, timeVars>>

\* kill(pid): the victim is marked, and made runnable if it sleeps.
Kill(c, p, n) ==
    /\ At(c, p, "kernel") /\ LockFree
    /\ \E q \in Procs :
         LET w == IF state[q] = "SLEEPING" THEN q ELSE NoProc IN
         /\ OnScannedList(q) /\ pid[q] = n
         /\ killed' = [killed EXCEPT ![q] = 1]
         /\ state' = [state EXCEPT ![q] = IF w = q THEN "RUNNABLE" ELSE @]
         /\ list' = [list EXCEPT !["SLEEPING"] = stateListRemove(@, w)]
         /\ ready' = AddReady(ready, w)
    /\ UNCHANGED <<pid, parent, chan, mlfqVars, PromoteAtTime, nextpid, pc, np,
                   cpuVars, ptlock, timeVars>>

\* setpriority(pid, k): ready processes change list, sleeping and running
\* ones only their priority; nothing happens when k is the priority already.
SetPriority(c, p, n, k) ==
    /\ At(c, p, "kernel") /\ LockFree
    /\ \E q \in Procs :
         /\ \/ \E i \in Prios : q \in Members(ready[i])
            \/ q \in Members(list["SLEEPING"]) \cup Members(list["RUNNING"])
         /\ pid[q] = n /\ priority[q] # k
         /\ priority' = [priority EXCEPT ![q] = k]
         /\ budget' = [budget EXCEPT ![q] = BUDGET]
         /\ ready' = IF \E i \in Prios : q \in Members(ready[i])
                     THEN [ready EXCEPT
                             ![priority[q]] = stateListRemove(@, q),
                             ![k] = stateListAdd(@, q)]
                     ELSE ready
    /\ UNCHANGED <<procVars, cpu_ticks_in, list, PromoteAtTime, nextpid, pc,
                   np, cpuVars, ptlock, timeVars>>

-----------------------------------------------------------------------------
(* scheduler(): one promotion section and one dispatch section per turn.    *)

PromotionDue == MAXPRIO # 0 /\ ticks >= PromoteAtTime

\* Every ready list moves up by one, the two highest being joined; sleeping
\* and running processes are raised in place.
Promoted(p) ==
    /\ priority[p] < MAXPRIO
    /\ \/ p \in Members(list["SLEEPING"]) \cup Members(list["RUNNING"])
       \/ \E k \in Prios : p \in Members(ready[k])

\* Fault: the highest list is replaced by the one below instead of joined.
PromotedReadyLossy ==
    [k \in Prios |-> IF k = 0 THEN <<>> ELSE ready[k - 1]]

PromotedReady ==
    [k \in Prios |-> IF k = MAXPRIO THEN ready[k] \o ready[k - 1]
                     ELSE IF k = 0 THEN <<>> ELSE ready[k - 1]]

SchedPromote(c) ==
    /\ Executes(c, NoProc) /\ spc[c] = "promote" /\ LockFree
    /\ spc' = [spc EXCEPT ![c] = "dispatch"]
    /\ \/ /\ PromotionDue
          /\ priority' = [p \in Procs |-> IF Promoted(p) THEN priority[p] + 1
                                          ELSE priority[p]]
          /\ budget' = [p \in Procs |-> IF Promoted(p) THEN BUDGET
                                        ELSE budget[p]]
          /\ ready' = PromotedReady
          /\ PromoteAtTime' = (ticks + TICKS_TO_PROMOTE) % TICKMOD
       \/ /\ ~PromotionDue
          /\ UNCHANGED <<priority, budget, ready, PromoteAtTime>>
    /\ UNCHANGED <<procVars, cpu_ticks_in, list, nextpid, pc, np, cproc,
                   ptlock, timeVars>>

\* The head of the highest non-empty ready list runs.  A process resumed in
\* sleep() clears its chan; one resumed in wait() still holds the lock.
SchedDispatch(c) ==
    /\ Executes(c, NoProc) /\ spc[c] = "dispatch" /\ LockFree
    /\ \E k \in Prios :
         LET p == Head(ready[k]) IN
         /\ ready[k] # <<>>
         /\ \A j \in Prios : j > k => ready[j] = <<>>
         /\ cproc' = [cproc EXCEPT ![c] = p]
         /\ ready' = [ready EXCEPT ![priority[p]] = stateListRemove(@, p)]
         /\ state' = [state EXCEPT ![p] = "RUNNING"]
         /\ list' = [list EXCEPT !["RUNNING"] = stateListAdd(@, p)]
         /\ cpu_ticks_in' = [cpu_ticks_in EXCEPT ![p] = ticks]
         /\ chan' = [chan EXCEPT ![p] = NoProc]
         /\ ptlock' = IF pc[p] = "wait" THEN p ELSE NoProc
    /\ spc' = [spc EXCEPT ![c] = "run"]
    /\ UNCHANGED <<pid, parent, killed, priority, budget, PromoteAtTime,
                   nextpid, pc, np, timeVars>>

\* Nothing is ready: idle until an interrupt, then go round again.
SchedIdle(c) ==
    /\ Executes(c, NoProc) /\ spc[c] = "dispatch" /\ LockFree
    /\ \A k \in Prios : ready[k] = <<>>
    /\ spc' = [spc EXCEPT ![c] = "promote"]
    /\ UNCHANGED <<procVars, mlfqVars, listVars, PromoteAtTime, nextpid, pc,
                   np, cproc, ptlock, timeVars>>

-----------------------------------------------------------------------------
(* The timer interrupt.  CPU 0 counts the tick without any lock, wakes one  *)
(* sleeper on &ticks under ptable.lock, and then treats its process as the  *)
(* other CPUs treat theirs.                                                 *)

\* Interrupts are enabled on c: it neither holds ptable.lock nor panicked.
Interruptible(c) ==
    cproc[c] # NoProc => cproc[c] # ptlock /\ pc[cproc[c]] # "panic"

TimerTick ==
    /\ intr = "none" /\ Interruptible(0)
    /\ ticks' = (ticks + 1) % TICKMOD
    /\ intr' = "wakeup"
    /\ UNCHANGED <<procVars, mlfqVars, listVars, PromoteAtTime, nextpid, pc,
                   np, cpuVars, ptlock>>

TimerWakeup ==
    /\ intr = "wakeup" /\ LockFree
    /\ wakeup1(TICKS)
    /\ intr' = "tail"
    /\ UNCHANGED <<pid, parent, chan, killed, mlfqVars, PromoteAtTime,
                   nextpid, pc, np, cpuVars, ptlock, ticks>>

\* The end of trap() for a timer interrupt of CPU c: on CPU 0 after the
\* wakeup, on another CPU at any time.
InTrapTail(c) ==
    IF c = 0 THEN intr = "tail" /\ intr' = "none"
             ELSE Interruptible(c) /\ intr' = intr

\* A killed process interrupted in user mode exits.
TimerExit(c) ==
    LET p == cproc[c] IN
    /\ InTrapTail(c)
    /\ p # NoProc /\ pc[p] = "user" /\ killed[p] = 1
    /\ pc' = [pc EXCEPT ![p] = ExitPC(p)]
    /\ UNCHANGED <<procVars, mlfqVars, listVars, PromoteAtTime, nextpid, np,
                   cpuVars, ptlock, ticks>>

\* yield(), at every SCHED_INTERVAL-th tick.
TimerYield(c) ==
    LET p == cproc[c] IN
    /\ InTrapTail(c)
    /\ p # NoProc /\ ~(pc[p] = "user" /\ killed[p] = 1)
    /\ ticks % SCHED_INTERVAL = 0
    /\ LockFree
    /\ state' = [state EXCEPT ![p] = "RUNNABLE"]
    /\ list' = [list EXCEPT !["RUNNING"] = stateListRemove(@, p)]
    /\ Charge(p)
    /\ ready' = [ready EXCEPT ![ChargedPriority(p)] = stateListAdd(@, p)]
    /\ pc' = [pc EXCEPT ![p] = IF @ = "user" THEN "ret" ELSE @]
    /\ ToScheduler(c)
    /\ UNCHANGED <<pid, parent, chan, killed, PromoteAtTime, nextpid, np,
                   ptlock, ticks>>

\* Otherwise the interrupted code (or the idle scheduler) goes on.  On the
\* other CPUs such an interrupt changes nothing.
TimerReturn ==
    LET p == cproc[0] IN
    /\ InTrapTail(0)
    /\ p # NoProc => /\ ~(pc[p] = "user" /\ killed[p] = 1)
                     /\ ticks % SCHED_INTERVAL # 0
    /\ UNCHANGED <<procVars, mlfqVars, listVars, PromoteAtTime, nextpid, pc,
                   np, cpuVars, ptlock, ticks>>

-----------------------------------------------------------------------------
Fork(c, p) ==
    \/ ForkAlloc(c, p) \/ AllocStack(c, p) \/ AllocFail(c, p)
    \/ ForkDetach(c, p) \/ CopyOk(c, p) \/ CopyFail(c, p)
    \/ ForkUndo(c, p) \/ ForkPlace(c, p)

Wait(c, p) == WaitReap(c, p) \/ WaitFail(c, p) \/ WaitSleep(c, p)

ProcStep(c, p) ==
    \/ SyscallEnter(c, p) \/ TrapReturn(c, p) \/ UserFault(c, p)
    \/ Fork(c, p) \/ Wait(c, p)
    \/ ExitStart(c, p) \/ ExitFinish(c, p)
    \/ \E ch \in Chans : Sleep(c, p, ch)
    \/ \E n \in 1..MaxPid : Kill(c, p, n)
    \/ \E n \in 1..MaxPid, k \in Prios : SetPriority(c, p, n, k)

Scheduler(c) == SchedPromote(c) \/ SchedDispatch(c) \/ SchedIdle(c)

Timer == \/ TimerTick \/ TimerWakeup \/ TimerReturn
         \/ \E c \in CPUs : TimerExit(c) \/ TimerYield(c)

Next == \/ \E c \in CPUs, p \in Procs : ProcStep(c, p)
        \/ \E c \in CPUs : Scheduler(c)
        \/ Timer
        \/ \E ch \in Chans : Wakeup(ch)

Spec == Init /\ [][Next]_vars

(* Fairness.  The timer of CPU 0 keeps firing and a pending interrupt stays *)
(* latched until it is taken; the interrupted code runs between two ticks,  *)
(* so the scheduler and the holder of ptable.lock get on.  Nothing is       *)
(* assumed of user code or of the system calls.                             *)
Fairness ==
    /\ SF_vars(TimerTick)
    /\ WF_vars(TimerWakeup) /\ WF_vars(TimerReturn)
    /\ \A c \in CPUs : /\ SF_vars(Scheduler(c))
                        /\ WF_vars(c = 0 /\ (TimerExit(c) \/ TimerYield(c)))
                        /\ WF_vars(\E p \in Procs : ptlock = p /\ Wait(c, p))

FairSpec == Spec /\ Fairness
-----------------------------------------------------------------------------
(* Properties.                                                              *)

\* Every variable keeps its type; in particular priorities index the ready
\* lists and budgets never exceed BUDGET.
TypeOK ==
    /\ state \in [Procs -> States]
    /\ pid \in [Procs -> Nat]
    /\ parent \in [Procs -> Procs \cup {NoProc}]
    /\ chan \in [Procs -> Procs \cup Chans \cup {NoProc}]
    /\ killed \in [Procs -> {0, 1}]
    /\ priority \in [Procs -> Prios]
    /\ budget \in [Procs -> 0..BUDGET]
    /\ cpu_ticks_in \in [Procs -> 0..(TICKMOD - 1)]
    /\ list \in [ListStates -> Seq(Procs)]
    /\ ready \in [Prios -> Seq(Procs)]
    /\ PromoteAtTime \in 0..(TICKMOD - 1)
    /\ nextpid \in Nat
    /\ pc \in [Procs -> PCs]
    /\ np \in [Procs -> Procs \cup {NoProc}]
    /\ cproc \in [CPUs -> Procs \cup {NoProc}]
    /\ spc \in [CPUs -> {"promote", "dispatch", "run"}]
    /\ ptlock \in Procs \cup {NoProc}
    /\ ticks \in 0..(TICKMOD - 1)
    /\ intr \in {"none", "wakeup", "tail"}

\* The child that some fork() holds off every list.
Detached(p) == \E q \in Procs : np[q] = p /\ pc[q] \in {"copy", "place", "undo"}

NoRepeats(s) == \A i, j \in DOMAIN s : s[i] = s[j] => i = j

\* A process is on the list of its state, once, and on no other; a RUNNABLE
\* one is on the ready list of its priority.  Only a child being built by
\* fork() is on none.  This is what every stateListRemove and assertState in
\* proc.c relies on: where it fails the kernel panics ("Process Not Found In
\* ... List!") or loses a process.
ListsAgree ==
    /\ \A s \in ListStates :
         /\ NoRepeats(list[s])
         /\ \A p \in Procs :
              p \in Members(list[s]) <=> state[p] = s /\ ~Detached(p)
    /\ \A k \in Prios :
         /\ NoRepeats(ready[k])
         /\ \A p \in Procs :
              p \in Members(ready[k]) <=>
                 state[p] = "RUNNABLE" /\ priority[p] = k

\* c->proc and p->state agree: a process is RUNNING exactly when one CPU, and
\* no other, runs it.
OneCPUEach ==
    \A p \in Procs :
       /\ state[p] = "RUNNING" <=> \E c \in CPUs : cproc[c] = p
       /\ \A c, d \in CPUs : cproc[c] = p /\ cproc[d] = p => c = d

\* No exit is missed by wait(): a parent never sleeps in wait() while one of
\* its children, adopted ones included, is a zombie.
NoLostExit ==
    \A p, q \in Procs :
       state[q] = "ZOMBIE" /\ parent[q] = p =>
          ~(state[p] = "SLEEPING" /\ chan[p] = p)

\* A process that exists has a parent that can still wait() for it, init
\* excepted: exit() hands every child over, those on the ready lists too.
ParentAlive ==
    \A p \in Procs :
       state[p] \in {"RUNNABLE", "RUNNING", "SLEEPING", "ZOMBIE"} /\ p # initproc
         => /\ parent[p] \in Procs \ {p}
            /\ state[parent[p]] \in {"RUNNABLE", "RUNNING", "SLEEPING"}

\* Two processes never share a pid, so kill() and setpriority() reach the
\* process meant.
UniquePids ==
    \A p, q \in Procs :
       p # q /\ state[p] # "UNUSED" /\ state[q] # "UNUSED" => pid[p] # pid[q]

\* An unfinished child belongs to exactly one fork(), which is still at work.
ForkAgree ==
    \A p \in Procs :
       /\ pc[p] \in ForkPCs <=> np[p] # NoProc
       /\ np[p] # NoProc =>
            state[np[p]] = IF pc[p] = "undo" THEN "UNUSED" ELSE "EMBRYO"
       /\ \A q \in Procs : np[p] = np[q] /\ np[p] # NoProc => p = q
       /\ pc[p] = "place" => parent[np[p]] = p

\* A process has a thread exactly when it is neither free, nor under
\* construction, nor a zombie; init has one for ever.
ThreadAgree ==
    /\ pc[initproc] \notin {"none", "exit"}
    /\ \A p \in Procs :
         pc[p] = "none" <=> state[p] \in {"UNUSED", "EMBRYO", "ZOMBIE"}

\* A process sleeps in a system call, in exit() or in wait(); if it sleeps on
\* a process address it is in wait(), on its own.
SleepAgree ==
    \A p \in Procs :
       state[p] = "SLEEPING" =>
          /\ pc[p] \in {"kernel", "exit", "wait"}
          /\ pc[p] = "wait" <=> chan[p] = p
          /\ chan[p] \in Procs => chan[p] = p

\* The process that runs inside wait() holds ptable.lock, and no other does.
LockAgree ==
    \A p \in Procs : ptlock = p <=> pc[p] = "wait" /\ state[p] = "RUNNING"

\* The scheduler of a CPU is suspended exactly while the CPU runs a process.
SchedAgree == \A c \in CPUs : spc[c] = "run" <=> cproc[c] # NoProc

\* Pids grow, so a new process cannot get the pid of an old one.
PidsBounded == \A p \in Procs : pid[p] < nextpid

\* A process that is scheduled always has budget left.
BudgetLeft ==
    \A p \in Procs :
       state[p] \in {"RUNNABLE", "RUNNING", "SLEEPING"} => budget[p] > 0

\* allocproc() gave the child its budget before fork() made it visible.
ChildBudget ==
    \A p \in Procs : pc[p] \in {"fork", "copy", "place"} => budget[np[p]] > 0

\* The inductive invariant: every part above needs some of the others.
IInv == /\ TypeOK /\ ListsAgree
        /\ ForkAgree /\ ThreadAgree /\ SleepAgree /\ LockAgree /\ SchedAgree
        /\ OneCPUEach /\ NoLostExit /\ ParentAlive
        /\ UniquePids /\ PidsBounded /\ BudgetLeft /\ ChildBudget

\* A free slot carries no kill request left over from the process that was in
\* it, so a new process is not born killed.
BornAlive == \A p \in Procs : state[p] = "UNUSED" => killed[p] = 0

Panicked == \E p \in Procs : pc[p] = "panic"

\* What the MLFQ needs of its users and of its clock: priorities of waiting
\* processes are not lowered for ever by setpriority(), and the scheduler
\* meets a due promotion again and again.  The latter holds as long as ticks
\* does not wrap around between two scheduler turns.
MLFQRuns ==
    /\ <>[][\A p \in Procs :
               state[p] = "RUNNABLE" => priority'[p] >= priority[p]]_vars
    /\ MAXPRIO # 0 => []<><<PromoteAtTime' # PromoteAtTime>>_PromoteAtTime

\* A RUNNABLE process gets a CPU: promotion carries it to the highest ready
\* list, which is served in order.
NoStarvation ==
    MLFQRuns => \A p \in Procs :
        state[p] = "RUNNABLE" ~> (state[p] = "RUNNING" \/ Panicked)

\* wait() comes back: a parent inside wait() with a zombie child is woken, gets
\* a CPU and returns.
WaitReturns ==
    MLFQRuns => \A p, q \in Procs :
        state[q] = "ZOMBIE" /\ parent[q] = p /\ pc[p] = "wait"
          ~> (pc[p] # "wait" \/ Panicked)
=============================================================================
