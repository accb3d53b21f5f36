----------------------------- MODULE StateList -----------------------------
(***************************************************************************)
(* The state lists of proc.c as they are stored: a head and a tail pointer *)
(* per list and one next pointer per process, shared by all lists          *)
(* (CS333_P3 build, one RUNNABLE list).  Every action is a section under   *)
(* ptable.lock, except that the loop of wakeup1 is taken step by step with *)
(* the lock held, because it follows next pointers that it changes itself. *)
(***************************************************************************)
EXTENDS Integers, Sequences, FiniteSets

CONSTANTS NPROC, Chans, NoChan

\* NPROC is 64, and no address that is slept on is 0.
ListSizes == NPROC \in Nat \ {0} /\ NoChan \notin Chans

Slots == 1..NPROC
NULL  == 0
Lists == {"UNUSED", "EMBRYO", "SLEEPING", "RUNNABLE", "RUNNING", "ZOMBIE"}

VARIABLES
    h,      \* the pointers: head and tail of each list, next of each process
    state,  \* p->state; "none" while fork() holds p off every list
    chan,   \* p->chan
    walk,   \* the variable p of wakeup1
    wchan,  \* the argument of wakeup1 while it runs, else NoChan
    before, \* the SLEEPING list when wakeup1 started (for the properties)
    halted  \* a panic("Process Not Found In ... List!")

vars == <<h, state, chan, walk, wchan, before, halted>>

-----------------------------------------------------------------------------
(* The pointers of list l.                                                  *)

\* The process reached from the head after i links, NULL past the end.
Chain(g, l) ==
    LET c[i \in 0..NPROC] == IF i = 0 THEN g.head[l]
                             ELSE IF c[i - 1] = NULL THEN NULL
                             ELSE g.next[c[i - 1]]
    IN  c

\* The list as a sequence.
Contents(g, l) ==
    LET c == Chain(g, l)
        n == Cardinality({i \in 0..(NPROC - 1) : c[i] # NULL})
    IN  [i \in 1..n |-> c[i - 1]]

Members(s) == {s[i] : i \in DOMAIN s}

\* Fault: the new tail keeps the next pointer it had.
stateListAddStale(g, l, p) ==
    IF g.head[l] = NULL
    THEN [g EXCEPT !.head[l] = p, !.tail[l] = p]
    ELSE [g EXCEPT !.next[g.tail[l]] = p, !.tail[l] = p]

stateListAdd(g, l, p) ==
    IF g.head[l] = NULL
    THEN [g EXCEPT !.head[l] = p, !.tail[l] = p, !.next[p] = NULL]
    ELSE [g EXCEPT !.next = [@ EXCEPT ![g.tail[l]] = p, ![p] = NULL],
                   !.tail[l] = p]

\* The search loop of stateListRemove reaches p.
Found(g, l, p) ==
    g.head[l] # NULL /\ g.tail[l] # NULL /\ p \in Members(Contents(g, l))

Previous(g, l, p) == CHOOSE q \in Members(Contents(g, l)) : g.next[q] = p

\* Fault: the tail pointer is not moved when the last process leaves.
stateListRemoveTail(g, l, p) ==
    IF g.head[l] = p
    THEN [g EXCEPT !.head[l] = g.next[p]]
    ELSE [g EXCEPT !.next = [@ EXCEPT ![Previous(g, l, p)] = g.next[p],
                                      ![p] = NULL]]

\* A process that was the head keeps its next pointer.
stateListRemove(g, l, p) ==
    LET q == Previous(g, l, p) IN
    IF g.head[l] = p
    THEN [g EXCEPT !.head[l] = g.next[p],
                   !.tail[l] = IF @ = p THEN NULL ELSE @]
    ELSE IF g.tail[l] = p
    THEN [g EXCEPT !.tail[l] = q, !.next = [@ EXCEPT ![q] = NULL, ![p] = NULL]]
    ELSE [g EXCEPT !.next = [@ EXCEPT ![q] = g.next[p], ![p] = NULL]]

-----------------------------------------------------------------------------
\* initProcessLists and initFreeList: the free list in array order.
Init ==
    /\ h = [head |-> [l \in Lists |-> IF l = "UNUSED" THEN 1 ELSE NULL],
            tail |-> [l \in Lists |-> IF l = "UNUSED" THEN NPROC ELSE NULL],
            next |-> [p \in Slots |-> IF p = NPROC THEN NULL ELSE p + 1]]
    /\ state = [p \in Slots |-> "UNUSED"]
    /\ chan = [p \in Slots |-> NoChan]
    /\ walk = NULL /\ wchan = NoChan /\ before = <<>>
    /\ halted = FALSE

LockFree == wchan = NoChan /\ ~halted

\* The moves between two lists: allocproc and its undoing, the scheduler,
\* yield, kill, exit and wait.  allocproc and the scheduler take the head: the
\* scheduler's loop goes on at p->next when p comes back, but p is then the
\* tail of the list it has just joined.  A process resumed in sleep() clears
\* its chan.
Moves == {<<"UNUSED", "EMBRYO">>, <<"EMBRYO", "UNUSED">>,
          <<"RUNNABLE", "RUNNING">>, <<"RUNNING", "RUNNABLE">>,
          <<"SLEEPING", "RUNNABLE">>, <<"RUNNING", "ZOMBIE">>,
          <<"ZOMBIE", "UNUSED">>}

Relist(p, l, m) ==
    IF Found(h, l, p)
    THEN /\ h' = stateListAdd(stateListRemove(h, l, p), m, p)
         /\ state' = [state EXCEPT ![p] = m]
         /\ UNCHANGED halted
    ELSE halted' = TRUE /\ UNCHANGED <<h, state>>

Move(p, l, m) ==
    /\ LockFree /\ <<l, m>> \in Moves /\ state[p] = l
    /\ l \in {"UNUSED", "RUNNABLE"} => h.head[l] = p
    /\ Relist(p, l, m)
    /\ chan' = [chan EXCEPT ![p] = IF m = "RUNNING" THEN NoChan ELSE @]
    /\ UNCHANGED <<walk, wchan, before>>

\* sleep
Sleep(p, ch) ==
    /\ LockFree /\ state[p] = "RUNNING"
    /\ chan' = [chan EXCEPT ![p] = ch]
    /\ Relist(p, "RUNNING", "SLEEPING")
    /\ UNCHANGED <<walk, wchan, before>>

\* fork takes its child off the EMBRYO list ...
Detach(p) ==
    /\ LockFree /\ state[p] = "EMBRYO"
    /\ IF Found(h, "EMBRYO", p)
       THEN /\ h' = stateListRemove(h, "EMBRYO", p)
            /\ state' = [state EXCEPT ![p] = "none"]
            /\ UNCHANGED halted
       ELSE halted' = TRUE /\ UNCHANGED <<h, state>>
    /\ UNCHANGED <<chan, walk, wchan, before>>

\* ... and puts it on the RUNNABLE list, or on the free list if it fails.
Attach(p, m) ==
    /\ LockFree /\ state[p] = "none" /\ m \in {"RUNNABLE", "UNUSED"}
    /\ h' = stateListAdd(h, m, p)
    /\ state' = [state EXCEPT ![p] = m]
    /\ UNCHANGED <<chan, walk, wchan, before, halted>>

-----------------------------------------------------------------------------
(* wakeup1                                                                  *)

WakeStart(ch) ==
    /\ LockFree
    /\ walk' = h.head["SLEEPING"] /\ wchan' = ch
    /\ before' = Contents(h, "SLEEPING")
    /\ UNCHANGED <<h, state, chan, halted>>

\* Fault: the channel is not compared.
WakeStepAny ==
    /\ ~halted /\ wchan # NoChan /\ walk # NULL
    /\ IF state[walk] = "SLEEPING"
       THEN Relist(walk, "SLEEPING", "RUNNABLE")
       ELSE UNCHANGED <<h, state, halted>>
    /\ walk' = h'.next[walk]
    /\ UNCHANGED <<chan, wchan, before>>

\* One turn of the loop: p = p->next comes after p may have changed lists.
WakeStep ==
    /\ ~halted /\ wchan # NoChan /\ walk # NULL
    /\ IF state[walk] = "SLEEPING" /\ chan[walk] = wchan
       THEN Relist(walk, "SLEEPING", "RUNNABLE")
       ELSE UNCHANGED <<h, state, halted>>
    /\ walk' = h'.next[walk]
    /\ UNCHANGED <<chan, wchan, before>>

WakeEnd ==
    /\ wchan # NoChan /\ walk = NULL
    /\ wchan' = NoChan /\ before' = <<>>
    /\ UNCHANGED <<h, state, chan, walk, halted>>

Next ==
    \/ \E p \in Slots, l, m \in Lists : Move(p, l, m)
    \/ \E p \in Slots, ch \in Chans : Sleep(p, ch)
    \/ \E p \in Slots : Detach(p)
    \/ \E p \in Slots, m \in Lists : Attach(p, m)
    \/ \E ch \in Chans : WakeStart(ch)
    \/ WakeStep
    \/ WakeEnd

Spec == Init /\ [][Next]_vars
-----------------------------------------------------------------------------
(* Properties.                                                              *)

\* The pointers represent sequences: each list is intact after every change,
\* although all lists share the next pointers and stateListRemove leaves that
\* of a removed head dangling.
SL == INSTANCE SeqLists WITH Procs <- Slots, list <- [l \in Lists |-> Contents(h, l)]

ListsAreSequences == SL!Spec

\* A process is always found on the list of its state, so the kernel does not
\* panic with "Process Not Found".
NeverLost == ~halted

\* Walk finished: wakeup1 is about to return.
WalkDone == wchan # NoChan /\ walk = NULL

Hits == {i \in DOMAIN before : chan[before[i]] = wchan}

\* wakeup1 wakes the first process in the list that sleeps on its channel and
\* leaves all others there in order: this is FirstSleeper of ProcTable.
WakesFirst ==
    WalkDone =>
      Contents(h, "SLEEPING") =
        IF Hits = {} THEN before
        ELSE LET i == CHOOSE i \in Hits : \A j \in Hits : i <= j
             IN  SL!Without(before, before[i])

\* wakeup1() wakes the first sleeper and loses nobody.
WakesRight == WakesFirst /\ NeverLost
=============================================================================
