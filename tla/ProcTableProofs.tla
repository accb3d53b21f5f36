-------------------------- MODULE ProcTableProofs --------------------------
(***************************************************************************)
(* Proofs about ProcTable, for every number of processes, CPUs, priorities *)
(* and channels.                                                           *)
(***************************************************************************)
EXTENDS ProcTable, TLAPS

-----------------------------------------------------------------------------
(* The list operations.                                                     *)

\* stateListAdd puts p on the list and keeps it free of repetitions when p was
\* not on it.
LEMMA ListAdd ==
    ASSUME NEW S, NEW s \in Seq(S), NEW p \in S
    PROVE  /\ stateListAdd(s, p) \in Seq(S)
           /\ Members(stateListAdd(s, p)) = Members(s) \cup {p}
           /\ NoRepeats(s) /\ p \notin Members(s) => NoRepeats(stateListAdd(s, p))
<1>1. stateListAdd(s, p) \in Seq(S)
  BY DEF stateListAdd
<1>2. Members(stateListAdd(s, p)) = Members(s) \cup {p}
  <2>1. ASSUME NEW x \in Members(stateListAdd(s, p)) PROVE x \in Members(s) \cup {p}
    BY DEF Members, stateListAdd
  <2>2. ASSUME NEW x \in Members(s) PROVE x \in Members(stateListAdd(s, p))
    <3>1. PICK i \in DOMAIN s : s[i] = x
      BY DEF Members
    <3>2. i \in DOMAIN stateListAdd(s, p) /\ stateListAdd(s, p)[i] = x
      BY <3>1 DEF stateListAdd
    <3> QED BY <3>2 DEF Members
  <2>3. p \in Members(stateListAdd(s, p))
    <3>1. /\ Len(s) + 1 \in DOMAIN stateListAdd(s, p)
          /\ stateListAdd(s, p)[Len(s) + 1] = p
      BY DEF stateListAdd
    <3> QED BY <3>1 DEF Members
  <2> QED BY <2>1, <2>2, <2>3
<1>3. ASSUME NoRepeats(s), p \notin Members(s) PROVE NoRepeats(stateListAdd(s, p))
  BY <1>3 DEF NoRepeats, Members, stateListAdd
<1> QED BY <1>1, <1>2, <1>3

\* stateListRemove takes p, and nothing else, off a list without repetitions.
LEMMA ListRemove ==
    ASSUME NEW S, NEW s \in Seq(S), NEW p, NoRepeats(s)
    PROVE  /\ stateListRemove(s, p) \in Seq(S)
           /\ Members(stateListRemove(s, p)) = Members(s) \ {p}
           /\ NoRepeats(stateListRemove(s, p))
<1>1. CASE p \notin Members(s)
  BY <1>1 DEF stateListRemove
<1>2. CASE p \in Members(s)
  <2> DEFINE i == Index(s, p)
             r == [j \in 1..(Len(s) - 1) |-> IF j < i THEN s[j] ELSE s[j + 1]]
  <2>1. i \in 1..Len(s) /\ s[i] = p
    BY <1>2 DEF Members, Index
  <2>2. stateListRemove(s, p) = r
    BY <1>2 DEF stateListRemove
  <2> HIDE DEF i
  <2>3. Len(s) \in Nat /\ Len(s) - 1 \in Nat
    BY <2>1
  <2>4. r \in Seq(S) /\ Len(r) = Len(s) - 1 /\ DOMAIN r = 1..(Len(s) - 1)
    <3>1. \A j \in 1..(Len(s) - 1) : (IF j < i THEN s[j] ELSE s[j + 1]) \in S
      BY <2>1, <2>3
    <3> QED BY <3>1, <2>3
  <2>5. Members(r) = Members(s) \ {p}
    <3>1. ASSUME NEW j \in DOMAIN r PROVE r[j] \in Members(s) \ {p}
      <4>1. CASE j < i
        BY <4>1, <2>1, <2>3, <2>4 DEF Members, NoRepeats
      <4>2. CASE ~(j < i)
        <5>1. j + 1 \in DOMAIN s /\ j + 1 # i /\ r[j] = s[j + 1]
          BY <4>2, <2>1, <2>3, <2>4
        <5>2. i \in DOMAIN s
          BY <2>1
        <5> QED BY <5>1, <5>2, <2>1 DEF Members, NoRepeats
      <4> QED BY <4>1, <4>2
    <3>2. ASSUME NEW k \in DOMAIN s, s[k] # p PROVE s[k] \in Members(r)
      <4>1. CASE k < i
        <5>1. k \in DOMAIN r /\ r[k] = s[k]
          BY <4>1, <2>1, <2>3, <2>4
        <5> HIDE DEF r
        <5> QED BY <5>1 DEF Members
      <4>2. CASE k > i
        <5>1. k - 1 \in DOMAIN r /\ r[k - 1] = s[k]
          BY <4>2, <2>1, <2>3, <2>4
        <5> HIDE DEF r
        <5> QED BY <5>1 DEF Members
      <4> QED BY <4>1, <4>2, <3>2, <2>1
    <3> HIDE DEF r
    <3>3. \A x \in Members(r) : x \in Members(s) \ {p}
      BY <3>1 DEF Members
    <3>4. \A x \in Members(s) \ {p} : x \in Members(r)
      BY <3>2 DEF Members
    <3> QED BY <3>3, <3>4
  <2>6. NoRepeats(r)
    <3> DEFINE f(j) == IF j < i THEN j ELSE j + 1
    <3>1. \A j \in DOMAIN r : f(j) \in DOMAIN s /\ r[j] = s[f(j)]
      BY <2>1, <2>3, <2>4
    <3>2. \A j, k \in DOMAIN r : f(j) = f(k) => j = k
      BY <2>1, <2>3, <2>4
    <3> HIDE DEF r, f
    <3>3. ASSUME NEW j \in DOMAIN r, NEW k \in DOMAIN r, r[j] = r[k] PROVE j = k
      <4>1. f(j) = f(k)
        BY <3>1, <3>3 DEF NoRepeats
      <4> QED BY <4>1, <3>2
    <3> QED BY <3>3 DEF NoRepeats
  <2> QED BY <2>2, <2>4, <2>5, <2>6
<1> QED BY <1>1, <1>2

\* The head of a list without repetitions, and what is left without it.
LEMMA ListHead ==
    ASSUME NEW S, NEW s \in Seq(S), s # <<>>, NoRepeats(s)
    PROVE  /\ Head(s) \in S /\ Head(s) \in Members(s)
           /\ Tail(s) \in Seq(S)
           /\ Members(Tail(s)) = Members(s) \ {Head(s)}
           /\ NoRepeats(Tail(s))
<1>1. /\ Len(s) \in Nat \ {0} /\ Head(s) = s[1] /\ Tail(s) \in Seq(S)
      /\ Len(Tail(s)) = Len(s) - 1
      /\ \A j \in 1..(Len(s) - 1) : Tail(s)[j] = s[j + 1]
      /\ DOMAIN s = 1..Len(s) /\ DOMAIN Tail(s) = 1..(Len(s) - 1)
  OBVIOUS
<1>2. Head(s) \in S /\ Head(s) \in Members(s)
  BY <1>1 DEF Members
<1>3. ASSUME NEW x \in Members(Tail(s)) PROVE x \in Members(s) \ {Head(s)}
  <2>1. PICK j \in 1..(Len(s) - 1) : x = s[j + 1]
    BY <1>1, <1>3 DEF Members
  <2>2. j + 1 \in DOMAIN s /\ 1 \in DOMAIN s /\ j + 1 # 1
    BY <1>1
  <2> QED BY <1>1, <2>1, <2>2 DEF Members, NoRepeats
<1>4. ASSUME NEW x \in Members(s), x # Head(s) PROVE x \in Members(Tail(s))
  <2>1. PICK k \in 1..Len(s) : x = s[k]
    BY <1>1 DEF Members
  <2>2. k - 1 \in 1..(Len(s) - 1) /\ Tail(s)[k - 1] = x
    BY <1>1, <1>4, <2>1
  <2> QED BY <1>1, <2>2 DEF Members
<1>5. NoRepeats(Tail(s))
  BY <1>1 DEF NoRepeats
<1> QED BY <1>1, <1>2, <1>3, <1>4, <1>5

\* Joining two disjoint lists.
LEMMA ListJoin ==
    ASSUME NEW S, NEW s \in Seq(S), NEW t \in Seq(S)
    PROVE  /\ s \o t \in Seq(S)
           /\ Members(s \o t) = Members(s) \cup Members(t)
           /\ NoRepeats(s) /\ NoRepeats(t) /\ Members(s) \cap Members(t) = {}
                => NoRepeats(s \o t)
<1>1. /\ s \o t \in Seq(S) /\ Len(s \o t) = Len(s) + Len(t)
      /\ DOMAIN (s \o t) = 1..(Len(s) + Len(t))
      /\ \A i \in 1..Len(s) : (s \o t)[i] = s[i]
      /\ \A i \in (Len(s) + 1)..(Len(s) + Len(t)) : (s \o t)[i] = t[i - Len(s)]
      /\ Len(s) \in Nat /\ Len(t) \in Nat
      /\ DOMAIN s = 1..Len(s) /\ DOMAIN t = 1..Len(t)
  OBVIOUS
<1> DEFINE u == s \o t
<1> HIDE DEF u
<1>2. ASSUME NEW x \in Members(u) PROVE x \in Members(s) \cup Members(t)
  <2>1. PICK i \in 1..(Len(s) + Len(t)) : x = u[i]
    BY <1>1, <1>2 DEF Members, u
  <2>2. CASE i <= Len(s)
    BY <1>1, <2>1, <2>2 DEF Members, u
  <2>3. CASE i > Len(s)
    <3>1. i - Len(s) \in DOMAIN t /\ x = t[i - Len(s)]
      BY <1>1, <2>1, <2>3 DEF u
    <3> QED BY <3>1 DEF Members
  <2> QED BY <1>1, <2>2, <2>3
<1>3. ASSUME NEW x \in Members(s) PROVE x \in Members(u)
  <2>1. PICK i \in 1..Len(s) : x = s[i]
    BY <1>1 DEF Members
  <2>2. i \in DOMAIN u /\ u[i] = x
    BY <1>1, <2>1 DEF u
  <2> QED BY <2>2 DEF Members
<1>4. ASSUME NEW x \in Members(t) PROVE x \in Members(u)
  <2>1. PICK i \in 1..Len(t) : x = t[i]
    BY <1>1 DEF Members
  <2>2. i + Len(s) \in DOMAIN u /\ u[i + Len(s)] = x
    BY <1>1, <2>1 DEF u
  <2> QED BY <2>2 DEF Members
<1>5. ASSUME NoRepeats(s), NoRepeats(t), Members(s) \cap Members(t) = {}
      PROVE  NoRepeats(u)
  <2>1. \A i \in DOMAIN s, j \in DOMAIN t : s[i] # t[j]
    BY <1>5 DEF Members
  <2> SUFFICES ASSUME NEW i \in DOMAIN u, NEW j \in DOMAIN u, u[i] = u[j]
               PROVE  i = j
    BY DEF NoRepeats
  <2>2. i \in 1..(Len(s) + Len(t)) /\ j \in 1..(Len(s) + Len(t))
    BY <1>1 DEF u
  <2>3. CASE i <= Len(s) /\ j <= Len(s)
    BY <1>1, <1>5, <2>2, <2>3 DEF NoRepeats, u
  <2>4. CASE i > Len(s) /\ j > Len(s)
    <3>1. /\ i - Len(s) \in DOMAIN t /\ j - Len(s) \in DOMAIN t
          /\ t[i - Len(s)] = t[j - Len(s)]
      BY <1>1, <2>2, <2>4 DEF u
    <3>2. i - Len(s) = j - Len(s)
      BY <3>1, <1>5 DEF NoRepeats
    <3> QED BY <3>2, <1>1, <2>2
  <2>5. CASE i <= Len(s) /\ j > Len(s)
    BY <1>1, <2>1, <2>2, <2>5 DEF u
  <2>6. CASE i > Len(s) /\ j <= Len(s)
    BY <1>1, <2>1, <2>2, <2>6 DEF u
  <2> QED BY <1>1, <2>2, <2>3, <2>4, <2>5, <2>6
<1> QED BY <1>1, <1>2, <1>3, <1>4, <1>5 DEF u
-----------------------------------------------------------------------------
(* Families of lists: ptable.list, indexed by state, and ptable.ready,      *)
(* indexed by priority.                                                     *)

IsFamily(I, l) == l \in [I -> Seq(Procs)] /\ \A i \in I : NoRepeats(l[i])

\* Family m is family l with p added to list a, removed from it, or moved from
\* list a to list b.
Added(I, l, m, a, p) ==
    /\ IsFamily(I, m)
    /\ Members(m[a]) = Members(l[a]) \cup {p}
    /\ \A i \in I : i # a => m[i] = l[i]
Removed(I, l, m, a, p) ==
    /\ IsFamily(I, m)
    /\ Members(m[a]) = Members(l[a]) \ {p}
    /\ \A i \in I : i # a => m[i] = l[i]
Moved(I, l, m, a, b, p) ==
    /\ IsFamily(I, m)
    /\ Members(m[a]) = Members(l[a]) \ {p}
    /\ Members(m[b]) = Members(l[b]) \cup {p}
    /\ \A i \in I : i # a /\ i # b => m[i] = l[i]

\* stateListAdd of a process that is not on list a adds it there and
\* leaves every other list of the family as it is.
LEMMA FamilyAdd ==
    ASSUME NEW I, NEW l, IsFamily(I, l), NEW a \in I, NEW p \in Procs,
           p \notin Members(l[a])
    PROVE  Added(I, l, [l EXCEPT ![a] = stateListAdd(@, p)], a, p)
<1> DEFINE m == [l EXCEPT ![a] = stateListAdd(@, p)]
<1>1. l[a] \in Seq(Procs) /\ NoRepeats(l[a])
  BY DEF IsFamily
<1>2. /\ stateListAdd(l[a], p) \in Seq(Procs)
      /\ Members(stateListAdd(l[a], p)) = Members(l[a]) \cup {p}
      /\ NoRepeats(stateListAdd(l[a], p))
  BY <1>1, ListAdd
<1>3. m[a] = stateListAdd(l[a], p) /\ \A i \in I : i # a => m[i] = l[i]
  BY DEF IsFamily
<1>4. m \in [I -> Seq(Procs)]
  BY <1>2 DEF IsFamily
<1> HIDE DEF m
<1>5. IsFamily(I, m)
  BY <1>2, <1>3, <1>4 DEF IsFamily
<1>6. Added(I, l, m, a, p)
  BY <1>2, <1>3, <1>5 DEF Added
<1> QED BY <1>6 DEF m

\* stateListRemove takes p off list a, in order, and leaves every other
\* list of the family as it is.
LEMMA FamilyRemove ==
    ASSUME NEW I, NEW l, IsFamily(I, l), NEW a \in I, NEW p
    PROVE  Removed(I, l, [l EXCEPT ![a] = stateListRemove(@, p)], a, p)
<1> DEFINE m == [l EXCEPT ![a] = stateListRemove(@, p)]
<1>1. l[a] \in Seq(Procs) /\ NoRepeats(l[a])
  BY DEF IsFamily
<1>2. /\ stateListRemove(l[a], p) \in Seq(Procs)
      /\ Members(stateListRemove(l[a], p)) = Members(l[a]) \ {p}
      /\ NoRepeats(stateListRemove(l[a], p))
  BY <1>1, ListRemove
<1>3. m[a] = stateListRemove(l[a], p) /\ \A i \in I : i # a => m[i] = l[i]
  BY DEF IsFamily
<1>4. m \in [I -> Seq(Procs)]
  BY <1>2 DEF IsFamily
<1> HIDE DEF m
<1>5. IsFamily(I, m)
  BY <1>2, <1>3, <1>4 DEF IsFamily
<1>6. Removed(I, l, m, a, p)
  BY <1>2, <1>3, <1>5 DEF Removed
<1> QED BY <1>6 DEF m

\* A removal from one list followed by an insertion in another moves the
\* process and touches no third list.
LEMMA FamilyMove ==
    ASSUME NEW I, NEW l, IsFamily(I, l), NEW a \in I, NEW b \in I, a # b,
           NEW p \in Procs, p \notin Members(l[b])
    PROVE  Moved(I, l, [l EXCEPT ![a] = stateListRemove(@, p),
                                 ![b] = stateListAdd(@, p)], a, b, p)
<1> DEFINE n == [l EXCEPT ![a] = stateListRemove(@, p)]
           k == [n EXCEPT ![b] = stateListAdd(@, p)]
           m == [l EXCEPT ![a] = stateListRemove(@, p), ![b] = stateListAdd(@, p)]
<1>1. Removed(I, l, n, a, p)
  BY FamilyRemove
<1>2. m = k
  OBVIOUS
<1> HIDE DEF n
<1>3. IsFamily(I, n) /\ p \notin Members(n[b])
  BY <1>1 DEF Removed
<1>4. Added(I, n, k, b, p)
  BY <1>3, FamilyAdd
<1> HIDE DEF k, m
<1>5. Moved(I, l, k, a, b, p)
  BY <1>1, <1>4 DEF Added, Removed, Moved
<1>6. Moved(I, l, m, a, b, p)
  BY <1>2, <1>5
<1> QED BY <1>6 DEF m

\* What the invariant says of the two families of the process table.
LEMMA Families ==
    ASSUME TypeOK, ListsAgree
    PROVE  IsFamily(ListStates, list) /\ IsFamily(Prios, ready)
BY DEF TypeOK, ListsAgree, IsFamily
-----------------------------------------------------------------------------
(* The initial state.                                                       *)

\* userinit() establishes the invariant: init is on the ready list of
\* DEFAULTPRIO and every other slot on the free list.
LEMMA InitIInv == Init => IInv
<1> SUFFICES ASSUME Init PROVE IInv
  OBVIOUS
<1> USE SizesAssumption, MLFQAssumption, ChansAssumption
<1>1. /\ FreeList \in Seq(Procs) /\ NoRepeats(FreeList)
      /\ Members(FreeList) = Procs \ {initproc}
  <2>1. /\ NPROC - 1 \in Nat /\ DOMAIN FreeList = 1..(NPROC - 1)
        /\ \A i \in 1..(NPROC - 1) : FreeList[i] = i + 1 /\ i + 1 \in Procs
    BY DEF FreeList, Procs
  <2>2. FreeList \in Seq(Procs)
    BY <2>1 DEF FreeList
  <2>3. NoRepeats(FreeList)
    BY <2>1 DEF NoRepeats
  <2>4. \A x \in Members(FreeList) : x \in Procs \ {initproc}
    BY <2>1 DEF Members, Procs, initproc
  <2>5. ASSUME NEW x \in Procs \ {initproc} PROVE x \in Members(FreeList)
    <3>1. x - 1 \in 1..(NPROC - 1) /\ FreeList[x - 1] = x
      BY <2>1 DEF Procs, initproc
    <3> QED BY <2>1, <3>1 DEF Members
  <2> QED BY <2>2, <2>3, <2>4, <2>5
<1>2. initproc \in Procs /\ NoProc \notin Procs
  BY DEF initproc, NoProc, Procs
<1>3. /\ <<>> \in Seq(Procs) /\ NoRepeats(<<>>) /\ Members(<<>>) = {}
      /\ <<initproc>> \in Seq(Procs) /\ NoRepeats(<<initproc>>)
      /\ Members(<<initproc>>) = {initproc}
  BY <1>2 DEF NoRepeats, Members
<1>4. TypeOK
  <2>1. list \in [ListStates -> Seq(Procs)] /\ ready \in [Prios -> Seq(Procs)]
    BY <1>1, <1>3 DEF Init
  <2>2. /\ state \in [Procs -> States] /\ pc \in [Procs -> PCs]
        /\ spc \in [CPUs -> {"promote", "dispatch", "run"}]
    BY DEF Init, States, ListStates, PCs
  <2>3. /\ PromoteAtTime \in 0..(TICKMOD - 1) /\ ticks \in 0..(TICKMOD - 1)
        /\ cpu_ticks_in \in [Procs -> 0..(TICKMOD - 1)]
    BY DEF Init
  <2>4. priority \in [Procs -> Prios] /\ budget \in [Procs -> 0..BUDGET]
    BY DEF Init, Prios
  <2> QED BY <1>2, <2>1, <2>2, <2>3, <2>4 DEF TypeOK, Init, NoProc
<1>5. ListsAgree
  <2>1. \A p \in Procs : ~Detached(p)
    BY <1>2 DEF Init, Detached
  <2>2. \A t \in ListStates :
           list[t] = IF t = "UNUSED" THEN FreeList ELSE <<>>
    BY DEF Init
  <2>3. \A k \in Prios :
           ready[k] = IF k = DEFAULTPRIO THEN <<initproc>> ELSE <<>>
    BY DEF Init
  <2>4. \A p \in Procs : /\ state[p] = IF p = initproc THEN "RUNNABLE" ELSE "UNUSED"
                         /\ priority[p] = IF p = initproc THEN DEFAULTPRIO ELSE 0
    BY DEF Init
  <2>5. "RUNNABLE" \notin ListStates
    BY DEF ListStates
  <2> QED BY <1>1, <1>2, <1>3, <2>1, <2>2, <2>3, <2>4, <2>5 DEF ListsAgree
<1>6. ForkAgree /\ ThreadAgree /\ SleepAgree /\ LockAgree /\ SchedAgree
  BY <1>2 DEF ForkAgree, ThreadAgree, SleepAgree, LockAgree, SchedAgree, Init,
     ForkPCs
<1>7. OneCPUEach
  BY <1>2 DEF OneCPUEach, Init
<1>8. NoLostExit /\ ParentAlive /\ UniquePids /\ PidsBounded
  BY <1>2 DEF NoLostExit, ParentAlive, UniquePids, PidsBounded, Init
<1>9. BudgetLeft /\ ChildBudget
  BY <1>2 DEF BudgetLeft, ChildBudget, Init
<1> QED BY <1>4, <1>5, <1>6, <1>7, <1>8, <1>9 DEF IInv

-----------------------------------------------------------------------------
(* Steps that leave the lists alone.                                        *)

\* init has a slot.
LEMMA InitSlot == initproc \in Procs /\ NoProc \notin Procs
BY SizesAssumption DEF initproc, NoProc, Procs

\* A child that fork() is building has a slot.
LEMMA ChildSlot ==
    ASSUME IInv
    PROVE  \A r \in Procs : np[r] # NoProc => np[r] \in Procs
BY DEF IInv, TypeOK

\* A process on a CPU is RUNNING.
LEMMA OnCPU ==
    ASSUME IInv, NEW c \in CPUs, NEW p \in Procs, cproc[c] = p
    PROVE  state[p] = "RUNNING" /\ p # NoProc
BY DEF IInv, OneCPUEach, NoProc, Procs

\* A RUNNING process moves to another point of its thread, outside fork() and
\* wait(): system calls, returns from traps, the way into exit().
LEMMA PcOnly ==
    ASSUME IInv, NEW p \in Procs, state[p] = "RUNNING",
           pc[p] \in {"user", "kernel", "ret"},
           NEW l \in {"user", "kernel", "exit", "panic"},
           p = initproc => l # "exit",
           pc' = [pc EXCEPT ![p] = l],
           killed' \in [Procs -> {0, 1}],
           intr' \in {"none", "wakeup", "tail"},
           UNCHANGED <<state, pid, parent, chan, mlfqVars, listVars,
                       PromoteAtTime, nextpid, np, cpuVars, ptlock, ticks>>
    PROVE  IInv'
<1> USE DEF IInv
<1>1. TypeOK'
  BY DEF TypeOK, mlfqVars, listVars, cpuVars, PCs
<1>2. ListsAgree'
  <2>1. \A r \in Procs : Detached(r)' <=> Detached(r)
    BY DEF Detached, TypeOK
  <2> QED BY <2>1 DEF ListsAgree, mlfqVars, listVars
<1>0. \A x \in Procs : pc'[x] = IF x = p THEN l ELSE pc[x]
  BY DEF TypeOK
<1>3. ForkAgree' /\ ThreadAgree' /\ SleepAgree' /\ LockAgree' /\ SchedAgree'
  <2>1. ForkAgree'
    BY <1>0 DEF ForkAgree, ForkPCs
  <2>2. ThreadAgree'
    BY <1>0, InitSlot DEF ThreadAgree
  <2>3. SleepAgree' /\ LockAgree'
    BY <1>0 DEF SleepAgree, LockAgree
  <2>4. SchedAgree'
    BY DEF SchedAgree, cpuVars
  <2> QED BY <2>1, <2>2, <2>3, <2>4
<1>4. OneCPUEach' /\ NoLostExit' /\ ParentAlive' /\ UniquePids'
  BY DEF OneCPUEach, NoLostExit, ParentAlive, UniquePids, cpuVars
<1>5. PidsBounded' /\ BudgetLeft'
  BY DEF PidsBounded, BudgetLeft, mlfqVars
<1>6. ChildBudget'
  BY DEF ChildBudget, TypeOK, mlfqVars
<1> QED BY <1>1, <1>2, <1>3, <1>4, <1>5, <1>6

\* Time passes or a scheduler loop goes round.
LEMMA ClockOnly ==
    ASSUME IInv,
           ticks' \in 0..(TICKMOD - 1), intr' \in {"none", "wakeup", "tail"},
           spc' \in [CPUs -> {"promote", "dispatch", "run"}],
           \A c \in CPUs : spc'[c] = "run" <=> spc[c] = "run",
           UNCHANGED <<procVars, mlfqVars, listVars, PromoteAtTime, nextpid,
                       pc, np, cproc, ptlock>>
    PROVE  IInv'
<1> USE DEF IInv, procVars, mlfqVars, listVars
<1>1. TypeOK'
  BY DEF TypeOK
<1>2. ListsAgree'
  BY DEF ListsAgree, Detached
<1>3. ForkAgree' /\ ThreadAgree' /\ SleepAgree' /\ LockAgree' /\ SchedAgree'
  BY DEF ForkAgree, ThreadAgree, SleepAgree, LockAgree, SchedAgree
<1>4. OneCPUEach' /\ NoLostExit' /\ ParentAlive' /\ UniquePids'
  BY DEF OneCPUEach, NoLostExit, ParentAlive, UniquePids
<1>5. PidsBounded' /\ BudgetLeft' /\ ChildBudget'
  BY DEF PidsBounded, BudgetLeft, ChildBudget
<1> QED BY <1>1, <1>2, <1>3, <1>4, <1>5
-----------------------------------------------------------------------------
(* fork() and allocproc().                                                  *)

\* The first critical section of allocproc(): the slot taken from the free
\* list is no child, has a pid of its own and belongs to this fork() only.
LEMMA ForkAllocStep ==
    ASSUME IInv, NEW c \in CPUs, NEW p \in Procs, ForkAlloc(c, p)
    PROVE  IInv'
<1> DEFINE q == Head(list["UNUSED"])
<1>a. At(c, p, "kernel") /\ list["UNUSED"] # <<>>
  BY DEF ForkAlloc
<1>l. list' = [list EXCEPT !["UNUSED"] = stateListRemove(@, q),
                           !["EMBRYO"] = stateListAdd(@, q)]
  BY DEF ForkAlloc
<1>s. state' = [state EXCEPT ![q] = "EMBRYO"]
  BY DEF ForkAlloc
<1>i. pid' = [pid EXCEPT ![q] = nextpid] /\ nextpid' = nextpid + 1
  BY DEF ForkAlloc, TakePid
<1>n. np' = [np EXCEPT ![p] = q] /\ pc' = [pc EXCEPT ![p] = "alloc"]
  BY DEF ForkAlloc
<1>u. UNCHANGED <<parent, chan, killed, priority, budget, cpu_ticks_in, ready,
                  PromoteAtTime, cproc, spc, ptlock, ticks, intr>>
  BY DEF ForkAlloc, mlfqVars, cpuVars, timeVars
<1>t. TypeOK
  BY DEF IInv
<1>1. pc[p] = "kernel" /\ state[p] = "RUNNING"
  BY <1>a, OnCPU DEF At, Executes
<1>2. IsFamily(ListStates, list)
  BY Families DEF IInv
<1>3. q \in Procs /\ q \in Members(list["UNUSED"])
  <2>1. list["UNUSED"] \in Seq(Procs) /\ NoRepeats(list["UNUSED"])
    BY <1>2 DEF IsFamily, ListStates
  <2> QED BY <1>a, <2>1, ListHead
<1> HIDE DEF q
<1>4. state[q] = "UNUSED" /\ ~Detached(q) /\ q # p
  BY <1>1, <1>3 DEF IInv, ListsAgree, ListStates
<1>5. \A r \in Procs : np[r] # q
  BY <1>3, <1>4 DEF IInv, ForkAgree, Detached, NoProc, Procs
<1>6. Moved(ListStates, list, list', "UNUSED", "EMBRYO", q)
  <2>1. /\ q \notin Members(list["EMBRYO"])
        /\ "UNUSED" \in ListStates /\ "EMBRYO" \in ListStates
    BY <1>3, <1>4 DEF IInv, ListsAgree, ListStates
  <2>2. Moved(ListStates, list,
              [list EXCEPT !["UNUSED"] = stateListRemove(@, q),
                           !["EMBRYO"] = stateListAdd(@, q)],
              "UNUSED", "EMBRYO", q)
    BY <1>2, <1>3, <2>1, FamilyMove
  <2> QED BY <1>l, <2>2
<1>7. TypeOK'
  <2>1. list' \in [ListStates -> Seq(Procs)]
    BY <1>6 DEF Moved, IsFamily
  <2>2. state' \in [Procs -> States]
    BY <1>s, <1>t DEF TypeOK, States, ListStates
  <2>3. pc' \in [Procs -> PCs] /\ np' \in [Procs -> Procs \cup {NoProc}]
    BY <1>n, <1>t, <1>3 DEF TypeOK, PCs, ForkPCs
  <2>4. pid' \in [Procs -> Nat]
    BY <1>i, <1>t DEF TypeOK
  <2>5. nextpid' \in Nat
    BY <1>i, <1>t DEF TypeOK
  <2> QED BY <1>t, <1>u, <2>1, <2>2, <2>3, <2>4, <2>5 DEF TypeOK
<1>x. \A x \in Procs : /\ np'[x] = IF x = p THEN q ELSE np[x]
                       /\ pc'[x] = IF x = p THEN "alloc" ELSE pc[x]
                       /\ state'[x] = IF x = q THEN "EMBRYO" ELSE state[x]
                       /\ pid'[x] = IF x = q THEN nextpid ELSE pid[x]
  BY <1>s, <1>i, <1>n, <1>t DEF TypeOK
<1>8. ListsAgree'
  <2>1. \A r \in Procs : Detached(r)' <=> Detached(r)
    BY <1>x, <1>1, <1>5 DEF Detached
  <2>2. ASSUME NEW t \in ListStates, NEW r \in Procs
        PROVE  r \in Members(list'[t]) <=> state'[r] = t /\ ~Detached(r)'
    <3>1. state'[r] = IF r = q THEN "EMBRYO" ELSE state[r]
      BY <1>x
    <3>2. r \in Members(list[t]) <=> state[r] = t /\ ~Detached(r)
      BY DEF IInv, ListsAgree
    <3> QED BY <1>4, <1>6, <2>1, <3>1, <3>2 DEF Moved
  <2>3. \A k \in Prios, r \in Procs :
           r \in Members(ready'[k]) <=> state'[r] = "RUNNABLE" /\ priority'[r] = k
    BY <1>x, <1>u, <1>4 DEF IInv, ListsAgree
  <2>4. \A k \in Prios : NoRepeats(ready'[k])
    BY <1>u DEF IInv, ListsAgree
  <2> QED BY <1>6, <2>2, <2>3, <2>4 DEF ListsAgree, Moved, IsFamily
<1>9. ForkAgree'
  <2> SUFFICES ASSUME NEW r \in Procs
               PROVE  /\ pc'[r] \in ForkPCs <=> np'[r] # NoProc
                      /\ np'[r] # NoProc => state'[np'[r]] =
                           IF pc'[r] = "undo" THEN "UNUSED" ELSE "EMBRYO"
                      /\ \A x \in Procs :
                           np'[r] = np'[x] /\ np'[r] # NoProc => r = x
                      /\ pc'[r] = "place" => parent'[np'[r]] = r
    BY DEF ForkAgree
  <2> QED BY <1>u, <1>x, <1>3, <1>5, InitSlot, ChildSlot DEF IInv, ForkAgree, ForkPCs
<1>10. ThreadAgree'
  BY <1>x, <1>1, <1>4, InitSlot DEF IInv, ThreadAgree
<1>11. SleepAgree'
  BY <1>x, <1>u, <1>1, <1>4 DEF IInv, SleepAgree
<1>12. LockAgree'
  BY <1>x, <1>u, <1>1, <1>4 DEF IInv, LockAgree
<1>13. SchedAgree'
  BY <1>u DEF IInv, SchedAgree
<1>14. OneCPUEach'
  BY <1>x, <1>u, <1>4 DEF IInv, OneCPUEach
<1>15. NoLostExit'
  BY <1>x, <1>u, <1>4 DEF IInv, NoLostExit
<1>16. ParentAlive'
  BY <1>x, <1>u, <1>3, <1>4 DEF IInv, ParentAlive
<1>17. PidsBounded'
  <2>1. \A x \in Procs : pid[x] \in Nat /\ pid[x] < nextpid
    BY <1>t DEF IInv, PidsBounded, TypeOK
  <2>2. nextpid \in Nat
    BY <1>t DEF TypeOK
  <2> QED BY <1>i, <1>x, <2>1, <2>2 DEF PidsBounded
<1>18. UniquePids'
  <2>1. \A x \in Procs : pid[x] # nextpid
    BY <1>t DEF IInv, PidsBounded, TypeOK
  <2> QED BY <1>x, <2>1 DEF IInv, UniquePids
<1>19. BudgetLeft'
  BY <1>x, <1>u, <1>4 DEF IInv, BudgetLeft
<1>20. ChildBudget'
  BY <1>x, <1>u, <1>1 DEF IInv, ChildBudget
<1> QED BY <1>7, <1>8, <1>9, <1>10, <1>11, <1>12, <1>13, <1>14, <1>15, <1>16,
           <1>17, <1>18, <1>19, <1>20 DEF IInv
\* What is known of the child q that p is building at point l of fork().
LEMMA Child ==
    ASSUME IInv, NEW c \in CPUs, NEW p \in Procs, NEW l \in ForkPCs, At(c, p, l)
    PROVE  /\ np[p] \in Procs /\ np[p] # p /\ pc[p] = l /\ state[p] = "RUNNING"
           /\ state[np[p]] = IF l = "undo" THEN "UNUSED" ELSE "EMBRYO"
           /\ pc[np[p]] = "none" /\ np[np[p]] = NoProc
           /\ \A r \in Procs : np[r] = np[p] => r = p
           /\ Detached(np[p]) <=> l \in {"copy", "place", "undo"}
<1>1. pc[p] = l /\ state[p] = "RUNNING"
  BY OnCPU DEF At, Executes
<1>2. np[p] \in Procs /\ NoProc \notin Procs
  <2>1. np[p] # NoProc
    BY <1>1 DEF IInv, ForkAgree
  <2>2. NoProc \notin Procs
    BY DEF NoProc, Procs
  <2> QED BY <2>1, <2>2 DEF IInv, TypeOK
<1>3. state[np[p]] = IF l = "undo" THEN "UNUSED" ELSE "EMBRYO"
  BY <1>1, <1>2 DEF IInv, ForkAgree
<1>4. \A r \in Procs : np[r] = np[p] => r = p
  BY <1>2 DEF IInv, ForkAgree
<1>5. pc[np[p]] = "none" /\ np[p] # p
  BY <1>1, <1>2, <1>3 DEF IInv, ThreadAgree
<1>6. np[np[p]] = NoProc
  BY <1>2, <1>5 DEF IInv, ForkAgree, ForkPCs
<1>7. Detached(np[p]) <=> l \in {"copy", "place", "undo"}
  BY <1>1, <1>4 DEF Detached
<1> QED BY <1>1, <1>2, <1>3, <1>4, <1>5, <1>6, <1>7

\* allocproc() writes the MLFQ fields without the lock; the child is on no
\* ready list yet, so its priority can be reset.
LEMMA AllocStackStep ==
    ASSUME IInv, NEW c \in CPUs, NEW p \in Procs, AllocStack(c, p)
    PROVE  IInv'
<1>m. /\ priority' = [priority EXCEPT ![np[p]] = DEFAULTPRIO]
      /\ budget' = [budget EXCEPT ![np[p]] = BUDGET]
      /\ cpu_ticks_in' = [cpu_ticks_in EXCEPT ![np[p]] = 0]
  BY DEF AllocStack
<1>n. pc' = [pc EXCEPT ![p] = "fork"]
  BY DEF AllocStack
<1>u. UNCHANGED <<state, pid, parent, chan, killed, list, ready, PromoteAtTime,
                  nextpid, np, cproc, spc, ptlock, ticks, intr>>
  BY DEF AllocStack, procVars, listVars, cpuVars, timeVars
<1>t. TypeOK
  BY DEF IInv
<1>1. /\ pc[p] = "alloc" /\ state[p] = "RUNNING"
      /\ np[p] \in Procs /\ state[np[p]] = "EMBRYO"
  BY Child DEF AllocStack, ForkPCs
<1>2. TypeOK'
  <2>1. /\ DEFAULTPRIO \in Prios /\ BUDGET \in 0..BUDGET
        /\ 0 \in 0..(TICKMOD - 1)
    BY MLFQAssumption DEF Prios
  <2>2. pc' \in [Procs -> PCs]
    BY <1>n, <1>t DEF TypeOK, PCs, ForkPCs
  <2> QED BY <1>m, <1>t, <1>u, <2>1, <2>2 DEF TypeOK
<1>3. ListsAgree'
  <2>1. \A r \in Procs : Detached(r)' <=> Detached(r)
    BY <1>n, <1>t, <1>u, <1>1 DEF Detached, TypeOK
  <2>2. \A r \in Procs : state[r] = "RUNNABLE" => priority'[r] = priority[r]
    BY <1>m, <1>t, <1>1 DEF TypeOK
  <2> QED BY <1>u, <2>1, <2>2 DEF IInv, ListsAgree
<1>x. \A x \in Procs : pc'[x] = IF x = p THEN "fork" ELSE pc[x]
  BY <1>n, <1>t DEF TypeOK
<1>4. ForkAgree'
  BY <1>x, <1>u, <1>1 DEF IInv, ForkAgree, ForkPCs
<1>5. ThreadAgree'
  BY <1>x, <1>u, <1>1, InitSlot DEF IInv, ThreadAgree
<1>6. SleepAgree' /\ LockAgree'
  BY <1>x, <1>u, <1>1 DEF IInv, SleepAgree, LockAgree
<1>7. SchedAgree' /\ OneCPUEach' /\ NoLostExit' /\ ParentAlive'
  BY <1>u DEF IInv, SchedAgree, OneCPUEach, NoLostExit, ParentAlive
<1>8. UniquePids' /\ PidsBounded'
  BY <1>u DEF IInv, UniquePids, PidsBounded
<1>9. BudgetLeft'
  BY <1>m, <1>t, <1>u, <1>1 DEF IInv, BudgetLeft, TypeOK
<1>10. ChildBudget'
  <2>1. \A r \in Procs : budget'[r] >= budget[r] /\ budget'[np[p]] = BUDGET
    BY <1>m, <1>t, <1>1 DEF TypeOK
  <2>2. \A r \in Procs : pc'[r] = IF r = p THEN "fork" ELSE pc[r]
    BY <1>n, <1>t DEF TypeOK
  <2>3. \A r \in Procs : pc[r] \in {"fork", "copy", "place"} => np[r] \in Procs
    BY <1>t DEF IInv, ForkAgree, ForkPCs, TypeOK
  <2>4. \A r \in Procs : budget[r] \in Int /\ budget'[r] \in Int
    BY <1>2, <1>t DEF TypeOK
  <2>5. BUDGET > 0 /\ BUDGET \in Int
    BY MLFQAssumption
  <2>6. ASSUME NEW r \in Procs, pc'[r] \in {"fork", "copy", "place"}
        PROVE  budget'[np'[r]] > 0
    <3>1. CASE r = p
      BY <1>u, <2>1, <2>5, <3>1
    <3>2. CASE r # p
      <4>1. np'[r] = np[r] /\ np[r] \in Procs /\ budget[np[r]] > 0
        BY <1>u, <2>2, <2>3, <2>6, <3>2 DEF IInv, ChildBudget
      <4> QED BY <2>1, <2>4, <4>1
    <3> QED BY <3>1, <3>2
  <2> QED BY <2>6 DEF ChildBudget
<1> QED BY <1>2, <1>3, <1>4, <1>5, <1>6, <1>7, <1>8, <1>9, <1>10 DEF IInv

\* allocproc() gives the slot back when kalloc() fails.
LEMMA AllocFailStep ==
    ASSUME IInv, NEW c \in CPUs, NEW p \in Procs, AllocFail(c, p)
    PROVE  IInv'
<1> DEFINE q == np[p]
<1>l. list' = [list EXCEPT !["EMBRYO"] = stateListRemove(@, q),
                           !["UNUSED"] = stateListAdd(@, q)]
  BY DEF AllocFail
<1>s. state' = [state EXCEPT ![q] = "UNUSED"]
  BY DEF AllocFail
<1>n. np' = [np EXCEPT ![p] = NoProc] /\ pc' = [pc EXCEPT ![p] = "kernel"]
  BY DEF AllocFail
<1>u. UNCHANGED <<pid, parent, chan, killed, priority, budget, cpu_ticks_in,
                  ready, PromoteAtTime, nextpid, cproc, spc, ptlock, ticks, intr>>
  BY DEF AllocFail, mlfqVars, cpuVars, timeVars
<1>t. TypeOK
  BY DEF IInv
<1>1. /\ q \in Procs /\ q # p /\ pc[p] = "alloc" /\ state[p] = "RUNNING"
      /\ state[q] = "EMBRYO" /\ pc[q] = "none" /\ ~Detached(q)
      /\ \A r \in Procs : np[r] = q => r = p
  <2>1. At(c, p, "alloc") /\ "alloc" \in ForkPCs
    BY DEF AllocFail, ForkPCs
  <2> QED BY <2>1, Child
<1> HIDE DEF q
<1>2. \A x \in Procs : /\ np'[x] = IF x = p THEN NoProc ELSE np[x]
                       /\ pc'[x] = IF x = p THEN "kernel" ELSE pc[x]
                       /\ state'[x] = IF x = q THEN "UNUSED" ELSE state[x]
  BY <1>s, <1>n, <1>t DEF TypeOK
<1>3. Moved(ListStates, list, list', "EMBRYO", "UNUSED", q)
  <2>1. /\ q \notin Members(list["UNUSED"])
        /\ "UNUSED" \in ListStates /\ "EMBRYO" \in ListStates
    BY <1>1 DEF IInv, ListsAgree, ListStates
  <2>2. Moved(ListStates, list,
              [list EXCEPT !["EMBRYO"] = stateListRemove(@, q),
                           !["UNUSED"] = stateListAdd(@, q)],
              "EMBRYO", "UNUSED", q)
    BY <1>1, <2>1, Families, FamilyMove DEF IInv
  <2> QED BY <1>l, <2>2
<1>4. TypeOK'
  <2>1. list' \in [ListStates -> Seq(Procs)]
    BY <1>3 DEF Moved, IsFamily
  <2>2. state' \in [Procs -> States]
    BY <1>s, <1>t DEF TypeOK, States, ListStates
  <2>3. pc' \in [Procs -> PCs] /\ np' \in [Procs -> Procs \cup {NoProc}]
    BY <1>n, <1>t DEF TypeOK, PCs
  <2> QED BY <1>t, <1>u, <2>1, <2>2, <2>3 DEF TypeOK
<1>5. ListsAgree'
  <2>1. \A r \in Procs : Detached(r)' <=> Detached(r)
    BY <1>1, <1>2 DEF Detached, NoProc, Procs
  <2>2. ASSUME NEW t \in ListStates, NEW r \in Procs
        PROVE  r \in Members(list'[t]) <=> state'[r] = t /\ ~Detached(r)'
    BY <1>1, <1>2, <1>3, <2>1 DEF IInv, ListsAgree, Moved
  <2>3. \A k \in Prios, r \in Procs :
           r \in Members(ready'[k]) <=> state'[r] = "RUNNABLE" /\ priority'[r] = k
    BY <1>u, <1>1, <1>2 DEF IInv, ListsAgree
  <2>4. \A k \in Prios : NoRepeats(ready'[k])
    BY <1>u DEF IInv, ListsAgree
  <2> QED BY <1>3, <2>2, <2>3, <2>4 DEF ListsAgree, Moved, IsFamily
<1>6. ForkAgree'
  <2>1. \A r \in Procs : np[r] # NoProc => np[r] \in Procs
    BY <1>t DEF TypeOK
  <2> QED BY <1>u, <1>1, <1>2, <2>1 DEF IInv, ForkAgree, ForkPCs
<1>7. ThreadAgree' /\ SleepAgree' /\ LockAgree'
  <2>1. initproc \in Procs
    BY SizesAssumption DEF initproc, Procs
  <2>2. ThreadAgree'
    BY <1>1, <1>2, <2>1 DEF IInv, ThreadAgree
  <2>3. SleepAgree'
    BY <1>u, <1>1, <1>2 DEF IInv, SleepAgree
  <2>4. LockAgree'
    BY <1>u, <1>1, <1>2 DEF IInv, LockAgree
  <2> QED BY <2>2, <2>3, <2>4
<1>8. SchedAgree' /\ PidsBounded'
  BY <1>u DEF IInv, SchedAgree, PidsBounded
<1>9. OneCPUEach' /\ NoLostExit' /\ UniquePids' /\ BudgetLeft'
  BY <1>u, <1>1, <1>2 DEF IInv, OneCPUEach, NoLostExit, UniquePids, BudgetLeft
<1>10. ParentAlive'
  BY <1>t, <1>u, <1>1, <1>2 DEF IInv, ParentAlive, TypeOK
<1>11. ChildBudget'
  BY <1>u, <1>2 DEF IInv, ChildBudget
<1> QED BY <1>4, <1>5, <1>6, <1>7, <1>8, <1>9, <1>10, <1>11 DEF IInv

\* Adding a process that is on no ready list to the list of its priority.
LEMMA ReadyAdd ==
    ASSUME TypeOK, NEW r, IsFamily(Prios, r), NEW p \in Procs,
           \A k \in Prios : p \notin Members(r[k])
    PROVE  Added(Prios, r, AddReady(r, p), priority[p], p)
<1>1. p # NoProc
  BY InitSlot
<1>2. priority[p] \in Prios
  BY DEF TypeOK
<1>3. Added(Prios, r, [r EXCEPT ![priority[p]] = stateListAdd(@, p)], priority[p], p)
  BY <1>2, FamilyAdd
<1> QED BY <1>1, <1>3 DEF AddReady

\* fork() takes the child off the EMBRYO list: from here to its last section
\* the child is on none.
LEMMA ForkDetachStep ==
    ASSUME IInv, NEW c \in CPUs, NEW p \in Procs, ForkDetach(c, p)
    PROVE  IInv'
<1> DEFINE q == np[p]
<1>l. list' = [list EXCEPT !["EMBRYO"] = stateListRemove(@, q)]
  BY DEF ForkDetach
<1>n. pc' = [pc EXCEPT ![p] = "copy"]
  BY DEF ForkDetach
<1>u. UNCHANGED <<state, pid, parent, chan, killed, priority, budget,
                  cpu_ticks_in, ready, PromoteAtTime, nextpid, np, cproc, spc,
                  ptlock, ticks, intr>>
  BY DEF ForkDetach, procVars, mlfqVars, cpuVars, timeVars
<1>t. TypeOK
  BY DEF IInv
<1>1. /\ q \in Procs /\ pc[p] = "fork" /\ state[p] = "RUNNING"
      /\ state[q] = "EMBRYO" /\ ~Detached(q)
      /\ \A r \in Procs : np[r] = q => r = p
  <2>1. At(c, p, "fork") /\ "fork" \in ForkPCs
    BY DEF ForkDetach, ForkPCs
  <2> QED BY <2>1, Child
<1>2. \A x \in Procs : pc'[x] = IF x = p THEN "copy" ELSE pc[x]
  BY <1>n, <1>t DEF TypeOK
<1>3. \A r \in Procs : Detached(r)' <=> Detached(r) \/ r = q
  BY <1>u, <1>1, <1>2 DEF Detached
<1> HIDE DEF q
<1>4. Removed(ListStates, list, list', "EMBRYO", q)
  <2>1. "EMBRYO" \in ListStates
    BY DEF ListStates
  <2>2. Removed(ListStates, list,
                [list EXCEPT !["EMBRYO"] = stateListRemove(@, q)], "EMBRYO", q)
    BY <2>1, Families, FamilyRemove DEF IInv
  <2> QED BY <1>l, <2>2
<1>5. TypeOK'
  <2>1. list' \in [ListStates -> Seq(Procs)]
    BY <1>4 DEF Removed, IsFamily
  <2>2. pc' \in [Procs -> PCs]
    BY <1>n, <1>t DEF TypeOK, PCs, ForkPCs
  <2> QED BY <1>t, <1>u, <2>1, <2>2 DEF TypeOK
<1>6. ListsAgree'
  <2>1. ASSUME NEW t \in ListStates, NEW r \in Procs
        PROVE  r \in Members(list'[t]) <=> state'[r] = t /\ ~Detached(r)'
    BY <1>u, <1>1, <1>3, <1>4 DEF IInv, ListsAgree, Removed
  <2>2. \A k \in Prios : /\ NoRepeats(ready'[k])
                         /\ \A r \in Procs : r \in Members(ready'[k]) <=>
                              state'[r] = "RUNNABLE" /\ priority'[r] = k
    BY <1>u DEF IInv, ListsAgree
  <2> QED BY <1>4, <2>1, <2>2 DEF ListsAgree, Removed, IsFamily
<1>7. ForkAgree'
  BY <1>u, <1>1, <1>2 DEF IInv, ForkAgree, ForkPCs
<1>8. ThreadAgree' /\ SleepAgree' /\ LockAgree'
  BY <1>u, <1>1, <1>2, InitSlot DEF IInv, ThreadAgree, SleepAgree, LockAgree
<1>9. SchedAgree' /\ OneCPUEach' /\ NoLostExit' /\ ParentAlive'
  BY <1>u DEF IInv, SchedAgree, OneCPUEach, NoLostExit, ParentAlive
<1>10. UniquePids' /\ PidsBounded' /\ BudgetLeft'
  BY <1>u DEF IInv, UniquePids, PidsBounded, BudgetLeft
<1>11. ChildBudget'
  BY <1>u, <1>1, <1>2 DEF IInv, ChildBudget
<1> QED BY <1>5, <1>6, <1>7, <1>8, <1>9, <1>10, <1>11 DEF IInv

\* fork() sets the parent of a child that nobody else can see.
LEMMA CopyOkStep ==
    ASSUME IInv, NEW c \in CPUs, NEW p \in Procs, CopyOk(c, p)
    PROVE  IInv'
<1> DEFINE q == np[p]
<1>p. parent' = [parent EXCEPT ![q] = p] /\ pc' = [pc EXCEPT ![p] = "place"]
  BY DEF CopyOk
<1>u. UNCHANGED <<state, pid, chan, killed, priority, budget, cpu_ticks_in, list,
                  ready, PromoteAtTime, nextpid, np, cproc, spc, ptlock, ticks,
                  intr>>
  BY DEF CopyOk, mlfqVars, listVars, cpuVars, timeVars
<1>t. TypeOK
  BY DEF IInv
<1>1. /\ q \in Procs /\ pc[p] = "copy" /\ state[p] = "RUNNING"
      /\ state[q] = "EMBRYO" /\ \A r \in Procs : np[r] = q => r = p
  <2>1. At(c, p, "copy") /\ "copy" \in ForkPCs
    BY DEF CopyOk, ForkPCs
  <2> QED BY <2>1, Child
<1>2. \A x \in Procs : /\ pc'[x] = IF x = p THEN "place" ELSE pc[x]
                       /\ parent'[x] = IF x = q THEN p ELSE parent[x]
  BY <1>p, <1>t DEF TypeOK
<1>3. TypeOK'
  <2>1. pc' \in [Procs -> PCs]
    BY <1>p, <1>t DEF TypeOK, PCs, ForkPCs
  <2>2. parent' \in [Procs -> Procs \cup {NoProc}]
    BY <1>p, <1>t DEF TypeOK
  <2> QED BY <1>t, <1>u, <2>1, <2>2 DEF TypeOK
<1>4. ListsAgree'
  <2>1. \A r \in Procs : Detached(r)' <=> Detached(r)
    BY <1>u, <1>1, <1>2 DEF Detached
  <2> QED BY <1>u, <2>1 DEF IInv, ListsAgree
<1>5. ForkAgree'
  <2>1. \A r \in Procs : np[r] # NoProc => np[r] \in Procs
    BY <1>t DEF TypeOK
  <2> QED BY <1>u, <1>1, <1>2, <2>1 DEF IInv, ForkAgree, ForkPCs
<1>6. ThreadAgree' /\ SleepAgree' /\ LockAgree'
  BY <1>u, <1>1, <1>2, InitSlot DEF IInv, ThreadAgree, SleepAgree, LockAgree
<1>7. SchedAgree' /\ OneCPUEach'
  BY <1>u DEF IInv, SchedAgree, OneCPUEach
<1>8. NoLostExit' /\ ParentAlive'
  BY <1>u, <1>1, <1>2 DEF IInv, NoLostExit, ParentAlive
<1>9. UniquePids' /\ PidsBounded' /\ BudgetLeft'
  BY <1>u DEF IInv, UniquePids, PidsBounded, BudgetLeft
<1>10. ChildBudget'
  BY <1>u, <1>1, <1>2 DEF IInv, ChildBudget
<1> QED BY <1>3, <1>4, <1>5, <1>6, <1>7, <1>8, <1>9, <1>10 DEF IInv

\* fork() makes the child UNUSED without the lock, while it is on no list.
LEMMA CopyFailStep ==
    ASSUME IInv, NEW c \in CPUs, NEW p \in Procs, CopyFail(c, p)
    PROVE  IInv'
<1> DEFINE q == np[p]
<1>s. state' = [state EXCEPT ![q] = "UNUSED"] /\ pc' = [pc EXCEPT ![p] = "undo"]
  BY DEF CopyFail
<1>u. UNCHANGED <<pid, parent, chan, killed, priority, budget, cpu_ticks_in,
                  list, ready, PromoteAtTime, nextpid, np, cproc, spc, ptlock,
                  ticks, intr>>
  BY DEF CopyFail, mlfqVars, listVars, cpuVars, timeVars
<1>t. TypeOK
  BY DEF IInv
<1>1. /\ q \in Procs /\ q # p /\ pc[p] = "copy" /\ state[p] = "RUNNING"
      /\ state[q] = "EMBRYO" /\ pc[q] = "none" /\ Detached(q)
      /\ \A r \in Procs : np[r] = q => r = p
  <2>1. At(c, p, "copy") /\ "copy" \in ForkPCs
    BY DEF CopyFail, ForkPCs
  <2> QED BY <2>1, Child
<1>2. \A x \in Procs : /\ pc'[x] = IF x = p THEN "undo" ELSE pc[x]
                       /\ state'[x] = IF x = q THEN "UNUSED" ELSE state[x]
  BY <1>s, <1>t DEF TypeOK
<1>3. TypeOK'
  <2>1. pc' \in [Procs -> PCs]
    BY <1>s, <1>t DEF TypeOK, PCs, ForkPCs
  <2>2. state' \in [Procs -> States]
    BY <1>s, <1>t DEF TypeOK, States, ListStates
  <2> QED BY <1>t, <1>u, <2>1, <2>2 DEF TypeOK
<1>4. ListsAgree'
  <2>1. \A r \in Procs : Detached(r)' <=> Detached(r)
    BY <1>u, <1>1, <1>2 DEF Detached
  <2> QED BY <1>u, <1>1, <1>2, <2>1 DEF IInv, ListsAgree
<1>5. ForkAgree'
  <2>1. \A r \in Procs : np[r] # NoProc => np[r] \in Procs
    BY <1>t DEF TypeOK
  <2> QED BY <1>u, <1>1, <1>2, <2>1 DEF IInv, ForkAgree, ForkPCs
<1>6. ThreadAgree' /\ SleepAgree' /\ LockAgree'
  <2>1. ThreadAgree'
    BY <1>1, <1>2, InitSlot DEF IInv, ThreadAgree
  <2>2. SleepAgree'
    BY <1>u, <1>1, <1>2 DEF IInv, SleepAgree
  <2>3. LockAgree'
    BY <1>u, <1>1, <1>2 DEF IInv, LockAgree
  <2> QED BY <2>1, <2>2, <2>3
<1>7. SchedAgree' /\ PidsBounded'
  BY <1>u DEF IInv, SchedAgree, PidsBounded
<1>8. OneCPUEach' /\ NoLostExit' /\ UniquePids' /\ BudgetLeft'
  BY <1>u, <1>1, <1>2 DEF IInv, OneCPUEach, NoLostExit, UniquePids, BudgetLeft
<1>9. ParentAlive'
  BY <1>t, <1>u, <1>1, <1>2 DEF IInv, ParentAlive, TypeOK
<1>10. ChildBudget'
  BY <1>u, <1>1, <1>2 DEF IInv, ChildBudget
<1> QED BY <1>3, <1>4, <1>5, <1>6, <1>7, <1>8, <1>9, <1>10 DEF IInv

\* fork() puts the child of a failed copyuvm() on the free list.
LEMMA ForkUndoStep ==
    ASSUME IInv, NEW c \in CPUs, NEW p \in Procs, ForkUndo(c, p)
    PROVE  IInv'
<1> DEFINE q == np[p]
<1>l. list' = [list EXCEPT !["UNUSED"] = stateListAdd(@, q)]
  BY DEF ForkUndo
<1>n. np' = [np EXCEPT ![p] = NoProc] /\ pc' = [pc EXCEPT ![p] = "kernel"]
  BY DEF ForkUndo
<1>u. UNCHANGED <<state, pid, parent, chan, killed, priority, budget,
                  cpu_ticks_in, ready, PromoteAtTime, nextpid, cproc, spc,
                  ptlock, ticks, intr>>
  BY DEF ForkUndo, procVars, mlfqVars, cpuVars, timeVars
<1>t. TypeOK
  BY DEF IInv
<1>1. /\ q \in Procs /\ q # p /\ pc[p] = "undo" /\ state[p] = "RUNNING"
      /\ state[q] = "UNUSED" /\ Detached(q)
      /\ \A r \in Procs : np[r] = q => r = p
  <2>1. At(c, p, "undo") /\ "undo" \in ForkPCs
    BY DEF ForkUndo, ForkPCs
  <2> QED BY <2>1, Child
<1>2. \A x \in Procs : /\ np'[x] = IF x = p THEN NoProc ELSE np[x]
                       /\ pc'[x] = IF x = p THEN "kernel" ELSE pc[x]
  BY <1>n, <1>t DEF TypeOK
<1>3. \A r \in Procs : Detached(r)' <=> Detached(r) /\ r # q
  BY <1>1, <1>2, InitSlot DEF Detached
<1> HIDE DEF q
<1>4. Added(ListStates, list, list', "UNUSED", q)
  <2>1. "UNUSED" \in ListStates /\ q \notin Members(list["UNUSED"])
    BY <1>1 DEF IInv, ListsAgree, ListStates
  <2>2. Added(ListStates, list,
              [list EXCEPT !["UNUSED"] = stateListAdd(@, q)], "UNUSED", q)
    BY <1>1, <2>1, Families, FamilyAdd DEF IInv
  <2> QED BY <1>l, <2>2
<1>5. TypeOK'
  <2>1. list' \in [ListStates -> Seq(Procs)]
    BY <1>4 DEF Added, IsFamily
  <2>2. pc' \in [Procs -> PCs] /\ np' \in [Procs -> Procs \cup {NoProc}]
    BY <1>n, <1>t DEF TypeOK, PCs
  <2> QED BY <1>t, <1>u, <2>1, <2>2 DEF TypeOK
<1>6. ListsAgree'
  <2>1. ASSUME NEW t \in ListStates, NEW r \in Procs
        PROVE  r \in Members(list'[t]) <=> state'[r] = t /\ ~Detached(r)'
    BY <1>u, <1>1, <1>3, <1>4 DEF IInv, ListsAgree, Added
  <2>2. \A k \in Prios : /\ NoRepeats(ready'[k])
                         /\ \A r \in Procs : r \in Members(ready'[k]) <=>
                              state'[r] = "RUNNABLE" /\ priority'[r] = k
    BY <1>u DEF IInv, ListsAgree
  <2> QED BY <1>4, <2>1, <2>2 DEF ListsAgree, Added, IsFamily
<1>7. ForkAgree'
  BY <1>u, <1>1, <1>2 DEF IInv, ForkAgree, ForkPCs
<1>8. ThreadAgree' /\ SleepAgree' /\ LockAgree'
  BY <1>u, <1>1, <1>2, InitSlot DEF IInv, ThreadAgree, SleepAgree, LockAgree
<1>9. SchedAgree' /\ OneCPUEach' /\ NoLostExit' /\ ParentAlive'
  BY <1>u DEF IInv, SchedAgree, OneCPUEach, NoLostExit, ParentAlive
<1>10. UniquePids' /\ PidsBounded' /\ BudgetLeft'
  BY <1>u DEF IInv, UniquePids, PidsBounded, BudgetLeft
<1>11. ChildBudget'
  BY <1>u, <1>1, <1>2 DEF IInv, ChildBudget
<1> QED BY <1>5, <1>6, <1>7, <1>8, <1>9, <1>10, <1>11 DEF IInv

\* fork() makes the child RUNNABLE: its parent is alive, because it is the
\* running process that executes fork().
LEMMA ForkPlaceStep ==
    ASSUME IInv, NEW c \in CPUs, NEW p \in Procs, ForkPlace(c, p)
    PROVE  IInv'
<1> DEFINE q == np[p]
<1>s. state' = [state EXCEPT ![q] = "RUNNABLE"]
  BY DEF ForkPlace
<1>r. ready' = AddReady(ready, q)
  BY DEF ForkPlace
<1>n. /\ np' = [np EXCEPT ![p] = NoProc]
      /\ pc' = [pc EXCEPT ![p] = "kernel", ![q] = "user"]
  BY DEF ForkPlace
<1>u. UNCHANGED <<pid, parent, chan, killed, priority, budget, cpu_ticks_in,
                  list, PromoteAtTime, nextpid, cproc, spc, ptlock, ticks, intr>>
  BY DEF ForkPlace, mlfqVars, cpuVars, timeVars
<1>t. TypeOK
  BY DEF IInv
<1>1. /\ q \in Procs /\ q # p /\ pc[p] = "place" /\ state[p] = "RUNNING"
      /\ state[q] = "EMBRYO" /\ pc[q] = "none" /\ np[q] = NoProc /\ Detached(q)
      /\ \A r \in Procs : np[r] = q => r = p
  <2>1. At(c, p, "place") /\ "place" \in ForkPCs
    BY DEF ForkPlace, ForkPCs
  <2> QED BY <2>1, Child
<1>2. \A x \in Procs : /\ np'[x] = IF x = p THEN NoProc ELSE np[x]
                       /\ pc'[x] = IF x = p THEN "kernel"
                                   ELSE IF x = q THEN "user" ELSE pc[x]
                       /\ state'[x] = IF x = q THEN "RUNNABLE" ELSE state[x]
  BY <1>s, <1>n, <1>t, <1>1 DEF TypeOK
<1>3. \A r \in Procs : Detached(r)' <=> Detached(r) /\ r # q
  BY <1>1, <1>2, InitSlot DEF Detached
<1>b. budget[q] > 0 /\ parent[q] = p
  BY <1>1 DEF IInv, ForkAgree, ChildBudget
<1> HIDE DEF q
<1>4. Added(Prios, ready, ready', priority[q], q)
  <2>1. \A k \in Prios : q \notin Members(ready[k])
    BY <1>1 DEF IInv, ListsAgree
  <2> QED BY <1>r, <1>t, <1>1, <2>1, Families, ReadyAdd DEF IInv
<1>5. TypeOK'
  <2>1. ready' \in [Prios -> Seq(Procs)]
    BY <1>4 DEF Added, IsFamily
  <2>2. pc' \in [Procs -> PCs] /\ np' \in [Procs -> Procs \cup {NoProc}]
    BY <1>n, <1>t DEF TypeOK, PCs
  <2>3. state' \in [Procs -> States]
    BY <1>s, <1>t DEF TypeOK, States
  <2> QED BY <1>t, <1>u, <2>1, <2>2, <2>3 DEF TypeOK
<1>6. ListsAgree'
  <2>1. ASSUME NEW t \in ListStates, NEW r \in Procs
        PROVE  r \in Members(list'[t]) <=> state'[r] = t /\ ~Detached(r)'
    BY <1>u, <1>1, <1>2, <1>3 DEF IInv, ListsAgree, ListStates
  <2>2. ASSUME NEW k \in Prios, NEW r \in Procs
        PROVE  r \in Members(ready'[k]) <=> state'[r] = "RUNNABLE" /\ priority'[r] = k
    BY <1>u, <1>1, <1>2, <1>4 DEF IInv, ListsAgree, Added
  <2>3. \A t \in ListStates : NoRepeats(list'[t])
    BY <1>u DEF IInv, ListsAgree
  <2> QED BY <1>4, <2>1, <2>2, <2>3 DEF ListsAgree, Added, IsFamily
<1>7. ForkAgree'
  <2>1. \A r \in Procs : np[r] # NoProc => np[r] \in Procs
    BY <1>t DEF TypeOK
  <2> QED BY <1>u, <1>1, <1>2, <2>1 DEF IInv, ForkAgree, ForkPCs
<1>8. ThreadAgree'
  BY <1>1, <1>2, InitSlot DEF IInv, ThreadAgree
<1>9. SleepAgree' /\ LockAgree'
  BY <1>u, <1>1, <1>2 DEF IInv, SleepAgree, LockAgree
<1>10. SchedAgree' /\ PidsBounded'
  BY <1>u DEF IInv, SchedAgree, PidsBounded
<1>11. OneCPUEach' /\ NoLostExit' /\ UniquePids'
  BY <1>u, <1>1, <1>2 DEF IInv, OneCPUEach, NoLostExit, UniquePids
<1>12. ParentAlive'
  BY <1>b, <1>u, <1>1, <1>2 DEF IInv, ParentAlive
<1>13. BudgetLeft'
  BY <1>b, <1>u, <1>2 DEF IInv, BudgetLeft
<1>14. ChildBudget'
  BY <1>u, <1>1, <1>2 DEF IInv, ChildBudget
<1> QED BY <1>5, <1>6, <1>7, <1>8, <1>9, <1>10, <1>11, <1>12, <1>13, <1>14
        DEF IInv

-----------------------------------------------------------------------------
(* Leaving the CPU: budget arithmetic, sleep, yield.                        *)

\* The budget arithmetic leaves p with budget, at a legal priority, and
\* touches nobody else.
LEMMA Charged ==
    ASSUME IInv, NEW p \in Procs, state[p] = "RUNNING", Charge(p)
    PROVE  /\ budget' \in [Procs -> 0..BUDGET] /\ priority' \in [Procs -> Prios]
           /\ cpu_ticks_in' = cpu_ticks_in
           /\ ChargedPriority(p) \in Prios
           /\ priority'[p] = ChargedPriority(p)
           /\ budget'[p] > 0
           /\ \A r \in Procs : r # p => /\ budget'[r] = budget[r]
                                        /\ priority'[r] = priority[r]
<1>t. TypeOK
  BY DEF IInv
<1>1. budget[p] \in 1..BUDGET
  <2>1. budget[p] \in 0..BUDGET /\ budget[p] > 0
    BY <1>t DEF IInv, BudgetLeft, TypeOK
  <2> QED BY <2>1, MLFQAssumption
<1>2. Spent(p) \in Int /\ Spent(p) <= budget[p]
  <2>1. ticks \in Int /\ cpu_ticks_in[p] \in Int
    BY <1>t, MLFQAssumption DEF TypeOK
  <2>2. (ticks - cpu_ticks_in[p]) % TICKMOD \in 0..(TICKMOD - 1)
    BY <2>1, MLFQAssumption
  <2> QED BY <1>1, <2>2, MLFQAssumption DEF Spent
<1>3. ChargedBudget(p) \in 1..BUDGET
  BY <1>1, <1>2, MLFQAssumption DEF ChargedBudget, Exhausted
<1>4. ChargedPriority(p) \in Prios
  <2>1. priority[p] \in 0..MAXPRIO
    BY <1>t DEF TypeOK, Prios
  <2> QED BY <2>1, MLFQAssumption DEF ChargedPriority, Prios
<1>5. /\ budget' = [budget EXCEPT ![p] = ChargedBudget(p)]
      /\ priority' = [priority EXCEPT ![p] = ChargedPriority(p)]
      /\ cpu_ticks_in' = cpu_ticks_in
  BY DEF Charge
<1>6. budget' \in [Procs -> 0..BUDGET]
  <2>1. ChargedBudget(p) \in 0..BUDGET
    BY <1>3, MLFQAssumption
  <2> HIDE DEF ChargedBudget
  <2> QED BY <1>5, <1>t, <2>1 DEF TypeOK
<1>7. priority' \in [Procs -> Prios] /\ priority'[p] = ChargedPriority(p)
  BY <1>4, <1>5, <1>t DEF TypeOK
<1>8. budget'[p] > 0
  <2>1. budget'[p] = ChargedBudget(p)
    BY <1>5, <1>t DEF TypeOK
  <2> QED BY <1>3, <2>1, MLFQAssumption
<1>9. \A r \in Procs : r # p => /\ budget'[r] = budget[r]
                               /\ priority'[r] = priority[r]
  BY <1>5, <1>t DEF TypeOK
<1> QED BY <1>4, <1>5, <1>6, <1>7, <1>8, <1>9

\* The CPU of p goes back to its scheduler while p changes to a state other
\* than RUNNING.
LEMMA LeaveCPU ==
    ASSUME IInv, NEW c \in CPUs, NEW p \in Procs, cproc[c] = p, ToScheduler(c),
           state' \in [Procs -> States], state'[p] # "RUNNING",
           \A r \in Procs : r # p => (state'[r] = "RUNNING" <=> state[r] = "RUNNING")
    PROVE  /\ cproc' \in [CPUs -> Procs \cup {NoProc}]
           /\ spc' \in [CPUs -> {"promote", "dispatch", "run"}]
           /\ SchedAgree' /\ OneCPUEach'
<1>t. TypeOK
  BY DEF IInv
<1>1. /\ cproc' = [cproc EXCEPT ![c] = NoProc]
      /\ spc' = [spc EXCEPT ![c] = "promote"]
  BY DEF ToScheduler
<1>2. /\ cproc' \in [CPUs -> Procs \cup {NoProc}]
      /\ spc' \in [CPUs -> {"promote", "dispatch", "run"}]
  BY <1>1, <1>t DEF TypeOK
<1>3. \A d \in CPUs : /\ cproc'[d] = IF d = c THEN NoProc ELSE cproc[d]
                      /\ spc'[d] = IF d = c THEN "promote" ELSE spc[d]
  BY <1>1, <1>t DEF TypeOK
<1>4. SchedAgree'
  BY <1>3 DEF IInv, SchedAgree
<1>5. OneCPUEach'
  <2>1. \A d \in CPUs : cproc[d] = p => d = c
    BY DEF IInv, OneCPUEach
  <2>2. ASSUME NEW r \in Procs
        PROVE  state'[r] = "RUNNING" <=> \E d \in CPUs : cproc'[d] = r
    BY <1>3, <2>1, InitSlot DEF IInv, OneCPUEach
  <2>3. ASSUME NEW r \in Procs, NEW d \in CPUs, NEW e \in CPUs,
               cproc'[d] = r, cproc'[e] = r
        PROVE  d = e
    BY <1>3, <2>3, InitSlot DEF IInv, OneCPUEach
  <2> QED BY <2>2, <2>3 DEF OneCPUEach
<1> QED BY <1>2, <1>4, <1>5

\* sleep(ch, lk): from a system call or exit() on any channel, or from wait()
\* on the caller's own address when it has no zombie child.
LEMMA SleepOnStep ==
    ASSUME IInv, NEW c \in CPUs, NEW p \in Procs, cproc[c] = p,
           pc[p] \in {"kernel", "exit", "wait"},
           NEW ch \in Procs \cup Chans, SleepOn(c, p, ch),
           NEW l \in {"kernel", "exit", "wait"}, p = initproc => l # "exit",
           l = "wait" <=> ch = p, ch \in Procs => ch = p,
           ch = p => \A q \in Procs : state[q] = "ZOMBIE" => parent[q] # p,
           pc' = [pc EXCEPT ![p] = l],
           ptlock \in {NoProc, p}, ptlock' = NoProc,
           UNCHANGED <<pid, parent, killed, ready, PromoteAtTime, nextpid, np,
                       ticks, intr>>
    PROVE  IInv'
<1>c. chan' = [chan EXCEPT ![p] = ch]
  BY DEF SleepOn
<1>s. state' = [state EXCEPT ![p] = "SLEEPING"]
  BY DEF SleepOn
<1>l. list' = [list EXCEPT !["RUNNING"]  = stateListRemove(@, p),
                           !["SLEEPING"] = stateListAdd(@, p)]
  BY DEF SleepOn
<1>g. Charge(p) /\ ToScheduler(c)
  BY DEF SleepOn
<1>t. TypeOK
  BY DEF IInv
<1>1. state[p] = "RUNNING" /\ p # NoProc
  BY OnCPU
<1>2. \A x \in Procs : /\ state'[x] = IF x = p THEN "SLEEPING" ELSE state[x]
                       /\ chan'[x] = IF x = p THEN ch ELSE chan[x]
                       /\ pc'[x] = IF x = p THEN l ELSE pc[x]
  BY <1>c, <1>s, <1>t DEF TypeOK
<1>d. \A r \in Procs : (Detached(r)' <=> Detached(r)) /\ (Detached(r) => r # p)
  <2>1. \A r \in Procs : Detached(r)' <=> Detached(r)
    BY <1>2 DEF Detached
  <2>2. \A r \in Procs : Detached(r) => state[r] # "RUNNING"
    BY InitSlot DEF Detached, IInv, ForkAgree
  <2> QED BY <1>1, <2>1, <2>2
<1>3. Moved(ListStates, list, list', "RUNNING", "SLEEPING", p)
  <2>1. /\ p \notin Members(list["SLEEPING"])
        /\ "RUNNING" \in ListStates /\ "SLEEPING" \in ListStates
    BY <1>1 DEF IInv, ListsAgree, ListStates
  <2>2. Moved(ListStates, list,
              [list EXCEPT !["RUNNING"] = stateListRemove(@, p),
                           !["SLEEPING"] = stateListAdd(@, p)],
              "RUNNING", "SLEEPING", p)
    BY <2>1, Families, FamilyMove DEF IInv
  <2> QED BY <1>l, <2>2
<1>4. /\ budget' \in [Procs -> 0..BUDGET] /\ priority' \in [Procs -> Prios]
      /\ cpu_ticks_in' = cpu_ticks_in /\ budget'[p] > 0
      /\ \A r \in Procs : r # p => budget'[r] = budget[r] /\ priority'[r] = priority[r]
  BY <1>g, <1>1, Charged
<1>5. state' \in [Procs -> States]
  BY <1>s, <1>t DEF TypeOK, States, ListStates
<1>6. /\ cproc' \in [CPUs -> Procs \cup {NoProc}]
      /\ spc' \in [CPUs -> {"promote", "dispatch", "run"}]
      /\ SchedAgree' /\ OneCPUEach'
  BY <1>g, <1>1, <1>2, <1>5, LeaveCPU
<1>7. TypeOK'
  <2>1. list' \in [ListStates -> Seq(Procs)]
    BY <1>3 DEF Moved, IsFamily
  <2>2. chan' \in [Procs -> Procs \cup Chans \cup {NoProc}]
    BY <1>c, <1>t DEF TypeOK
  <2>3. pc' \in [Procs -> PCs] /\ ptlock' \in Procs \cup {NoProc}
    BY <1>t DEF TypeOK, PCs
  <2> QED BY <1>t, <1>4, <1>5, <1>6, <2>1, <2>2, <2>3 DEF TypeOK
<1>8. ListsAgree'
  <2>1. ASSUME NEW t \in ListStates, NEW r \in Procs
        PROVE  r \in Members(list'[t]) <=> state'[r] = t /\ ~Detached(r)'
    BY <1>d, <1>1, <1>2, <1>3 DEF IInv, ListsAgree, Moved
  <2>2. ASSUME NEW k \in Prios, NEW r \in Procs
        PROVE  r \in Members(ready'[k]) <=> state'[r] = "RUNNABLE" /\ priority'[r] = k
    BY <1>1, <1>2, <1>4 DEF IInv, ListsAgree
  <2>3. \A k \in Prios : NoRepeats(ready'[k])
    BY DEF IInv, ListsAgree
  <2> QED BY <1>3, <2>1, <2>2, <2>3 DEF ListsAgree, Moved, IsFamily
<1>9. ForkAgree'
  BY <1>1, <1>2, InitSlot, ChildSlot DEF IInv, ForkAgree, ForkPCs
<1>10. ThreadAgree'
  BY <1>1, <1>2, InitSlot DEF IInv, ThreadAgree
<1>11. SleepAgree'
  BY <1>2 DEF IInv, SleepAgree
<1>12. LockAgree'
  BY <1>1, <1>2, InitSlot DEF IInv, LockAgree
<1>13. NoLostExit'
  BY <1>1, <1>2 DEF IInv, NoLostExit
<1>14. ParentAlive'
  BY <1>1, <1>2, <1>t DEF IInv, ParentAlive, TypeOK
<1>15. UniquePids' /\ PidsBounded'
  BY <1>1, <1>2 DEF IInv, UniquePids, PidsBounded
<1>16. BudgetLeft'
  BY <1>2, <1>4 DEF IInv, BudgetLeft
<1>17. ChildBudget'
  <2>1. \A r \in Procs : pc[r] \in {"fork", "copy", "place"} =>
                            np[r] \in Procs /\ np[r] # p
    BY <1>1, ChildSlot DEF IInv, ForkAgree, ForkPCs
  <2> QED BY <1>2, <1>4, <2>1 DEF IInv, ChildBudget
<1> QED BY <1>6, <1>7, <1>8, <1>9, <1>10, <1>11, <1>12, <1>13, <1>14, <1>15,
           <1>16, <1>17 DEF IInv

\* sleep() on a channel that is no process address.
LEMMA SleepStep ==
    ASSUME IInv, NEW c \in CPUs, NEW p \in Procs, NEW ch \in Chans,
           Sleep(c, p, ch)
    PROVE  IInv'
<1>1. /\ cproc[c] = p /\ pc[p] \in {"kernel", "exit"} /\ ptlock = NoProc
      /\ SleepOn(c, p, ch)
      /\ UNCHANGED <<pid, parent, killed, ready, PromoteAtTime, nextpid, pc, np,
                     ptlock, ticks, intr>>
  BY DEF Sleep, At, Executes, LockFree, timeVars
<1>2. ch \notin Procs
  BY ChansAssumption, SizesAssumption DEF Procs
<1>3. p = initproc => pc[p] # "exit"
  BY DEF IInv, ThreadAgree
<1> DEFINE l == pc[p]
<1>4. pc' = [pc EXCEPT ![p] = l]
  BY <1>1 DEF IInv, TypeOK
<1>5. /\ l \in {"kernel", "exit", "wait"} /\ pc[p] \in {"kernel", "exit", "wait"}
      /\ l = "wait" <=> ch = p
      /\ p = initproc => l # "exit"
  BY <1>1, <1>2, <1>3
<1>6. /\ ch \in Procs => ch = p
      /\ ch = p => \A q \in Procs : state[q] = "ZOMBIE" => parent[q] # p
      /\ ch \in Procs \cup Chans
  BY <1>2
<1>7. ptlock \in {NoProc, p} /\ ptlock' = NoProc
  BY <1>1
<1>8. UNCHANGED <<pid, parent, killed, ready, PromoteAtTime, nextpid, np, ticks,
                  intr>>
  BY <1>1
<1>9. cproc[c] = p /\ SleepOn(c, p, ch)
  BY <1>1
<1> HIDE DEF l
<1> QED BY <1>4, <1>5, <1>6, <1>7, <1>8, <1>9, SleepOnStep

-----------------------------------------------------------------------------
(* wait().                                                                  *)

\* wait() frees a zombie: it is no parent, so no child loses its own.
LEMMA WaitReapStep ==
    ASSUME IInv, NEW c \in CPUs, NEW p \in Procs, WaitReap(c, p)
    PROVE  IInv'
<1>w. PICK q \in Procs :
         /\ ZombieChild(p, q)
         /\ pid' = [pid EXCEPT ![q] = 0]
         /\ parent' = [parent EXCEPT ![q] = NoProc]
         /\ killed' = [killed EXCEPT ![q] = 0]
         /\ state' = [state EXCEPT ![q] = "UNUSED"]
         /\ list' = [list EXCEPT !["ZOMBIE"] = stateListRemove(@, q),
                                 !["UNUSED"] = stateListAdd(@, q)]
  BY DEF WaitReap
<1>n. pc' = [pc EXCEPT ![p] = "kernel"] /\ ptlock' = NoProc
  BY DEF WaitReap
<1>u. UNCHANGED <<chan, priority, budget, cpu_ticks_in, ready, PromoteAtTime,
                  nextpid, np, cproc, spc, ticks, intr>>
  BY DEF WaitReap, mlfqVars, cpuVars, timeVars
<1>t. TypeOK
  BY DEF IInv
<1>1. cproc[c] = p /\ pc[p] \in {"kernel", "wait"} /\ ptlock \in {NoProc, p}
  BY DEF WaitReap, InWait, At, Executes, LockFree
<1>2. state[p] = "RUNNING" /\ p # NoProc
  BY <1>1, OnCPU
<1>3. state[q] = "ZOMBIE" /\ parent[q] = p /\ q # p
  BY <1>w, <1>2 DEF ZombieChild
<1>4. \A r \in Procs : np[r] # q
  BY <1>3, InitSlot DEF IInv, ForkAgree
<1>5. \A x \in Procs : /\ pc'[x] = IF x = p THEN "kernel" ELSE pc[x]
                       /\ state'[x] = IF x = q THEN "UNUSED" ELSE state[x]
                       /\ parent'[x] = IF x = q THEN NoProc ELSE parent[x]
  BY <1>w, <1>n, <1>t DEF TypeOK
<1>6. \A r \in Procs : (Detached(r)' <=> Detached(r)) /\ (Detached(r) => r # q)
  BY <1>u, <1>1, <1>4, <1>5 DEF Detached
<1>7. Moved(ListStates, list, list', "ZOMBIE", "UNUSED", q)
  <2>1. /\ q \notin Members(list["UNUSED"])
        /\ "UNUSED" \in ListStates /\ "ZOMBIE" \in ListStates
    BY <1>3 DEF IInv, ListsAgree, ListStates
  <2>2. Moved(ListStates, list,
              [list EXCEPT !["ZOMBIE"] = stateListRemove(@, q),
                           !["UNUSED"] = stateListAdd(@, q)],
              "ZOMBIE", "UNUSED", q)
    BY <2>1, Families, FamilyMove DEF IInv
  <2> QED BY <1>w, <2>2
<1>8. TypeOK'
  <2>1. list' \in [ListStates -> Seq(Procs)]
    BY <1>7 DEF Moved, IsFamily
  <2>2. state' \in [Procs -> States] /\ killed' \in [Procs -> {0, 1}]
    BY <1>w, <1>t DEF TypeOK, States, ListStates
  <2>3. pid' \in [Procs -> Nat]
    BY <1>w, <1>t DEF TypeOK
  <2>4. /\ pc' \in [Procs -> PCs] /\ parent' \in [Procs -> Procs \cup {NoProc}]
        /\ ptlock' \in Procs \cup {NoProc}
    BY <1>w, <1>n, <1>t DEF TypeOK, PCs
  <2> QED BY <1>t, <1>u, <2>1, <2>2, <2>3, <2>4 DEF TypeOK
<1>9. ListsAgree'
  <2>1. ASSUME NEW t \in ListStates, NEW r \in Procs
        PROVE  r \in Members(list'[t]) <=> state'[r] = t /\ ~Detached(r)'
    BY <1>3, <1>5, <1>6, <1>7 DEF IInv, ListsAgree, Moved
  <2>2. ASSUME NEW k \in Prios, NEW r \in Procs
        PROVE  r \in Members(ready'[k]) <=> state'[r] = "RUNNABLE" /\ priority'[r] = k
    BY <1>u, <1>3, <1>5 DEF IInv, ListsAgree
  <2>3. \A k \in Prios : NoRepeats(ready'[k])
    BY <1>u DEF IInv, ListsAgree
  <2> QED BY <1>7, <2>1, <2>2, <2>3 DEF ListsAgree, Moved, IsFamily
<1>10. ForkAgree'
  <2>1. \A r \in Procs : np[r] # NoProc => np[r] \in Procs
    BY <1>t DEF TypeOK
  <2> QED BY <1>u, <1>1, <1>4, <1>5, <2>1 DEF IInv, ForkAgree, ForkPCs
<1>11. ThreadAgree'
  BY <1>1, <1>3, <1>5, InitSlot DEF IInv, ThreadAgree
<1>12. SleepAgree'
  BY <1>u, <1>2, <1>5 DEF IInv, SleepAgree
<1>13. LockAgree'
  BY <1>n, <1>1, <1>2, <1>5, InitSlot DEF IInv, LockAgree
<1>14. SchedAgree'
  BY <1>u DEF IInv, SchedAgree
<1>15. OneCPUEach'
  BY <1>u, <1>3, <1>5 DEF IInv, OneCPUEach
<1>16. NoLostExit'
  BY <1>u, <1>3, <1>5 DEF IInv, NoLostExit
<1>17. ParentAlive'
  <2>1. ASSUME NEW x \in Procs, x # initproc,
               state'[x] \in {"RUNNABLE", "RUNNING", "SLEEPING", "ZOMBIE"}
        PROVE  /\ parent'[x] \in Procs \ {x}
               /\ state'[parent'[x]] \in {"RUNNABLE", "RUNNING", "SLEEPING"}
    <3>1. x # q /\ state'[x] = state[x] /\ parent'[x] = parent[x]
      BY <1>5, <2>1
    <3>2. /\ parent[x] \in Procs \ {x}
          /\ state[parent[x]] \in {"RUNNABLE", "RUNNING", "SLEEPING"}
      BY <2>1, <3>1 DEF IInv, ParentAlive
    <3> QED BY <1>3, <1>5, <3>1, <3>2
  <2> QED BY <2>1 DEF ParentAlive
<1>18. UniquePids'
  <2>1. \A x \in Procs : x # q => pid'[x] = pid[x]
    BY <1>w, <1>t DEF TypeOK
  <2> QED BY <1>5, <2>1 DEF IInv, UniquePids
<1>19. PidsBounded'
  <2>1. \A x \in Procs : pid'[x] = IF x = q THEN 0 ELSE pid[x]
    BY <1>w, <1>t DEF TypeOK
  <2>2. pid[q] \in Nat /\ nextpid \in Nat /\ pid[q] < nextpid
    BY <1>t DEF TypeOK, IInv, PidsBounded
  <2>3. 0 < nextpid
    BY <2>2
  <2> QED BY <1>u, <2>1, <2>3 DEF IInv, PidsBounded
<1>20. BudgetLeft' /\ ChildBudget'
  BY <1>u, <1>5 DEF IInv, BudgetLeft, ChildBudget
<1> QED BY <1>8, <1>9, <1>10, <1>11, <1>12, <1>13, <1>14, <1>15, <1>16, <1>17,
           <1>18, <1>19, <1>20 DEF IInv

\* wait() returns -1 and releases ptable.lock.
LEMMA WaitFailStep ==
    ASSUME IInv, NEW c \in CPUs, NEW p \in Procs, WaitFail(c, p)
    PROVE  IInv'
<1>n. pc' = [pc EXCEPT ![p] = "kernel"] /\ ptlock' = NoProc
  BY DEF WaitFail
<1>u. UNCHANGED <<state, pid, parent, chan, killed, priority, budget,
                  cpu_ticks_in, list, ready, PromoteAtTime, nextpid, np, cproc,
                  spc, ticks, intr>>
  BY DEF WaitFail, procVars, mlfqVars, listVars, cpuVars, timeVars
<1>t. TypeOK
  BY DEF IInv
<1>1. cproc[c] = p /\ pc[p] \in {"kernel", "wait"} /\ ptlock \in {NoProc, p}
  BY DEF WaitFail, InWait, At, Executes, LockFree
<1>2. state[p] = "RUNNING" /\ p # NoProc
  BY <1>1, OnCPU
<1>3. \A x \in Procs : pc'[x] = IF x = p THEN "kernel" ELSE pc[x]
  BY <1>n, <1>t DEF TypeOK
<1>4. TypeOK'
  <2>1. pc' \in [Procs -> PCs] /\ ptlock' \in Procs \cup {NoProc}
    BY <1>n, <1>t DEF TypeOK, PCs
  <2> QED BY <1>t, <1>u, <2>1 DEF TypeOK
<1>5. ListsAgree'
  <2>1. \A r \in Procs : Detached(r)' <=> Detached(r)
    BY <1>u, <1>1, <1>3 DEF Detached
  <2> QED BY <1>u, <2>1 DEF IInv, ListsAgree
<1>6. ForkAgree'
  BY <1>u, <1>1, <1>3 DEF IInv, ForkAgree, ForkPCs
<1>7. ThreadAgree' /\ SleepAgree'
  BY <1>u, <1>1, <1>2, <1>3, InitSlot DEF IInv, ThreadAgree, SleepAgree
<1>8. LockAgree'
  BY <1>n, <1>u, <1>1, <1>2, <1>3, InitSlot DEF IInv, LockAgree
<1>9. SchedAgree' /\ OneCPUEach' /\ NoLostExit' /\ ParentAlive'
  BY <1>u DEF IInv, SchedAgree, OneCPUEach, NoLostExit, ParentAlive
<1>10. UniquePids' /\ PidsBounded' /\ BudgetLeft'
  BY <1>u DEF IInv, UniquePids, PidsBounded, BudgetLeft
<1>11. ChildBudget'
  BY <1>u, <1>3 DEF IInv, ChildBudget
<1> QED BY <1>4, <1>5, <1>6, <1>7, <1>8, <1>9, <1>10, <1>11 DEF IInv

\* wait() sleeps: the scan under the lock has found no zombie child.
LEMMA WaitSleepStep ==
    ASSUME IInv, NEW c \in CPUs, NEW p \in Procs, WaitSleep(c, p)
    PROVE  IInv'
<1>1. /\ cproc[c] = p /\ pc[p] \in {"kernel", "exit", "wait"}
      /\ ptlock \in {NoProc, p} /\ ptlock' = NoProc
      /\ SleepOn(c, p, p) /\ pc' = [pc EXCEPT ![p] = "wait"]
  BY DEF WaitSleep, InWait, At, Executes, LockFree
<1>2. UNCHANGED <<pid, parent, killed, ready, PromoteAtTime, nextpid, np, ticks,
                  intr>>
  BY DEF WaitSleep, timeVars
<1>3. \A q \in Procs : state[q] = "ZOMBIE" => parent[q] # p
  <2>1. \A q \in Procs : state[q] = "ZOMBIE" => ~Detached(q)
    BY InitSlot DEF Detached, IInv, ForkAgree
  <2>2. \A q \in Procs : state[q] = "ZOMBIE" => q \in Members(list["ZOMBIE"])
    BY <2>1 DEF IInv, ListsAgree, ListStates
  <2> QED BY <2>2 DEF WaitSleep, NoZombieChild
<1> QED BY <1>1, <1>2, <1>3, SleepOnStep

-----------------------------------------------------------------------------
(* wakeup() and kill().                                                     *)

\* A sleeping process w is woken; somebody may be marked killed.
LEMMA WakeStep ==
    ASSUME IInv, NEW w \in Procs, state[w] = "SLEEPING",
           \A x \in Procs : state'[x] = IF x = w THEN "RUNNABLE" ELSE state[x],
           state' \in [Procs -> States],
           list' = [list EXCEPT !["SLEEPING"] = stateListRemove(@, w)],
           ready' = AddReady(ready, w),
           killed' \in [Procs -> {0, 1}], intr' \in {"none", "wakeup", "tail"},
           UNCHANGED <<pid, parent, chan, priority, budget, cpu_ticks_in,
                       PromoteAtTime, nextpid, pc, np, cproc, spc, ptlock, ticks>>
    PROVE  IInv'
<1>t. TypeOK
  BY DEF IInv
<1>1. \A r \in Procs : (Detached(r)' <=> Detached(r)) /\ (Detached(r) => r # w)
  <2>1. \A r \in Procs : Detached(r)' <=> Detached(r)
    BY DEF Detached
  <2>2. \A r \in Procs : Detached(r) => state[r] # "SLEEPING"
    BY InitSlot DEF Detached, IInv, ForkAgree
  <2> QED BY <2>1, <2>2
<1>2. Removed(ListStates, list, list', "SLEEPING", w)
  <2>1. "SLEEPING" \in ListStates
    BY DEF ListStates
  <2>2. Removed(ListStates, list,
                [list EXCEPT !["SLEEPING"] = stateListRemove(@, w)], "SLEEPING", w)
    BY <2>1, Families, FamilyRemove DEF IInv
  <2> QED BY <2>2
<1>3. Added(Prios, ready, ready', priority[w], w)
  <2>1. \A k \in Prios : w \notin Members(ready[k])
    BY DEF IInv, ListsAgree
  <2> QED BY <1>t, <2>1, Families, ReadyAdd DEF IInv
<1>4. TypeOK'
  BY <1>t, <1>2, <1>3 DEF TypeOK, Added, Removed, IsFamily
<1>5. ListsAgree'
  <2>1. ASSUME NEW t \in ListStates, NEW r \in Procs
        PROVE  r \in Members(list'[t]) <=> state'[r] = t /\ ~Detached(r)'
    <3>1. t # "RUNNABLE"
      BY DEF ListStates
    <3> QED BY <1>1, <1>2, <3>1 DEF IInv, ListsAgree, Removed
  <2>2. ASSUME NEW k \in Prios, NEW r \in Procs
        PROVE  r \in Members(ready'[k]) <=> state'[r] = "RUNNABLE" /\ priority'[r] = k
    BY <1>3 DEF IInv, ListsAgree, Added
  <2> QED BY <1>2, <1>3, <2>1, <2>2 DEF ListsAgree, Added, Removed, IsFamily
<1>6. ForkAgree'
  <2>1. \A r \in Procs : np[r] # NoProc => np[r] \in Procs
    BY <1>t DEF TypeOK
  <2> QED BY <2>1 DEF IInv, ForkAgree
<1>7. ThreadAgree' /\ SleepAgree' /\ LockAgree'
  BY DEF IInv, ThreadAgree, SleepAgree, LockAgree
<1>8. SchedAgree' /\ OneCPUEach' /\ NoLostExit' /\ UniquePids'
  BY DEF IInv, SchedAgree, OneCPUEach, NoLostExit, UniquePids
<1>9. ParentAlive'
  BY DEF IInv, ParentAlive
<1>10. PidsBounded' /\ BudgetLeft' /\ ChildBudget'
  BY DEF IInv, PidsBounded, BudgetLeft, ChildBudget
<1> QED BY <1>4, <1>5, <1>6, <1>7, <1>8, <1>9, <1>10 DEF IInv

\* Nobody is woken; somebody may be marked killed.
LEMMA NobodyWoken ==
    ASSUME IInv,
           killed' \in [Procs -> {0, 1}], intr' \in {"none", "wakeup", "tail"},
           UNCHANGED <<state, list, ready, pid, parent, chan, priority, budget,
                       cpu_ticks_in, PromoteAtTime, nextpid, pc, np, cproc, spc,
                       ptlock, ticks>>
    PROVE  IInv'
<1>1. TypeOK'
  BY DEF IInv, TypeOK
<1>2. ListsAgree'
  BY DEF IInv, ListsAgree, Detached
<1>3. ForkAgree' /\ ThreadAgree' /\ SleepAgree' /\ LockAgree' /\ SchedAgree'
  BY DEF IInv, ForkAgree, ThreadAgree, SleepAgree, LockAgree, SchedAgree
<1>4. OneCPUEach' /\ NoLostExit' /\ ParentAlive' /\ UniquePids'
  BY DEF IInv, OneCPUEach, NoLostExit, ParentAlive, UniquePids
<1>5. PidsBounded' /\ BudgetLeft' /\ ChildBudget'
  BY DEF IInv, PidsBounded, BudgetLeft, ChildBudget
<1> QED BY <1>1, <1>2, <1>3, <1>4, <1>5 DEF IInv

\* Taking NoProc off a list changes nothing.
LEMMA RemoveNobody ==
    ASSUME TypeOK
    PROVE  [list EXCEPT !["SLEEPING"] = stateListRemove(@, NoProc)] = list
<1>1. list \in [ListStates -> Seq(Procs)] /\ "SLEEPING" \in ListStates
  BY DEF TypeOK, ListStates
<1>2. list["SLEEPING"] \in Seq(Procs)
  BY <1>1
<1>3. NoProc \notin Members(list["SLEEPING"])
  BY <1>2, InitSlot DEF Members
<1> QED BY <1>1, <1>3 DEF stateListRemove

\* A woken process was sleeping on the channel, and is on the SLEEPING list.
LEMMA Sleeper ==
    ASSUME IInv, NEW ch, NEW w, FirstSleeper(ch, w), w # NoProc
    PROVE  w \in Procs /\ state[w] = "SLEEPING" /\ chan[w] = ch
<1>1. list["SLEEPING"] \in Seq(Procs)
  BY DEF IInv, TypeOK, ListStates
<1> QED BY <1>1 DEF FirstSleeper

\* wakeup1() under the lock, whoever calls it: at most one process moves
\* from the SLEEPING list to a ready list.
LEMMA Wakeup1Step ==
    ASSUME IInv, NEW ch, wakeup1(ch), intr' \in {"none", "wakeup", "tail"},
           UNCHANGED <<killed, pid, parent, chan, priority, budget, cpu_ticks_in,
                       PromoteAtTime, nextpid, pc, np, cproc, spc, ptlock, ticks>>
    PROVE  IInv'
<1>w. PICK w \in Procs \cup {NoProc} :
         /\ FirstSleeper(ch, w)
         /\ state' = [p \in Procs |-> IF p = w THEN "RUNNABLE" ELSE state[p]]
         /\ list' = [list EXCEPT !["SLEEPING"] = stateListRemove(@, w)]
         /\ ready' = AddReady(ready, w)
  BY DEF wakeup1
<1>t. TypeOK
  BY DEF IInv
<1>k. killed' \in [Procs -> {0, 1}]
  BY <1>t DEF TypeOK
<1>1. CASE w = NoProc
  <2>1. state' = state
    BY <1>w, <1>t, <1>1, InitSlot DEF TypeOK
  <2>2. list' = list /\ ready' = ready
    BY <1>w, <1>t, <1>1, RemoveNobody DEF AddReady
  <2> QED BY <1>k, <2>1, <2>2, NobodyWoken
<1>2. CASE w # NoProc
  <2>1. w \in Procs /\ state[w] = "SLEEPING"
    BY <1>w, <1>2, Sleeper
  <2>2. /\ \A x \in Procs : state'[x] = IF x = w THEN "RUNNABLE" ELSE state[x]
        /\ state' \in [Procs -> States]
    BY <1>w, <1>t DEF TypeOK, States
  <2> QED BY <1>k, <1>w, <2>1, <2>2, WakeStep
<1> QED BY <1>1, <1>2

\* wakeup() from kernel code or a device interrupt.
LEMMA WakeupStep ==
    ASSUME IInv, NEW ch \in Chans, Wakeup(ch)
    PROVE  IInv'
<1>1. /\ wakeup1(ch)
      /\ UNCHANGED <<killed, pid, parent, chan, priority, budget, cpu_ticks_in,
                     PromoteAtTime, nextpid, pc, np, cproc, spc, ptlock, ticks>>
  BY DEF Wakeup, mlfqVars, cpuVars, timeVars
<1>2. intr' \in {"none", "wakeup", "tail"}
  BY DEF Wakeup, timeVars, IInv, TypeOK
<1> QED BY <1>1, <1>2, Wakeup1Step

\* The wakeup(&ticks) of the timer interrupt.
LEMMA TimerWakeupStep ==
    ASSUME IInv, TimerWakeup
    PROVE  IInv'
<1>1. /\ wakeup1(TICKS)
      /\ UNCHANGED <<killed, pid, parent, chan, priority, budget, cpu_ticks_in,
                     PromoteAtTime, nextpid, pc, np, cproc, spc, ptlock, ticks>>
  BY DEF TimerWakeup, mlfqVars, cpuVars
<1>2. intr' \in {"none", "wakeup", "tail"}
  BY DEF TimerWakeup
<1> QED BY <1>1, <1>2, Wakeup1Step

\* kill(): a sleeping victim moves to the ready list of its priority.
LEMMA KillStep ==
    ASSUME IInv, NEW c \in CPUs, NEW p \in Procs, NEW n, Kill(c, p, n)
    PROVE  IInv'
<1>w. PICK q \in Procs :
         LET w == IF state[q] = "SLEEPING" THEN q ELSE NoProc IN
         /\ OnScannedList(q) /\ pid[q] = n
         /\ killed' = [killed EXCEPT ![q] = 1]
         /\ state' = [state EXCEPT ![q] = IF w = q THEN "RUNNABLE" ELSE @]
         /\ list' = [list EXCEPT !["SLEEPING"] = stateListRemove(@, w)]
         /\ ready' = AddReady(ready, w)
  BY DEF Kill
<1>u. UNCHANGED <<pid, parent, chan, priority, budget, cpu_ticks_in,
                  PromoteAtTime, nextpid, pc, np, cproc, spc, ptlock, ticks, intr>>
  BY DEF Kill, mlfqVars, cpuVars, timeVars
<1>t. TypeOK
  BY DEF IInv
<1>k. killed' \in [Procs -> {0, 1}] /\ intr' \in {"none", "wakeup", "tail"}
  BY <1>w, <1>t, <1>u DEF TypeOK
<1>1. CASE state[q] = "SLEEPING"
  <2>1. /\ state' = [state EXCEPT ![q] = "RUNNABLE"]
        /\ list' = [list EXCEPT !["SLEEPING"] = stateListRemove(@, q)]
        /\ ready' = AddReady(ready, q)
    BY <1>w, <1>1
  <2>2. /\ \A x \in Procs : state'[x] = IF x = q THEN "RUNNABLE" ELSE state[x]
        /\ state' \in [Procs -> States]
    BY <2>1, <1>t DEF TypeOK, States
  <2> QED BY <1>k, <1>u, <1>1, <2>1, <2>2, WakeStep
<1>2. CASE state[q] # "SLEEPING"
  <2>1. q # NoProc
    BY InitSlot
  <2>2. state' = state
    BY <1>w, <1>t, <1>2, <2>1 DEF TypeOK
  <2>3. list' = list /\ ready' = ready
    BY <1>w, <1>t, <1>2, RemoveNobody DEF AddReady
  <2> QED BY <1>k, <1>u, <2>2, <2>3, NobodyWoken
<1> QED BY <1>1, <1>2

-----------------------------------------------------------------------------
(* setpriority() and the scheduler.                                         *)

\* Priorities and budgets change, and the ready lists with them.
LEMMA PriorityStep ==
    ASSUME IInv,
           priority' \in [Procs -> Prios], budget' \in [Procs -> 0..BUDGET],
           \A x \in Procs : budget[x] > 0 => budget'[x] > 0,
           IsFamily(Prios, ready'),
           \A k \in Prios, x \in Procs :
              x \in Members(ready'[k]) <=> state[x] = "RUNNABLE" /\ priority'[x] = k,
           PromoteAtTime' \in 0..(TICKMOD - 1),
           spc' \in [CPUs -> {"promote", "dispatch", "run"}],
           \A c \in CPUs : spc'[c] = "run" <=> spc[c] = "run",
           UNCHANGED <<state, pid, parent, chan, killed, cpu_ticks_in, list,
                       nextpid, pc, np, cproc, ptlock, ticks, intr>>
    PROVE  IInv'
<1>t. TypeOK
  BY DEF IInv
<1>1. TypeOK'
  BY <1>t DEF TypeOK, IsFamily
<1>2. ListsAgree'
  <2>1. \A r \in Procs : Detached(r)' <=> Detached(r)
    BY DEF Detached
  <2>2. \A s \in ListStates :
           /\ NoRepeats(list'[s])
           /\ \A p \in Procs :
                p \in Members(list'[s]) <=> state'[p] = s /\ ~Detached(p)'
    BY <2>1 DEF IInv, ListsAgree
  <2> QED BY <2>2 DEF ListsAgree, IsFamily
<1>3. ForkAgree' /\ ThreadAgree' /\ SleepAgree' /\ LockAgree' /\ SchedAgree'
  BY DEF IInv, ForkAgree, ThreadAgree, SleepAgree, LockAgree, SchedAgree
<1>4. OneCPUEach' /\ NoLostExit' /\ ParentAlive' /\ UniquePids' /\ PidsBounded'
  BY DEF IInv, OneCPUEach, NoLostExit, ParentAlive, UniquePids, PidsBounded
<1>5. BudgetLeft'
  BY DEF IInv, BudgetLeft
<1>6. ChildBudget'
  <2>1. \A r \in Procs : pc[r] \in {"fork", "copy", "place"} => np[r] \in Procs
    BY <1>t DEF IInv, ForkAgree, ForkPCs, TypeOK
  <2> QED BY <2>1 DEF IInv, ChildBudget
<1> QED BY <1>1, <1>2, <1>3, <1>4, <1>5, <1>6 DEF IInv

\* setpriority(): a ready process changes list together with its priority.
LEMMA SetPriorityStep ==
    ASSUME IInv, NEW c \in CPUs, NEW p \in Procs, NEW n, NEW k \in Prios,
           SetPriority(c, p, n, k)
    PROVE  IInv'
<1>w. PICK q \in Procs :
         /\ priority[q] # k
         /\ priority' = [priority EXCEPT ![q] = k]
         /\ budget' = [budget EXCEPT ![q] = BUDGET]
         /\ ready' = IF \E i \in Prios : q \in Members(ready[i])
                     THEN [ready EXCEPT
                             ![priority[q]] = stateListRemove(@, q),
                             ![k] = stateListAdd(@, q)]
                     ELSE ready
  BY DEF SetPriority
<1>u. UNCHANGED <<state, pid, parent, chan, killed, cpu_ticks_in, list,
                  PromoteAtTime, nextpid, pc, np, cproc, spc, ptlock, ticks, intr>>
  BY DEF SetPriority, procVars, cpuVars, timeVars
<1>t. TypeOK
  BY DEF IInv
<1>1. /\ \A x \in Procs : priority'[x] = IF x = q THEN k ELSE priority[x]
      /\ priority' \in [Procs -> Prios]
  BY <1>w, <1>t DEF TypeOK
<1>2. budget' \in [Procs -> 0..BUDGET]
  <2>1. BUDGET \in 0..BUDGET
    BY MLFQAssumption
  <2> QED BY <1>w, <1>t, <2>1 DEF TypeOK
<1>3. \A x \in Procs : budget[x] > 0 => budget'[x] > 0
  <2>1. \A x \in Procs : budget'[x] = IF x = q THEN BUDGET ELSE budget[x]
    BY <1>w, <1>t DEF TypeOK
  <2> QED BY <2>1, MLFQAssumption
<1>4. /\ IsFamily(Prios, ready')
      /\ \A i \in Prios, x \in Procs :
           x \in Members(ready'[i]) <=> state[x] = "RUNNABLE" /\ priority'[x] = i
  <2>1. CASE \E i \in Prios : q \in Members(ready[i])
    <3>1. state[q] = "RUNNABLE"
      BY <2>1 DEF IInv, ListsAgree
    <3>2. priority[q] \in Prios /\ q \notin Members(ready[k])
      BY <1>w, <1>t DEF IInv, ListsAgree, TypeOK
    <3>3. Moved(Prios, ready,
                [ready EXCEPT ![priority[q]] = stateListRemove(@, q),
                              ![k] = stateListAdd(@, q)],
                priority[q], k, q)
      BY <1>w, <3>2, Families, FamilyMove DEF IInv
    <3>4. Moved(Prios, ready, ready', priority[q], k, q)
      BY <1>w, <2>1, <3>3
    <3>5. ASSUME NEW i \in Prios, NEW x \in Procs
          PROVE  x \in Members(ready'[i]) <=> state[x] = "RUNNABLE" /\ priority'[x] = i
      <4>1. x \in Members(ready[i]) <=> state[x] = "RUNNABLE" /\ priority[x] = i
        BY DEF IInv, ListsAgree
      <4>2. CASE i = k
        <5>1. Members(ready'[i]) = Members(ready[i]) \cup {q}
          BY <3>4, <4>2 DEF Moved
        <5> QED BY <1>1, <3>1, <4>1, <4>2, <5>1
      <4>3. CASE i = priority[q]
        <5>1. Members(ready'[i]) = Members(ready[i]) \ {q}
          BY <3>4, <4>3 DEF Moved
        <5> QED BY <1>1, <1>w, <4>1, <4>3, <5>1
      <4>4. CASE i # k /\ i # priority[q]
        <5>1. ready'[i] = ready[i]
          BY <3>4, <4>4 DEF Moved
        <5> QED BY <1>1, <4>1, <4>4, <5>1
      <4> QED BY <4>2, <4>3, <4>4
    <3> QED BY <3>4, <3>5 DEF Moved
  <2>2. CASE ~\E i \in Prios : q \in Members(ready[i])
    <3>1. ready' = ready /\ state[q] # "RUNNABLE"
      BY <1>w, <1>t, <2>2 DEF IInv, ListsAgree, TypeOK
    <3>2. IsFamily(Prios, ready')
      BY <3>1, Families DEF IInv
    <3> QED BY <1>1, <3>1, <3>2 DEF IInv, ListsAgree
  <2> QED BY <2>1, <2>2
<1>5. /\ PromoteAtTime' \in 0..(TICKMOD - 1)
      /\ spc' \in [CPUs -> {"promote", "dispatch", "run"}]
      /\ \A d \in CPUs : spc'[d] = "run" <=> spc[d] = "run"
  BY <1>t, <1>u DEF TypeOK
<1> QED BY <1>1, <1>2, <1>3, <1>4, <1>5, <1>u, PriorityStep

\* Promotion keeps every ready process on the list of its new priority.
LEMMA PromotedLists ==
    ASSUME IInv, MAXPRIO # 0
    PROVE  /\ IsFamily(Prios, PromotedReady)
           /\ \A k \in Prios, x \in Procs :
                x \in Members(PromotedReady[k]) <=>
                   /\ state[x] = "RUNNABLE"
                   /\ k = IF Promoted(x) THEN priority[x] + 1 ELSE priority[x]
<1>t. TypeOK
  BY DEF IInv
<1>1. \A x \in Procs : priority[x] \in 0..MAXPRIO
  BY <1>t DEF TypeOK, Prios
<1>2. \A x \in Procs : state[x] = "RUNNABLE" =>
          (Promoted(x) <=> priority[x] < MAXPRIO)
  BY <1>t DEF IInv, ListsAgree, Promoted, TypeOK
<1>3. \A k \in Prios : /\ ready[k] \in Seq(Procs) /\ NoRepeats(ready[k])
                       /\ \A x \in Procs : x \in Members(ready[k]) <=>
                             state[x] = "RUNNABLE" /\ priority[x] = k
  BY <1>t DEF IInv, ListsAgree, TypeOK
<1>4. \A k \in Prios : k # 0 => k - 1 \in Prios
  BY MLFQAssumption DEF Prios
<1>5. \A k \in Prios : \A x \in Members(ready[k]) : x \in Procs
  BY <1>3 DEF Members
<1>6. ASSUME NEW k \in Prios
      PROVE  /\ PromotedReady[k] \in Seq(Procs) /\ NoRepeats(PromotedReady[k])
             /\ \A x \in Procs : x \in Members(PromotedReady[k]) <=>
                  /\ state[x] = "RUNNABLE"
                  /\ k = IF Promoted(x) THEN priority[x] + 1 ELSE priority[x]
  <2>1. CASE k = MAXPRIO
    <3>1. PromotedReady[k] = ready[k] \o ready[k - 1] /\ k - 1 \in Prios
      BY <1>4, <2>1 DEF PromotedReady
    <3>2. Members(ready[k]) \cap Members(ready[k - 1]) = {}
      <4>1. k - 1 # k
        BY <2>1, MLFQAssumption
      <4> QED BY <1>3, <1>5, <3>1, <4>1
    <3>3. /\ PromotedReady[k] \in Seq(Procs) /\ NoRepeats(PromotedReady[k])
          /\ Members(PromotedReady[k]) = Members(ready[k]) \cup Members(ready[k - 1])
      BY <1>3, <3>1, <3>2, ListJoin
    <3>4. ASSUME NEW x \in Procs, state[x] = "RUNNABLE"
          PROVE  (priority[x] = k \/ priority[x] = k - 1) <=>
                 k = IF Promoted(x) THEN priority[x] + 1 ELSE priority[x]
      BY <1>1, <1>2, <2>1, <3>4, MLFQAssumption
    <3> QED BY <1>3, <3>1, <3>3, <3>4
  <2>2. CASE k # MAXPRIO /\ k = 0
    <3>1. PromotedReady[k] = <<>>
      BY <2>2 DEF PromotedReady
    <3>2. PromotedReady[k] \in Seq(Procs) /\ NoRepeats(PromotedReady[k])
          /\ Members(PromotedReady[k]) = {}
      BY <3>1 DEF NoRepeats, Members
    <3>3. ASSUME NEW x \in Procs, state[x] = "RUNNABLE"
          PROVE  k # IF Promoted(x) THEN priority[x] + 1 ELSE priority[x]
      BY <1>1, <1>2, <2>2, <3>3, MLFQAssumption
    <3> QED BY <3>2, <3>3
  <2>3. CASE k # MAXPRIO /\ k # 0
    <3>1. PromotedReady[k] = ready[k - 1] /\ k - 1 \in Prios
      BY <1>4, <2>3 DEF PromotedReady
    <3>2. ASSUME NEW x \in Procs, state[x] = "RUNNABLE"
          PROVE  priority[x] = k - 1 <=>
                 k = IF Promoted(x) THEN priority[x] + 1 ELSE priority[x]
      <4>1. k \in 0..MAXPRIO
        BY DEF Prios
      <4> QED BY <1>1, <1>2, <2>3, <3>2, <4>1, MLFQAssumption
    <3> QED BY <1>3, <3>1, <3>2
  <2> QED BY <2>1, <2>2, <2>3
<1>7. PromotedReady \in [Prios -> Seq(Procs)]
  <2>1. PromotedReady = [k \in Prios |-> PromotedReady[k]]
    BY DEF PromotedReady
  <2> QED BY <1>6, <2>1
<1> QED BY <1>6, <1>7 DEF IsFamily

\* The promotion section of scheduler(): every ready list moves up with the
\* priorities of its members, and the two highest are joined without repeats.
LEMMA SchedPromoteStep ==
    ASSUME IInv, NEW c \in CPUs, SchedPromote(c)
    PROVE  IInv'
<1>t. TypeOK
  BY DEF IInv
<1>1. /\ spc' \in [CPUs -> {"promote", "dispatch", "run"}]
      /\ \A d \in CPUs : spc'[d] = "run" <=> spc[d] = "run"
  <2>1. spc[c] = "promote" /\ spc' = [spc EXCEPT ![c] = "dispatch"]
    BY DEF SchedPromote
  <2> QED BY <1>t, <2>1 DEF TypeOK
<1>u. UNCHANGED <<state, pid, parent, chan, killed, cpu_ticks_in, list,
                  nextpid, pc, np, cproc, ptlock, ticks, intr>>
  BY DEF SchedPromote, procVars, timeVars
<1>2. CASE PromotionDue
  <2>1. /\ priority' = [p \in Procs |-> IF Promoted(p) THEN priority[p] + 1
                                        ELSE priority[p]]
        /\ budget' = [p \in Procs |-> IF Promoted(p) THEN BUDGET ELSE budget[p]]
        /\ ready' = PromotedReady
        /\ PromoteAtTime' = (ticks + TICKS_TO_PROMOTE) % TICKMOD
    BY <1>2 DEF SchedPromote
  <2>2. PromoteAtTime' \in 0..(TICKMOD - 1)
    <3>1. ticks + TICKS_TO_PROMOTE \in Int
      BY <1>t, MLFQAssumption DEF TypeOK
    <3> QED BY <2>1, <3>1, MLFQAssumption
  <2>3. \A x \in Procs :
           (IF Promoted(x) THEN priority[x] + 1 ELSE priority[x]) \in Prios
    <3>1. ASSUME NEW x \in Procs PROVE priority[x] \in Prios
      BY <1>t DEF TypeOK
    <3>2. ASSUME NEW x \in Procs, Promoted(x) PROVE priority[x] + 1 \in Prios
      <4>1. priority[x] < MAXPRIO
        BY <3>2 DEF Promoted
      <4> QED BY <3>1, <4>1, MLFQAssumption DEF Prios
    <3> QED BY <3>1, <3>2
  <2>4. priority' \in [Procs -> Prios]
    BY <2>1, <2>3
  <2>5. budget' \in [Procs -> 0..BUDGET]
    <3>1. BUDGET \in 0..BUDGET
      BY MLFQAssumption
    <3>2. budget \in [Procs -> 0..BUDGET]
      BY <1>t DEF TypeOK
    <3> HIDE DEF Promoted
    <3> QED BY <2>1, <3>1, <3>2
  <2>6. \A x \in Procs : budget[x] > 0 => budget'[x] > 0
    BY <2>1, MLFQAssumption
  <2>7. /\ IsFamily(Prios, ready')
        /\ \A k \in Prios, x \in Procs :
             x \in Members(ready'[k]) <=> state[x] = "RUNNABLE" /\ priority'[x] = k
    <3>1. MAXPRIO # 0
      BY <1>2 DEF PromotionDue
    <3>2. \A x \in Procs : priority'[x] =
             IF Promoted(x) THEN priority[x] + 1 ELSE priority[x]
      BY <2>1
    <3> QED BY <2>1, <3>1, <3>2, PromotedLists
  <2> QED BY <1>1, <1>u, <2>2, <2>4, <2>5, <2>6, <2>7, PriorityStep
<1>3. CASE ~PromotionDue
  <2>1. UNCHANGED <<state, pid, parent, chan, killed, priority, budget,
                    cpu_ticks_in, list, ready, PromoteAtTime, nextpid, pc, np,
                    cproc, ptlock, ticks, intr>>
    BY <1>3, <1>u DEF SchedPromote
  <2>2. ticks' \in 0..(TICKMOD - 1) /\ intr' \in {"none", "wakeup", "tail"}
    BY <1>t, <2>1 DEF TypeOK
  <2>3. UNCHANGED <<procVars, mlfqVars, listVars, PromoteAtTime, nextpid,
                    pc, np, cproc, ptlock>>
    BY <2>1 DEF procVars, mlfqVars, listVars
  <2> QED BY <1>1, <2>2, <2>3, ClockOnly
<1> QED BY <1>2, <1>3

\* The dispatch section of scheduler(): the process taken was RUNNABLE, so
\* no CPU ran it before.
LEMMA SchedDispatchStep ==
    ASSUME IInv, NEW c \in CPUs, SchedDispatch(c)
    PROVE  IInv'
<1>k. PICK k \in Prios :
         LET p == Head(ready[k]) IN
         /\ ready[k] # <<>>
         /\ cproc' = [cproc EXCEPT ![c] = p]
         /\ ready' = [ready EXCEPT ![priority[p]] = stateListRemove(@, p)]
         /\ state' = [state EXCEPT ![p] = "RUNNING"]
         /\ list' = [list EXCEPT !["RUNNING"] = stateListAdd(@, p)]
         /\ cpu_ticks_in' = [cpu_ticks_in EXCEPT ![p] = ticks]
         /\ chan' = [chan EXCEPT ![p] = NoProc]
         /\ ptlock' = IF pc[p] = "wait" THEN p ELSE NoProc
  BY DEF SchedDispatch
<1> DEFINE p == Head(ready[k])
<1>t. TypeOK
  BY DEF IInv
<1>1. p \in Procs /\ state[p] = "RUNNABLE" /\ priority[p] = k
  <2>1. ready[k] \in Seq(Procs) /\ NoRepeats(ready[k])
    BY <1>t DEF IInv, ListsAgree, TypeOK
  <2>2. p \in Procs /\ p \in Members(ready[k])
    BY <1>k, <2>1, ListHead
  <2> QED BY <2>2 DEF IInv, ListsAgree
<1>e. /\ cproc' = [cproc EXCEPT ![c] = p]
      /\ ready' = [ready EXCEPT ![priority[p]] = stateListRemove(@, p)]
      /\ state' = [state EXCEPT ![p] = "RUNNING"]
      /\ list' = [list EXCEPT !["RUNNING"] = stateListAdd(@, p)]
      /\ cpu_ticks_in' = [cpu_ticks_in EXCEPT ![p] = ticks]
      /\ chan' = [chan EXCEPT ![p] = NoProc]
      /\ ptlock' = IF pc[p] = "wait" THEN p ELSE NoProc
  BY <1>k
<1> HIDE DEF p
<1>a. /\ cproc[c] = NoProc /\ spc[c] = "dispatch" /\ ptlock = NoProc
      /\ spc' = [spc EXCEPT ![c] = "run"]
  BY DEF SchedDispatch, Executes, LockFree
<1>u. UNCHANGED <<pid, parent, killed, priority, budget, PromoteAtTime, nextpid,
                  pc, np, ticks, intr>>
  BY DEF SchedDispatch, timeVars
<1>2. \A x \in Procs : /\ state'[x] = IF x = p THEN "RUNNING" ELSE state[x]
                       /\ chan'[x] = IF x = p THEN NoProc ELSE chan[x]
  BY <1>e, <1>t DEF TypeOK
<1>3. \A d \in CPUs : /\ cproc'[d] = IF d = c THEN p ELSE cproc[d]
                      /\ spc'[d] = IF d = c THEN "run" ELSE spc[d]
  BY <1>e, <1>a, <1>t DEF TypeOK
<1>4. \A r \in Procs : (Detached(r)' <=> Detached(r)) /\ (Detached(r) => r # p)
  <2>1. \A r \in Procs : Detached(r)' <=> Detached(r)
    BY <1>u DEF Detached
  <2>2. \A r \in Procs : Detached(r) => state[r] # "RUNNABLE"
    BY InitSlot DEF Detached, IInv, ForkAgree
  <2> QED BY <1>1, <2>1, <2>2
<1>5. Added(ListStates, list, list', "RUNNING", p)
  <2>1. "RUNNING" \in ListStates /\ p \notin Members(list["RUNNING"])
    BY <1>1 DEF IInv, ListsAgree, ListStates
  <2>2. Added(ListStates, list,
              [list EXCEPT !["RUNNING"] = stateListAdd(@, p)], "RUNNING", p)
    BY <1>1, <2>1, Families, FamilyAdd DEF IInv
  <2> QED BY <1>e, <2>2
<1>6. Removed(Prios, ready, ready', priority[p], p)
  <2>1. Removed(Prios, ready,
                [ready EXCEPT ![priority[p]] = stateListRemove(@, p)],
                priority[p], p)
    BY <1>1, Families, FamilyRemove DEF IInv
  <2> QED BY <1>e, <2>1
<1>7. TypeOK'
  <2>1. /\ list' \in [ListStates -> Seq(Procs)] /\ ready' \in [Prios -> Seq(Procs)]
    BY <1>5, <1>6 DEF Added, Removed, IsFamily
  <2>2. state' \in [Procs -> States]
    BY <1>e, <1>t DEF TypeOK, States, ListStates
  <2>3. cpu_ticks_in' \in [Procs -> 0..(TICKMOD - 1)]
    BY <1>e, <1>t DEF TypeOK
  <2>4. /\ chan' \in [Procs -> Procs \cup Chans \cup {NoProc}]
        /\ cproc' \in [CPUs -> Procs \cup {NoProc}]
        /\ spc' \in [CPUs -> {"promote", "dispatch", "run"}]
        /\ ptlock' \in Procs \cup {NoProc}
    BY <1>e, <1>a, <1>t, <1>1 DEF TypeOK
  <2> QED BY <1>t, <1>u, <2>1, <2>2, <2>3, <2>4 DEF TypeOK
<1>8. ListsAgree'
  <2>1. ASSUME NEW t \in ListStates, NEW r \in Procs
        PROVE  r \in Members(list'[t]) <=> state'[r] = t /\ ~Detached(r)'
    <3>1. t # "RUNNABLE"
      BY DEF ListStates
    <3> QED BY <1>1, <1>2, <1>4, <1>5, <3>1 DEF IInv, ListsAgree, Added
  <2>2. ASSUME NEW i \in Prios, NEW r \in Procs
        PROVE  r \in Members(ready'[i]) <=> state'[r] = "RUNNABLE" /\ priority'[r] = i
    BY <1>u, <1>1, <1>2, <1>6 DEF IInv, ListsAgree, Removed
  <2> QED BY <1>5, <1>6, <2>1, <2>2 DEF ListsAgree, Added, Removed, IsFamily
<1>9. ForkAgree'
  <2>1. \A r \in Procs : np[r] # NoProc => np[r] \in Procs
    BY <1>t DEF TypeOK
  <2> QED BY <1>u, <1>1, <1>2, <2>1 DEF IInv, ForkAgree
<1>10. ThreadAgree' /\ SleepAgree'
  BY <1>u, <1>1, <1>2 DEF IInv, ThreadAgree, SleepAgree
<1>11. LockAgree'
  BY <1>e, <1>a, <1>u, <1>1, <1>2, InitSlot DEF IInv, LockAgree
<1>12. SchedAgree'
  BY <1>1, <1>3, InitSlot DEF IInv, SchedAgree
<1>13. OneCPUEach'
  <2>1. \A d \in CPUs : cproc[d] # p
    BY <1>1 DEF IInv, OneCPUEach
  <2>2. ASSUME NEW r \in Procs
        PROVE  state'[r] = "RUNNING" <=> \E d \in CPUs : cproc'[d] = r
    <3>1. CASE r = p
      BY <1>2, <1>3, <3>1
    <3>2. CASE r # p
      <4>1. r # NoProc /\ state'[r] = state[r]
        BY <1>2, <3>2, InitSlot
      <4>2. \A d \in CPUs : cproc'[d] = r <=> cproc[d] = r
        BY <1>a, <1>3, <3>2, <4>1
      <4> QED BY <4>1, <4>2 DEF IInv, OneCPUEach
    <3> QED BY <3>1, <3>2
  <2>3. ASSUME NEW r \in Procs, NEW d \in CPUs, NEW e \in CPUs,
               cproc'[d] = r, cproc'[e] = r
        PROVE  d = e
    BY <1>3, <2>1, <2>3 DEF IInv, OneCPUEach
  <2> QED BY <2>2, <2>3 DEF OneCPUEach
<1>14. NoLostExit' /\ UniquePids'
  BY <1>u, <1>1, <1>2 DEF IInv, NoLostExit, UniquePids
<1>15. ParentAlive'
  BY <1>u, <1>1, <1>2 DEF IInv, ParentAlive
<1>16. PidsBounded' /\ BudgetLeft' /\ ChildBudget'
  BY <1>u, <1>1, <1>2 DEF IInv, PidsBounded, BudgetLeft, ChildBudget
<1> QED BY <1>7, <1>8, <1>9, <1>10, <1>11, <1>12, <1>13, <1>14, <1>15, <1>16
        DEF IInv

-----------------------------------------------------------------------------
(* The timer interrupt.                                                     *)

\* yield(): the process joins the ready list of the priority it is left with
\* after its ticks are charged.
LEMMA TimerYieldStep ==
    ASSUME IInv, NEW c \in CPUs, TimerYield(c)
    PROVE  IInv'
<1> DEFINE p == cproc[c]
           k == ChargedPriority(p)
<1>e. /\ state' = [state EXCEPT ![p] = "RUNNABLE"]
      /\ list' = [list EXCEPT !["RUNNING"] = stateListRemove(@, p)]
      /\ ready' = [ready EXCEPT ![k] = stateListAdd(@, p)]
      /\ pc' = [pc EXCEPT ![p] = IF @ = "user" THEN "ret" ELSE @]
      /\ p # NoProc /\ cproc[c] = p /\ ptlock = NoProc
  BY DEF TimerYield, LockFree
<1>g. Charge(p) /\ ToScheduler(c)
  BY DEF TimerYield
<1>u. UNCHANGED <<pid, parent, chan, killed, PromoteAtTime, nextpid, np, ptlock,
                  ticks>>
  BY DEF TimerYield
<1>i. intr' \in {"none", "wakeup", "tail"}
  BY DEF TimerYield, InTrapTail, IInv, TypeOK
<1>t. TypeOK
  BY DEF IInv
<1>1. p \in Procs /\ state[p] = "RUNNING"
  <2>1. p \in Procs
    BY <1>e, <1>t DEF TypeOK
  <2> QED BY <2>1, OnCPU
<1>2. /\ budget' \in [Procs -> 0..BUDGET] /\ priority' \in [Procs -> Prios]
      /\ cpu_ticks_in' = cpu_ticks_in /\ budget'[p] > 0
      /\ k \in Prios /\ priority'[p] = k
      /\ \A r \in Procs : r # p => budget'[r] = budget[r] /\ priority'[r] = priority[r]
  BY <1>g, <1>1, Charged
<1> HIDE DEF p, k
<1>3. \A x \in Procs : /\ state'[x] = IF x = p THEN "RUNNABLE" ELSE state[x]
                       /\ pc'[x] = IF x = p /\ pc[x] = "user" THEN "ret" ELSE pc[x]
  BY <1>e, <1>t DEF TypeOK
<1>4. \A r \in Procs : (Detached(r)' <=> Detached(r)) /\ (Detached(r) => r # p)
  <2>1. \A r \in Procs : Detached(r)' <=> Detached(r)
    BY <1>u, <1>3 DEF Detached
  <2>2. \A r \in Procs : Detached(r) => state[r] # "RUNNING"
    BY InitSlot DEF Detached, IInv, ForkAgree
  <2> QED BY <1>1, <2>1, <2>2
<1>5. Removed(ListStates, list, list', "RUNNING", p)
  <2>1. "RUNNING" \in ListStates
    BY DEF ListStates
  <2>2. Removed(ListStates, list,
                [list EXCEPT !["RUNNING"] = stateListRemove(@, p)], "RUNNING", p)
    BY <2>1, Families, FamilyRemove DEF IInv
  <2> QED BY <1>e, <2>2
<1>6. Added(Prios, ready, ready', k, p)
  <2>1. p \notin Members(ready[k])
    BY <1>1, <1>2 DEF IInv, ListsAgree
  <2>2. Added(Prios, ready, [ready EXCEPT ![k] = stateListAdd(@, p)], k, p)
    BY <1>1, <1>2, <2>1, Families, FamilyAdd DEF IInv
  <2> QED BY <1>e, <2>2
<1>7. state' \in [Procs -> States]
  BY <1>e, <1>t DEF TypeOK, States
<1>8. /\ cproc' \in [CPUs -> Procs \cup {NoProc}]
      /\ spc' \in [CPUs -> {"promote", "dispatch", "run"}]
      /\ SchedAgree' /\ OneCPUEach'
  BY <1>e, <1>g, <1>1, <1>3, <1>7, LeaveCPU
<1>9. TypeOK'
  <2>1. /\ list' \in [ListStates -> Seq(Procs)] /\ ready' \in [Prios -> Seq(Procs)]
    BY <1>5, <1>6 DEF Added, Removed, IsFamily
  <2>2. pc' \in [Procs -> PCs]
    BY <1>e, <1>t DEF TypeOK, PCs
  <2> QED BY <1>i, <1>t, <1>u, <1>2, <1>7, <1>8, <2>1, <2>2 DEF TypeOK
<1>10. ListsAgree'
  <2>1. ASSUME NEW t \in ListStates, NEW r \in Procs
        PROVE  r \in Members(list'[t]) <=> state'[r] = t /\ ~Detached(r)'
    <3>1. t # "RUNNABLE"
      BY DEF ListStates
    <3> QED BY <1>1, <1>3, <1>4, <1>5, <3>1 DEF IInv, ListsAgree, Removed
  <2>2. ASSUME NEW i \in Prios, NEW r \in Procs
        PROVE  r \in Members(ready'[i]) <=> state'[r] = "RUNNABLE" /\ priority'[r] = i
    BY <1>1, <1>2, <1>3, <1>6 DEF IInv, ListsAgree, Added
  <2> QED BY <1>5, <1>6, <2>1, <2>2 DEF ListsAgree, Added, Removed, IsFamily
<1>11. ForkAgree'
  <2>1. \A r \in Procs : np[r] # NoProc => np[r] \in Procs
    BY <1>t DEF TypeOK
  <2> QED BY <1>u, <1>1, <1>3, <2>1 DEF IInv, ForkAgree, ForkPCs
<1>12. ThreadAgree' /\ SleepAgree'
  BY <1>u, <1>1, <1>3, InitSlot DEF IInv, ThreadAgree, SleepAgree
<1>13. LockAgree'
  BY <1>e, <1>u, <1>1, <1>3, InitSlot DEF IInv, LockAgree
<1>14. NoLostExit' /\ UniquePids'
  BY <1>u, <1>1, <1>3 DEF IInv, NoLostExit, UniquePids
<1>15. ParentAlive'
  BY <1>u, <1>1, <1>3 DEF IInv, ParentAlive
<1>16. PidsBounded' /\ BudgetLeft'
  BY <1>u, <1>2, <1>3 DEF IInv, PidsBounded, BudgetLeft
<1>17. ChildBudget'
  <2>1. \A r \in Procs : pc[r] \in {"fork", "copy", "place"} =>
                            np[r] \in Procs /\ np[r] # p
    <3>1. \A r \in Procs : pc[r] \in {"fork", "copy", "place"} =>
              np[r] # NoProc /\ state[np[r]] = "EMBRYO"
      BY DEF IInv, ForkAgree, ForkPCs
    <3> QED BY <1>1, <1>t, <3>1 DEF TypeOK
  <2> QED BY <1>u, <1>2, <1>3, <2>1 DEF IInv, ChildBudget
<1> QED BY <1>8, <1>9, <1>10, <1>11, <1>12, <1>13, <1>14, <1>15, <1>16, <1>17
        DEF IInv

-----------------------------------------------------------------------------
(* exit().                                                                  *)

\* A process that exists is met by the scans of the lists.
LEMMA Scanned ==
    ASSUME IInv, NEW x \in Procs,
           state[x] \in {"RUNNABLE", "RUNNING", "SLEEPING", "ZOMBIE"}
    PROVE  OnScannedList(x)
<1>1. ~Detached(x)
  BY InitSlot DEF Detached, IInv, ForkAgree
<1>2. CASE state[x] = "RUNNABLE"
  <2>1. priority[x] \in Prios
    BY DEF IInv, TypeOK
  <2> QED BY <1>2, <2>1 DEF IInv, ListsAgree, OnScannedList
<1>3. CASE state[x] # "RUNNABLE"
  BY <1>1, <1>3 DEF IInv, ListsAgree, OnScannedList, ListStates
<1> QED BY <1>2, <1>3

\* wakeup1 on a process address wakes the process that sleeps there in wait().
LEMMA WaiterWoken ==
    ASSUME IInv, NEW r \in Procs, NEW w, FirstSleeper(r, w),
           state[r] = "SLEEPING", chan[r] = r
    PROVE  w = r
<1>1. r \in Members(list["SLEEPING"])
  <2>1. ~Detached(r)
    BY InitSlot DEF Detached, IInv, ForkAgree
  <2> QED BY <2>1 DEF IInv, ListsAgree, ListStates
<1>2. w # NoProc
  <2>1. PICK i \in DOMAIN list["SLEEPING"] : list["SLEEPING"][i] = r
    BY <1>1 DEF Members
  <2>2. list["SLEEPING"] \in Seq(Procs)
    BY DEF IInv, TypeOK, ListStates
  <2>3. \A j \in DOMAIN list["SLEEPING"] : list["SLEEPING"][j] # NoProc
    BY <2>2, InitSlot
  <2> QED BY <2>1, <2>3 DEF FirstSleeper
<1>3. w \in Procs /\ state[w] = "SLEEPING" /\ chan[w] = r
  BY <1>2, Sleeper
<1> QED BY <1>3 DEF IInv, SleepAgree

\* AddReady, when there may be nobody to add.
LEMMA ReadyJoin ==
    ASSUME TypeOK, NEW r, IsFamily(Prios, r), NEW w \in Procs \cup {NoProc},
           \A k \in Prios : w \notin Members(r[k])
    PROVE  /\ IsFamily(Prios, AddReady(r, w))
           /\ \A k \in Prios, x \in Procs :
                x \in Members(AddReady(r, w)[k]) <=>
                   x \in Members(r[k]) \/ (x = w /\ priority[x] = k)
<1>1. CASE w = NoProc
  BY <1>1, InitSlot DEF AddReady
<1>2. CASE w \in Procs
  <2>1. Added(Prios, r, AddReady(r, w), priority[w], w)
    BY <1>2, ReadyAdd
  <2> QED BY <1>2, <2>1 DEF Added
<1> QED BY <1>1, <1>2

\* exit(): the parent and init are woken before they could miss the zombie,
\* and every child is handed to init, who is alive.
LEMMA ExitFinishStep ==
    ASSUME IInv, NEW c \in CPUs, NEW p \in Procs, ExitFinish(c, p)
    PROVE  IInv'
<1>w. PICK w \in Procs \cup {NoProc}, v \in Procs \cup {NoProc} :
         /\ FirstSleeper(parent[p], w)
         /\ IF w # initproc /\ \E q \in Orphans(p) : state[q] = "ZOMBIE"
            THEN FirstSleeper(initproc, v) ELSE v = NoProc
         /\ state' = [q \in Procs |-> IF q = p THEN "ZOMBIE"
                                      ELSE IF q \in {w, v} THEN "RUNNABLE"
                                      ELSE state[q]]
         /\ list' = [list EXCEPT
                       !["SLEEPING"] = stateListRemove(stateListRemove(@, w), v),
                       !["RUNNING"]  = stateListRemove(@, p),
                       !["ZOMBIE"]   = stateListAdd(@, p)]
         /\ ready' = AddReady(AddReady(ready, w), v)
  BY DEF ExitFinish
<1>p. parent' = [q \in Procs |->
                   IF q \in Orphans(p) THEN initproc ELSE parent[q]]
  BY DEF ExitFinish
<1>n. pc' = [pc EXCEPT ![p] = "none"] /\ ptlock = NoProc
  BY DEF ExitFinish, LockFree
<1>a. cproc[c] = p /\ pc[p] = "exit"
  BY DEF ExitFinish, At, Executes
<1>g. Charge(p) /\ ToScheduler(c)
  BY DEF ExitFinish
<1>u. UNCHANGED <<pid, chan, killed, PromoteAtTime, nextpid, np, ptlock, ticks,
                  intr>>
  BY DEF ExitFinish, timeVars
<1>t. TypeOK
  BY DEF IInv
<1>1. state[p] = "RUNNING" /\ p # NoProc /\ p # initproc
  BY <1>a, OnCPU DEF IInv, ThreadAgree
<1>2. parent[p] \in Procs \ {p} /\ state[parent[p]] \in {"RUNNABLE", "RUNNING", "SLEEPING"}
  BY <1>1 DEF IInv, ParentAlive
<1>3. /\ w # NoProc => w = parent[p] /\ state[w] = "SLEEPING"
      /\ v # NoProc => v = initproc /\ state[v] = "SLEEPING" /\ w # initproc
  <2>1. \A x \in Procs : \A y \in Procs :
           state[x] = "SLEEPING" /\ chan[x] = y => x = y
    BY DEF IInv, SleepAgree
  <2>2. w # NoProc => w = parent[p] /\ state[w] = "SLEEPING"
    BY <1>w, <1>2, <2>1, Sleeper
  <2>3. v # NoProc => FirstSleeper(initproc, v) /\ w # initproc
    BY <1>w
  <2>4. v # NoProc => v = initproc /\ state[v] = "SLEEPING"
    BY <2>1, <2>3, Sleeper, InitSlot
  <2> QED BY <2>2, <2>3, <2>4
<1>4. w # p /\ v # p /\ (w # NoProc => w # v)
  BY <1>1, <1>3
<1>5. \A x \in Procs : /\ state'[x] = IF x = p THEN "ZOMBIE"
                                      ELSE IF x = w \/ x = v THEN "RUNNABLE"
                                      ELSE state[x]
                       /\ pc'[x] = IF x = p THEN "none" ELSE pc[x]
                       /\ parent'[x] = IF x \in Orphans(p) THEN initproc
                                       ELSE parent[x]
  BY <1>w, <1>p, <1>n, <1>t DEF TypeOK
<1>6. \A r \in Procs : /\ Detached(r)' <=> Detached(r)
                       /\ Detached(r) => r # p /\ r # w /\ r # v
  <2>1. \A r \in Procs : Detached(r)' <=> Detached(r)
    BY <1>u, <1>a, <1>5 DEF Detached
  <2>2. \A r \in Procs : Detached(r) => state[r] \notin {"RUNNING", "SLEEPING"}
    BY InitSlot DEF Detached, IInv, ForkAgree
  <2> QED BY <1>1, <1>3, <2>1, <2>2, InitSlot
<1>7. /\ \A r \in Procs : r \in Orphans(p) => parent[r] = p
      /\ \A r \in Procs :
           /\ state[r] \in {"RUNNABLE", "RUNNING", "SLEEPING", "ZOMBIE"}
           /\ parent[r] = p
           => r \in Orphans(p)
  BY Scanned DEF Orphans
<1>8. /\ IsFamily(ListStates, list')
      /\ Members(list'["SLEEPING"]) = Members(list["SLEEPING"]) \ {w, v}
      /\ Members(list'["RUNNING"]) = Members(list["RUNNING"]) \ {p}
      /\ Members(list'["ZOMBIE"]) = Members(list["ZOMBIE"]) \cup {p}
      /\ list'["UNUSED"] = list["UNUSED"] /\ list'["EMBRYO"] = list["EMBRYO"]
  <2> DEFINE S1 == stateListRemove(list["SLEEPING"], w)
             S2 == stateListRemove(S1, v)
             R2 == stateListRemove(list["RUNNING"], p)
             Z2 == stateListAdd(list["ZOMBIE"], p)
  <2>1. \A s \in ListStates : list[s] \in Seq(Procs) /\ NoRepeats(list[s])
    BY Families DEF IInv, IsFamily
  <2>2. p \notin Members(list["ZOMBIE"])
    BY <1>1 DEF IInv, ListsAgree, ListStates
  <2>3. /\ S1 \in Seq(Procs) /\ NoRepeats(S1)
        /\ Members(S1) = Members(list["SLEEPING"]) \ {w}
    BY <2>1, ListRemove DEF ListStates
  <2>4. R2 \in Seq(Procs) /\ NoRepeats(R2) /\ Members(R2) = Members(list["RUNNING"]) \ {p}
    BY <2>1, ListRemove DEF ListStates
  <2>5. Z2 \in Seq(Procs) /\ NoRepeats(Z2) /\ Members(Z2) = Members(list["ZOMBIE"]) \cup {p}
    <3>1. list["ZOMBIE"] \in Seq(Procs) /\ NoRepeats(list["ZOMBIE"])
      BY <2>1 DEF ListStates
    <3> QED BY <2>2, <3>1, ListAdd
  <2> HIDE DEF S1
  <2>6. S2 \in Seq(Procs) /\ NoRepeats(S2) /\ Members(S2) = Members(S1) \ {v}
    BY <2>3, ListRemove
  <2>7. list' = [list EXCEPT !["SLEEPING"] = S2, !["RUNNING"] = R2, !["ZOMBIE"] = Z2]
    BY <1>w DEF S1
  <2> HIDE DEF S2, R2, Z2
  <2>8. list \in [ListStates -> Seq(Procs)]
    BY <1>t DEF TypeOK
  <2>9. /\ list'["SLEEPING"] = S2 /\ list'["RUNNING"] = R2 /\ list'["ZOMBIE"] = Z2
        /\ list'["UNUSED"] = list["UNUSED"] /\ list'["EMBRYO"] = list["EMBRYO"]
        /\ list' \in [ListStates -> Seq(Procs)]
    BY <2>4, <2>5, <2>6, <2>7, <2>8 DEF ListStates
  <2>10. \A s \in ListStates : NoRepeats(list'[s])
    BY <2>1, <2>4, <2>5, <2>6, <2>9 DEF ListStates
  <2> QED BY <2>3, <2>4, <2>5, <2>6, <2>9, <2>10 DEF IsFamily
<1>9. /\ IsFamily(Prios, ready')
      /\ \A k \in Prios, x \in Procs :
           x \in Members(ready'[k]) <=>
              x \in Members(ready[k]) \/ ((x = w \/ x = v) /\ priority[x] = k)
  <2> DEFINE r1 == AddReady(ready, w)
  <2>1. \A k \in Prios : \A x \in Members(ready[k]) :
           x \in Procs /\ state[x] = "RUNNABLE"
    <3>1. \A k \in Prios : ready[k] \in Seq(Procs)
      BY <1>t DEF TypeOK
    <3>2. \A k \in Prios : \A x \in Members(ready[k]) : x \in Procs
      BY <3>1 DEF Members
    <3> QED BY <3>2 DEF IInv, ListsAgree
  <2>2. \A k \in Prios : w \notin Members(ready[k]) /\ v \notin Members(ready[k])
    BY <1>3, <2>1, InitSlot
  <2>3. /\ IsFamily(Prios, r1)
        /\ \A k \in Prios, x \in Procs :
             x \in Members(r1[k]) <=> x \in Members(ready[k]) \/ (x = w /\ priority[x] = k)
    BY <1>t, <2>2, Families, ReadyJoin DEF IInv
  <2> HIDE DEF r1
  <2>4. \A k \in Prios : v \notin Members(r1[k])
    <3>1. \A k \in Prios : \A x \in Members(r1[k]) : x \in Procs
      BY <2>3 DEF IsFamily, Members
    <3> QED BY <1>4, <2>2, <2>3, <3>1, InitSlot
  <2>5. /\ IsFamily(Prios, AddReady(r1, v))
        /\ \A k \in Prios, x \in Procs :
             x \in Members(AddReady(r1, v)[k]) <=>
                x \in Members(r1[k]) \/ (x = v /\ priority[x] = k)
    BY <1>t, <2>3, <2>4, ReadyJoin
  <2>6. ready' = AddReady(r1, v)
    BY <1>w DEF r1
  <2> HIDE DEF AddReady
  <2> QED BY <2>3, <2>5, <2>6
<1>10. /\ budget' \in [Procs -> 0..BUDGET] /\ priority' \in [Procs -> Prios]
       /\ cpu_ticks_in' = cpu_ticks_in
       /\ \A r \in Procs : r # p => budget'[r] = budget[r] /\ priority'[r] = priority[r]
  BY <1>g, <1>1, Charged
<1>11. state' \in [Procs -> States]
  BY <1>w, <1>t DEF TypeOK, States, ListStates
<1>12. /\ cproc' \in [CPUs -> Procs \cup {NoProc}]
       /\ spc' \in [CPUs -> {"promote", "dispatch", "run"}]
       /\ SchedAgree' /\ OneCPUEach'
  <2>1. \A r \in Procs : r # p => (state'[r] = "RUNNING" <=> state[r] = "RUNNING")
    BY <1>3, <1>5, InitSlot
  <2>2. state'[p] # "RUNNING"
    BY <1>5
  <2> QED BY <1>a, <1>g, <1>11, <2>1, <2>2, LeaveCPU
<1>13. TypeOK'
  <2>1. /\ list' \in [ListStates -> Seq(Procs)] /\ ready' \in [Prios -> Seq(Procs)]
    BY <1>8, <1>9 DEF IsFamily
  <2>2. parent' \in [Procs -> Procs \cup {NoProc}]
    BY <1>p, <1>t, InitSlot DEF TypeOK
  <2>3. pc' \in [Procs -> PCs]
    BY <1>n, <1>t DEF TypeOK, PCs
  <2> QED BY <1>t, <1>u, <1>10, <1>11, <1>12, <2>1, <2>2, <2>3 DEF TypeOK
<1>14. ListsAgree'
  <2>1. ASSUME NEW t \in ListStates, NEW r \in Procs
        PROVE  r \in Members(list'[t]) <=> state'[r] = t /\ ~Detached(r)'
    <3>1. r \in Members(list[t]) <=> state[r] = t /\ ~Detached(r)
      BY DEF IInv, ListsAgree
    <3>2. /\ w \in Procs => state[w] = "SLEEPING"
          /\ v \in Procs => state[v] = "SLEEPING"
      BY <1>3, InitSlot
    <3>3. CASE t = "SLEEPING"
      BY <1>1, <1>5, <1>6, <1>8, <3>1, <3>2, <3>3
    <3>4. CASE t = "RUNNING"
      BY <1>1, <1>5, <1>6, <1>8, <3>1, <3>2, <3>4
    <3>5. CASE t = "ZOMBIE"
      BY <1>1, <1>5, <1>6, <1>8, <3>1, <3>2, <3>5
    <3>6. CASE t \in {"UNUSED", "EMBRYO"}
      BY <1>1, <1>5, <1>6, <1>8, <3>1, <3>2, <3>6
    <3> QED BY <3>3, <3>4, <3>5, <3>6 DEF ListStates
  <2>2. ASSUME NEW k \in Prios, NEW r \in Procs
        PROVE  r \in Members(ready'[k]) <=> state'[r] = "RUNNABLE" /\ priority'[r] = k
    <3>1. r \in Members(ready[k]) <=> state[r] = "RUNNABLE" /\ priority[r] = k
      BY DEF IInv, ListsAgree
    <3> QED BY <1>1, <1>4, <1>5, <1>9, <1>10, <3>1
  <2> QED BY <1>8, <1>9, <2>1, <2>2 DEF ListsAgree, IsFamily
<1>15. ForkAgree'
  <2>1. ASSUME NEW r \in Procs, np[r] # NoProc
        PROVE  /\ np[r] \in Procs /\ r # p
               /\ state'[np[r]] = state[np[r]]
    <3>1. np[r] \in Procs /\ state[np[r]] \in {"UNUSED", "EMBRYO"}
      BY <1>t, <2>1 DEF TypeOK, IInv, ForkAgree
    <3>2. np[r] # p /\ np[r] # w /\ np[r] # v
      BY <1>1, <1>3, <3>1, InitSlot
    <3>3. r # p
      BY <1>a, <2>1 DEF IInv, ForkAgree, ForkPCs
    <3> QED BY <1>5, <3>1, <3>2, <3>3
  <2>2. ASSUME NEW r \in Procs, pc[r] = "place" PROVE parent'[np[r]] = r
    <3>1. np[r] # NoProc /\ parent[np[r]] = r
      BY <2>2 DEF IInv, ForkAgree, ForkPCs
    <3>2. np[r] \in Procs /\ r # p
      BY <2>1, <3>1
    <3> QED BY <1>5, <1>7, <3>1, <3>2
  <2>3. pc[p] \notin ForkPCs /\ pc'[p] \notin ForkPCs
    BY <1>a, <1>5 DEF ForkPCs
  <2>4. np'= np
    BY <1>u
  <2> QED BY <1>5, <2>1, <2>2, <2>3, <2>4 DEF IInv, ForkAgree
<1>16. ThreadAgree'
  BY <1>1, <1>3, <1>5, InitSlot DEF IInv, ThreadAgree
<1>17. SleepAgree'
  BY <1>u, <1>5 DEF IInv, SleepAgree
<1>18. LockAgree'
  <2>1. /\ w \in Procs => state[w] = "SLEEPING"
        /\ v \in Procs => state[v] = "SLEEPING"
    BY <1>3, InitSlot
  <2> QED BY <1>n, <1>u, <1>1, <1>5, <2>1, InitSlot DEF IInv, LockAgree
<1>19. NoLostExit'
  <2> SUFFICES ASSUME NEW r \in Procs, NEW q \in Procs,
                      state'[q] = "ZOMBIE", parent'[q] = r,
                      state'[r] = "SLEEPING", chan'[r] = r
               PROVE  FALSE
    BY DEF NoLostExit
  <2>1. state[r] = "SLEEPING" /\ chan[r] = r /\ r # p /\ r # w /\ r # v
    BY <1>u, <1>5
  <2>2. CASE q = p
    <3>1. r = parent[p]
      BY <1>2, <1>5, <1>7, <2>2
    <3> QED BY <1>w, <2>1, <3>1, WaiterWoken
  <2>3. CASE q # p /\ q \in Orphans(p)
    <3>1. r = initproc /\ state[q] = "ZOMBIE"
      BY <1>5, <2>3
    <3>2. FirstSleeper(initproc, v)
      BY <1>w, <2>1, <2>3, <3>1
    <3> QED BY <2>1, <3>1, <3>2, WaiterWoken
  <2>4. CASE q # p /\ q \notin Orphans(p)
    <3>1. state[q] = "ZOMBIE" /\ parent[q] = r
      BY <1>5, <2>4
    <3> QED BY <2>1, <3>1 DEF IInv, NoLostExit
  <2> QED BY <2>2, <2>3, <2>4
<1>20. ParentAlive'
  <2> SUFFICES ASSUME NEW x \in Procs, x # initproc,
                 state'[x] \in {"RUNNABLE", "RUNNING", "SLEEPING", "ZOMBIE"}
               PROVE  /\ parent'[x] \in Procs \ {x}
                      /\ state'[parent'[x]] \in {"RUNNABLE", "RUNNING", "SLEEPING"}
    BY DEF ParentAlive
  <2>1. \A y \in Procs : y # p /\ state[y] \in {"RUNNABLE", "RUNNING", "SLEEPING"}
                           => state'[y] \in {"RUNNABLE", "RUNNING", "SLEEPING"}
    BY <1>5
  <2>2. state[x] \in {"RUNNABLE", "RUNNING", "SLEEPING", "ZOMBIE"}
    BY <1>1, <1>3, <1>5, InitSlot
  <2>3. /\ parent[x] \in Procs \ {x}
        /\ state[parent[x]] \in {"RUNNABLE", "RUNNING", "SLEEPING"}
    BY <2>2 DEF IInv, ParentAlive
  <2>4. CASE x \in Orphans(p)
    <3>1. parent'[x] = initproc
      BY <1>5, <2>4
    <3>2. state[initproc] \in {"RUNNABLE", "RUNNING", "SLEEPING"}
      <4>1. state[initproc] \notin {"UNUSED", "EMBRYO", "ZOMBIE"}
        BY InitSlot DEF IInv, ThreadAgree
      <4>2. state[initproc] \in States
        BY <1>t, InitSlot DEF TypeOK
      <4> QED BY <4>1, <4>2 DEF States, ListStates
    <3> QED BY <1>1, <2>1, <3>1, <3>2, InitSlot
  <2>5. CASE x \notin Orphans(p)
    <3>1. parent'[x] = parent[x] /\ parent[x] # p
      BY <1>5, <1>7, <2>2, <2>5
    <3> QED BY <2>1, <2>3, <3>1
  <2> QED BY <2>4, <2>5
<1>21. UniquePids'
  <2>1. \A x \in Procs : state'[x] # "UNUSED" => state[x] # "UNUSED"
    BY <1>1, <1>3, <1>5, InitSlot
  <2> QED BY <1>u, <2>1 DEF IInv, UniquePids
<1>22. PidsBounded'
  BY <1>u DEF IInv, PidsBounded
<1>23. BudgetLeft'
  <2>1. ASSUME NEW x \in Procs, state'[x] \in {"RUNNABLE", "RUNNING", "SLEEPING"}
        PROVE  x # p /\ state[x] \in {"RUNNABLE", "RUNNING", "SLEEPING"}
    BY <1>1, <1>3, <1>5, <2>1, InitSlot
  <2> QED BY <1>10, <2>1 DEF IInv, BudgetLeft
<1>24. ChildBudget'
  <2>1. \A r \in Procs : pc[r] \in {"fork", "copy", "place"} =>
                            np[r] # NoProc /\ state[np[r]] = "EMBRYO"
    BY DEF IInv, ForkAgree, ForkPCs
  <2>2. \A r \in Procs : pc[r] \in {"fork", "copy", "place"} =>
                            np[r] \in Procs /\ np[r] # p
    BY <1>1, <1>t, <2>1 DEF TypeOK
  <2> QED BY <1>u, <1>5, <1>10, <2>2 DEF IInv, ChildBudget
<1> QED BY <1>12, <1>13, <1>14, <1>15, <1>16, <1>17, <1>18, <1>19, <1>20,
           <1>21, <1>22, <1>23, <1>24 DEF IInv

-----------------------------------------------------------------------------
(* Steps that move only a program counter or the clock.                     *)

\* The entry to and the return from the kernel change only pc and killed.
LEMMA TrapSteps ==
    ASSUME IInv, NEW c \in CPUs, NEW p \in Procs,
           SyscallEnter(c, p) \/ TrapReturn(c, p) \/ UserFault(c, p)
             \/ ExitStart(c, p)
    PROVE  IInv'
<1>t. TypeOK
  BY DEF IInv
<1>1. /\ cproc[c] = p /\ pc[p] \in {"user", "kernel", "ret"}
      /\ UNCHANGED <<state, pid, parent, chan, mlfqVars, listVars,
                     PromoteAtTime, nextpid, np, cpuVars, ptlock, ticks>>
      /\ intr' = intr
  BY DEF SyscallEnter, TrapReturn, UserFault, ExitStart, At, Executes, procVars,
         timeVars
<1>2. killed' \in [Procs -> {0, 1}]
  BY <1>t DEF SyscallEnter, TrapReturn, UserFault, ExitStart, procVars, TypeOK
<1>3. PICK l \in {"user", "kernel", "exit", "panic"} :
         pc' = [pc EXCEPT ![p] = l] /\ (p = initproc => l # "exit")
  <2>1. ExitPC(p) \in {"exit", "panic"} /\ (p = initproc => ExitPC(p) # "exit")
    BY DEF ExitPC
  <2> QED BY <2>1 DEF SyscallEnter, TrapReturn, UserFault, ExitStart
<1>4. intr' \in {"none", "wakeup", "tail"} /\ state[p] = "RUNNING"
  BY <1>1, <1>t, OnCPU DEF TypeOK
<1> QED BY <1>1, <1>2, <1>3, <1>4, PcOnly

\* A killed process interrupted in user mode goes to exit().
LEMMA TimerExitStep ==
    ASSUME IInv, NEW c \in CPUs, TimerExit(c)
    PROVE  IInv'
<1> DEFINE p == cproc[c]
           l == ExitPC(p)
<1>t. TypeOK
  BY DEF IInv
<1>1. /\ p # NoProc /\ pc[p] = "user" /\ pc' = [pc EXCEPT ![p] = l]
      /\ UNCHANGED <<state, pid, parent, chan, mlfqVars, listVars,
                     PromoteAtTime, nextpid, np, cpuVars, ptlock, ticks>>
      /\ killed' = killed
  BY DEF TimerExit, procVars
<1>2. intr' \in {"none", "wakeup", "tail"} /\ killed' \in [Procs -> {0, 1}]
  BY <1>1, <1>t DEF TimerExit, InTrapTail, TypeOK
<1>3. p \in Procs /\ state[p] = "RUNNING"
  <2>1. p \in Procs
    BY <1>1, <1>t DEF TypeOK
  <2> QED BY <2>1, OnCPU
<1>4. l \in {"user", "kernel", "exit", "panic"} /\ (p = initproc => l # "exit")
  BY DEF ExitPC
<1>5. pc[p] \in {"user", "kernel", "ret"}
  BY <1>1
<1> HIDE DEF p, l
<1> QED BY <1>1, <1>2, <1>3, <1>4, <1>5, PcOnly

\* Ticks and idle turns change neither processes nor lists.
LEMMA ClockSteps ==
    ASSUME IInv, TimerTick \/ TimerReturn \/ \E c \in CPUs : SchedIdle(c)
    PROVE  IInv'
<1>t. TypeOK
  BY DEF IInv
<1>1. UNCHANGED <<procVars, mlfqVars, listVars, PromoteAtTime, nextpid,
                  pc, np, cproc, ptlock>>
  BY DEF TimerTick, TimerReturn, SchedIdle, cpuVars
<1>2. ticks' \in 0..(TICKMOD - 1)
  <2>1. CASE TimerTick
    <3>1. ticks + 1 \in Int /\ ticks' = (ticks + 1) % TICKMOD
      BY <1>t, <2>1, MLFQAssumption DEF TypeOK, TimerTick
    <3> QED BY <3>1, MLFQAssumption
  <2>2. CASE TimerReturn \/ \E c \in CPUs : SchedIdle(c)
    BY <1>t, <2>2 DEF TypeOK, TimerReturn, SchedIdle, timeVars
  <2> QED BY <2>1, <2>2
<1>3. intr' \in {"none", "wakeup", "tail"}
  BY <1>t DEF TypeOK, TimerTick, TimerReturn, InTrapTail, SchedIdle, timeVars
<1>4. /\ spc' \in [CPUs -> {"promote", "dispatch", "run"}]
      /\ \A c \in CPUs : spc'[c] = "run" <=> spc[c] = "run"
  <2>1. CASE TimerTick \/ TimerReturn
    BY <1>t, <2>1 DEF TypeOK, TimerTick, TimerReturn, cpuVars
  <2>2. CASE \E c \in CPUs : SchedIdle(c)
    <3>1. PICK c \in CPUs : spc[c] = "dispatch" /\ spc' = [spc EXCEPT ![c] = "promote"]
      BY <2>2 DEF SchedIdle
    <3> QED BY <1>t, <3>1 DEF TypeOK
  <2> QED BY <2>1, <2>2
<1> QED BY <1>1, <1>2, <1>3, <1>4, ClockOnly

-----------------------------------------------------------------------------
(* The invariant.                                                           *)

\* Every step keeps the inductive invariant.
LEMMA NextIInv == IInv /\ [Next]_vars => IInv'
<1> SUFFICES ASSUME IInv, [Next]_vars PROVE IInv'
  OBVIOUS
<1>1. CASE UNCHANGED vars
  <2>1. UNCHANGED <<state, list, ready, pid, parent, chan, priority, budget,
                    cpu_ticks_in, PromoteAtTime, nextpid, pc, np, cproc, spc,
                    ptlock, ticks, killed, intr>>
    BY <1>1 DEF vars, procVars, mlfqVars, listVars, cpuVars, timeVars
  <2>2. killed' \in [Procs -> {0, 1}] /\ intr' \in {"none", "wakeup", "tail"}
    BY <2>1 DEF IInv, TypeOK
  <2> QED BY <2>1, <2>2, NobodyWoken
<1>2. ASSUME NEW c \in CPUs, NEW p \in Procs, ProcStep(c, p) PROVE IInv'
  <2>1. CASE \/ SyscallEnter(c, p) \/ TrapReturn(c, p) \/ UserFault(c, p)
             \/ ExitStart(c, p)
    BY <2>1, TrapSteps
  <2>2. CASE Fork(c, p)
    BY <2>2, ForkAllocStep, AllocStackStep, AllocFailStep, ForkDetachStep,
       CopyOkStep, CopyFailStep, ForkUndoStep, ForkPlaceStep DEF Fork
  <2>3. CASE Wait(c, p)
    BY <2>3, WaitReapStep, WaitFailStep, WaitSleepStep DEF Wait
  <2>4. CASE ExitFinish(c, p)
    BY <2>4, ExitFinishStep
  <2>5. CASE \E ch \in Chans : Sleep(c, p, ch)
    BY <2>5, SleepStep
  <2>6. CASE \E n \in 1..MaxPid : Kill(c, p, n)
    BY <2>6, KillStep
  <2>7. CASE \E n \in 1..MaxPid, k \in Prios : SetPriority(c, p, n, k)
    BY <2>7, SetPriorityStep
  <2> QED BY <1>2, <2>1, <2>2, <2>3, <2>4, <2>5, <2>6, <2>7 DEF ProcStep
<1>3. ASSUME NEW c \in CPUs, Scheduler(c) PROVE IInv'
  <2>1. CASE SchedPromote(c)
    BY <2>1, SchedPromoteStep
  <2>2. CASE SchedDispatch(c)
    BY <2>2, SchedDispatchStep
  <2>3. CASE SchedIdle(c)
    BY <2>3, ClockSteps
  <2> QED BY <1>3, <2>1, <2>2, <2>3 DEF Scheduler
<1>4. CASE Timer
  <2>1. CASE TimerTick \/ TimerReturn
    BY <2>1, ClockSteps
  <2>2. CASE TimerWakeup
    BY <2>2, TimerWakeupStep
  <2>3. CASE \E c \in CPUs : TimerExit(c)
    BY <2>3, TimerExitStep
  <2>4. CASE \E c \in CPUs : TimerYield(c)
    BY <2>4, TimerYieldStep
  <2> QED BY <1>4, <2>1, <2>2, <2>3, <2>4 DEF Timer
<1>5. CASE \E ch \in Chans : Wakeup(ch)
  BY <1>5, WakeupStep
<1> QED BY <1>1, <1>2, <1>3, <1>4, <1>5 DEF Next

\* The process table keeps its inductive invariant, whatever the numbers of
\* processes, CPUs, priorities, channels and ticks.
THEOREM Invariance == Spec => []IInv
BY InitIInv, NextIInv, PTL DEF Spec

\* proc.c and trap.c keep every field in its range: a priority always indexes a
\* ready list and a budget never exceeds BUDGET.
THEOREM TypeCorrect == Spec => []TypeOK
<1>1. IInv => TypeOK
  BY DEF IInv
<1> QED BY <1>1, Invariance, PTL

\* A process is on exactly the list its state names, through every fork, exit,
\* wait, sleep, wakeup, kill, setpriority, promotion and yield: no
\* stateListRemove or assertState of proc.c panics.
THEOREM ListsAlwaysAgree == Spec => []ListsAgree
<1>1. IInv => ListsAgree
  BY DEF IInv
<1> QED BY <1>1, Invariance, PTL

\* No two CPUs run the same process.
THEOREM CPUsExclusive == Spec => []OneCPUEach
<1>1. IInv => OneCPUEach
  BY DEF IInv
<1> QED BY <1>1, Invariance, PTL

\* wait() misses no exit(), although wakeup1 wakes only one process.
THEOREM ExitNeverLost == Spec => []NoLostExit
<1>1. IInv => NoLostExit
  BY DEF IInv
<1> QED BY <1>1, Invariance, PTL

\* exit() leaves no orphan: the parent of a process can still wait() for it.
THEOREM NoOrphans == Spec => []ParentAlive
<1>1. IInv => ParentAlive
  BY DEF IInv
<1> QED BY <1>1, Invariance, PTL

\* pids are unique while nextpid has not wrapped around.
THEOREM PidsUnique == Spec => []UniquePids
<1>1. IInv => UniquePids
  BY DEF IInv
<1> QED BY <1>1, Invariance, PTL

\* The MLFQ arithmetic never leaves a schedulable process without budget.
THEOREM BudgetsPositive == Spec => []BudgetLeft
<1>1. IInv => BudgetLeft
  BY DEF IInv
<1> QED BY <1>1, Invariance, PTL
=============================================================================
