-------------------------- MODULE PlainTableProofs --------------------------
(***************************************************************************)
(* Proofs about PlainTable, for every size of the table and every number   *)
(* of CPUs: no exit is missed, nobody runs twice or is orphaned, and the   *)
(* walks of the schedulers pass a runnable process at most NPROC - 1 times *)
(* each.                                                                   *)
(***************************************************************************)
EXTENDS PlainTable, FiniteSetTheorems, TLAPS

-----------------------------------------------------------------------------
(* The inductive invariant.                                                 *)

States == {"UNUSED", "EMBRYO", "SLEEPING", "RUNNABLE", "RUNNING", "ZOMBIE"}

Types ==
    /\ state \in [Slots -> States]
    /\ parent \in [Slots -> Slots \cup {NULL}]
    /\ killed \in [Slots -> BOOLEAN]
    /\ cpu \in [CPUs -> Slots \cup {NULL}] /\ scan \in [CPUs -> 0..NPROC]
    /\ pc \in [Slots -> {"user", "fork", "wait"}]
    /\ np \in [Slots -> Slots \cup {NULL}]
    /\ passed \in [Slots -> Nat]
    /\ chan \in [Slots -> Slots \cup {NULL, IO}]

\* A process is RUNNING as long as a CPU has it.
Running ==
    /\ \A c \in CPUs : cpu[c] # NULL => state[cpu[c]] = "RUNNING"
    /\ \A p \in Slots : state[p] = "RUNNING" => \E c \in CPUs : cpu[c] = p
    /\ \A c, d \in CPUs : cpu[c] = cpu[d] /\ cpu[c] # NULL => c = d

\* Children have living parents; init lives for ever and has none.
Family ==
    /\ state[initproc] \notin {"UNUSED", "EMBRYO", "ZOMBIE"} /\ parent[initproc] = NULL
    /\ \A p \in Slots :
          IF state[p] \in {"UNUSED", "EMBRYO"} \/ p = initproc
          THEN parent[p] = NULL
          ELSE /\ parent[p] \in Slots \ {p}
               /\ state[parent[p]] \notin {"UNUSED", "EMBRYO", "ZOMBIE"}

\* A fork() has the slot of its child to itself.
Forking ==
    /\ \A p \in Slots : pc[p] = "fork" => np[p] \in Slots /\ state[np[p]] = "EMBRYO"
    /\ \A p, q \in Slots : pc[p] = "fork" /\ pc[q] = "fork" /\ np[p] = np[q] => p = q

\* The slots that the walk of c comes to before it comes to p.
Between(c, p) == IF scan[c] < p THEN p - 1 - scan[c] ELSE NPROC - scan[c] + p - 1

\* The turns that others can still have before p.
Turns(p) == {t \in CPUs \X (1..(NPROC - 1)) : t[2] <= Between(t[1], p)}

\* What has passed p and what can still pass it stay within the bound.
Passing ==
    \A p \in Slots :
       /\ passed[p] + Cardinality(Turns(p)) <= NCPU * (NPROC - 1)
       /\ state[p] # "RUNNABLE" => passed[p] = 0

IInv == Types /\ Running /\ Family /\ Forking /\ Passing /\ WaitJustified

-----------------------------------------------------------------------------
(* Turns.                                                                   *)

\* The constants as numbers.
LEMMA Numbers ==
    /\ NPROC \in Nat \ {0} /\ NCPU \in Nat \ {0} /\ NPROC - 1 \in Nat
    /\ initproc \in Slots /\ NULL \notin Slots /\ IO \notin Slots /\ IO # NULL
    /\ Slots \subseteq Nat
BY TableAssumption DEF Slots, initproc, NULL

\* A CPU has at most NPROC - 1 turns before it comes to p.
LEMMA BetweenBound ==
    ASSUME Types, NEW c \in CPUs, NEW p \in Slots
    PROVE  Between(c, p) \in 0..(NPROC - 1)
BY Numbers DEF Types, Between, Slots

\* There are finitely many turns, and no more than the bound.
LEMMA TurnsCounted ==
    ASSUME NEW T \in SUBSET (CPUs \X (1..(NPROC - 1)))
    PROVE  /\ IsFiniteSet(T) /\ Cardinality(T) \in Nat
           /\ Cardinality(T) <= NCPU * (NPROC - 1)
<1>1. IsFiniteSet(CPUs) /\ Cardinality(CPUs) = NCPU
  BY Numbers, FS_Interval DEF CPUs
<1>2. IsFiniteSet(1..(NPROC - 1)) /\ Cardinality(1..(NPROC - 1)) = NPROC - 1
  BY Numbers, FS_Interval
<1>3. /\ IsFiniteSet(CPUs \X (1..(NPROC - 1)))
      /\ Cardinality(CPUs \X (1..(NPROC - 1))) = NCPU * (NPROC - 1)
  BY <1>1, <1>2, FS_Product
<1>4. /\ IsFiniteSet(T)
      /\ Cardinality(T) <= Cardinality(CPUs \X (1..(NPROC - 1)))
  BY <1>3, FS_Subset
<1> QED BY <1>3, <1>4, FS_CardinalityType

\* Before and after a step.
LEMMA TurnsBound ==
    ASSUME NEW p \in Slots
    PROVE  /\ Turns(p) \in SUBSET (CPUs \X (1..(NPROC - 1)))
           /\ Turns(p)' \in SUBSET (CPUs \X (1..(NPROC - 1)))
           /\ IsFiniteSet(Turns(p)) /\ Cardinality(Turns(p)) \in Nat
           /\ Cardinality(Turns(p)) <= NCPU * (NPROC - 1)
           /\ IsFiniteSet(Turns(p)') /\ Cardinality(Turns(p)') \in Nat
           /\ Cardinality(Turns(p)') <= NCPU * (NPROC - 1)
<1>1. /\ Turns(p) \in SUBSET (CPUs \X (1..(NPROC - 1)))
      /\ Turns(p)' \in SUBSET (CPUs \X (1..(NPROC - 1)))
  BY DEF Turns
<1> QED BY <1>1, TurnsCounted

\* When the walk of c does not move away from p, no turns are added.
LEMMA TurnsKept ==
    ASSUME Types, NEW c \in CPUs, NEW p \in Slots, NEW n \in 0..NPROC,
           scan' = [scan EXCEPT ![c] = n],
           Between(c, p)' <= Between(c, p)
    PROVE  Cardinality(Turns(p)') <= Cardinality(Turns(p))
<1>1. \A d \in CPUs : d # c => Between(d, p)' = Between(d, p)
  BY DEF Types, Between
<1>2. \A d \in CPUs : Between(d, p)' <= Between(d, p)
  <2>1. \A d \in CPUs : Between(d, p) \in Int
    BY BetweenBound
  <2> QED BY <1>1, <2>1
<1>3. \A d \in CPUs : Between(d, p) \in Int /\ Between(d, p)' \in Int
  <2>1. scan \in [CPUs -> 0..NPROC] /\ scan' \in [CPUs -> 0..NPROC]
    BY DEF Types
  <2>2. p \in Int /\ NPROC \in Int
    BY Numbers DEF Slots
  <2>3. \A d \in CPUs : scan[d] \in Int /\ scan'[d] \in Int
    BY <2>1, <2>2
  <2> QED BY <2>2, <2>3 DEF Between
<1>4. ASSUME NEW t \in Turns(p)' PROVE t \in Turns(p)
  <2>1. /\ t \in CPUs \X (1..(NPROC - 1)) /\ t[1] \in CPUs /\ t[2] \in Int
        /\ t[2] <= Between(t[1], p)'
    BY Numbers DEF Turns
  <2>2. t[2] <= Between(t[1], p)
    BY <1>2, <1>3, <2>1
  <2> QED BY <2>1, <2>2 DEF Turns
<1>5. Turns(p)' \in SUBSET Turns(p)
  BY <1>4
<1> QED BY <1>5, TurnsBound, FS_Subset

\* When it has come nearer, a turn is used up.
LEMMA TurnUsed ==
    ASSUME Types, NEW c \in CPUs, NEW p \in Slots, NEW n \in 0..NPROC,
           scan' = [scan EXCEPT ![c] = n],
           Between(c, p)' < Between(c, p), Between(c, p)' \in Nat
    PROVE  Cardinality(Turns(p)') + 1 <= Cardinality(Turns(p))
<1> DEFINE b == Between(c, p)
           u == <<c, b>>
<1>1. \A d \in CPUs : d # c => Between(d, p)' = Between(d, p)
  BY DEF Types, Between
<1>2. \A d \in CPUs : Between(d, p) \in Int /\ Between(d, p)' \in Int
  <2>1. scan \in [CPUs -> 0..NPROC] /\ scan' \in [CPUs -> 0..NPROC]
    BY DEF Types
  <2>2. p \in Int /\ NPROC \in Int
    BY Numbers DEF Slots
  <2>3. \A d \in CPUs : scan[d] \in Int /\ scan'[d] \in Int
    BY <2>1, <2>2
  <2> QED BY <2>2, <2>3 DEF Between
<1>3. b \in 1..(NPROC - 1)
  BY BetweenBound, Numbers
<1>4. u \in Turns(p)
  BY <1>3 DEF Turns
<1>5. ASSUME NEW t \in Turns(p)' PROVE t \in Turns(p) \ {u}
  <2>1. /\ t \in CPUs \X (1..(NPROC - 1)) /\ t[1] \in CPUs /\ t[2] \in Int
        /\ t[2] <= Between(t[1], p)'
    BY Numbers DEF Turns
  <2>2. CASE t[1] = c
    <3>1. t[2] < b /\ t[2] <= Between(t[1], p)
      BY <1>2, <2>1, <2>2
    <3>2. t # u
      BY <1>3, <2>1, <3>1
    <3> QED BY <2>1, <3>1, <3>2 DEF Turns
  <2>3. CASE t[1] # c
    <3>1. t[2] <= Between(t[1], p)
      BY <1>1, <2>1, <2>3
    <3>2. t # u
      BY <2>3
    <3> QED BY <2>1, <3>1, <3>2 DEF Turns
  <2> QED BY <2>2, <2>3
<1>6. Turns(p)' \in SUBSET (Turns(p) \ {u})
  BY <1>5
<1>7. /\ IsFiniteSet(Turns(p) \ {u})
      /\ Cardinality(Turns(p) \ {u}) = Cardinality(Turns(p)) - 1
  BY <1>4, TurnsBound, FS_RemoveElement
<1>8. Cardinality(Turns(p)') <= Cardinality(Turns(p) \ {u})
  BY <1>6, <1>7, FS_Subset
<1> QED BY <1>7, <1>8, TurnsBound

-----------------------------------------------------------------------------
(* The walk of a scheduler, and steps without one.                          *)

\* The walk of c goes on from the states st, in which c has given up its process.
LEMMA WalkStep ==
    ASSUME IInv, NEW c \in CPUs, NEW st \in [Slots -> States], Walk(c, st),
           \A q \in Slots : st[q] = "RUNNING" <=> state[q] = "RUNNING" /\ q # cpu[c],
           \A q \in Slots : state[q] = "RUNNABLE" => st[q] = "RUNNABLE"
    PROVE  /\ state' \in [Slots -> States] /\ cpu' \in [CPUs -> Slots \cup {NULL}]
           /\ scan' \in [CPUs -> 0..NPROC] /\ passed' \in [Slots -> Nat]
           /\ \A q \in Slots : \/ state'[q] = st[q]
                               \/ st[q] = "RUNNABLE" /\ state'[q] = "RUNNING"
           /\ Running' /\ Passing'
<1>1. /\ Types /\ Running /\ Passing
      /\ cpu \in [CPUs -> Slots \cup {NULL}] /\ scan \in [CPUs -> 0..NPROC]
      /\ passed \in [Slots -> Nat]
  BY DEF IInv, Types
<1>2. \A d \in CPUs : d # c /\ cpu[d] # NULL => st[cpu[d]] = "RUNNING"
  BY <1>1 DEF Running
<1>3. ASSUME NEW q \in Slots, st[q] = "RUNNING"
      PROVE  \E d \in CPUs : d # c /\ cpu[d] = q
  BY <1>1, <1>3 DEF Running
<1>4. \A d, e \in CPUs : cpu[d] = cpu[e] /\ cpu[d] # NULL => d = e
  BY <1>1 DEF Running
<1>5. \A p \in Slots : p \in Nat /\ p <= NPROC /\ p > 0
  BY Numbers DEF Slots
<1>6. scan[c] \in 0..NPROC /\ NPROC \in Nat
  BY <1>1, Numbers
<1>7. \A p \in Slots :
         /\ passed[p] \in Nat /\ Cardinality(Turns(p)) \in Nat
         /\ Cardinality(Turns(p)') \in Nat
         /\ Cardinality(Turns(p)') <= NCPU * (NPROC - 1)
         /\ passed[p] + Cardinality(Turns(p)) <= NCPU * (NPROC - 1)
         /\ st[p] # "RUNNABLE" => passed[p] = 0
         /\ NCPU * (NPROC - 1) \in Int
  <2>1. NCPU * (NPROC - 1) \in Int
    BY Numbers
  <2> QED BY <1>1, <2>1, TurnsBound DEF Passing
<1>8. CASE /\ Ahead(c, st) = {} /\ state' = st
           /\ cpu' = [cpu EXCEPT ![c] = NULL] /\ scan' = [scan EXCEPT ![c] = 0]
           /\ UNCHANGED passed
  <2>1. /\ \A d \in CPUs : d # c => cpu'[d] = cpu[d]
        /\ cpu'[c] = NULL
        /\ cpu' \in [CPUs -> Slots \cup {NULL}]
    BY <1>1, <1>8
  <2>2. Running'
    BY <1>2, <1>3, <1>4, <1>8, <2>1, Numbers DEF Running
  <2>3. scan' \in [CPUs -> 0..NPROC] /\ scan'[c] = 0
    BY <1>1, <1>6, <1>8
  <2>4. ASSUME NEW p \in Slots
        PROVE  /\ passed'[p] + Cardinality(Turns(p)') <= NCPU * (NPROC - 1)
               /\ state'[p] # "RUNNABLE" => passed'[p] = 0
    <3>1. CASE st[p] = "RUNNABLE"
      <4>1. ~(p > scan[c])
        BY <1>8, <3>1 DEF Ahead
      <4>2. Between(c, p)' <= Between(c, p)
        BY <1>5, <1>6, <2>3, <4>1 DEF Between
      <4>3. Cardinality(Turns(p)') <= Cardinality(Turns(p))
        <5>1. 0 \in 0..NPROC /\ scan' = [scan EXCEPT ![c] = 0]
          BY <1>6, <1>8
        <5> QED BY <1>1, <4>2, <5>1, TurnsKept
      <4> QED BY <1>7, <1>8, <3>1, <4>3
    <3>2. CASE st[p] # "RUNNABLE"
      BY <1>7, <1>8, <3>2
    <3> QED BY <3>1, <3>2
  <2>5. Passing'
    BY <2>4 DEF Passing
  <2> QED BY <1>1, <1>8, <2>1, <2>2, <2>3, <2>5
<1>9. ASSUME NEW q \in Ahead(c, st), \A x \in Ahead(c, st) : q <= x,
             state' = [st EXCEPT ![q] = "RUNNING"],
             cpu' = [cpu EXCEPT ![c] = q], scan' = [scan EXCEPT ![c] = q],
             passed' = [p \in Slots |-> IF p # q /\ st[p] = "RUNNABLE"
                                        THEN passed[p] + 1 ELSE 0]
      PROVE  /\ state' \in [Slots -> States] /\ cpu' \in [CPUs -> Slots \cup {NULL}]
             /\ scan' \in [CPUs -> 0..NPROC] /\ passed' \in [Slots -> Nat]
             /\ \A p \in Slots : \/ state'[p] = st[p]
                                 \/ st[p] = "RUNNABLE" /\ state'[p] = "RUNNING"
             /\ Running' /\ Passing'
  <2>1. q \in Slots /\ q > scan[c] /\ st[q] = "RUNNABLE" /\ q \in 0..NPROC
    BY <1>5 DEF Ahead
  <2>2. /\ \A d \in CPUs : d # c => cpu'[d] = cpu[d]
        /\ cpu'[c] = q /\ scan'[c] = q
        /\ cpu' \in [CPUs -> Slots \cup {NULL}] /\ scan' \in [CPUs -> 0..NPROC]
    BY <1>1, <1>9, <2>1
  <2>3. \A p \in Slots : state'[p] = IF p = q THEN "RUNNING" ELSE st[p]
    BY <1>9
  <2>4. state' \in [Slots -> States]
    BY <1>9 DEF States
  <2>5. Running'
    <3>1. \A d \in CPUs : cpu'[d] # NULL => state'[cpu'[d]] = "RUNNING"
      <4>1. ASSUME NEW d \in CPUs, d # c, cpu'[d] # NULL
            PROVE  state'[cpu'[d]] = "RUNNING"
        <5>1. cpu'[d] = cpu[d] /\ cpu[d] \in Slots /\ st[cpu[d]] = "RUNNING"
          BY <1>1, <1>2, <2>2, <4>1
        <5> QED BY <2>3, <5>1
      <4>2. state'[cpu'[c]] = "RUNNING"
        BY <2>1, <2>2, <2>3
      <4> QED BY <4>1, <4>2
    <3>2. \A p \in Slots : state'[p] = "RUNNING" => \E d \in CPUs : cpu'[d] = p
      BY <1>3, <2>2, <2>3
    <3>3. \A d \in CPUs : d # c => cpu[d] # q
      BY <1>2, <2>1, Numbers
    <3>4. \A d, e \in CPUs : cpu'[d] = cpu'[e] /\ cpu'[d] # NULL => d = e
      BY <1>4, <2>2, <3>3
    <3> QED BY <3>1, <3>2, <3>4 DEF Running
  <2>6. passed' \in [Slots -> Nat]
    BY <1>1, <1>9
  <2>7. ASSUME NEW p \in Slots
        PROVE  /\ passed'[p] + Cardinality(Turns(p)') <= NCPU * (NPROC - 1)
               /\ state'[p] # "RUNNABLE" => passed'[p] = 0
    <3>1. CASE p # q /\ st[p] = "RUNNABLE"
      <4>1. p > scan[c] => q < p
        <5>1. p > scan[c] => q <= p
          BY <1>9, <3>1 DEF Ahead
        <5> QED BY <1>5, <2>1, <3>1, <5>1
      <4>2. Between(c, p)' < Between(c, p) /\ Between(c, p)' \in Nat
        BY <1>5, <1>6, <2>1, <2>2, <4>1 DEF Between
      <4>3. Cardinality(Turns(p)') + 1 <= Cardinality(Turns(p))
        BY <1>1, <1>9, <2>1, <4>2, TurnUsed
      <4>4. passed'[p] = passed[p] + 1
        BY <1>9, <3>1
      <4> QED BY <1>7, <2>3, <3>1, <4>3, <4>4
    <3>2. CASE p = q \/ st[p] # "RUNNABLE"
      <4>1. passed'[p] = 0
        BY <1>9, <3>2
      <4> QED BY <1>7, <4>1
    <3> QED BY <3>1, <3>2
  <2>8. Passing'
    BY <2>7 DEF Passing
  <2> QED BY <2>1, <2>2, <2>3, <2>4, <2>5, <2>6, <2>8
<1> QED BY <1>8, <1>9 DEF Walk

\* Steps that leave the CPUs alone.
LEMMA NoWalk ==
    ASSUME IInv, UNCHANGED cpus,
           \A q \in Slots : state'[q] = "RUNNING" <=> state[q] = "RUNNING",
           \A q \in Slots : state[q] = "RUNNABLE" => state'[q] = "RUNNABLE"
    PROVE  Running' /\ Passing'
<1>1. cpu' = cpu /\ scan' = scan /\ passed' = passed
  BY DEF cpus
<1>2. Running'
  BY <1>1 DEF IInv, Running, Types
<1>3. \A p \in Slots : Turns(p)' = Turns(p)
  BY <1>1 DEF Turns, Between
<1>4. Passing'
  BY <1>1, <1>3 DEF IInv, Passing
<1> QED BY <1>2, <1>4

\* Steps after which the same processes exist.
LEMMA SameFamily ==
    ASSUME IInv, UNCHANGED parent,
           \A q \in Slots :
              /\ state'[q] \in {"UNUSED", "EMBRYO"} <=> state[q] \in {"UNUSED", "EMBRYO"}
              /\ state'[q] = "ZOMBIE" <=> state[q] = "ZOMBIE"
    PROVE  Family'
BY Numbers DEF IInv, Family, Types

\* Steps that no sleeper in wait() notices.
LEMMA SameSleepers ==
    ASSUME IInv, UNCHANGED <<parent, killed>>,
           \A q \in Slots :
              /\ state'[q] = "ZOMBIE" => state[q] = "ZOMBIE"
              /\ state'[q] = "SLEEPING" /\ chan'[q] = q =>
                    state[q] = "SLEEPING" /\ chan[q] = q
    PROVE  WaitJustified'
BY DEF IInv, WaitJustified, Kids, NoZombie

\* Steps that no fork() notices.
LEMMA SameForks ==
    ASSUME IInv, UNCHANGED np,
           \A q \in Slots : /\ state[q] = "EMBRYO" => state'[q] = "EMBRYO"
                            /\ pc'[q] = "fork" => pc[q] = "fork"
    PROVE  Forking'
BY DEF IInv, Forking

-----------------------------------------------------------------------------
(* The actions.                                                             *)

\* The process that a CPU has is RUNNING.
LEMMA OnCPU ==
    ASSUME IInv, NEW c \in CPUs, NEW p \in Slots, cpu[c] = p
    PROVE  state[p] = "RUNNING"
BY Numbers DEF IInv, Running

\* The scheduler picks a process.
LEMMA SchedulerStep ==
    ASSUME IInv, NEW c \in CPUs, scheduler(c)
    PROVE  IInv'
<1>1. /\ cpu[c] = NULL /\ Walk(c, state)
      /\ UNCHANGED <<parent, chan, killed, pc, np>>
  BY DEF scheduler
<1>2. Types /\ state \in [Slots -> States]
  BY DEF IInv, Types
<1>3. \A q \in Slots : state[q] = "RUNNING" <=> state[q] = "RUNNING" /\ q # cpu[c]
  BY <1>1, Numbers
<1>4. /\ state' \in [Slots -> States] /\ cpu' \in [CPUs -> Slots \cup {NULL}]
      /\ scan' \in [CPUs -> 0..NPROC] /\ passed' \in [Slots -> Nat]
      /\ \A q \in Slots : \/ state'[q] = state[q]
                          \/ state[q] = "RUNNABLE" /\ state'[q] = "RUNNING"
      /\ Running' /\ Passing'
  BY <1>1, <1>2, <1>3, WalkStep
<1>5. Types'
  BY <1>1, <1>2, <1>4 DEF Types
<1>6. Family' /\ WaitJustified' /\ Forking'
  BY <1>1, <1>4, SameFamily, SameSleepers, SameForks
<1> QED BY <1>4, <1>5, <1>6 DEF IInv

\* yield(): the timer takes the CPU away.
LEMMA YieldStep ==
    ASSUME IInv, NEW c \in CPUs, NEW p \in Slots, yield(c, p)
    PROVE  IInv'
<1> DEFINE st == [state EXCEPT ![p] = "RUNNABLE"]
<1>1. /\ cpu[c] = p /\ Walk(c, st)
      /\ UNCHANGED <<parent, chan, killed, pc, np>>
  BY DEF yield
<1>2. Types /\ st \in [Slots -> States] /\ state[p] = "RUNNING"
  BY <1>1, OnCPU DEF IInv, Types, States
<1>3. \A q \in Slots : st[q] = IF q = p THEN "RUNNABLE" ELSE state[q]
  BY <1>2 DEF Types
<1> HIDE DEF st
<1>4. /\ \A q \in Slots : st[q] = "RUNNING" <=> state[q] = "RUNNING" /\ q # cpu[c]
      /\ \A q \in Slots : state[q] = "RUNNABLE" => st[q] = "RUNNABLE"
  BY <1>1, <1>3
<1>5. /\ state' \in [Slots -> States] /\ cpu' \in [CPUs -> Slots \cup {NULL}]
      /\ scan' \in [CPUs -> 0..NPROC] /\ passed' \in [Slots -> Nat]
      /\ \A q \in Slots : \/ state'[q] = st[q]
                          \/ st[q] = "RUNNABLE" /\ state'[q] = "RUNNING"
      /\ Running' /\ Passing'
  BY <1>1, <1>2, <1>4, WalkStep
<1>6. Types'
  BY <1>1, <1>2, <1>5 DEF Types
<1>7. /\ Family'
      /\ WaitJustified'
      /\ Forking'
  BY <1>1, <1>2, <1>3, <1>5, SameFamily, SameSleepers, SameForks
<1> QED BY <1>5, <1>6, <1>7 DEF IInv

\* A process sleeps for something other than a child.
LEMMA SleepIOStep ==
    ASSUME IInv, NEW c \in CPUs, NEW p \in Slots, SleepIO(c, p)
    PROVE  IInv'
<1> DEFINE st == [state EXCEPT ![p] = "SLEEPING"]
<1>1. /\ cpu[c] = p /\ Walk(c, st) /\ chan' = [chan EXCEPT ![p] = IO]
      /\ UNCHANGED <<parent, killed, pc, np>>
  BY DEF SleepIO, Runs, Asleep
<1>2. Types /\ st \in [Slots -> States] /\ state[p] = "RUNNING"
  BY <1>1, OnCPU DEF IInv, Types, States
<1>3. \A q \in Slots : st[q] = IF q = p THEN "SLEEPING" ELSE state[q]
  BY <1>2 DEF Types
<1> HIDE DEF st
<1>4. /\ \A q \in Slots : st[q] = "RUNNING" <=> state[q] = "RUNNING" /\ q # cpu[c]
      /\ \A q \in Slots : state[q] = "RUNNABLE" => st[q] = "RUNNABLE"
  BY <1>1, <1>2, <1>3
<1>5. /\ state' \in [Slots -> States] /\ cpu' \in [CPUs -> Slots \cup {NULL}]
      /\ scan' \in [CPUs -> 0..NPROC] /\ passed' \in [Slots -> Nat]
      /\ \A q \in Slots : \/ state'[q] = st[q]
                          \/ st[q] = "RUNNABLE" /\ state'[q] = "RUNNING"
      /\ Running' /\ Passing'
  BY <1>1, <1>2, <1>4, WalkStep
<1>6. chan' \in [Slots -> Slots \cup {NULL, IO}]
  BY <1>1, <1>2 DEF Types
<1>7. Types'
  BY <1>1, <1>2, <1>5, <1>6 DEF Types
<1>8. Family' /\ Forking'
  BY <1>1, <1>2, <1>3, <1>5, SameFamily, SameForks
<1>9. chan'[p] # p /\ \A q \in Slots \ {p} : chan'[q] = chan[q]
  BY <1>1, <1>2, Numbers DEF Types
<1>10. WaitJustified'
  BY <1>1, <1>2, <1>3, <1>5, <1>9, SameSleepers
<1> QED BY <1>5, <1>7, <1>8, <1>10 DEF IInv

\* wait() without a zombie goes to sleep.
LEMMA WaitSleepStep ==
    ASSUME IInv, NEW c \in CPUs, NEW p \in Slots, WaitSleep(c, p)
    PROVE  IInv'
<1> DEFINE st == [state EXCEPT ![p] = "SLEEPING"]
<1>1. /\ cpu[c] = p /\ Walk(c, st) /\ chan' = [chan EXCEPT ![p] = p]
      /\ NoZombie(p) /\ Kids(p) # {} /\ ~killed[p] /\ pc[p] \in {"user", "wait"}
      /\ pc' = [pc EXCEPT ![p] = "wait"]
      /\ UNCHANGED <<parent, killed, np>>
  BY DEF WaitSleep, Asleep
<1>2. Types /\ st \in [Slots -> States] /\ state[p] = "RUNNING"
  BY <1>1, OnCPU DEF IInv, Types, States
<1>3. \A q \in Slots : st[q] = IF q = p THEN "SLEEPING" ELSE state[q]
  BY <1>2 DEF Types
<1> HIDE DEF st
<1>4. /\ \A q \in Slots : st[q] = "RUNNING" <=> state[q] = "RUNNING" /\ q # cpu[c]
      /\ \A q \in Slots : state[q] = "RUNNABLE" => st[q] = "RUNNABLE"
  BY <1>1, <1>2, <1>3
<1>5. /\ state' \in [Slots -> States] /\ cpu' \in [CPUs -> Slots \cup {NULL}]
      /\ scan' \in [CPUs -> 0..NPROC] /\ passed' \in [Slots -> Nat]
      /\ \A q \in Slots : \/ state'[q] = st[q]
                          \/ st[q] = "RUNNABLE" /\ state'[q] = "RUNNING"
      /\ Running' /\ Passing'
  BY <1>1, <1>2, <1>4, WalkStep
<1>6. /\ chan' \in [Slots -> Slots \cup {NULL, IO}]
      /\ pc' \in [Slots -> {"user", "fork", "wait"}]
      /\ \A q \in Slots \ {p} : chan'[q] = chan[q] /\ pc'[q] = pc[q]
      /\ pc'[p] = "wait"
  BY <1>1, <1>2 DEF Types
<1>7. Types'
  BY <1>1, <1>2, <1>5, <1>6 DEF Types
<1>8. Family'
  BY <1>1, <1>2, <1>3, <1>5, SameFamily
<1>9. Forking'
  BY <1>1, <1>2, <1>3, <1>5, <1>6, SameForks
<1>10. \A q \in Slots : /\ state'[q] = "ZOMBIE" => state[q] = "ZOMBIE"
                        /\ state'[q] = "SLEEPING" => q = p \/ state[q] = "SLEEPING"
  BY <1>3, <1>5
<1>11. WaitJustified'
  <2> SUFFICES ASSUME NEW q \in Slots, state'[q] = "SLEEPING", chan'[q] = q
               PROVE  Kids(q)' # {} /\ NoZombie(q)' /\ ~killed'[q]
    BY DEF WaitJustified
  <2>1. Kids(q) # {} /\ NoZombie(q) /\ ~killed[q]
    BY <1>1, <1>6, <1>10 DEF IInv, WaitJustified
  <2> QED BY <1>1, <1>10, <2>1 DEF Kids, NoZombie
<1> QED BY <1>5, <1>7, <1>8, <1>9, <1>11 DEF IInv

\* exit(): children go to init, who waits is woken, and the process is a zombie.
LEMMA ExitStep ==
    ASSUME IInv, NEW c \in CPUs, NEW p \in Slots, exit(c, p)
    PROVE  IInv'
<1> DEFINE C  == {parent[p]} \cup
                 IF \E q \in Slots : parent[q] = p /\ state[q] = "ZOMBIE"
                 THEN {initproc} ELSE {}
           st == [Wakeup1(state, C) EXCEPT ![p] = "ZOMBIE"]
<1>1. /\ cpu[c] = p /\ p # initproc /\ pc[p] = "user" /\ Walk(c, st)
      /\ parent' = [q \in Slots |-> IF parent[q] = p THEN initproc ELSE parent[q]]
      /\ UNCHANGED <<chan, killed, pc, np>>
  BY DEF exit, Runs
<1>2. Types /\ state[p] = "RUNNING"
  BY <1>1, OnCPU DEF IInv
<1>3. \A q \in Slots : st[q] = IF q = p THEN "ZOMBIE"
                               ELSE IF state[q] = "SLEEPING" /\ chan[q] \in C
                                    THEN "RUNNABLE" ELSE state[q]
  BY DEF Wakeup1
<1>4. st \in [Slots -> States]
  BY <1>2 DEF Types, States, Wakeup1
<1>5. /\ parent[p] \in C
      /\ \A q \in Slots : parent[q] = p /\ state[q] = "ZOMBIE" => initproc \in C
  OBVIOUS
<1> HIDE DEF st, C
<1>6. /\ \A q \in Slots : st[q] = "RUNNING" <=> state[q] = "RUNNING" /\ q # cpu[c]
      /\ \A q \in Slots : state[q] = "RUNNABLE" => st[q] = "RUNNABLE"
  BY <1>1, <1>2, <1>3
<1>7. /\ state' \in [Slots -> States] /\ cpu' \in [CPUs -> Slots \cup {NULL}]
      /\ scan' \in [CPUs -> 0..NPROC] /\ passed' \in [Slots -> Nat]
      /\ \A q \in Slots : \/ state'[q] = st[q]
                          \/ st[q] = "RUNNABLE" /\ state'[q] = "RUNNING"
      /\ Running' /\ Passing'
  BY <1>1, <1>4, <1>6, WalkStep
<1>8. /\ parent' \in [Slots -> Slots \cup {NULL}]
      /\ \A q \in Slots : parent'[q] = IF parent[q] = p THEN initproc ELSE parent[q]
  BY <1>1, <1>2, Numbers DEF Types
<1>9. Types'
  BY <1>1, <1>2, <1>7, <1>8 DEF Types
<1>10. \A q \in Slots :
          /\ state'[q] \in {"UNUSED", "EMBRYO"} <=> state[q] \in {"UNUSED", "EMBRYO"}
          /\ state'[q] = "ZOMBIE" <=> state[q] = "ZOMBIE" \/ q = p
          /\ state'[q] = "SLEEPING" => state[q] = "SLEEPING" /\ chan[q] \notin C
          /\ state[q] = "EMBRYO" => state'[q] = "EMBRYO"
  BY <1>2, <1>3, <1>7
<1>11. Forking'
  BY <1>1, <1>10, SameForks
<1>12. Family'
  <2>1. state'[initproc] \notin {"UNUSED", "EMBRYO", "ZOMBIE"} /\ parent'[initproc] = NULL
    BY <1>1, <1>8, <1>10, Numbers DEF IInv, Family
  <2>2. ASSUME NEW q \in Slots
        PROVE  IF state'[q] \in {"UNUSED", "EMBRYO"} \/ q = initproc
               THEN parent'[q] = NULL
               ELSE /\ parent'[q] \in Slots \ {q}
                    /\ state'[parent'[q]] \notin {"UNUSED", "EMBRYO", "ZOMBIE"}
    <3>1. CASE state[q] \in {"UNUSED", "EMBRYO"} \/ q = initproc
      BY <1>8, <1>10, <3>1, Numbers DEF IInv, Family
    <3>2. CASE ~(state[q] \in {"UNUSED", "EMBRYO"} \/ q = initproc) /\ parent[q] = p
      BY <1>8, <1>10, <2>1, <3>2, Numbers
    <3>3. CASE ~(state[q] \in {"UNUSED", "EMBRYO"} \/ q = initproc) /\ parent[q] # p
      BY <1>8, <1>10, <3>3 DEF IInv, Family
    <3> QED BY <3>1, <3>2, <3>3
  <2> QED BY <2>1, <2>2 DEF Family
<1>13. WaitJustified'
  <2> SUFFICES ASSUME NEW q \in Slots, state'[q] = "SLEEPING", chan'[q] = q
               PROVE  Kids(q)' # {} /\ NoZombie(q)' /\ ~killed'[q]
    BY DEF WaitJustified
  <2>1. state[q] = "SLEEPING" /\ chan[q] = q /\ q \notin C /\ q # p
    BY <1>1, <1>2, <1>10
  <2>2. Kids(q) # {} /\ NoZombie(q) /\ ~killed[q]
    BY <2>1 DEF IInv, WaitJustified
  <2>3. Kids(q)' # {}
    BY <1>8, <2>1, <2>2 DEF Kids
  <2>4. ASSUME NEW x \in Slots, parent'[x] = q PROVE state'[x] # "ZOMBIE"
    <3>1. CASE parent[x] = q
      BY <1>5, <1>10, <2>1, <2>2, <3>1 DEF Kids, NoZombie
    <3>2. CASE parent[x] # q
      <4>1. parent[x] = p /\ q = initproc
        BY <1>8, <2>4, <3>2
      <4>2. state[x] # "ZOMBIE" /\ x # p
        BY <1>1, <1>2, <1>5, <2>1, <4>1 DEF IInv, Family
      <4> QED BY <1>10, <4>2
    <3> QED BY <3>1, <3>2
  <2>5. NoZombie(q)'
    BY <2>4 DEF NoZombie, Kids
  <2> QED BY <1>1, <2>2, <2>3, <2>5
<1> QED BY <1>7, <1>9, <1>11, <1>12, <1>13 DEF IInv

\* wakeup() of those who sleep for something other than a child.
LEMMA WakeupStep ==
    ASSUME IInv, wakeup
    PROVE  IInv'
<1>1. /\ state' = Wakeup1(state, {IO})
      /\ UNCHANGED <<parent, chan, killed, cpus, pc, np>>
  BY DEF wakeup
<1>2. Types
  BY DEF IInv
<1>3. \A q \in Slots : state'[q] = IF state[q] = "SLEEPING" /\ chan[q] = IO
                                   THEN "RUNNABLE" ELSE state[q]
  BY <1>1 DEF Wakeup1
<1>4. Types'
  <2>1. state' \in [Slots -> States]
    BY <1>1, <1>2 DEF Wakeup1, Types, States
  <2> QED BY <1>1, <1>2, <2>1 DEF Types, cpus
<1>5. Running' /\ Passing'
  BY <1>1, <1>3, NoWalk
<1>6. Family' /\ WaitJustified' /\ Forking'
  BY <1>1, <1>3, SameFamily, SameSleepers, SameForks
<1> QED BY <1>4, <1>5, <1>6 DEF IInv

\* kill() marks a process and wakes it.
LEMMA KillStep ==
    ASSUME IInv, NEW p \in Slots, kill(p)
    PROVE  IInv'
<1>1. /\ killed' = [killed EXCEPT ![p] = TRUE]
      /\ state' = [state EXCEPT ![p] = IF state[p] = "SLEEPING" THEN "RUNNABLE"
                                       ELSE state[p]]
      /\ UNCHANGED <<parent, chan, cpus, pc, np>>
  BY DEF kill
<1>2. Types
  BY DEF IInv
<1>3. /\ \A q \in Slots : state'[q] = IF q = p /\ state[q] = "SLEEPING"
                                      THEN "RUNNABLE" ELSE state[q]
      /\ \A q \in Slots : q # p => killed'[q] = killed[q]
  BY <1>1, <1>2 DEF Types
<1>4. Types'
  <2>1. state' \in [Slots -> States] /\ killed' \in [Slots -> BOOLEAN]
    BY <1>1, <1>2 DEF Types, States
  <2> QED BY <1>1, <1>2, <2>1 DEF Types, cpus
<1>5. Running' /\ Passing'
  BY <1>1, <1>3, NoWalk
<1>6. Family' /\ Forking'
  BY <1>1, <1>3, SameFamily, SameForks
<1>7. WaitJustified'
  <2> SUFFICES ASSUME NEW q \in Slots, state'[q] = "SLEEPING", chan'[q] = q
               PROVE  Kids(q)' # {} /\ NoZombie(q)' /\ ~killed'[q]
    BY DEF WaitJustified
  <2>1. q # p /\ state[q] = "SLEEPING" /\ chan[q] = q
    BY <1>1, <1>3
  <2>2. Kids(q) # {} /\ NoZombie(q) /\ ~killed[q]
    BY <2>1 DEF IInv, WaitJustified
  <2> QED BY <1>1, <1>3, <2>1, <2>2 DEF Kids, NoZombie
<1> QED BY <1>4, <1>5, <1>6, <1>7 DEF IInv

\* allocproc() takes a free slot.
LEMMA AllocprocStep ==
    ASSUME IInv, NEW c \in CPUs, NEW p \in Slots, Allocproc(c, p)
    PROVE  IInv'
<1>1. PICK q \in Slots : /\ state[q] = "UNUSED"
                         /\ state' = [state EXCEPT ![q] = "EMBRYO"]
                         /\ np' = [np EXCEPT ![p] = q]
  BY DEF Allocproc
<1>2. pc' = [pc EXCEPT ![p] = "fork"] /\ UNCHANGED <<parent, chan, killed, cpus>>
  BY DEF Allocproc
<1>3. Types
  BY DEF IInv
<1>4. \A x \in Slots : /\ state'[x] = IF x = q THEN "EMBRYO" ELSE state[x]
                       /\ np'[x] = IF x = p THEN q ELSE np[x]
                       /\ pc'[x] = IF x = p THEN "fork" ELSE pc[x]
  BY <1>1, <1>2, <1>3 DEF Types
<1>5. Types'
  <2>1. /\ state' \in [Slots -> States] /\ np' \in [Slots -> Slots \cup {NULL}]
        /\ pc' \in [Slots -> {"user", "fork", "wait"}]
    BY <1>1, <1>2, <1>3 DEF Types, States
  <2> QED BY <1>2, <1>3, <2>1 DEF Types, cpus
<1>6. Running' /\ Passing'
  BY <1>1, <1>2, <1>4, NoWalk
<1>7. Family' /\ WaitJustified'
  BY <1>1, <1>2, <1>4, SameFamily, SameSleepers
<1>8. Forking'
  <2>1. \A x \in Slots : x # p /\ pc[x] = "fork" =>
           np[x] \in Slots /\ np[x] # q /\ state[np[x]] = "EMBRYO"
    BY <1>1 DEF IInv, Forking
  <2> QED BY <1>4, <2>1 DEF IInv, Forking
<1> QED BY <1>5, <1>6, <1>7, <1>8 DEF IInv

\* The child of a fork() becomes runnable.
LEMMA ForkDoneStep ==
    ASSUME IInv, NEW c \in CPUs, NEW p \in Slots, ForkDone(c, p)
    PROVE  IInv'
<1> DEFINE q == np[p]
<1>1. /\ cpu[c] = p /\ pc[p] = "fork"
      /\ state' = [state EXCEPT ![q] = "RUNNABLE"]
      /\ parent' = [parent EXCEPT ![q] = p]
      /\ pc' = [pc EXCEPT ![p] = "user"] /\ np' = [np EXCEPT ![p] = NULL]
      /\ UNCHANGED <<chan, killed, cpus>>
  BY DEF ForkDone, Runs
<1>2. Types /\ state[p] = "RUNNING"
  BY <1>1, OnCPU DEF IInv
<1>3. q \in Slots /\ state[q] = "EMBRYO" /\ q # p /\ q # initproc
  BY <1>1, <1>2 DEF IInv, Forking, Family
<1> HIDE DEF q
<1>4. \A x \in Slots : /\ state'[x] = IF x = q THEN "RUNNABLE" ELSE state[x]
                       /\ parent'[x] = IF x = q THEN p ELSE parent[x]
                       /\ pc'[x] = IF x = p THEN "user" ELSE pc[x]
                       /\ np'[x] = IF x = p THEN NULL ELSE np[x]
  BY <1>1, <1>2 DEF Types
<1>5. Types'
  <2>1. /\ state' \in [Slots -> States] /\ np' \in [Slots -> Slots \cup {NULL}]
        /\ parent' \in [Slots -> Slots \cup {NULL}]
        /\ pc' \in [Slots -> {"user", "fork", "wait"}]
    BY <1>1, <1>2 DEF Types, States
  <2> QED BY <1>1, <1>2, <2>1 DEF Types, cpus
<1>6. Running' /\ Passing'
  BY <1>1, <1>3, <1>4, NoWalk
<1>7. Family'
  <2>1. state'[initproc] \notin {"UNUSED", "EMBRYO", "ZOMBIE"} /\ parent'[initproc] = NULL
    BY <1>3, <1>4, Numbers DEF IInv, Family
  <2>2. ASSUME NEW x \in Slots
        PROVE  IF state'[x] \in {"UNUSED", "EMBRYO"} \/ x = initproc
               THEN parent'[x] = NULL
               ELSE /\ parent'[x] \in Slots \ {x}
                    /\ state'[parent'[x]] \notin {"UNUSED", "EMBRYO", "ZOMBIE"}
    <3>1. CASE x = q
      BY <1>2, <1>3, <1>4, <3>1
    <3>2. CASE x # q
      BY <1>4, <3>2 DEF IInv, Family
    <3> QED BY <3>1, <3>2
  <2> QED BY <2>1, <2>2 DEF Family
<1>8. Forking'
  <2>1. \A x \in Slots : x # p /\ pc[x] = "fork" =>
           np[x] \in Slots /\ np[x] # q /\ state[np[x]] = "EMBRYO"
    BY <1>1 DEF IInv, Forking, q
  <2> QED BY <1>4, <2>1 DEF IInv, Forking
<1>9. WaitJustified'
  <2> SUFFICES ASSUME NEW x \in Slots, state'[x] = "SLEEPING", chan'[x] = x
               PROVE  Kids(x)' # {} /\ NoZombie(x)' /\ ~killed'[x]
    BY DEF WaitJustified
  <2>1. x # q /\ x # p /\ state[x] = "SLEEPING" /\ chan[x] = x
    BY <1>1, <1>2, <1>3, <1>4
  <2>2. Kids(x) # {} /\ NoZombie(x) /\ ~killed[x]
    BY <2>1 DEF IInv, WaitJustified
  <2>3. Kids(x)' = Kids(x)
    <3>1. parent[q] = NULL
      BY <1>3 DEF IInv, Family
    <3> QED BY <1>4, <2>1, <3>1, Numbers DEF Kids
  <2>4. NoZombie(x)'
    BY <1>4, <2>2, <2>3 DEF NoZombie, Kids
  <2> QED BY <1>1, <2>2, <2>3, <2>4
<1> QED BY <1>5, <1>6, <1>7, <1>8, <1>9 DEF IInv

\* A fork() that fails gives the slot back.
LEMMA ForkFailStep ==
    ASSUME IInv, NEW c \in CPUs, NEW p \in Slots, ForkFail(c, p)
    PROVE  IInv'
<1> DEFINE q == np[p]
<1>1. /\ cpu[c] = p /\ pc[p] = "fork"
      /\ state' = [state EXCEPT ![q] = "UNUSED"]
      /\ pc' = [pc EXCEPT ![p] = "user"] /\ np' = [np EXCEPT ![p] = NULL]
      /\ UNCHANGED <<parent, chan, killed, cpus>>
  BY DEF ForkFail, Runs
<1>2. Types
  BY DEF IInv
<1>3. q \in Slots /\ state[q] = "EMBRYO"
  BY <1>1 DEF IInv, Forking
<1> HIDE DEF q
<1>4. \A x \in Slots : /\ state'[x] = IF x = q THEN "UNUSED" ELSE state[x]
                       /\ pc'[x] = IF x = p THEN "user" ELSE pc[x]
                       /\ np'[x] = IF x = p THEN NULL ELSE np[x]
  BY <1>1, <1>2 DEF Types
<1>5. Types'
  <2>1. /\ state' \in [Slots -> States] /\ np' \in [Slots -> Slots \cup {NULL}]
        /\ pc' \in [Slots -> {"user", "fork", "wait"}]
    BY <1>1, <1>2 DEF Types, States
  <2> QED BY <1>1, <1>2, <2>1 DEF Types, cpus
<1>6. Running' /\ Passing'
  BY <1>1, <1>3, <1>4, NoWalk
<1>7. Family' /\ WaitJustified'
  BY <1>1, <1>3, <1>4, SameFamily, SameSleepers
<1>8. Forking'
  <2>1. \A x \in Slots : x # p /\ pc[x] = "fork" =>
           np[x] \in Slots /\ np[x] # q /\ state[np[x]] = "EMBRYO"
    BY <1>1 DEF IInv, Forking, q
  <2> QED BY <1>4, <2>1 DEF IInv, Forking
<1> QED BY <1>5, <1>6, <1>7, <1>8 DEF IInv

\* wait() reaps a zombie.
LEMMA WaitReapStep ==
    ASSUME IInv, NEW c \in CPUs, NEW p \in Slots, WaitReap(c, p)
    PROVE  IInv'
<1>1. PICK q \in Kids(p) : /\ state[q] = "ZOMBIE"
                           /\ state' = [state EXCEPT ![q] = "UNUSED"]
                           /\ parent' = [parent EXCEPT ![q] = NULL]
                           /\ killed' = [killed EXCEPT ![q] = FALSE]
  BY DEF WaitReap
<1>2. /\ cpu[c] = p /\ pc[p] \in {"user", "wait"} /\ pc' = [pc EXCEPT ![p] = "user"]
      /\ UNCHANGED <<chan, cpus, np>>
  BY DEF WaitReap
<1>3. Types /\ state[p] = "RUNNING"
  BY <1>2, OnCPU DEF IInv
<1>4. q \in Slots /\ parent[q] = p
  BY DEF Kids
<1>5. \A x \in Slots : /\ state'[x] = IF x = q THEN "UNUSED" ELSE state[x]
                       /\ parent'[x] = IF x = q THEN NULL ELSE parent[x]
                       /\ pc'[x] = IF x = p THEN "user" ELSE pc[x]
                       /\ x # q => killed'[x] = killed[x]
  BY <1>1, <1>2, <1>3 DEF Types
<1>6. Types'
  <2>1. /\ state' \in [Slots -> States] /\ parent' \in [Slots -> Slots \cup {NULL}]
        /\ pc' \in [Slots -> {"user", "fork", "wait"}] /\ killed' \in [Slots -> BOOLEAN]
    BY <1>1, <1>2, <1>3 DEF Types, States
  <2> QED BY <1>2, <1>3, <2>1 DEF Types, cpus
<1>7. Running' /\ Passing'
  BY <1>1, <1>2, <1>5, NoWalk
<1>8. Family'
  <2>1. q # initproc
    BY <1>1 DEF IInv, Family
  <2>2. state'[initproc] \notin {"UNUSED", "EMBRYO", "ZOMBIE"} /\ parent'[initproc] = NULL
    BY <1>5, <2>1, Numbers DEF IInv, Family
  <2>3. ASSUME NEW x \in Slots
        PROVE  IF state'[x] \in {"UNUSED", "EMBRYO"} \/ x = initproc
               THEN parent'[x] = NULL
               ELSE /\ parent'[x] \in Slots \ {x}
                    /\ state'[parent'[x]] \notin {"UNUSED", "EMBRYO", "ZOMBIE"}
    <3>1. CASE x = q
      BY <1>5, <3>1
    <3>2. CASE x # q
      BY <1>1, <1>5, <3>2 DEF IInv, Family
    <3> QED BY <3>1, <3>2
  <2> QED BY <2>2, <2>3 DEF Family
<1>9. Forking'
  BY <1>1, <1>2, <1>5, SameForks
<1>10. WaitJustified'
  <2> SUFFICES ASSUME NEW x \in Slots, state'[x] = "SLEEPING", chan'[x] = x
               PROVE  Kids(x)' # {} /\ NoZombie(x)' /\ ~killed'[x]
    BY DEF WaitJustified
  <2>1. x # q /\ x # p /\ state[x] = "SLEEPING" /\ chan[x] = x
    BY <1>2, <1>3, <1>5
  <2>2. Kids(x) # {} /\ NoZombie(x) /\ ~killed[x]
    BY <2>1 DEF IInv, WaitJustified
  <2>3. Kids(x)' = Kids(x)
    <3>1. \A y \in Slots : parent'[y] = x <=> parent[y] = x
      BY <1>4, <1>5, <2>1, Numbers
    <3> QED BY <3>1 DEF Kids
  <2>4. NoZombie(x)'
    BY <1>5, <2>2, <2>3 DEF NoZombie, Kids
  <2> QED BY <1>5, <2>1, <2>2, <2>3, <2>4
<1> QED BY <1>6, <1>7, <1>8, <1>9, <1>10 DEF IInv

\* wait() fails.
LEMMA WaitFailStep ==
    ASSUME IInv, NEW c \in CPUs, NEW p \in Slots, WaitFail(c, p)
    PROVE  IInv'
<1>1. /\ pc' = [pc EXCEPT ![p] = "user"]
      /\ UNCHANGED <<state, parent, chan, killed, cpus, np>>
  BY DEF WaitFail
<1>2. Types
  BY DEF IInv
<1>3. Types'
  BY <1>1, <1>2 DEF Types, cpus
<1>4. \A q \in Slots : pc'[q] = "fork" => pc[q] = "fork"
  BY <1>1, <1>2 DEF Types
<1>5. Running' /\ Passing' /\ Family' /\ WaitJustified' /\ Forking'
  BY <1>1, <1>4, NoWalk, SameFamily, SameSleepers, SameForks
<1> QED BY <1>3, <1>5 DEF IInv

-----------------------------------------------------------------------------
(* The theorems.                                                            *)

\* The table as userinit() leaves it.
LEMMA InitIInv == Init => IInv
<1> SUFFICES ASSUME Init PROVE IInv
  OBVIOUS
<1>1. Types
  BY Numbers DEF Init, Types, States
<1>2. Running /\ Family /\ Forking /\ WaitJustified
  BY Numbers DEF Init, Running, Family, Forking, WaitJustified
<1>3. Passing
  <2>1. \A p \in Slots : passed[p] = 0
    BY DEF Init
  <2>2. NCPU * (NPROC - 1) \in Int
    BY Numbers
  <2> QED BY <2>1, <2>2, TurnsBound DEF Passing
<1> QED BY <1>1, <1>2, <1>3 DEF IInv

\* No step breaks the invariant.
LEMMA NextIInv == IInv /\ [Next]_vars => IInv'
<1> SUFFICES ASSUME IInv, [Next]_vars PROVE IInv'
  OBVIOUS
<1>1. CASE wakeup
  BY <1>1, WakeupStep
<1>2. ASSUME NEW q \in Slots, kill(q) PROVE IInv'
  BY <1>2, KillStep
<1>3. ASSUME NEW c \in CPUs, scheduler(c) PROVE IInv'
  BY <1>3, SchedulerStep
<1>4. ASSUME NEW c \in CPUs, NEW p \in Slots,
             \/ yield(c, p) \/ SleepIO(c, p)
             \/ Allocproc(c, p) \/ ForkDone(c, p) \/ ForkFail(c, p)
             \/ exit(c, p) \/ WaitReap(c, p) \/ WaitFail(c, p) \/ WaitSleep(c, p)
      PROVE  IInv'
  BY <1>4, YieldStep, SleepIOStep, AllocprocStep, ForkDoneStep, ForkFailStep, ExitStep,
     WaitReapStep, WaitFailStep, WaitSleepStep
<1>5. CASE UNCHANGED vars
  <2>1. UNCHANGED <<state, parent, chan, killed, cpus, pc, np>>
    BY <1>5 DEF vars, cpus
  <2>2. Types'
    BY <2>1 DEF IInv, Types, cpus
  <2>3. Running' /\ Passing' /\ Family' /\ WaitJustified' /\ Forking'
    BY <2>1, NoWalk, SameFamily, SameSleepers, SameForks
  <2> QED BY <2>2, <2>3 DEF IInv
<1> QED BY <1>1, <1>2, <1>3, <1>4, <1>5 DEF Next

\* The invariant holds in every state of the table.
THEOREM PlainInvariance == Spec => []IInv
<1>1. Init => IInv
  BY InitIInv
<1>2. IInv /\ [Next]_vars => IInv'
  BY NextIInv
<1> QED BY <1>1, <1>2, PTL DEF Spec

\* The default build misses no exit, runs nobody twice, orphans nobody, and passes
\* a runnable process at most NCPU * (NPROC - 1) times.
THEOREM PlainTableSound == Spec => []PlainRight
<1>1. ASSUME IInv, NEW p \in Slots
      PROVE  Cardinality({c \in CPUs : cpu[c] = p})
                = IF state[p] = "RUNNING" THEN 1 ELSE 0
  <2>1. CASE state[p] = "RUNNING"
    <3>1. PICK c \in CPUs : cpu[c] = p
      BY <1>1, <2>1 DEF IInv, Running
    <3>2. {d \in CPUs : cpu[d] = p} = {c}
      BY <1>1, <3>1, Numbers DEF IInv, Running
    <3> QED BY <2>1, <3>2, FS_Singleton
  <2>2. CASE state[p] # "RUNNING"
    <3>1. {c \in CPUs : cpu[c] = p} = {}
      BY <1>1, <2>2, OnCPU
    <3> QED BY <2>2, <3>1, FS_EmptySet
  <2> QED BY <2>1, <2>2
<1>2. ASSUME IInv PROVE TableRight
  <2>1. \A p \in Slots \ {initproc} : state[p] \notin {"UNUSED", "EMBRYO"} =>
           parent[p] # NULL /\ state[parent[p]] \notin {"UNUSED", "EMBRYO", "ZOMBIE"}
    BY <1>2, Numbers DEF IInv, Family
  <2> QED BY <1>1, <1>2, <2>1 DEF TableRight
<1>3. ASSUME IInv PROVE RoundRobin
  <2>1. ASSUME NEW p \in Slots PROVE passed[p] <= NCPU * (NPROC - 1)
    <3>1. /\ passed[p] \in Nat /\ Cardinality(Turns(p)) \in Nat
          /\ passed[p] + Cardinality(Turns(p)) <= NCPU * (NPROC - 1)
      BY <1>3, TurnsBound DEF IInv, Types, Passing
    <3>2. NCPU * (NPROC - 1) \in Int
      BY Numbers
    <3> QED BY <3>1, <3>2
  <2> QED BY <2>1 DEF RoundRobin
<1>4. IInv => PlainRight
  BY <1>2, <1>3 DEF IInv, PlainRight
<1> QED BY <1>4, PlainInvariance, PTL
=============================================================================
