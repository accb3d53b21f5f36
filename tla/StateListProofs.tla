-------------------------- MODULE StateListProofs ---------------------------
(***************************************************************************)
(* Proofs that the pointers of proc.c implement lists of processes, for    *)
(* any size of the table: stateListAdd() and stateListRemove() append to   *)
(* and delete from sequences, no process is lost, and the walk of          *)
(* wakeup1() over pointers that it changes itself wakes the first sleeper. *)
(***************************************************************************)
EXTENDS StateList, FiniteSetTheorems, WellFoundedInduction, TLAPS

Pointers ==
    [head : [Lists -> 0..NPROC], tail : [Lists -> 0..NPROC], next : [Slots -> 0..NPROC]]

NoRepeats(s) == \A i, j \in 1..Len(s) : s[i] = s[j] => i = j

\* The pointers of list l are those of the sequence s.
Linked(g, l, s) ==
    /\ s \in Seq(Slots) /\ NoRepeats(s)
    /\ s = <<>> => g.head[l] = NULL /\ g.tail[l] = NULL
    /\ s # <<>> => /\ g.head[l] = s[1] /\ g.tail[l] = s[Len(s)]
                   /\ g.next[s[Len(s)]] = NULL
    /\ \A i \in 1..(Len(s) - 1) : g.next[s[i]] = s[i + 1]

Without(s, p) == SL!Without(s, p)

Types ==
    /\ state \in [Slots -> Lists \cup {"none"}]
    /\ chan \in [Slots -> Chans \cup {NoChan}]
    /\ walk \in 0..NPROC /\ wchan \in Chans \cup {NoChan} /\ before \in Seq(Slots)

\* Each list is intact, and a process is on the list of its state, st.
Intact(g) == g \in Pointers /\ \A l \in Lists : Linked(g, l, Contents(g, l))
Placed(g, st) ==
    \A l \in Lists, p \in Slots : p \in Members(Contents(g, l)) <=> st[p] = l

\* wakeup1() before it has found a sleeper on its channel, the first i of the list
\* not being one, and after that: the process it woke is the end of its new list,
\* and so of the walk.
Searching ==
    \E i \in 0..Len(before) :
       /\ Contents(h, "SLEEPING") = before
       /\ walk = IF i = Len(before) THEN NULL ELSE before[i + 1]
       /\ \A j \in 1..i : chan[before[j]] # wchan

Woken ==
    \E i \in Hits :
       /\ \A j \in Hits : i <= j
       /\ Contents(h, "SLEEPING") = Without(before, before[i])
       /\ walk = NULL

Walking == wchan # NoChan => Searching \/ Woken

IInv == Types /\ Intact(h) /\ Placed(h, state) /\ Walking /\ NeverLost

-----------------------------------------------------------------------------
(* What the pointers of one list say.                                       *)

\* A set of natural numbers has a least one.
LEMMA Least ==
    ASSUME NEW S \in SUBSET Nat, S # {}
    PROVE  \E x \in S : \A y \in S : x <= y
<1> DEFINE R == OpToRel(<, Nat)
<1>1. IsWellFoundedOn(R, Nat)
  BY NatLessThanWellFounded
<1>2. \A x, y \in Nat : x < y => <<x, y>> \in R
  BY DEF OpToRel
<1> HIDE DEF R
<1>3. PICK x \in S : \A y \in S : ~ (<<y, x>> \in R)
  BY <1>1, WFMin
<1>4. ASSUME NEW y \in S PROVE ~(y < x)
  BY <1>2, <1>3
<1> QED BY <1>4

\* The size of an interval from 1, and from 0.
LEMMA IntervalSize ==
    ASSUME NEW n \in Nat
    PROVE  /\ IsFiniteSet(1..n) /\ Cardinality(1..n) = n
           /\ Cardinality(0..(n - 1)) = n
<1>1. IsFiniteSet(1..n) /\ Cardinality(1..n) = IF 1 > n THEN 0 ELSE n - 1 + 1
  BY FS_Interval
<1>2. Cardinality(0..(n - 1)) = IF 0 > n - 1 THEN 0 ELSE n - 1 - 0 + 1
  BY FS_Interval
<1> QED BY <1>1, <1>2

\* A list without repetitions is not longer than the table.
LEMMA Length ==
    ASSUME ListSizes, NEW s \in Seq(Slots), NoRepeats(s)
    PROVE  Len(s) \in 0..NPROC
<1>1. s \in Injection(1..Len(s), Slots)
  BY DEF NoRepeats, Injection, IsInjective
<1>2. IsFiniteSet(Slots) /\ Cardinality(Slots) = NPROC
  BY IntervalSize DEF Slots, ListSizes
<1>a. Len(s) \in Nat /\ Cardinality(1..Len(s)) = Len(s)
  BY IntervalSize
<1>3. Cardinality(1..Len(s)) <= Cardinality(Slots)
  BY <1>1, <1>2, FS_Injection
<1> QED BY <1>2, <1>a, <1>3 DEF ListSizes

\* Following the pointers from the head gives the sequence.
LEMMA ChainIs ==
    ASSUME ListSizes, NEW g \in Pointers, NEW l \in Lists, NEW s, Linked(g, l, s),
           NEW i \in 0..NPROC
    PROVE  Chain(g, l)[i] = IF i < Len(s) THEN s[i + 1] ELSE NULL
<1> DEFINE c == Chain(g, l)
           D(f) == [j \in 0..NPROC |-> IF j = 0 THEN g.head[l]
                                       ELSE IF f[j - 1] = NULL THEN NULL
                                       ELSE g.next[f[j - 1]]]
           w == [j \in 0..NPROC |-> IF j < Len(s) THEN s[j + 1] ELSE NULL]
<1>1. s \in Seq(Slots) /\ Len(s) \in 0..NPROC /\ NULL \notin Slots
  BY Length DEF Linked, Slots, NULL
<1>2. ASSUME NEW j \in 0..NPROC
      PROVE  w[j] = IF j = 0 THEN g.head[l]
                    ELSE IF w[j - 1] = NULL THEN NULL ELSE g.next[w[j - 1]]
  BY <1>1 DEF Linked, ListSizes
<1>3. w = D(w)
  BY <1>2
<1>4. c = D(c)
  <2>1. c = CHOOSE f : f = D(f)
    BY DEF Chain
  <2> HIDE DEF c, D, w
  <2> QED BY <1>3, <2>1
<1> DEFINE S == {j \in 0..NPROC : c[j] # w[j]}
<1>5. S = {}
  <2> SUFFICES ASSUME S # {} PROVE FALSE
    OBVIOUS
  <2>1. S \in SUBSET Nat
    BY DEF ListSizes
  <2>2. PICK j \in S : \A y \in S : j <= y
    <3> HIDE DEF S
    <3> QED BY <2>1, Least
  <2>3. j \in 0..NPROC /\ c[j] # w[j]
    BY <2>2
  <2> HIDE DEF c
  <2>a. 0 \in 0..NPROC
    BY DEF ListSizes
  <2>4. c[0] = g.head[l] /\ w[0] = g.head[l]
    <3>1. w[0] = g.head[l]
      <4> HIDE DEF w
      <4> QED BY <1>2, <2>a
    <3>2. D(c)[0] = g.head[l]
      BY <2>a
    <3> HIDE DEF w, D
    <3> QED BY <1>4, <3>1, <3>2
  <2>5. CASE j = 0
    BY <2>3, <2>4, <2>5
  <2>6. CASE j # 0
    <3>1. j - 1 \in 0..NPROC /\ j - 1 \notin S
      BY <2>2, <2>3, <2>6 DEF ListSizes
    <3>2. c[j - 1] = w[j - 1]
      BY <3>1
    <3>3. c[j] = IF c[j - 1] = NULL THEN NULL ELSE g.next[c[j - 1]]
      BY <1>4, <2>3, <2>6
    <3>4. w[j] = IF w[j - 1] = NULL THEN NULL ELSE g.next[w[j - 1]]
      BY <1>2, <2>3, <2>6
    <3> HIDE DEF w
    <3> QED BY <2>3, <3>2, <3>3, <3>4
  <2> QED BY <2>5, <2>6
<1> QED BY <1>5

\* So Contents() is the sequence.
LEMMA ContentsAre ==
    ASSUME ListSizes, NEW g \in Pointers, NEW l \in Lists, NEW s, Linked(g, l, s)
    PROVE  Contents(g, l) = s
<1> DEFINE c == Chain(g, l)
           n == Cardinality({i \in 0..(NPROC - 1) : c[i] # NULL})
<1>1. s \in Seq(Slots) /\ Len(s) \in 0..NPROC /\ NULL \notin Slots
  BY Length DEF Linked, Slots, NULL
<1>2. \A i \in 0..NPROC : c[i] = IF i < Len(s) THEN s[i + 1] ELSE NULL
  BY ChainIs
<1> HIDE DEF c
<1>3. {i \in 0..(NPROC - 1) : c[i] # NULL} = 0..(Len(s) - 1)
  BY <1>1, <1>2 DEF ListSizes
<1>4. n = Len(s)
  <2>1. Len(s) \in Nat
    BY <1>1
  <2> QED BY <1>3, <2>1, IntervalSize
<1>5. Contents(g, l) = [i \in 1..n |-> c[i - 1]]
  BY DEF Contents, c
<1> HIDE DEF n
<1>6. \A i \in 1..Len(s) : c[i - 1] = s[i]
  BY <1>1, <1>2 DEF ListSizes
<1> QED BY <1>1, <1>4, <1>5, <1>6

-----------------------------------------------------------------------------
(* stateListAdd                                                             *)

\* The pointers after stateListAdd().
LEMMA AddPointers ==
    ASSUME ListSizes, NEW g \in Pointers, NEW m \in Lists, NEW p \in Slots,
           g.head[m] # NULL => g.tail[m] \in Slots
    PROVE  LET g1 == stateListAdd(g, m, p) IN
           /\ g1 \in Pointers
           /\ g1.head = [g.head EXCEPT ![m] = IF g.head[m] = NULL THEN p ELSE @]
           /\ g1.tail = [g.tail EXCEPT ![m] = p]
           /\ g1.next = IF g.head[m] = NULL THEN [g.next EXCEPT ![p] = NULL]
                        ELSE [g.next EXCEPT ![g.tail[m]] = p, ![p] = NULL]
<1>1. p \in 0..NPROC /\ NULL \in 0..NPROC
  BY DEF Slots, NULL, ListSizes
<1>2. CASE g.head[m] = NULL
  <2>1. stateListAdd(g, m, p) = [head |-> [g.head EXCEPT ![m] = p],
                                 tail |-> [g.tail EXCEPT ![m] = p],
                                 next |-> [g.next EXCEPT ![p] = NULL]]
    BY <1>2 DEF stateListAdd, Pointers
  <2> QED BY <1>1, <1>2, <2>1 DEF Pointers
<1>3. CASE g.head[m] # NULL
  <2>1. stateListAdd(g, m, p) = [head |-> g.head,
                                 tail |-> [g.tail EXCEPT ![m] = p],
                                 next |-> [g.next EXCEPT ![g.tail[m]] = p, ![p] = NULL]]
    BY <1>3 DEF stateListAdd, Pointers
  <2> QED BY <1>1, <1>3, <2>1 DEF Pointers
<1> QED BY <1>2, <1>3

\* stateListAdd() appends p to list m and leaves the other lists alone.
LEMMA AddLinked ==
    ASSUME ListSizes, NEW g \in Pointers, NEW m \in Lists, NEW s, Linked(g, m, s),
           NEW p \in Slots, p \notin Members(s)
    PROVE  LET g1 == stateListAdd(g, m, p) IN
           /\ g1 \in Pointers /\ Linked(g1, m, Append(s, p))
           /\ \A l \in Lists \ {m} : \A t :
                 /\ Linked(g, l, t) /\ p \notin Members(t)
                 /\ Members(s) \cap Members(t) = {}
                 => Linked(g1, l, t)
<1> DEFINE g1 == stateListAdd(g, m, p)
           a == Append(s, p)
<1>1. /\ s \in Seq(Slots) /\ Len(s) \in Nat /\ NULL \notin Slots
      /\ \A i \in 1..Len(s) : s[i] \in Slots /\ s[i] # p
  <2>1. s \in Seq(Slots) /\ NULL \notin Slots
    BY DEF Linked, Slots, NULL
  <2> QED BY <2>1 DEF Members
<1>2. g.head[m] = NULL <=> s = <<>>
  <2>1. s = <<>> => g.head[m] = NULL
    BY DEF Linked
  <2>2. s # <<>> => g.head[m] = s[1] /\ 1 \in 1..Len(s)
    BY <1>1 DEF Linked
  <2> QED BY <1>1, <2>1, <2>2
<1>3. s # <<>> => g.tail[m] = s[Len(s)] /\ g.tail[m] \in Slots /\ Len(s) \in 1..Len(s)
  BY <1>1 DEF Linked
<1>4. /\ g1 \in Pointers
      /\ g1.head = [g.head EXCEPT ![m] = IF g.head[m] = NULL THEN p ELSE @]
      /\ g1.tail = [g.tail EXCEPT ![m] = p]
      /\ g1.next = IF g.head[m] = NULL THEN [g.next EXCEPT ![p] = NULL]
                   ELSE [g.next EXCEPT ![g.tail[m]] = p, ![p] = NULL]
  BY <1>2, <1>3, AddPointers
<1> HIDE DEF g1
<1>t. g.head \in [Lists -> 0..NPROC] /\ g.tail \in [Lists -> 0..NPROC]
      /\ g.next \in [Slots -> 0..NPROC]
  BY DEF Pointers
<1>5. /\ g1.next[p] = NULL
      /\ s # <<>> => g1.next[s[Len(s)]] = p
      /\ \A q \in Slots : q # p /\ (s # <<>> => q # s[Len(s)]) => g1.next[q] = g.next[q]
  <2>1. CASE s = <<>>
    BY <1>t, <1>1, <1>2, <1>4, <2>1
  <2>2. CASE s # <<>>
    BY <1>t, <1>1, <1>2, <1>3, <1>4, <2>2
  <2> QED BY <2>1, <2>2
<1>6. /\ a \in Seq(Slots) /\ Len(a) = Len(s) + 1 /\ a[Len(a)] = p /\ a # <<>>
      /\ \A i \in 1..Len(s) : a[i] = s[i]
  BY <1>1
<1>7. Linked(g1, m, a)
  <2>1. NoRepeats(a)
    BY <1>1, <1>6 DEF NoRepeats, Linked
  <2>2. g1.head[m] = a[1] /\ g1.tail[m] = a[Len(a)]
    <3>1. CASE s = <<>>
      BY <1>t, <1>1, <1>2, <1>4, <1>6, <3>1
    <3>2. CASE s # <<>>
      BY <1>t, <1>1, <1>2, <1>4, <1>6, <3>2 DEF Linked
    <3> QED BY <3>1, <3>2
  <2>3. ASSUME NEW i \in 1..(Len(a) - 1) PROVE g1.next[a[i]] = a[i + 1]
    <3>1. i \in 1..Len(s) /\ a[i] = s[i] /\ s # <<>>
      BY <1>1, <1>6
    <3>2. CASE i = Len(s)
      BY <1>5, <1>6, <3>1, <3>2
    <3>3. CASE i # Len(s)
      <4>1. i \in 1..(Len(s) - 1) /\ i + 1 \in 1..Len(s) /\ Len(s) \in 1..Len(s)
        BY <1>1, <3>1, <3>3
      <4>2. s[i] # s[Len(s)] /\ s[i] # p /\ s[i] \in Slots
        BY <1>1, <3>1, <3>3, <4>1 DEF Linked, NoRepeats
      <4>3. g.next[s[i]] = s[i + 1]
        BY <4>1 DEF Linked
      <4> QED BY <1>5, <1>6, <3>1, <4>1, <4>2, <4>3
    <3> QED BY <3>2, <3>3
  <2> HIDE DEF a
  <2> QED BY <1>5, <1>6, <2>1, <2>2, <2>3 DEF Linked
<1>8. ASSUME NEW l \in Lists \ {m}, NEW t, Linked(g, l, t), p \notin Members(t),
             Members(s) \cap Members(t) = {}
      PROVE  Linked(g1, l, t)
  <2>1. t \in Seq(Slots) /\ Len(t) \in Nat
    BY <1>8 DEF Linked
  <2>2. ASSUME NEW i \in 1..Len(t) PROVE g1.next[t[i]] = g.next[t[i]]
    <3>1. t[i] \in Slots /\ t[i] \in Members(t)
      BY <2>1 DEF Members
    <3>2. s # <<>> => s[Len(s)] \in Members(s)
      BY <1>1, <1>3 DEF Members
    <3> QED BY <1>5, <1>8, <3>1, <3>2
  <2>3. g1.head[l] = g.head[l] /\ g1.tail[l] = g.tail[l]
    BY <1>t, <1>4
  <2>4. t # <<>> => Len(t) \in 1..Len(t)
    BY <2>1
  <2>5. \A i \in 1..(Len(t) - 1) : i \in 1..Len(t)
    BY <2>1
  <2> QED BY <1>8, <2>2, <2>3, <2>4, <2>5 DEF Linked
<1> QED BY <1>4, <1>7, <1>8 DEF g1

-----------------------------------------------------------------------------
(* stateListRemove                                                          *)

\* Where p stands in the list, and the list without it.
LEMMA Shorter ==
    ASSUME NEW s \in Seq(Slots), NoRepeats(s), NEW k \in 1..Len(s)
    PROVE  LET r == Without(s, s[k]) IN
           /\ r \in Seq(Slots) /\ Len(r) = Len(s) - 1 /\ NoRepeats(r)
           /\ \A j \in 1..Len(r) : r[j] = IF j < k THEN s[j] ELSE s[j + 1]
           /\ Members(r) = Members(s) \ {s[k]}
<1> DEFINE p == s[k]
           r == [j \in 1..(Len(s) - 1) |-> IF j < k THEN s[j] ELSE s[j + 1]]
<1>1. SL!Index(s, p) = k
  BY DEF SL!Index, NoRepeats
<1>2. Without(s, p) = r
  BY <1>1 DEF Without, SL!Without
<1>3. Len(s) \in Nat /\ Len(s) - 1 \in Nat /\ DOMAIN s = 1..Len(s)
  OBVIOUS
<1>4. r \in Seq(Slots) /\ Len(r) = Len(s) - 1 /\ DOMAIN r = 1..(Len(s) - 1)
  <2>1. \A j \in 1..(Len(s) - 1) : (IF j < k THEN s[j] ELSE s[j + 1]) \in Slots
    BY <1>3
  <2> QED BY <2>1, <1>3
<1> DEFINE f(j) == IF j < k THEN j ELSE j + 1
<1>5. \A j \in 1..Len(r) : /\ f(j) \in 1..Len(s) /\ f(j) # k
                           /\ r[j] = s[f(j)] /\ r[j] = IF j < k THEN s[j] ELSE s[j + 1]
  BY <1>3, <1>4
<1>6. \A i, j \in 1..Len(r) : f(i) = f(j) => i = j
  BY <1>3, <1>4
<1>7. \A i \in 1..Len(s) : i # k => \E j \in 1..Len(r) : f(j) = i
  <2> SUFFICES ASSUME NEW i \in 1..Len(s), i # k PROVE \E j \in 1..Len(r) : f(j) = i
    OBVIOUS
  <2>1. CASE i < k
    <3>1. i \in 1..Len(r) /\ f(i) = i
      BY <1>3, <1>4, <2>1
    <3> QED BY <3>1
  <2>2. CASE i > k
    <3>1. i - 1 \in 1..Len(r) /\ f(i - 1) = i
      BY <1>3, <1>4, <2>2
    <3> QED BY <3>1
  <2> QED BY <1>3, <2>1, <2>2
<1> HIDE DEF r, f
<1>8. NoRepeats(r)
  <2> SUFFICES ASSUME NEW i \in 1..Len(r), NEW j \in 1..Len(r), r[i] = r[j] PROVE i = j
    BY DEF NoRepeats
  <2>1. f(i) = f(j)
    BY <1>5 DEF NoRepeats
  <2> QED BY <1>6, <2>1
<1>9. Members(r) = Members(s) \ {p}
  <2>1. ASSUME NEW j \in DOMAIN r PROVE r[j] \in Members(s) \ {p}
    <3>1. f(j) \in DOMAIN s /\ f(j) # k /\ r[j] = s[f(j)]
      BY <1>3, <1>4, <1>5
    <3>2. s[f(j)] # s[k]
      BY <1>3, <3>1 DEF NoRepeats
    <3> QED BY <3>1, <3>2 DEF Members
  <2>2. ASSUME NEW i \in DOMAIN s, s[i] # p PROVE s[i] \in Members(r)
    <3>1. PICK j \in DOMAIN r : f(j) = i
      BY <1>3, <1>4, <1>7, <2>2
    <3>2. r[j] = s[i]
      BY <1>4, <1>5, <3>1
    <3> QED BY <3>2 DEF Members
  <2> HIDE DEF p
  <2>3. \A x \in Members(r) : x \in Members(s) \ {p}
    BY <2>1 DEF Members
  <2>4. \A x \in Members(s) \ {p} : x \in Members(r)
    BY <2>2 DEF Members
  <2> QED BY <2>3, <2>4
<1> QED BY <1>2, <1>4, <1>5, <1>8, <1>9

\* The pointers after stateListRemove() of the k-th process of the list.
LEMMA RemovePointers ==
    ASSUME ListSizes, NEW g \in Pointers, NEW l \in Lists, NEW s, Linked(g, l, s),
           NEW k \in 1..Len(s)
    PROVE  LET g1 == stateListRemove(g, l, s[k]) IN
           /\ Found(g, l, s[k])
           /\ g1 \in Pointers
           /\ g1.head = [g.head EXCEPT ![l] = IF k = 1 THEN g.next[s[k]] ELSE @]
           /\ g1.tail = [g.tail EXCEPT ![l] = IF k = Len(s)
                                              THEN IF k = 1 THEN NULL ELSE s[k - 1]
                                              ELSE @]
           /\ g1.next = IF k = 1 THEN g.next
                        ELSE [g.next EXCEPT ![s[k - 1]] = g.next[s[k]], ![s[k]] = NULL]
<1> DEFINE p == s[k]
<1>1. /\ s \in Seq(Slots) /\ Len(s) \in Nat /\ NULL \notin Slots /\ s # <<>>
      /\ NULL \in 0..NPROC /\ Slots \subseteq 0..NPROC
  BY DEF Linked, Slots, NULL, ListSizes
<1>2. g.head[l] = s[1] /\ g.tail[l] = s[Len(s)] /\ g.next[s[Len(s)]] = NULL
  BY <1>1 DEF Linked
<1>3. /\ p \in Slots /\ s[1] \in Slots /\ s[Len(s)] \in Slots
      /\ s[1] = p <=> k = 1
      /\ s[Len(s)] = p <=> k = Len(s)
  <2>1. 1 \in 1..Len(s) /\ Len(s) \in 1..Len(s)
    BY <1>1
  <2> QED BY <1>1, <2>1 DEF Linked, NoRepeats
<1>t. g.head \in [Lists -> 0..NPROC] /\ g.tail \in [Lists -> 0..NPROC]
      /\ g.next \in [Slots -> 0..NPROC]
      /\ g = [head |-> g.head, tail |-> g.tail, next |-> g.next]
  BY DEF Pointers
<1>4. Contents(g, l) = s
  BY ContentsAre
<1>5. Found(g, l, p)
  BY <1>1, <1>2, <1>3, <1>4 DEF Found, Members
<1>6. ASSUME k # 1 PROVE Previous(g, l, p) = s[k - 1] /\ s[k - 1] \in Slots
  <2>1. k - 1 \in 1..(Len(s) - 1) /\ k - 1 \in 1..Len(s) /\ k - 1 + 1 = k
    BY <1>1, <1>6
  <2>2. g.next[s[k - 1]] = p /\ s[k - 1] \in Members(s)
    BY <1>1, <2>1 DEF Linked, Members
  <2>3. ASSUME NEW i \in 1..Len(s), g.next[s[i]] = p PROVE i = k - 1
    <3>1. i # Len(s)
      BY <1>1, <1>2, <1>3, <2>3
    <3>2. i \in 1..(Len(s) - 1) /\ i + 1 \in 1..Len(s)
      BY <1>1, <3>1
    <3>3. s[i + 1] = s[k]
      BY <2>3, <3>2 DEF Linked
    <3>4. i + 1 = k
      BY <3>2, <3>3 DEF Linked, NoRepeats
    <3> QED BY <3>4, <3>2
  <2>4. \A q \in Members(s) : g.next[q] = p => q = s[k - 1]
    BY <1>1, <2>3 DEF Members
  <2>5. Previous(g, l, p) = CHOOSE q \in Members(s) : g.next[q] = p
    BY <1>4 DEF Previous
  <2> HIDE DEF p
  <2>6. Previous(g, l, p) = s[k - 1]
    BY <2>2, <2>4, <2>5
  <2> QED BY <1>1, <2>1, <2>6
<1>7. CASE k = 1
  <2>1. g.head[l] = p
    BY <1>2, <1>3, <1>7
  <2>2. stateListRemove(g, l, p) =
           [head |-> [g.head EXCEPT ![l] = g.next[p]],
            tail |-> [g.tail EXCEPT ![l] = IF @ = p THEN NULL ELSE @],
            next |-> g.next]
    BY <2>1, <1>t DEF stateListRemove
  <2> HIDE DEF p
  <2>3. stateListRemove(g, l, p) \in Pointers
    BY <1>t, <1>1, <1>3, <2>2 DEF Pointers
  <2>4. [g.tail EXCEPT ![l] = IF @ = p THEN NULL ELSE @] =
        [g.tail EXCEPT ![l] = IF k = Len(s) THEN NULL ELSE @]
    BY <1>t, <1>2, <1>3
  <2> QED BY <1>5, <1>7, <2>2, <2>3, <2>4 DEF p
<1>8. CASE k # 1
  <2> DEFINE q == s[k - 1]
  <2>1. g.head[l] # p /\ Previous(g, l, p) = q /\ q \in Slots
    BY <1>2, <1>3, <1>6, <1>8
  <2>2. CASE k = Len(s)
    <3>1. g.tail[l] = p /\ g.next[p] = NULL
      BY <1>2, <2>2
    <3> HIDE DEF p, q
    <3>2. stateListRemove(g, l, p) =
             [head |-> g.head,
              tail |-> [g.tail EXCEPT ![l] = q],
              next |-> [g.next EXCEPT ![q] = NULL, ![p] = NULL]]
      BY <1>t, <2>1, <3>1 DEF stateListRemove
    <3>3. stateListRemove(g, l, p) \in Pointers
      BY <1>t, <1>1, <1>3, <2>1, <3>2 DEF Pointers
    <3>4. g.head = [g.head EXCEPT ![l] = IF k = 1 THEN g.next[p] ELSE @]
      BY <1>t, <1>8
    <3> QED BY <1>5, <1>8, <2>2, <3>1, <3>2, <3>3, <3>4 DEF p, q
  <2>3. CASE k # Len(s)
    <3>1. g.tail[l] # p
      BY <1>2, <1>3, <2>3
    <3> HIDE DEF p, q
    <3>a. stateListRemove(g, l, p) =
             [g EXCEPT !.next = [@ EXCEPT ![q] = g.next[p], ![p] = NULL]]
      BY <2>1, <3>1 DEF stateListRemove
    <3>2. stateListRemove(g, l, p) =
             [head |-> g.head, tail |-> g.tail,
              next |-> [g.next EXCEPT ![q] = g.next[p], ![p] = NULL]]
      BY <3>a DEF Pointers
    <3>b. p \in Slots /\ q \in Slots /\ g.next[p] \in 0..NPROC
      BY <1>t, <1>3, <2>1 DEF p
    <3>c. [g.next EXCEPT ![q] = g.next[p], ![p] = NULL] \in [Slots -> 0..NPROC]
      BY <1>t, <1>1, <3>b
    <3>3. stateListRemove(g, l, p) \in Pointers
      BY <1>t, <3>2, <3>c DEF Pointers
    <3>4. g.head = [g.head EXCEPT ![l] = IF k = 1 THEN g.next[p] ELSE @]
      BY <1>t, <1>8
    <3>5. g.tail = [g.tail EXCEPT ![l] = IF k = Len(s)
                                         THEN IF k = 1 THEN NULL ELSE q
                                         ELSE @]
      BY <1>t, <2>3
    <3> QED BY <1>5, <1>8, <3>2, <3>3, <3>4, <3>5 DEF p, q
  <2> QED BY <2>2, <2>3
<1> QED BY <1>7, <1>8

\* stateListRemove() finds a process on list l, takes it off the list and leaves the
\* other lists alone, although it leaves the next pointer of a removed head as it is.
LEMMA RemoveLinked ==
    ASSUME ListSizes, NEW g \in Pointers, NEW l \in Lists, NEW s, Linked(g, l, s),
           NEW p \in Members(s)
    PROVE  LET g1 == stateListRemove(g, l, p) IN
           /\ Found(g, l, p)
           /\ g1 \in Pointers /\ Linked(g1, l, Without(s, p))
           /\ Members(Without(s, p)) = Members(s) \ {p}
           /\ \A m \in Lists \ {l} : \A t :
                 Linked(g, m, t) /\ Members(s) \cap Members(t) = {} => Linked(g1, m, t)
<1>0. s \in Seq(Slots) /\ NoRepeats(s) /\ Len(s) \in Nat /\ NULL \notin Slots
  BY DEF Linked, Slots, NULL
<1>1. PICK k \in 1..Len(s) : p = s[k]
  BY <1>0 DEF Members
<1> DEFINE g1 == stateListRemove(g, l, s[k])
           r == Without(s, p)
           n == Len(s)
<1>2. /\ r \in Seq(Slots) /\ Len(r) = n - 1 /\ NoRepeats(r)
      /\ \A j \in 1..Len(r) : r[j] = IF j < k THEN s[j] ELSE s[j + 1]
      /\ Members(r) = Members(s) \ {p}
  BY <1>0, <1>1, Shorter
<1>3. /\ Found(g, l, s[k])
      /\ g1 \in Pointers
      /\ g1.head = [g.head EXCEPT ![l] = IF k = 1 THEN g.next[s[k]] ELSE @]
      /\ g1.tail = [g.tail EXCEPT ![l] = IF k = n
                                         THEN IF k = 1 THEN NULL ELSE s[k - 1]
                                         ELSE @]
      /\ g1.next = IF k = 1 THEN g.next
                   ELSE [g.next EXCEPT ![s[k - 1]] = g.next[s[k]], ![s[k]] = NULL]
  BY RemovePointers
<1> HIDE DEF g1, r
<1>t. g.head \in [Lists -> 0..NPROC] /\ g.tail \in [Lists -> 0..NPROC]
      /\ g.next \in [Slots -> 0..NPROC]
  BY DEF Pointers
<1>4. /\ g.head[l] = s[1] /\ g.tail[l] = s[n] /\ g.next[s[n]] = NULL
      /\ \A i \in 1..(n - 1) : g.next[s[i]] = s[i + 1]
  <2>1. s # <<>>
    BY <1>0, <1>1
  <2> QED BY <2>1 DEF Linked
<1>5. /\ k # 1 => g1.next[s[k - 1]] = g.next[s[k]]
      /\ \A i \in 1..n : i # k /\ i # k - 1 => g1.next[s[i]] = g.next[s[i]]
      /\ \A q \in Slots : q \notin Members(s) => g1.next[q] = g.next[q]
  <2>1. CASE k = 1
    BY <1>0, <1>3, <2>1
  <2>2. CASE k # 1
    <3>1. k - 1 \in 1..n /\ s[k - 1] \in Slots /\ s[k] \in Slots /\ s[k - 1] # s[k]
      BY <1>0, <2>2 DEF NoRepeats
    <3>2. g1.next = [g.next EXCEPT ![s[k - 1]] = g.next[s[k]], ![s[k]] = NULL]
      BY <1>3, <2>2
    <3>3. g1.next[s[k - 1]] = g.next[s[k]]
      BY <1>t, <3>1, <3>2
    <3>4. ASSUME NEW i \in 1..n, i # k, i # k - 1 PROVE g1.next[s[i]] = g.next[s[i]]
      <4>1. s[i] # s[k] /\ s[i] # s[k - 1] /\ s[i] \in Slots
        BY <1>0, <3>1, <3>4 DEF NoRepeats
      <4> QED BY <1>t, <3>1, <3>2, <4>1
    <3>5. ASSUME NEW q \in Slots, q \notin Members(s) PROVE g1.next[q] = g.next[q]
      <4>1. q # s[k] /\ q # s[k - 1]
        BY <1>0, <3>1, <3>5 DEF Members
      <4> QED BY <1>t, <3>1, <3>2, <4>1
    <3> QED BY <3>3, <3>4, <3>5
  <2> QED BY <2>1, <2>2
<1>6. g1.head[l] = IF k = 1 THEN g.next[s[k]] ELSE s[1]
  BY <1>t, <1>3, <1>4
<1>7. g1.tail[l] = IF k = n THEN IF k = 1 THEN NULL ELSE s[k - 1] ELSE s[n]
  BY <1>t, <1>3, <1>4
<1>8. Linked(g1, l, r)
  <2>1. CASE n = 1
    <3>1. k = 1 /\ r = <<>> /\ g1.head[l] = NULL /\ g1.tail[l] = NULL
      BY <1>0, <1>2, <1>4, <1>6, <1>7, <2>1
    <3>2. \A i \in 1..(Len(r) - 1) : FALSE
      BY <3>1
    <3> QED BY <1>2, <3>1, <3>2 DEF Linked
  <2>2. CASE n # 1
    <3>0. n - 1 \in 1..Len(r) /\ 1 \in 1..Len(r) /\ n \in 2..n /\ r # <<>> /\ Len(r) = n - 1
      BY <1>0, <1>1, <1>2, <2>2
    <3>1. g1.head[l] = r[1]
      <4>1. CASE k = 1
        <5>1. r[1] = s[1 + 1] /\ 1 \in 1..(n - 1)
          BY <1>2, <3>0, <4>1
        <5>2. g.next[s[1]] = s[1 + 1]
          BY <1>4, <5>1
        <5>3. g1.head[l] = g.next[s[1]]
          BY <1>6, <4>1
        <5> QED BY <5>1, <5>2, <5>3
      <4>2. CASE k # 1
        <5>1. r[1] = s[1]
          BY <1>2, <3>0, <4>2
        <5> QED BY <1>6, <4>2, <5>1
      <4> QED BY <4>1, <4>2
    <3>2. g1.tail[l] = r[n - 1]
      <4>1. CASE k = n
        <5>1. r[n - 1] = s[n - 1]
          BY <1>2, <3>0, <4>1
        <5> QED BY <1>7, <3>0, <4>1, <5>1
      <4>2. CASE k # n
        <5>1. r[n - 1] = s[n]
          BY <1>2, <3>0, <4>2
        <5> QED BY <1>7, <4>2, <5>1
      <4> QED BY <4>1, <4>2
    <3>3. g1.next[r[n - 1]] = NULL
      <4>1. CASE k = n
        <5>1. r[n - 1] = s[k - 1] /\ k # 1
          BY <1>2, <3>0, <4>1
        <5> QED BY <1>4, <1>5, <4>1, <5>1
      <4>2. CASE k # n
        <5>1. r[n - 1] = s[n] /\ n # k /\ n # k - 1 /\ n \in 1..n
          BY <1>2, <3>0, <4>2
        <5> QED BY <1>4, <1>5, <5>1
      <4> QED BY <4>1, <4>2
    <3>4. ASSUME NEW i \in 1..(Len(r) - 1) PROVE g1.next[r[i]] = r[i + 1]
      <4>0. i \in 1..Len(r) /\ i + 1 \in 1..Len(r) /\ i \in 1..(n - 1)
            /\ i + 1 \in 1..(n - 1) /\ i \in 1..n /\ i + 1 \in 1..n
        BY <3>0
      <4>1. CASE i + 1 < k
        <5>1. r[i] = s[i] /\ r[i + 1] = s[i + 1] /\ i # k /\ i # k - 1
          BY <1>2, <4>0, <4>1
        <5> QED BY <1>4, <1>5, <4>0, <5>1
      <4>2. CASE i + 1 = k
        <5>1. r[i] = s[k - 1] /\ r[i + 1] = s[k + 1] /\ k # 1 /\ k \in 1..(n - 1)
          BY <1>2, <4>0, <4>2
        <5> QED BY <1>4, <1>5, <5>1
      <4>3. CASE i + 1 > k
        <5>1. r[i] = s[i + 1] /\ r[i + 1] = s[i + 1 + 1] /\ i + 1 # k /\ i + 1 # k - 1
          BY <1>2, <4>0, <4>3
        <5>2. g.next[s[i + 1]] = s[i + 1 + 1]
          BY <1>4, <4>0
        <5> QED BY <1>5, <4>0, <5>1, <5>2
      <4> QED BY <4>0, <4>1, <4>2, <4>3
    <3> QED BY <1>2, <3>0, <3>1, <3>2, <3>3, <3>4 DEF Linked
  <2> QED BY <2>1, <2>2
<1>9. ASSUME NEW m \in Lists \ {l}, NEW t, Linked(g, m, t), Members(s) \cap Members(t) = {}
      PROVE  Linked(g1, m, t)
  <2>1. t \in Seq(Slots) /\ Len(t) \in Nat
    BY <1>9 DEF Linked
  <2>2. ASSUME NEW i \in 1..Len(t) PROVE g1.next[t[i]] = g.next[t[i]]
    <3>1. t[i] \in Slots /\ t[i] \in Members(t)
      BY <2>1 DEF Members
    <3> QED BY <1>5, <1>9, <3>1
  <2>3. g1.head[m] = g.head[m] /\ g1.tail[m] = g.tail[m]
    BY <1>t, <1>3, <1>9
  <2>4. t # <<>> => Len(t) \in 1..Len(t)
    BY <2>1
  <2>5. \A i \in 1..(Len(t) - 1) : i \in 1..Len(t)
    BY <2>1
  <2> QED BY <1>9, <2>2, <2>3, <2>4, <2>5 DEF Linked
<1> QED BY <1>1, <1>2, <1>3, <1>8, <1>9 DEF g1, r

-----------------------------------------------------------------------------
(* All lists together.                                                      *)

\* Only list l of g1 differs from that of g: it is c.
Changed(g, g1, l, c) ==
    /\ Contents(g1, l) = c
    /\ \A m \in Lists \ {l} : Contents(g1, m) = Contents(g, m)

States == [Slots -> Lists \cup {"none"}]

\* A process is on one list at most.
LEMMA Apart ==
    ASSUME NEW g, NEW st, Intact(g), Placed(g, st), NEW l \in Lists, NEW m \in Lists, l # m
    PROVE  Members(Contents(g, l)) \cap Members(Contents(g, m)) = {}
<1>1. \A p \in Members(Contents(g, l)) : p \in Slots
  BY DEF Intact, Linked, Members
<1> QED BY <1>1 DEF Placed

\* stateListRemove() of a process from the list of its state.
LEMMA ListsRemove ==
    ASSUME ListSizes, NEW g, NEW st \in States, Intact(g), Placed(g, st),
           NEW p \in Slots, NEW l \in Lists, st[p] = l
    PROVE  LET g1 == stateListRemove(g, l, p) IN
           /\ Found(g, l, p)
           /\ Intact(g1) /\ Placed(g1, [st EXCEPT ![p] = "none"])
           /\ p \in Members(Contents(g, l))
           /\ Changed(g, g1, l, Without(Contents(g, l), p))
<1> DEFINE g1 == stateListRemove(g, l, p)
           s == Contents(g, l)
           st1 == [st EXCEPT ![p] = "none"]
<1>1. g \in Pointers /\ Linked(g, l, s) /\ p \in Members(s)
  BY DEF Intact, Placed
<1>2. /\ Found(g, l, p)
      /\ g1 \in Pointers /\ Linked(g1, l, Without(s, p))
      /\ Members(Without(s, p)) = Members(s) \ {p}
      /\ \A m \in Lists \ {l} : \A t :
            Linked(g, m, t) /\ Members(s) \cap Members(t) = {} => Linked(g1, m, t)
  <2> HIDE DEF s
  <2> QED BY <1>1, RemoveLinked
<1> HIDE DEF g1
<1>3. Contents(g1, l) = Without(s, p)
  BY <1>2, ContentsAre
<1>4. ASSUME NEW m \in Lists \ {l}
      PROVE  Contents(g1, m) = Contents(g, m) /\ Linked(g1, m, Contents(g, m))
  <2>1. Linked(g, m, Contents(g, m)) /\ Members(s) \cap Members(Contents(g, m)) = {}
    BY Apart DEF Intact
  <2>2. Linked(g1, m, Contents(g, m))
    BY <1>2, <2>1
  <2> QED BY <1>2, <2>2, ContentsAre
<1>5. Intact(g1)
  BY <1>2, <1>3, <1>4 DEF Intact
<1>6. Placed(g1, st1)
  <2> SUFFICES ASSUME NEW m \in Lists, NEW q \in Slots
               PROVE  q \in Members(Contents(g1, m)) <=> st1[q] = m
    BY DEF Placed
  <2>1. q \in Members(Contents(g, m)) <=> st[q] = m
    BY DEF Placed
  <2>2. st1[q] = IF q = p THEN "none" ELSE st[q]
    BY DEF States
  <2>3. m # "none"
    BY DEF Lists
  <2>4. CASE m = l
    BY <1>2, <1>3, <2>1, <2>2, <2>3, <2>4
  <2>5. CASE m # l
    BY <1>4, <2>1, <2>2, <2>3, <2>5
  <2> QED BY <2>4, <2>5
<1> QED BY <1>1, <1>2, <1>3, <1>4, <1>5, <1>6 DEF Changed, g1

\* stateListAdd() of a process that is on no list.
LEMMA ListsAdd ==
    ASSUME ListSizes, NEW g, NEW st \in States, Intact(g), Placed(g, st),
           NEW p \in Slots, NEW m \in Lists, st[p] = "none"
    PROVE  LET g1 == stateListAdd(g, m, p) IN
           /\ Intact(g1) /\ Placed(g1, [st EXCEPT ![p] = m])
           /\ \A l \in Lists : p \notin Members(Contents(g, l))
           /\ Changed(g, g1, m, Append(Contents(g, m), p))
           /\ g1.next[p] = NULL
<1> DEFINE g1 == stateListAdd(g, m, p)
           s == Contents(g, m)
           st1 == [st EXCEPT ![p] = m]
<1>0. \A l \in Lists : p \notin Members(Contents(g, l))
  BY DEF Placed, Lists
<1>1. g \in Pointers /\ Linked(g, m, s) /\ p \notin Members(s)
  BY <1>0 DEF Intact
<1>2. /\ g1 \in Pointers /\ Linked(g1, m, Append(s, p))
      /\ \A l \in Lists \ {m} : \A t :
            /\ Linked(g, l, t) /\ p \notin Members(t)
            /\ Members(s) \cap Members(t) = {}
            => Linked(g1, l, t)
  <2> HIDE DEF s
  <2> QED BY <1>1, AddLinked
<1> HIDE DEF g1
<1>3. Contents(g1, m) = Append(s, p)
  BY <1>2, ContentsAre
<1>4. ASSUME NEW l \in Lists \ {m}
      PROVE  Contents(g1, l) = Contents(g, l) /\ Linked(g1, l, Contents(g, l))
  <2>1. Linked(g, l, Contents(g, l)) /\ Members(s) \cap Members(Contents(g, l)) = {}
    BY Apart DEF Intact
  <2>2. Linked(g1, l, Contents(g, l))
    BY <1>0, <1>2, <2>1
  <2> QED BY <1>2, <2>2, ContentsAre
<1>5. Intact(g1)
  BY <1>2, <1>3, <1>4 DEF Intact
<1>6. s \in Seq(Slots) /\ Members(Append(s, p)) = Members(s) \cup {p}
  <2>1. s \in Seq(Slots)
    BY <1>1 DEF Linked
  <2> HIDE DEF s
  <2>2. Len(s) \in Nat /\ DOMAIN Append(s, p) = 1..(Len(s) + 1) /\ DOMAIN s = 1..Len(s)
    BY <2>1
  <2>3. /\ \A i \in DOMAIN s : i \in DOMAIN Append(s, p) /\ Append(s, p)[i] = s[i]
        /\ Len(s) + 1 \in DOMAIN Append(s, p) /\ Append(s, p)[Len(s) + 1] = p
        /\ \A i \in DOMAIN Append(s, p) : i \in DOMAIN s \/ i = Len(s) + 1
    BY <2>1, <2>2
  <2> QED BY <2>1, <2>3 DEF Members
<1>7. Placed(g1, st1)
  <2> SUFFICES ASSUME NEW l \in Lists, NEW q \in Slots
               PROVE  q \in Members(Contents(g1, l)) <=> st1[q] = l
    BY DEF Placed
  <2>1. q \in Members(Contents(g, l)) <=> st[q] = l
    BY DEF Placed
  <2>2. st1[q] = IF q = p THEN m ELSE st[q]
    BY DEF States
  <2>3. p \notin Members(Contents(g, l))
    BY <1>0
  <2>4. CASE l = m
    BY <1>3, <1>6, <2>1, <2>2, <2>3, <2>4
  <2>5. CASE l # m
    BY <1>4, <2>1, <2>2, <2>3, <2>5
  <2> QED BY <2>4, <2>5
<1>8. g1.next[p] = NULL
  <2>1. Append(s, p) # <<>> /\ Append(s, p)[Len(Append(s, p))] = p
    BY <1>6
  <2> QED BY <1>2, <2>1 DEF Linked
<1> QED BY <1>0, <1>3, <1>4, <1>5, <1>7, <1>8 DEF Changed, g1

\* A process that changes lists.
LEMMA ListsMove ==
    ASSUME ListSizes, NEW g, NEW st \in States, Intact(g), Placed(g, st),
           NEW p \in Slots, NEW l \in Lists, NEW m \in Lists, l # m, st[p] = l
    PROVE  LET g1 == stateListAdd(stateListRemove(g, l, p), m, p) IN
           /\ Found(g, l, p)
           /\ Intact(g1) /\ Placed(g1, [st EXCEPT ![p] = m])
           /\ p \in Members(Contents(g, l))
           /\ Contents(g1, l) = Without(Contents(g, l), p)
           /\ Contents(g1, m) = Append(Contents(g, m), p)
           /\ \A k \in Lists \ {l, m} : Contents(g1, k) = Contents(g, k)
           /\ g1.next[p] = NULL
<1> DEFINE f == stateListRemove(g, l, p)
           st0 == [st EXCEPT ![p] = "none"]
           g1 == stateListAdd(f, m, p)
<1>1. /\ Found(g, l, p) /\ Intact(f) /\ Placed(f, st0)
      /\ p \in Members(Contents(g, l))
      /\ Changed(g, f, l, Without(Contents(g, l), p))
  BY ListsRemove
<1>2. st0 \in States /\ st0[p] = "none" /\ [st0 EXCEPT ![p] = m] = [st EXCEPT ![p] = m]
  BY DEF States
<1> HIDE DEF f, st0
<1>3. /\ Intact(g1) /\ Placed(g1, [st0 EXCEPT ![p] = m])
      /\ Changed(f, g1, m, Append(Contents(f, m), p))
      /\ g1.next[p] = NULL
  BY <1>1, <1>2, ListsAdd
<1> HIDE DEF g1
<1> QED BY <1>1, <1>2, <1>3 DEF Changed, g1, f

-----------------------------------------------------------------------------
(* Every step preserves the invariant and is a step of SeqLists.            *)

\* initFreeList() makes a list of the whole table.
LEMMA InitIInv ==
    ASSUME ListSizes, Init
    PROVE  IInv
<1> DEFINE all == [i \in 1..NPROC |-> i]
<1>1. h \in Pointers
  <2>1. NPROC \in 0..NPROC /\ NULL \in 0..NPROC /\ 1 \in 0..NPROC
    BY DEF NULL, ListSizes
  <2>2. \A p \in Slots : (IF p = NPROC THEN NULL ELSE p + 1) \in 0..NPROC
    BY DEF NULL, ListSizes, Slots
  <2> QED BY <2>1, <2>2 DEF Init, Pointers
<1>2. /\ h.head = [l \in Lists |-> IF l = "UNUSED" THEN 1 ELSE NULL]
      /\ h.tail = [l \in Lists |-> IF l = "UNUSED" THEN NPROC ELSE NULL]
      /\ h.next = [p \in Slots |-> IF p = NPROC THEN NULL ELSE p + 1]
  BY DEF Init
<1>3. all \in Seq(Slots) /\ Len(all) = NPROC /\ all # <<>> /\ NPROC \in Slots
  BY DEF Slots, ListSizes
<1>4. Linked(h, "UNUSED", all)
  <2>1. NoRepeats(all)
    BY <1>3 DEF NoRepeats
  <2>2. h.head["UNUSED"] = all[1] /\ h.tail["UNUSED"] = all[Len(all)]
    BY <1>2, <1>3 DEF Lists, Slots, ListSizes
  <2>3. h.next[all[Len(all)]] = NULL
    BY <1>2, <1>3 DEF Slots
  <2>4. ASSUME NEW i \in 1..(Len(all) - 1) PROVE h.next[all[i]] = all[i + 1]
    BY <1>2, <1>3 DEF Slots, ListSizes
  <2> HIDE DEF all
  <2> QED BY <1>3, <2>1, <2>2, <2>3, <2>4 DEF Linked
<1>5. ASSUME NEW l \in Lists \ {"UNUSED"} PROVE Linked(h, l, <<>>)
  <2>1. h.head[l] = NULL /\ h.tail[l] = NULL
    BY <1>2
  <2>2. <<>> \in Seq(Slots) /\ NoRepeats(<<>>) /\ \A i \in 1..(Len(<<>>) - 1) : FALSE
    BY DEF NoRepeats
  <2> QED BY <2>1, <2>2 DEF Linked
<1>6. Contents(h, "UNUSED") = all
  BY <1>1, <1>4, ContentsAre DEF Lists
<1>7. \A l \in Lists \ {"UNUSED"} : Contents(h, l) = <<>>
  BY <1>1, <1>5, ContentsAre
<1>8. Intact(h)
  BY <1>1, <1>4, <1>5, <1>6, <1>7 DEF Intact
<1>9. Placed(h, state)
  <2>1. \A p \in Slots : state[p] = "UNUSED"
    BY DEF Init
  <2>2. Members(all) = Slots
    BY DEF Members, Slots
  <2>3. Members(<<>>) = {}
    BY DEF Members
  <2> QED BY <1>6, <1>7, <2>1, <2>2, <2>3 DEF Placed
<1>10. Types
  BY DEF Init, Types, Lists, NULL, ListSizes
<1> QED BY <1>8, <1>9, <1>10 DEF IInv, Walking, NeverLost, Init

\* A section that moves p between two lists.
LEMMA RelistStep ==
    ASSUME ListSizes, IInv, NEW p \in Slots, NEW l \in Lists, NEW m \in Lists, l # m,
           state[p] = l, Relist(p, l, m)
    PROVE  /\ Intact(h') /\ Placed(h', state') /\ state' \in States /\ NeverLost'
           /\ SL!Move(p, l, m)
           /\ Contents(h', l) = Without(Contents(h, l), p)
           /\ h'.next[p] = NULL
<1>1. /\ state \in States /\ Intact(h) /\ Placed(h, state) /\ ~halted
  BY DEF IInv, Types, States, NeverLost
<1> DEFINE g1 == stateListAdd(stateListRemove(h, l, p), m, p)
<1>2. /\ Found(h, l, p)
      /\ Intact(g1) /\ Placed(g1, [state EXCEPT ![p] = m])
      /\ p \in Members(Contents(h, l))
      /\ Contents(g1, l) = Without(Contents(h, l), p)
      /\ Contents(g1, m) = Append(Contents(h, m), p)
      /\ \A k \in Lists \ {l, m} : Contents(g1, k) = Contents(h, k)
      /\ g1.next[p] = NULL
  BY <1>1, ListsMove
<1>3. h' = g1 /\ state' = [state EXCEPT ![p] = m] /\ halted' = halted
  BY <1>2 DEF Relist
<1> HIDE DEF g1
<1>4. state' \in States
  BY <1>1, <1>3 DEF States
<1> DEFINE L == [k \in Lists |-> Contents(h, k)]
<1>5. [k \in Lists |-> Contents(h', k)] =
      [L EXCEPT ![l] = Without(@, p), ![m] = Append(@, p)]
  <2> DEFINE M == [L EXCEPT ![l] = Without(@, p), ![m] = Append(@, p)]
  <2>1. ASSUME NEW k \in Lists PROVE Contents(h', k) = M[k]
    BY <1>2, <1>3
  <2> DEFINE F == [k \in Lists |-> Contents(h', k)]
  <2>2. /\ M = [k \in Lists |-> M[k]]
        /\ F = [k \in Lists |-> F[k]]
        /\ \A k \in Lists : F[k] = Contents(h', k)
    OBVIOUS
  <2>3. M \in [Lists -> {M[k] : k \in Lists}] /\ F \in [Lists -> {F[k] : k \in Lists}]
    OBVIOUS
  <2> HIDE DEF M, F
  <2>4. \A k \in Lists : F[k] = M[k]
    BY <2>1, <2>2
  <2>5. F = M
    BY <2>2, <2>4
  <2> QED BY <2>5 DEF F, M
<1>6. p \in SL!Members(L[l])
  BY <1>2 DEF SL!Members, Members
<1>7. SL!Move(p, l, m)
  BY <1>5, <1>6 DEF SL!Move, Without
<1> QED BY <1>1, <1>2, <1>3, <1>4, <1>7 DEF NeverLost

\* Move() and Sleep() hold the lock on their own: no wakeup1() is under way.
LEMMA MoveStep ==
    ASSUME ListSizes, IInv, NEW p \in Slots, NEW l \in Lists, NEW m \in Lists,
           Move(p, l, m)
    PROVE  IInv' /\ SL!Next
<1>1. l # m /\ state[p] = l /\ Relist(p, l, m) /\ wchan' = NoChan
  BY DEF Move, Moves, LockFree
<1>2. /\ Intact(h') /\ Placed(h', state') /\ state' \in States /\ NeverLost'
      /\ SL!Move(p, l, m)
  BY <1>1, RelistStep
<1>3. Types'
  BY <1>2 DEF IInv, Types, States, Move
<1> QED BY <1>1, <1>2, <1>3 DEF IInv, Walking, SL!Next

\* sleep()
LEMMA SleepStep ==
    ASSUME ListSizes, IInv, NEW p \in Slots, NEW ch \in Chans, Sleep(p, ch)
    PROVE  IInv' /\ SL!Next
<1>1. /\ "RUNNING" \in Lists /\ "SLEEPING" \in Lists /\ "RUNNING" # "SLEEPING"
      /\ state[p] = "RUNNING" /\ Relist(p, "RUNNING", "SLEEPING") /\ wchan' = NoChan
  BY DEF Sleep, Lists, LockFree
<1>2. /\ Intact(h') /\ Placed(h', state') /\ state' \in States /\ NeverLost'
      /\ SL!Move(p, "RUNNING", "SLEEPING")
  BY <1>1, RelistStep
<1>3. Types'
  BY <1>2 DEF IInv, Types, States, Sleep
<1> QED BY <1>1, <1>2, <1>3 DEF IInv, Walking, SL!Next

\* fork() takes its child off the EMBRYO list.
LEMMA DetachStep ==
    ASSUME ListSizes, IInv, NEW p \in Slots, Detach(p)
    PROVE  IInv' /\ SL!Next
<1>1. /\ state \in States /\ Intact(h) /\ Placed(h, state) /\ ~halted
      /\ "EMBRYO" \in Lists /\ state[p] = "EMBRYO" /\ wchan' = NoChan
  BY DEF IInv, Types, States, NeverLost, Detach, Lists, LockFree
<1> DEFINE g1 == stateListRemove(h, "EMBRYO", p)
           L == [k \in Lists |-> Contents(h, k)]
<1>2. /\ Found(h, "EMBRYO", p)
      /\ Intact(g1) /\ Placed(g1, [state EXCEPT ![p] = "none"])
      /\ p \in Members(Contents(h, "EMBRYO"))
      /\ Changed(h, g1, "EMBRYO", Without(Contents(h, "EMBRYO"), p))
  BY <1>1, ListsRemove
<1>3. h' = g1 /\ state' = [state EXCEPT ![p] = "none"] /\ halted' = halted
  BY <1>2 DEF Detach
<1> HIDE DEF g1
<1>4. Types'
  BY <1>1, <1>3 DEF IInv, Types, States, Detach
<1>5. [k \in Lists |-> Contents(h', k)] = [L EXCEPT !["EMBRYO"] = Without(@, p)]
  BY <1>1, <1>2, <1>3 DEF Changed
<1>6. SL!Remove(p, "EMBRYO")
  BY <1>1, <1>2, <1>5 DEF SL!Remove, Without, SL!Members, Members
<1>7. SL!Next
  BY <1>1, <1>6 DEF SL!Next
<1> QED BY <1>1, <1>2, <1>3, <1>4, <1>7 DEF IInv, Walking, NeverLost

\* fork() puts its child on a list.
LEMMA AttachStep ==
    ASSUME ListSizes, IInv, NEW p \in Slots, NEW m \in Lists, Attach(p, m)
    PROVE  IInv' /\ SL!Next
<1>1. /\ state \in States /\ Intact(h) /\ Placed(h, state) /\ ~halted
      /\ state[p] = "none" /\ wchan' = NoChan
  BY DEF IInv, Types, States, NeverLost, Attach, LockFree
<1> DEFINE g1 == stateListAdd(h, m, p)
           L == [k \in Lists |-> Contents(h, k)]
<1>2. /\ Intact(g1) /\ Placed(g1, [state EXCEPT ![p] = m])
      /\ \A l \in Lists : p \notin Members(Contents(h, l))
      /\ Changed(h, g1, m, Append(Contents(h, m), p))
  BY <1>1, ListsAdd
<1>3. h' = g1 /\ state' = [state EXCEPT ![p] = m] /\ halted' = halted
  BY DEF Attach
<1> HIDE DEF g1
<1>4. Types'
  BY <1>1, <1>3 DEF IInv, Types, States, Attach
<1>5. [k \in Lists |-> Contents(h', k)] = [L EXCEPT ![m] = Append(@, p)]
  BY <1>2, <1>3 DEF Changed
<1>6. SL!Insert(p, m)
  BY <1>2, <1>5 DEF SL!Insert, SL!Members, Members
<1>7. SL!Next
  BY <1>6 DEF SL!Next
<1> QED BY <1>1, <1>2, <1>3, <1>4, <1>7 DEF IInv, Walking, NeverLost

\* wakeup1() starts at the head of the SLEEPING list.
LEMMA WakeStartStep ==
    ASSUME ListSizes, IInv, NEW ch \in Chans, WakeStart(ch)
    PROVE  IInv' /\ h' = h
<1> DEFINE s == Contents(h, "SLEEPING")
<1>1. Linked(h, "SLEEPING", s) /\ s \in Seq(Slots) /\ h \in Pointers
  BY DEF IInv, Intact, Linked, Lists
<1>2. h' = h /\ state' = state /\ chan' = chan /\ halted' = halted /\ before' = s
      /\ walk' = h.head["SLEEPING"] /\ wchan' = ch
  BY DEF WakeStart
<1>3. h.head["SLEEPING"] \in 0..NPROC
  BY <1>1 DEF Pointers, Lists
<1> HIDE DEF s
<1>4. Types'
  BY <1>1, <1>2, <1>3 DEF IInv, Types
<1>5. Searching'
  <2>1. h.head["SLEEPING"] = IF 0 = Len(s) THEN NULL ELSE s[0 + 1]
    BY <1>1 DEF Linked
  <2>2. 0 \in 0..Len(s) /\ \A j \in 1..0 : FALSE
    BY <1>1
  <2>3. Contents(h', "SLEEPING") = before'
    BY <1>2 DEF s
  <2> QED BY <1>2, <2>1, <2>2, <2>3 DEF Searching
<1>6. Walking'
  BY <1>5 DEF Walking
<1> QED BY <1>2, <1>4, <1>6 DEF IInv, NeverLost

\* A turn of the loop of wakeup1(): the process it has come to is on the SLEEPING
\* list; when that process is woken its next pointer becomes NULL and the walk ends.
LEMMA WakeStepStep ==
    ASSUME ListSizes, IInv, WakeStep
    PROVE  IInv' /\ (SL!Next \/ h' = h)
<1> DEFINE s == Contents(h, "SLEEPING")
<1>1. /\ Linked(h, "SLEEPING", s) /\ s \in Seq(Slots) /\ h \in Pointers
      /\ "SLEEPING" \in Lists /\ "RUNNABLE" \in Lists /\ "SLEEPING" # "RUNNABLE"
  BY DEF IInv, Intact, Linked, Lists
<1>2. Searching
  BY DEF IInv, Walking, Woken, WakeStep
<1>3. PICK i \in 0..Len(before) :
         /\ s = before
         /\ walk = IF i = Len(before) THEN NULL ELSE before[i + 1]
         /\ \A j \in 1..i : chan[before[j]] # wchan
  BY <1>2 DEF Searching
<1> HIDE DEF s
<1>4. i # Len(before) /\ i + 1 \in 1..Len(before) /\ walk = before[i + 1]
      /\ before \in Seq(Slots) /\ walk \in Slots /\ i \in Nat /\ Len(before) \in Nat
  BY <1>1, <1>3 DEF WakeStep
<1>5. walk \in Members(s) /\ state[walk] = "SLEEPING"
  <2>1. walk \in Members(s)
    BY <1>3, <1>4 DEF Members
  <2> QED BY <1>1, <1>4, <2>1 DEF IInv, Placed, s
<1>6. UNCHANGED <<chan, wchan, before>> /\ walk' = h'.next[walk] /\ wchan # NoChan
  BY DEF WakeStep
<1>7. CASE chan[walk] = wchan
  <2>1. Relist(walk, "SLEEPING", "RUNNABLE")
    BY <1>5, <1>7 DEF WakeStep
  <2>2. /\ Intact(h') /\ Placed(h', state') /\ state' \in States /\ NeverLost'
        /\ SL!Move(walk, "SLEEPING", "RUNNABLE")
        /\ Contents(h', "SLEEPING") = Without(s, walk)
        /\ h'.next[walk] = NULL
    BY <1>1, <1>4, <1>5, <2>1, RelistStep DEF s
  <2>3. Types'
    BY <1>6, <2>2 DEF IInv, Types, States, NULL, ListSizes
  <2>4. Hits' = Hits /\ i + 1 \in Hits
    BY <1>4, <1>6, <1>7 DEF Hits
  <2>5. \A j \in Hits : i + 1 <= j
    <3>1. \A j \in Hits : j \in 1..Len(before) /\ chan[before[j]] = wchan
      BY <1>4 DEF Hits
    <3>2. \A j \in Hits : j \notin 1..i
      BY <1>3, <3>1
    <3> QED BY <1>4, <3>1, <3>2
  <2>6. Contents(h', "SLEEPING") = Without(before', before'[i + 1]) /\ walk' = NULL
    BY <1>3, <1>4, <1>6, <2>2
  <2>7. Woken'
    BY <2>4, <2>5, <2>6 DEF Woken
  <2>8. SL!Next
    BY <1>1, <1>4, <2>2 DEF SL!Next
  <2> QED BY <2>2, <2>3, <2>7, <2>8 DEF IInv, Walking
<1>8. CASE chan[walk] # wchan
  <2>1. h' = h /\ state' = state /\ halted' = halted
    BY <1>8 DEF WakeStep
  <2>2. walk' = IF i + 1 = Len(before) THEN NULL ELSE before[i + 1 + 1]
    <3>1. walk' = h.next[s[i + 1]] /\ s # <<>> /\ Len(s) = Len(before)
      BY <1>3, <1>4, <1>6, <2>1
    <3>2. CASE i + 1 = Len(s)
      BY <1>1, <3>1, <3>2 DEF Linked
    <3>3. CASE i + 1 # Len(s)
      <4>1. i + 1 \in 1..(Len(s) - 1)
        BY <1>4, <3>1, <3>3
      <4> QED BY <1>1, <1>3, <3>1, <3>3, <4>1 DEF Linked
    <3> QED BY <3>1, <3>2, <3>3
  <2>3. \A j \in 1..(i + 1) : chan[before[j]] # wchan
    <3>1. \A j \in 1..(i + 1) : j \in 1..i \/ j = i + 1
      BY <1>4
    <3> QED BY <1>3, <1>4, <1>8, <3>1
  <2>4. i + 1 \in 0..Len(before) /\ Contents(h, "SLEEPING") = before
    BY <1>3, <1>4 DEF s
  <2>5. Searching'
    BY <1>6, <2>1, <2>2, <2>3, <2>4 DEF Searching
  <2>6. walk' \in 0..NPROC
    BY <1>1, <1>4, <1>6, <2>1 DEF Pointers
  <2>7. Types'
    BY <1>6, <2>1, <2>6 DEF IInv, Types
  <2> QED BY <2>1, <2>5, <2>7 DEF IInv, Walking, NeverLost
<1> QED BY <1>7, <1>8

\* Every step keeps the invariant, and changes the lists as SeqLists allows or not
\* at all.
LEMMA NextIInv ==
    ASSUME ListSizes, IInv, [Next]_vars
    PROVE  IInv' /\ (SL!Next \/ h' = h)
<1>1. ASSUME NEW p \in Slots, NEW l \in Lists, NEW m \in Lists, Move(p, l, m)
      PROVE  IInv' /\ SL!Next
  BY <1>1, MoveStep
<1>2. ASSUME NEW p \in Slots, NEW ch \in Chans, Sleep(p, ch) PROVE IInv' /\ SL!Next
  BY <1>2, SleepStep
<1>3. ASSUME NEW p \in Slots, Detach(p) PROVE IInv' /\ SL!Next
  BY <1>3, DetachStep
<1>4. ASSUME NEW p \in Slots, NEW m \in Lists, Attach(p, m) PROVE IInv' /\ SL!Next
  BY <1>4, AttachStep
<1>5. ASSUME NEW ch \in Chans, WakeStart(ch) PROVE IInv' /\ h' = h
  BY <1>5, WakeStartStep
<1>6. CASE WakeStep
  BY <1>6, WakeStepStep
<1>7. CASE WakeEnd
  <2>1. UNCHANGED <<h, state, chan, walk, halted>> /\ wchan' = NoChan /\ before' = <<>>
    BY <1>7 DEF WakeEnd
  <2>2. Types'
    BY <2>1 DEF IInv, Types
  <2> QED BY <2>1, <2>2 DEF IInv, Walking, NeverLost
<1>8. CASE UNCHANGED vars
  <2>1. UNCHANGED <<h, state, chan, walk, wchan, before, halted>>
    BY <1>8 DEF vars
  <2>2. Types' /\ Searching' = Searching /\ Woken' = Woken
    BY <2>1 DEF IInv, Types, Searching, Woken, Hits
  <2> QED BY <2>1, <2>2 DEF IInv, Walking, NeverLost
<1> QED BY <1>1, <1>2, <1>3, <1>4, <1>5, <1>6, <1>7, <1>8 DEF Next

-----------------------------------------------------------------------------
\* The invariant holds in every state, for a table of any size.
THEOREM ListInvariance ==
    ASSUME ListSizes
    PROVE  Spec => []IInv
<1>1. Init => IInv
  BY InitIInv
<1>2. IInv /\ [Next]_vars => IInv'
  BY NextIInv
<1> QED BY <1>1, <1>2, PTL DEF Spec

\* stateListAdd() and stateListRemove() implement lists of processes: the pointers,
\* shared by all lists, always represent sequences, to which processes are appended
\* and from which they are deleted, as ProcTable assumes of them.
THEOREM ListsRefineSequences ==
    ASSUME ListSizes
    PROVE  Spec => ListsAreSequences
<1> DEFINE L == [l \in Lists |-> Contents(h, l)]
<1>1. ASSUME Init PROVE SL!Init
  <2>1. Intact(h) /\ Placed(h, state)
    BY <1>1, InitIInv DEF IInv
  <2>2. ASSUME NEW l \in Lists
        PROVE  L[l] = Contents(h, l) /\ L[l] \in Seq(Slots) /\ NoRepeats(L[l])
    BY <2>1 DEF Intact, Linked
  <2>3. ASSUME NEW l \in Lists, NEW m \in Lists, NEW i \in DOMAIN L[l],
               NEW j \in DOMAIN L[m], L[l][i] = L[m][j]
        PROVE  l = m /\ i = j
    <3>1. l = m
      BY <2>1, <2>2, <2>3, Apart DEF Members
    <3> HIDE DEF L
    <3> QED BY <2>2, <2>3, <3>1 DEF NoRepeats
  <2>4. L \in [Lists -> Seq(Slots)]
    BY <2>2
  <2> QED BY <2>3, <2>4 DEF SL!Init
<1>2. ASSUME IInv, [Next]_vars PROVE [SL!Next]_L
  BY <1>2, NextIInv
<1> HIDE DEF L
<1>3. Init /\ []IInv /\ [][Next]_vars => SL!Init /\ [][SL!Next]_L
  BY <1>1, <1>2, PTL
<1>4. SL!Init /\ [][SL!Next]_L => ListsAreSequences
  BY DEF L, ListsAreSequences, SL!Spec
<1> QED BY <1>3, <1>4, ListInvariance, PTL DEF Spec

\* No process is missing from the list of its state, so that none of the panics of
\* proc.c about lists is reached, and wakeup1(), which follows next pointers that it
\* changes itself, wakes exactly the first process that sleeps on its channel.
THEOREM WakeupWakesFirst ==
    ASSUME ListSizes
    PROVE  Spec => []WakesRight
<1>1. ASSUME IInv PROVE WakesRight
  <2> SUFFICES ASSUME WalkDone PROVE WakesFirst
    BY <1>1 DEF IInv, WakesRight, WakesFirst
  <2>1. wchan # NoChan /\ walk = NULL
    BY DEF WalkDone
  <2>2. CASE Searching
    <3>1. PICK i \in 0..Len(before) :
             /\ Contents(h, "SLEEPING") = before
             /\ walk = IF i = Len(before) THEN NULL ELSE before[i + 1]
             /\ \A j \in 1..i : chan[before[j]] # wchan
      BY <2>2 DEF Searching
    <3>2. before \in Seq(Slots) /\ NULL \notin Slots
      BY <1>1 DEF IInv, Types, Slots, NULL
    <3>3. i = Len(before)
      <4> SUFFICES ASSUME i # Len(before) PROVE FALSE
        OBVIOUS
      <4>1. i + 1 \in 1..Len(before)
        BY <3>2
      <4>2. before[i + 1] \in Slots /\ walk = before[i + 1]
        BY <3>1, <3>2, <4>1
      <4> QED BY <2>1, <3>2, <4>2
    <3>4. Hits = {}
      BY <3>1, <3>2, <3>3 DEF Hits
    <3> QED BY <3>1, <3>4 DEF WakesFirst
  <2>3. CASE Woken
    <3>1. PICK i \in Hits : /\ \A j \in Hits : i <= j
                            /\ Contents(h, "SLEEPING") = Without(before, before[i])
      BY <2>3 DEF Woken
    <3>2. Hits \subseteq Nat
      BY <1>1 DEF Hits, IInv, Types
    <3> DEFINE First(k) == \A j \in Hits : k <= j
    <3>3. First(i) /\ \A k \in Hits : First(k) => k = i
      BY <3>1, <3>2
    <3> HIDE DEF First
    <3>4. (CHOOSE k \in Hits : First(k)) = i
      BY <3>3
    <3>5. (CHOOSE k \in Hits : \A j \in Hits : k <= j) = i
      BY <3>4 DEF First
    <3> QED BY <3>1, <3>5 DEF WakesFirst, Without
  <2> QED BY <1>1, <2>1, <2>2, <2>3 DEF IInv, Walking
<1> QED BY <1>1, ListInvariance, PTL
=============================================================================
