---------------------------- MODULE BcacheProofs ----------------------------
(***************************************************************************)
(* Proofs about Bcache, for every number of processes, blocks and buffers: *)
(* readers see the last write, reference counts are exact, nobody sleeps   *)
(* for a free lock, and, with enough buffers, bget() finds one to recycle. *)
(***************************************************************************)
EXTENDS Bcache, FiniteSetTheorems, TLAPS

-----------------------------------------------------------------------------
(* The inductive invariant.                                                 *)

Holding == {"locked", "iosleep", "iotest", "use"}
InIderw == {"iosleep", "iotest"}

\* A buffer's lock is held by the one process that works with the buffer.
Owners ==
    \A p \in Procs, b \in Bufs :
       owner[b] = p <=> pc[p] \in Holding /\ cur[p] = b

\* A block is in one buffer.
OneBuffer ==
    \A b, c \in Bufs : blockno[b] = blockno[c] /\ blockno[b] # NoBlock => b = c

Wants == \A p \in Procs : Counted(p) => want[p] \in Blocks

\* A valid buffer has the last contents of its block.
Coherent ==
    \A b \in Bufs :
       /\ dirty[b] => valid[b]
       /\ valid[b] => blockno[b] \in Blocks /\ data[b] = latest[blockno[b]]

Queued(b) == \E i \in 1..Len(idequeue) : idequeue[i] = b

\* The queue has a buffer once, as long as its owner waits for the transfer;
\* whoever waits otherwise finds the transfer done.
Requests ==
    /\ \A i, j \in 1..Len(idequeue) : idequeue[i] = idequeue[j] => i = j
    /\ \A b \in Bufs : Queued(b) =>
          /\ ~valid[b] \/ dirty[b]
          /\ \E p \in Procs : pc[p] \in InIderw /\ cur[p] = b
    /\ \A p \in Procs :
          /\ pc[p] \in InIderw /\ ~Queued(cur[p]) =>
                valid[cur[p]] /\ ~dirty[cur[p]]
          /\ pc[p] = "use" => valid[cur[p]]

\* The first request of the queue has been given to the drive: a write has been
\* accepted or is done, for a read idewait() has waited for the writes before.
Started ==
    /\ hw # Idle => hw.blk \in Blocks /\ hw.val \in Vals
    /\ idequeue # <<>> =>
          IF dirty[idequeue[1]]
          THEN Settled[blockno[idequeue[1]]] = data[idequeue[1]]
          ELSE hw = Idle

\* Besides the buffers on their way to the disk only those of the log are dirty.
PinsBounded == Cardinality({b \in Bufs : dirty[b] /\ ~Queued(b)}) <= MaxPins

IInv ==
    /\ TypeOK /\ Owners /\ OneBuffer /\ Wants /\ RefsCounted /\ Coherent
    /\ Requests /\ Started /\ NothingLost /\ PinsBounded /\ LockWaiters

-----------------------------------------------------------------------------
(* What a step leaves alone.                                                *)

Steps == {"user", "acquire", "locksleep", "locked", "iosleep", "iotest", "use",
          "release"}

\* The types of what is stored, of the list, and of the processes.
StoreTypes ==
    /\ blockno \in [Bufs -> Blocks \cup {NoBlock}]
    /\ valid \in [Bufs -> BOOLEAN] /\ dirty \in [Bufs -> BOOLEAN]
    /\ data \in [Bufs -> Vals \cup {NoVal}]
    /\ idequeue \in Seq(Bufs)
    /\ disk \in [Blocks -> Vals] /\ latest \in [Blocks -> Vals]
    /\ hw \in [blk : Blocks \cup {NoBlock}, val : Vals \cup {NoVal}]

ListTypes ==
    /\ refcnt \in [Bufs -> 0..Cardinality(Procs)]
    /\ lru \in [Bufs -> Bufs] /\ {lru[i] : i \in Bufs} = Bufs

ProcTypes ==
    /\ owner \in [Bufs -> Procs \cup {NoProc}]
    /\ pc \in [Procs -> Steps]
    /\ cur \in [Procs -> Bufs] /\ want \in [Procs -> Blocks \cup {NoBlock}]

\* TypeOK in its three parts.
LEMMA TypeParts == TypeOK <=> StoreTypes /\ ListTypes /\ ProcTypes
BY DEF TypeOK, StoreTypes, ListTypes, ProcTypes, Steps

\* The same of the state after a step.
LEMMA TypePartsNext == TypeOK' <=> StoreTypes' /\ ListTypes' /\ ProcTypes'
BY TypeParts, PTL

\* The buffers are finitely many.
LEMMA BufsFinite == IsFiniteSet(Bufs) /\ Cardinality(Bufs) = NBUF
BY BufAssumption, FS_Interval DEF Bufs

\* The processes that use a buffer are finitely many.
LEMMA UsersFinite ==
    ASSUME NEW S \in SUBSET Procs
    PROVE  IsFiniteSet(S) /\ Cardinality(S) \in 0..Cardinality(Procs)
<1>1. IsFiniteSet(Procs)
  BY BufAssumption
<1>2. IsFiniteSet(S) /\ Cardinality(S) <= Cardinality(Procs)
  BY <1>1, FS_Subset
<1> QED BY <1>1, <1>2, FS_CardinalityType

\* Steps that change neither buffers nor drive.
LEMMA SameStore ==
    ASSUME IInv, UNCHANGED <<bufs, drive, latest>>
    PROVE  /\ StoreTypes' /\ OneBuffer' /\ Coherent' /\ Started' /\ NothingLost'
           /\ PinsBounded'
<1>1. /\ blockno' = blockno /\ valid' = valid /\ dirty' = dirty /\ data' = data
      /\ idequeue' = idequeue /\ disk' = disk /\ hw' = hw /\ latest' = latest
  BY DEF bufs, drive
<1>2. OneBuffer'
  BY <1>1 DEF IInv, OneBuffer
<1>3. Coherent'
  BY <1>1 DEF IInv, Coherent
<1>4. Settled' = Settled
  BY <1>1 DEF Settled
<1>5. Started'
  BY <1>1, <1>4 DEF IInv, Started
<1>6. NothingLost'
  BY <1>1, <1>4 DEF IInv, NothingLost, Cached
<1>7. \A b \in Bufs : Queued(b)' <=> Queued(b)
  BY <1>1 DEF Queued
<1>8. {b \in Bufs : dirty'[b] /\ ~Queued(b)'} = {b \in Bufs : dirty[b] /\ ~Queued(b)}
  BY <1>1, <1>7
<1>9. PinsBounded'
  BY <1>8 DEF IInv, PinsBounded
<1>10. StoreTypes'
  BY <1>1, TypeParts DEF IInv, StoreTypes
<1> QED BY <1>2, <1>3, <1>5, <1>6, <1>9, <1>10

\* Steps after which the same processes use the same buffers.
LEMMA SameUsers ==
    ASSUME IInv, UNCHANGED <<blockno, refcnt, lru, cur, want>>,
           \A q \in Procs : Counted(q)' <=> Counted(q)
    PROVE  ListTypes' /\ Wants' /\ RefsCounted'
<1>1. \A b \in Bufs : {q \in Procs : Counted(q)' /\ cur'[q] = b}
                        = {q \in Procs : Counted(q) /\ cur[q] = b}
  OBVIOUS
<1>2. Wants'
  BY DEF IInv, Wants
<1>3. \A q \in Procs : Counted(q)' => blockno'[cur'[q]] = want'[q]
  BY DEF IInv, RefsCounted
<1>4. \A b \in Bufs :
         refcnt'[b] = Cardinality({q \in Procs : Counted(q)' /\ cur'[q] = b})
  BY <1>1 DEF IInv, RefsCounted
<1>5. ListTypes'
  BY TypeParts DEF IInv, ListTypes
<1> QED BY <1>2, <1>3, <1>4, <1>5 DEF RefsCounted

-----------------------------------------------------------------------------
(* Steps of processes that change neither buffers nor drive, and whose user *)
(* keeps his buffer.                                                        *)

\* A process takes a free lock.
LEMMA AcquireStep ==
    ASSUME IInv, NEW p \in Procs, Acquire(p)
    PROVE  IInv'
<1> USE DEF At, Goto
<1>1. StoreTypes' /\ OneBuffer' /\ Coherent' /\ Started' /\ NothingLost' /\ PinsBounded'
  BY SameStore DEF Acquire
<1>2. ProcTypes
  BY TypeParts DEF IInv
<1>3. ListTypes' /\ Wants' /\ RefsCounted'
  <2>1. \A q \in Procs : Counted(q)' <=> Counted(q)
    BY <1>2 DEF Counted, Acquire, ProcTypes
  <2> QED BY <2>1, SameUsers DEF Acquire, bufs
<1>4. ProcTypes'
  BY <1>2 DEF ProcTypes, Steps, Acquire
<1>5. Owners'
  BY <1>2, BufAssumption DEF IInv, Owners, ProcTypes, Holding, Acquire
<1>6. Requests'
  <2>1. \A b \in Bufs : Queued(b)' <=> Queued(b)
    BY DEF Queued, Acquire, drive
  <2> QED
    BY <1>2, <2>1 DEF IInv, Requests, ProcTypes, InIderw, Acquire, bufs, drive
<1>7. LockWaiters'
  BY <1>2, BufAssumption DEF IInv, LockWaiters, ProcTypes, Acquire
<1> QED BY <1>1, <1>3, <1>4, <1>5, <1>6, <1>7, TypePartsNext DEF IInv

\* A process goes to sleep for a lock.
LEMMA AcquireSleepStep ==
    ASSUME IInv, NEW p \in Procs, AcquireSleep(p)
    PROVE  IInv'
<1> USE DEF At, Goto
<1>1. StoreTypes' /\ OneBuffer' /\ Coherent' /\ Started' /\ NothingLost' /\ PinsBounded'
  BY SameStore DEF AcquireSleep
<1>2. ProcTypes
  BY TypeParts DEF IInv
<1>3. ListTypes' /\ Wants' /\ RefsCounted'
  <2>1. \A q \in Procs : Counted(q)' <=> Counted(q)
    BY <1>2 DEF Counted, AcquireSleep, ProcTypes
  <2> QED BY <2>1, SameUsers DEF AcquireSleep, bufs
<1>4. ProcTypes'
  BY <1>2 DEF ProcTypes, Steps, AcquireSleep
<1>5. Owners'
  BY <1>2, BufAssumption DEF IInv, Owners, ProcTypes, Holding, AcquireSleep
<1>6. Requests'
  <2>1. \A b \in Bufs : Queued(b)' <=> Queued(b)
    BY DEF Queued, AcquireSleep, drive
  <2> QED
    BY <1>2, <2>1 DEF IInv, Requests, ProcTypes, InIderw, AcquireSleep, bufs, drive
<1>7. LockWaiters'
  BY <1>2, BufAssumption DEF IInv, LockWaiters, ProcTypes, AcquireSleep
<1> QED BY <1>1, <1>3, <1>4, <1>5, <1>6, <1>7, TypePartsNext DEF IInv

\* A sleeper is sent back to its test.
LEMMA WakeByKillStep ==
    ASSUME IInv, NEW p \in Procs, WakeByKill(p)
    PROVE  IInv'
<1> USE DEF At, Goto
<1>1. StoreTypes' /\ OneBuffer' /\ Coherent' /\ Started' /\ NothingLost' /\ PinsBounded'
  BY SameStore DEF WakeByKill
<1>2. ProcTypes
  BY TypeParts DEF IInv
<1>3. ListTypes' /\ Wants' /\ RefsCounted'
  <2>1. \A q \in Procs : Counted(q)' <=> Counted(q)
    BY <1>2 DEF Counted, WakeByKill, ProcTypes, Woken
  <2> QED BY <2>1, SameUsers DEF WakeByKill, bufs
<1>4. ProcTypes'
  BY <1>2 DEF ProcTypes, Steps, WakeByKill, Woken
<1>5. Owners'
  BY <1>2, BufAssumption DEF IInv, Owners, ProcTypes, Holding, WakeByKill, Woken
<1>6. Requests'
  <2>1. \A b \in Bufs : Queued(b)' <=> Queued(b)
    BY DEF Queued, WakeByKill, drive
  <2> QED
    BY <1>2, <2>1 DEF IInv, Requests, ProcTypes, InIderw, WakeByKill, bufs, drive, Woken
<1>7. LockWaiters'
  BY <1>2, BufAssumption DEF IInv, LockWaiters, ProcTypes, WakeByKill, Woken
<1> QED BY <1>1, <1>3, <1>4, <1>5, <1>6, <1>7, TypePartsNext DEF IInv

\* bread() finds the buffer valid.
LEMMA BreadCachedStep ==
    ASSUME IInv, NEW p \in Procs, BreadCached(p)
    PROVE  IInv'
<1> USE DEF At, Goto
<1>1. StoreTypes' /\ OneBuffer' /\ Coherent' /\ Started' /\ NothingLost' /\ PinsBounded'
  BY SameStore DEF BreadCached
<1>2. ProcTypes
  BY TypeParts DEF IInv
<1>3. ListTypes' /\ Wants' /\ RefsCounted'
  <2>1. \A q \in Procs : Counted(q)' <=> Counted(q)
    BY <1>2 DEF Counted, BreadCached, ProcTypes
  <2> QED BY <2>1, SameUsers DEF BreadCached, bufs
<1>4. ProcTypes'
  BY <1>2 DEF ProcTypes, Steps, BreadCached
<1>5. Owners'
  BY <1>2, BufAssumption DEF IInv, Owners, ProcTypes, Holding, BreadCached
<1>6. Requests'
  <2>1. \A b \in Bufs : Queued(b)' <=> Queued(b)
    BY DEF Queued, BreadCached, drive
  <2> QED
    BY <1>2, <2>1 DEF IInv, Requests, ProcTypes, InIderw, BreadCached, bufs, drive
<1>7. LockWaiters'
  BY <1>2, BufAssumption DEF IInv, LockWaiters, ProcTypes, BreadCached
<1> QED BY <1>1, <1>3, <1>4, <1>5, <1>6, <1>7, TypePartsNext DEF IInv

\* The loop test of iderw().
LEMMA IoAgainStep ==
    ASSUME IInv, NEW p \in Procs, IoAgain(p)
    PROVE  IInv'
<1> USE DEF At, Goto
<1>1. StoreTypes' /\ OneBuffer' /\ Coherent' /\ Started' /\ NothingLost' /\ PinsBounded'
  BY SameStore DEF IoAgain
<1>2. ProcTypes
  BY TypeParts DEF IInv
<1>3. ListTypes' /\ Wants' /\ RefsCounted'
  <2>1. \A q \in Procs : Counted(q)' <=> Counted(q)
    BY <1>2 DEF Counted, IoAgain, ProcTypes
  <2> QED BY <2>1, SameUsers DEF IoAgain, bufs
<1>4. ProcTypes'
  BY <1>2 DEF ProcTypes, Steps, IoAgain
<1>5. Owners'
  BY <1>2, BufAssumption DEF IInv, Owners, ProcTypes, Holding, IoAgain
<1>6. Requests'
  <2>1. \A b \in Bufs : Queued(b)' <=> Queued(b)
    BY DEF Queued, IoAgain, drive
  <2> QED
    BY <1>2, <2>1 DEF IInv, Requests, ProcTypes, InIderw, IoAgain, bufs, drive
<1>7. LockWaiters'
  BY <1>2, BufAssumption DEF IInv, LockWaiters, ProcTypes, IoAgain
<1> QED BY <1>1, <1>3, <1>4, <1>5, <1>6, <1>7, TypePartsNext DEF IInv

\* brelse() lets the lock go and wakes somebody who waits for it.
LEMMA ReleasesleepStep ==
    ASSUME IInv, NEW p \in Procs, Releasesleep(p)
    PROVE  IInv'
<1>1. StoreTypes' /\ OneBuffer' /\ Coherent' /\ Started' /\ NothingLost' /\ PinsBounded'
  BY SameStore DEF Releasesleep
<1>2. ProcTypes
  BY TypeParts DEF IInv
<1>3. PICK W \in SUBSET Sleepers(cur[p], "locksleep") :
         /\ Sleepers(cur[p], "locksleep") # {} => W # {}
         /\ pc' = [q \in Procs |-> IF q \in W THEN "acquire"
                                   ELSE [pc EXCEPT ![p] = "release"][q]]
  BY DEF Releasesleep, Wakeup, Woken
<1>4. \A q \in W : q \in Procs /\ pc[q] = "locksleep" /\ cur[q] = cur[p]
  BY DEF Sleepers
<1>5. pc[p] = "use"
  BY DEF Releasesleep, At
<1>6. \A q \in Procs : pc'[q] = IF q \in W THEN "acquire"
                                ELSE IF q = p THEN "release" ELSE pc[q]
  BY <1>2, <1>3 DEF ProcTypes
<1>7. ListTypes' /\ Wants' /\ RefsCounted'
  <2>1. \A q \in Procs : Counted(q)' <=> Counted(q)
    BY <1>4, <1>5, <1>6 DEF Counted
  <2> QED BY <2>1, SameUsers DEF Releasesleep, bufs
<1>8. ProcTypes'
  BY <1>2, <1>3, <1>6 DEF ProcTypes, Steps, Releasesleep
<1>9. Owners'
  BY <1>2, <1>4, <1>5, <1>6, BufAssumption DEF IInv, Owners, ProcTypes, Holding, Releasesleep
<1>10. Requests'
  <2>1. \A b \in Bufs : Queued(b)' <=> Queued(b)
    BY DEF Queued, Releasesleep, drive
  <2> QED
    BY <1>2, <1>4, <1>5, <1>6, <2>1
    DEF IInv, Requests, ProcTypes, InIderw, Releasesleep, bufs, drive
<1>11. LockWaiters'
  <2> SUFFICES ASSUME NEW q \in Procs, pc'[q] = "locksleep"
               PROVE  \/ owner'[cur'[q]] # NoProc
                      \/ \E r \in Procs : pc'[r] = "acquire" /\ cur'[r] = cur'[q]
    BY DEF LockWaiters
  <2>1. pc[q] = "locksleep" /\ cur' = cur /\ q # p
    BY <1>5, <1>6 DEF Releasesleep
  <2>2. CASE cur[q] = cur[p]
    <3>1. q \in Sleepers(cur[p], "locksleep")
      BY <2>1, <2>2 DEF Sleepers
    <3>2. PICK r \in W : TRUE
      BY <1>3, <3>1
    <3> QED BY <1>4, <1>6, <2>1, <2>2, <3>2
  <2>3. CASE cur[q] # cur[p]
    <3>1. owner'[cur[q]] = owner[cur[q]]
      BY <1>2, <2>3 DEF Releasesleep, ProcTypes
    <3>2. \/ owner[cur[q]] # NoProc
          \/ \E r \in Procs : pc[r] = "acquire" /\ cur[r] = cur[q]
      BY <2>1 DEF IInv, LockWaiters
    <3>3. ASSUME NEW r \in Procs, pc[r] = "acquire" PROVE pc'[r] = "acquire"
      BY <1>4, <1>5, <1>6, <3>3
    <3> QED BY <2>1, <3>1, <3>2, <3>3
  <2> QED BY <2>2, <2>3
<1> QED BY <1>1, <1>7, <1>8, <1>9, <1>10, <1>11, TypePartsNext DEF IInv

-----------------------------------------------------------------------------
(* bget() and brelse(): the list and the reference counts.                  *)

\* Moving a buffer to the front leaves every buffer on the list.
LEMMA ToFrontKeeps ==
    ASSUME NEW s \in [Bufs -> Bufs], {s[i] : i \in Bufs} = Bufs, NEW b \in Bufs
    PROVE  /\ ToFront(s, b) \in [Bufs -> Bufs]
           /\ {ToFront(s, b)[i] : i \in Bufs} = Bufs
<1> DEFINE k == CHOOSE k \in Bufs : s[k] = b
           t == ToFront(s, b)
<1>1. k \in Bufs /\ s[k] = b
  <2>1. \E j \in Bufs : s[j] = b
    OBVIOUS
  <2> QED BY <2>1
<1>2. NBUF \in Nat \ {0}
  BY BufAssumption
<1>3. t = [i \in Bufs |-> IF i = 1 THEN b ELSE IF i <= k THEN s[i - 1] ELSE s[i]]
  BY DEF ToFront
<1> HIDE DEF k, t
<1>4. t \in [Bufs -> Bufs]
  <2>1. \A i \in Bufs : i # 1 => i - 1 \in Bufs
    BY <1>2 DEF Bufs
  <2>2. \A i \in Bufs : (IF i = 1 THEN b ELSE IF i <= k THEN s[i - 1] ELSE s[i]) \in Bufs
    BY <2>1
  <2> QED BY <1>3, <2>2
<1>5. ASSUME NEW c \in Bufs PROVE \E i \in Bufs : t[i] = c
  <2>1. PICK j \in Bufs : s[j] = c
    OBVIOUS
  <2>2. CASE j = k
    BY <1>1, <1>2, <1>3, <2>1, <2>2 DEF Bufs
  <2>3. CASE j < k
    <3>1. j + 1 \in Bufs /\ j + 1 # 1 /\ j + 1 <= k /\ (j + 1) - 1 = j
      BY <1>1, <1>2, <2>3 DEF Bufs
    <3>2. t[j + 1] = s[j]
      BY <1>3, <3>1
    <3> QED BY <2>1, <3>1, <3>2
  <2>4. CASE j > k
    <3>1. j # 1 /\ ~(j <= k)
      BY <1>1, <1>2, <2>4 DEF Bufs
    <3> QED BY <1>3, <2>1, <3>1
  <2> QED BY <1>1, <2>2, <2>3, <2>4 DEF Bufs
<1>6. {t[i] : i \in Bufs} = Bufs
  BY <1>4, <1>5
<1> QED BY <1>4, <1>6 DEF t

\* Counting one more user.
LEMMA OneMore ==
    ASSUME NEW S \in SUBSET Procs, NEW p \in Procs \ S
    PROVE  Cardinality(S \cup {p}) = Cardinality(S) + 1
BY UsersFinite, FS_AddElement

\* Counting one user less.
LEMMA OneLess ==
    ASSUME NEW S \in SUBSET Procs, NEW p \in S
    PROVE  Cardinality(S \ {p}) = Cardinality(S) - 1
BY UsersFinite, FS_RemoveElement

Users(b) == {q \in Procs : Counted(q) /\ cur[q] = b}

\* refcnt in terms of the users.
LEMMA RefsAreUsers ==
    RefsCounted <=> /\ \A q \in Procs : Counted(q) => blockno[cur[q]] = want[q]
                    /\ \A b \in Bufs : refcnt[b] = Cardinality(Users(b))
BY DEF RefsCounted, Users

\* The same after a step.
LEMMA RefsAreUsersNext ==
    RefsCounted' <=> /\ \A q \in Procs : Counted(q)' => blockno'[cur'[q]] = want'[q]
                     /\ \A b \in Bufs : refcnt'[b] = Cardinality(Users(b)')
BY DEF RefsCounted, Users

\* A buffer that is not in use is not locked and has no request.
LEMMA FreeBuffer ==
    ASSUME IInv, NEW b \in Bufs, refcnt[b] = 0
    PROVE  /\ \A q \in Procs : Counted(q) => cur[q] # b
           /\ owner[b] = NoProc
           /\ ~Queued(b)
<1>1. Cardinality(Users(b)) = 0 /\ IsFiniteSet(Users(b))
  BY RefsAreUsers, UsersFinite DEF IInv, Users
<1>2. Users(b) = {}
  BY <1>1, FS_EmptySet
<1>3. \A q \in Procs : Counted(q) => cur[q] # b
  BY <1>2 DEF Users
<1>4. owner[b] = NoProc
  BY <1>3, TypeParts DEF IInv, Owners, Holding, Counted, ProcTypes
<1>5. ~Queued(b)
  BY <1>3 DEF IInv, Requests, InIderw, Counted
<1> QED BY <1>3, <1>4, <1>5

\* bget() finds the block in the cache.
LEMMA BgetHitStep ==
    ASSUME IInv, NEW p \in Procs, NEW blk \in Blocks, BgetHit(p, blk)
    PROVE  IInv'
<1>1. StoreTypes' /\ OneBuffer' /\ Coherent' /\ Started' /\ NothingLost' /\ PinsBounded'
  BY SameStore DEF BgetHit
<1>2. ProcTypes /\ ListTypes
  BY TypeParts DEF IInv
<1>3. PICK b \in Cached(blk) : /\ refcnt' = [refcnt EXCEPT ![b] = @ + 1]
                               /\ cur' = [cur EXCEPT ![p] = b]
  BY DEF BgetHit
<1>4. b \in Bufs /\ blockno[b] = blk
  BY DEF Cached
<1>5. /\ pc[p] = "user" /\ pc' = [pc EXCEPT ![p] = "acquire"]
      /\ want' = [want EXCEPT ![p] = blk]
      /\ blockno' = blockno /\ owner' = owner /\ lru' = lru
  BY DEF BgetHit, At, Goto, bufs
<1>6. ProcTypes'
  BY <1>2, <1>3, <1>4, <1>5 DEF ProcTypes, Steps
<1>7. /\ \A q \in Procs \ {p} : pc'[q] = pc[q] /\ cur'[q] = cur[q] /\ want'[q] = want[q]
      /\ pc'[p] = "acquire" /\ cur'[p] = b /\ want'[p] = blk
  BY <1>2, <1>3, <1>5 DEF ProcTypes
<1>8. \A q \in Procs : Counted(q)' <=> Counted(q) \/ q = p
  BY <1>5, <1>7 DEF Counted
<1>9. ~Counted(p)
  BY <1>5 DEF Counted
<1>10. RefsCounted'
  <2>1. \A q \in Procs : Counted(q)' => blockno'[cur'[q]] = want'[q]
    BY <1>4, <1>5, <1>7, <1>8 DEF IInv, RefsCounted
  <2>2. Users(b)' = Users(b) \cup {p} /\ p \notin Users(b)
    BY <1>7, <1>8, <1>9 DEF Users
  <2>3. \A c \in Bufs \ {b} : Users(c)' = Users(c)
    BY <1>7, <1>8, <1>9 DEF Users
  <2>4. Cardinality(Users(b)') = Cardinality(Users(b)) + 1
    BY <2>2, OneMore DEF Users
  <2>5. \A c \in Bufs : refcnt'[c] = Cardinality(Users(c)')
    BY <1>2, <1>3, <1>4, <2>3, <2>4, RefsAreUsers DEF ListTypes, IInv
  <2> QED BY <2>1, <2>5, RefsAreUsersNext
<1>11. ListTypes'
  <2>1. \A c \in Bufs : refcnt'[c] \in 0..Cardinality(Procs)
    BY <1>10, RefsAreUsersNext, UsersFinite DEF Users
  <2> QED BY <1>2, <1>3, <1>5, <2>1 DEF ListTypes
<1>12. Wants'
  BY <1>7, <1>8 DEF IInv, Wants
<1>13. Owners'
  BY <1>5, <1>7 DEF IInv, Owners, Holding
<1>14. Requests'
  <2>1. \A c \in Bufs : Queued(c)' <=> Queued(c)
    BY DEF Queued, BgetHit, drive
  <2>2. idequeue' = idequeue /\ valid' = valid /\ dirty' = dirty
    BY DEF BgetHit, drive, bufs
  <2> QED BY <1>2, <1>5, <1>7, <2>1, <2>2 DEF IInv, Requests, InIderw, ProcTypes
<1>15. LockWaiters'
  BY <1>5, <1>7 DEF IInv, LockWaiters
<1> QED
  BY <1>1, <1>6, <1>10, <1>11, <1>12, <1>13, <1>14, <1>15, TypePartsNext DEF IInv

\* bget() recycles the least recently used buffer.
LEMMA BgetMissStep ==
    ASSUME IInv, NEW p \in Procs, NEW blk \in Blocks, BgetMiss(p, blk)
    PROVE  IInv'
<1>1. ProcTypes /\ ListTypes /\ StoreTypes
  BY TypeParts DEF IInv
<1>2. PICK b \in Victim : /\ blockno' = [blockno EXCEPT ![b] = blk]
                          /\ valid' = [valid EXCEPT ![b] = FALSE]
                          /\ dirty' = [dirty EXCEPT ![b] = FALSE]
                          /\ refcnt' = [refcnt EXCEPT ![b] = 1]
                          /\ cur' = [cur EXCEPT ![p] = b]
  BY DEF BgetMiss
<1>3. b \in Bufs /\ refcnt[b] = 0 /\ ~dirty[b]
  BY <1>1 DEF Victim, Recyclable, ListTypes
<1>4. /\ pc[p] = "user" /\ pc' = [pc EXCEPT ![p] = "acquire"]
      /\ want' = [want EXCEPT ![p] = blk] /\ Cached(blk) = {}
      /\ data' = data /\ owner' = owner /\ lru' = lru /\ idequeue' = idequeue
      /\ disk' = disk /\ hw' = hw /\ latest' = latest
  BY DEF BgetMiss, At, Goto, drive
<1>5. /\ \A q \in Procs : Counted(q) => cur[q] # b
      /\ owner[b] = NoProc /\ ~Queued(b)
  BY <1>3, FreeBuffer
<1>6. ProcTypes'
  BY <1>1, <1>2, <1>3, <1>4 DEF ProcTypes, Steps
<1>7. StoreTypes'
  BY <1>1, <1>2, <1>3, <1>4 DEF StoreTypes
<1>8. /\ \A q \in Procs \ {p} : pc'[q] = pc[q] /\ cur'[q] = cur[q] /\ want'[q] = want[q]
      /\ pc'[p] = "acquire" /\ cur'[p] = b /\ want'[p] = blk
  BY <1>1, <1>2, <1>4 DEF ProcTypes
<1>9. /\ \A c \in Bufs \ {b} : /\ blockno'[c] = blockno[c] /\ valid'[c] = valid[c]
                               /\ dirty'[c] = dirty[c] /\ refcnt'[c] = refcnt[c]
      /\ blockno'[b] = blk /\ ~valid'[b] /\ ~dirty'[b] /\ refcnt'[b] = 1
  BY <1>1, <1>2, <1>3 DEF StoreTypes, ListTypes
<1>10. \A q \in Procs : Counted(q)' <=> Counted(q) \/ q = p
  BY <1>4, <1>8 DEF Counted
<1>11. ~Counted(p)
  BY <1>4 DEF Counted
<1>12. \A c \in Bufs : Queued(c)' <=> Queued(c)
  BY <1>4 DEF Queued
<1>13. RefsCounted'
  <2>1. \A q \in Procs : Counted(q)' => blockno'[cur'[q]] = want'[q]
    BY <1>1, <1>5, <1>8, <1>9, <1>10 DEF IInv, RefsCounted, ProcTypes
  <2>2. Users(b) = {}
    BY <1>5 DEF Users
  <2>3. Users(b)' = Users(b) \cup {p}
    BY <1>8, <1>10, <1>11 DEF Users
  <2>4. \A c \in Bufs \ {b} : Users(c)' = Users(c)
    BY <1>8, <1>10, <1>11 DEF Users
  <2>5. Cardinality(Users(b)') = Cardinality({}) + 1
    BY <2>2, <2>3, OneMore DEF Users
  <2>6. Cardinality(Users(b)') = 1
    BY <2>5, FS_EmptySet
  <2>7. \A c \in Bufs : refcnt'[c] = Cardinality(Users(c)')
    BY <1>9, <2>4, <2>6, RefsAreUsers DEF IInv
  <2> QED BY <2>1, <2>7, RefsAreUsersNext
<1>14. ListTypes'
  <2>1. \A c \in Bufs : refcnt'[c] \in 0..Cardinality(Procs)
    BY <1>13, RefsAreUsersNext, UsersFinite DEF Users
  <2> QED BY <1>1, <1>2, <1>4, <2>1 DEF ListTypes
<1>15. Wants'
  BY <1>8, <1>10 DEF IInv, Wants
<1>16. Owners'
  BY <1>4, <1>8 DEF IInv, Owners, Holding
<1>17. Requests'
  <2>1. \A c \in Bufs : Queued(c) => c # b
    BY <1>5
  <2>2. \A q \in Procs : pc'[q] \in InIderw \cup {"use"} =>
           q # p /\ pc'[q] = pc[q] /\ cur'[q] = cur[q] /\ cur[q] # b /\ cur[q] \in Bufs
    BY <1>1, <1>5, <1>8 DEF InIderw, Counted, ProcTypes
  <2>3. \A i, j \in 1..Len(idequeue') : idequeue'[i] = idequeue'[j] => i = j
    BY <1>4 DEF IInv, Requests
  <2>4. ASSUME NEW c \in Bufs, Queued(c)'
        PROVE  /\ ~valid'[c] \/ dirty'[c]
               /\ \E q \in Procs : pc'[q] \in InIderw /\ cur'[q] = c
    <3>1. Queued(c) /\ c # b
      BY <1>12, <2>1, <2>4
    <3>2. PICK q \in Procs : pc[q] \in InIderw /\ cur[q] = c
      BY <3>1 DEF IInv, Requests
    <3>3. q # p
      BY <1>4, <3>2 DEF InIderw
    <3> QED BY <1>8, <1>9, <3>1, <3>2, <3>3 DEF IInv, Requests
  <2>5. ASSUME NEW q \in Procs
        PROVE  /\ pc'[q] \in InIderw /\ ~Queued(cur[q])' =>
                     valid'[cur'[q]] /\ ~dirty'[cur'[q]]
               /\ pc'[q] = "use" => valid'[cur'[q]]
    <3>1. CASE pc'[q] \in InIderw \cup {"use"}
      <4>1. Queued(cur[q])' <=> Queued(cur[q])
        BY <1>4, <2>2, <3>1 DEF Queued
      <4> QED BY <1>9, <2>2, <3>1, <4>1 DEF IInv, Requests
    <3> QED BY <3>1
  <2> QED BY <2>3, <2>4, <2>5 DEF Requests
<1>18. LockWaiters'
  BY <1>4, <1>8 DEF IInv, LockWaiters
<1>19. OneBuffer'
  BY <1>4, <1>9 DEF IInv, OneBuffer, Cached
<1>20. Coherent'
  BY <1>4, <1>9 DEF IInv, Coherent
<1>21. Settled' = Settled
  BY <1>4 DEF Settled
<1>22. Started'
  <2>1. idequeue # <<>> => idequeue[1] \in Bufs /\ idequeue[1] # b
    BY <1>1, <1>5 DEF StoreTypes, Queued
  <2> QED BY <1>4, <1>9, <1>21, <2>1 DEF IInv, Started
<1>23. NothingLost'
  <2> SUFFICES ASSUME NEW x \in Blocks, \A c \in Cached(x)' : ~dirty'[c]
               PROVE  Settled[x] = latest[x]
    BY <1>4, <1>21 DEF NothingLost
  <2>1. \A c \in Cached(x) : ~dirty[c]
    BY <1>3, <1>9 DEF Cached
  <2> QED BY <2>1 DEF IInv, NothingLost
<1>24. PinsBounded'
  <2>1. {c \in Bufs : dirty'[c] /\ ~Queued(c)'} = {c \in Bufs : dirty[c] /\ ~Queued(c)}
    BY <1>3, <1>9, <1>12
  <2> QED BY <2>1 DEF IInv, PinsBounded
<1> QED
  BY <1>6, <1>7, <1>13, <1>14, <1>15, <1>16, <1>17, <1>18, <1>19, <1>20, <1>22,
     <1>23, <1>24, TypePartsNext
  DEF IInv

\* brelse() counts the user down and, after the last one, moves the buffer.
LEMMA BrelseStep ==
    ASSUME IInv, NEW p \in Procs, Brelse(p)
    PROVE  IInv'
<1>1. StoreTypes' /\ OneBuffer' /\ Coherent' /\ Started' /\ NothingLost' /\ PinsBounded'
  BY SameStore DEF Brelse
<1>2. ProcTypes /\ ListTypes
  BY TypeParts DEF IInv
<1>3. /\ pc[p] = "release" /\ pc' = [pc EXCEPT ![p] = "user"]
      /\ refcnt' = [refcnt EXCEPT ![cur[p]] = @ - 1]
      /\ cur' = [cur EXCEPT ![p] = 1]
      /\ want' = [want EXCEPT ![p] = NoBlock]
      /\ lru' = lru \/ lru' = ToFront(lru, cur[p])
      /\ blockno' = blockno /\ owner' = owner
  BY DEF Brelse, At, Goto, bufs
<1>4. cur[p] \in Bufs /\ 1 \in Bufs
  BY <1>2, BufAssumption DEF ProcTypes, Bufs
<1>5. ProcTypes'
  BY <1>2, <1>3, <1>4 DEF ProcTypes, Steps
<1>6. /\ \A q \in Procs \ {p} : pc'[q] = pc[q] /\ cur'[q] = cur[q] /\ want'[q] = want[q]
      /\ pc'[p] = "user"
  BY <1>2, <1>3 DEF ProcTypes
<1>7. \A q \in Procs : Counted(q)' <=> Counted(q) /\ q # p
  BY <1>3, <1>6 DEF Counted
<1>8. Counted(p)
  BY <1>3 DEF Counted
<1>9. RefsCounted'
  <2>1. \A q \in Procs : Counted(q)' => blockno'[cur'[q]] = want'[q]
    BY <1>3, <1>6, <1>7 DEF IInv, RefsCounted
  <2>2. Users(cur[p]) \in SUBSET Procs /\ p \in Users(cur[p])
    BY <1>8 DEF Users
  <2>3. \A c \in Bufs : Users(c)' = IF c = cur[p] THEN Users(c) \ {p} ELSE Users(c)
    BY <1>6, <1>7 DEF Users
  <2>4. Cardinality(Users(cur[p]) \ {p}) = Cardinality(Users(cur[p])) - 1
    BY <2>2, OneLess
  <2>5. \A c \in Bufs : refcnt'[c] = Cardinality(Users(c)')
    BY <1>2, <1>3, <1>4, <2>3, <2>4, RefsAreUsers DEF ListTypes, IInv
  <2> QED BY <2>1, <2>5, RefsAreUsersNext
<1>10. ListTypes'
  <2>1. \A c \in Bufs : refcnt'[c] \in 0..Cardinality(Procs)
    BY <1>9, RefsAreUsersNext, UsersFinite DEF Users
  <2>2. lru' \in [Bufs -> Bufs] /\ {lru'[i] : i \in Bufs} = Bufs
    <3>1. lru \in [Bufs -> Bufs] /\ {lru[i] : i \in Bufs} = Bufs
      BY <1>2 DEF ListTypes
    <3>2. CASE lru' = lru
      BY <3>1, <3>2
    <3>3. CASE lru' = ToFront(lru, cur[p])
      <4>1. /\ ToFront(lru, cur[p]) \in [Bufs -> Bufs]
            /\ {ToFront(lru, cur[p])[i] : i \in Bufs} = Bufs
        BY <1>4, <3>1, ToFrontKeeps
      <4> QED BY <3>3, <4>1
    <3> QED BY <1>3, <3>2, <3>3
  <2> QED BY <1>2, <1>3, <2>1, <2>2 DEF ListTypes
<1>11. Wants'
  BY <1>6, <1>7 DEF IInv, Wants
<1>12. Owners'
  BY <1>3, <1>6 DEF IInv, Owners, Holding
<1>13. Requests'
  <2>1. \A c \in Bufs : Queued(c)' <=> Queued(c)
    BY DEF Queued, Brelse, drive
  <2>2. idequeue' = idequeue /\ valid' = valid /\ dirty' = dirty
    BY DEF Brelse, drive, bufs
  <2> QED BY <1>2, <1>3, <1>6, <2>1, <2>2 DEF IInv, Requests, InIderw, ProcTypes
<1>14. LockWaiters'
  BY <1>3, <1>6 DEF IInv, LockWaiters
<1> QED
  BY <1>1, <1>5, <1>9, <1>10, <1>11, <1>12, <1>13, <1>14, TypePartsNext DEF IInv

-----------------------------------------------------------------------------
(* The queue of the IDE driver.                                             *)

\* A request at the end of the queue.
LEMMA AppendQueue ==
    ASSUME idequeue \in Seq(Bufs), NEW b \in Bufs, idequeue' = Append(idequeue, b)
    PROVE  /\ idequeue' \in Seq(Bufs) /\ Len(idequeue') = Len(idequeue) + 1
           /\ \A i \in 1..Len(idequeue) : idequeue'[i] = idequeue[i]
           /\ idequeue'[Len(idequeue) + 1] = b
           /\ \A c \in Bufs : Queued(c)' <=> Queued(c) \/ c = b
<1>1. Len(idequeue) \in Nat
  OBVIOUS
<1>2. /\ idequeue' \in Seq(Bufs) /\ Len(idequeue') = Len(idequeue) + 1
      /\ \A i \in 1..Len(idequeue) : idequeue'[i] = idequeue[i]
      /\ idequeue'[Len(idequeue) + 1] = b
  OBVIOUS
<1>3. \A i \in 1..Len(idequeue') : i \in 1..Len(idequeue) \/ i = Len(idequeue) + 1
  BY <1>1, <1>2
<1>4. \A i \in 1..Len(idequeue) : i \in 1..Len(idequeue')
  BY <1>1, <1>2
<1>5. Len(idequeue) + 1 \in 1..Len(idequeue')
  BY <1>1, <1>2
<1>6. \A c \in Bufs : Queued(c)' <=> Queued(c) \/ c = b
  BY <1>2, <1>3, <1>4, <1>5 DEF Queued
<1> QED BY <1>2, <1>6

\* The first request is taken off a queue without repetitions.
LEMMA TailQueue ==
    ASSUME idequeue \in Seq(Bufs), idequeue # <<>>, idequeue' = Tail(idequeue),
           \A i, j \in 1..Len(idequeue) : idequeue[i] = idequeue[j] => i = j
    PROVE  /\ idequeue' \in Seq(Bufs) /\ Len(idequeue') = Len(idequeue) - 1
           /\ \A i \in 1..Len(idequeue') : i + 1 \in 1..Len(idequeue)
                                           /\ idequeue'[i] = idequeue[i + 1]
           /\ Head(idequeue) = idequeue[1] /\ idequeue[1] \in Bufs
           /\ \A c \in Bufs : Queued(c)' <=> Queued(c) /\ c # idequeue[1]
<1>1. Len(idequeue) \in Nat \ {0}
  OBVIOUS
<1>2. /\ idequeue' \in Seq(Bufs) /\ Len(idequeue') = Len(idequeue) - 1
      /\ Head(idequeue) = idequeue[1] /\ idequeue[1] \in Bufs
      /\ \A i \in 1..Len(idequeue') : idequeue'[i] = idequeue[i + 1]
  BY <1>1
<1>3. \A i \in 1..Len(idequeue') : i + 1 \in 1..Len(idequeue) /\ i + 1 # 1
  BY <1>1, <1>2
<1>4. ASSUME NEW c \in Bufs PROVE Queued(c)' <=> Queued(c) /\ c # idequeue[1]
  <2>1. ASSUME Queued(c)' PROVE Queued(c) /\ c # idequeue[1]
    <3>1. PICK i \in 1..Len(idequeue') : idequeue'[i] = c
      BY <2>1 DEF Queued
    <3>2. idequeue[i + 1] = c /\ i + 1 \in 1..Len(idequeue) /\ i + 1 # 1
      BY <1>2, <1>3, <3>1
    <3>3. 1 \in 1..Len(idequeue)
      BY <1>1
    <3> QED BY <3>2, <3>3 DEF Queued
  <2>2. ASSUME Queued(c), c # idequeue[1] PROVE Queued(c)'
    <3>1. PICK i \in 1..Len(idequeue) : idequeue[i] = c
      BY <2>2 DEF Queued
    <3>2. i # 1
      BY <2>2, <3>1
    <3>3. i - 1 \in 1..Len(idequeue') /\ (i - 1) + 1 = i
      BY <1>1, <1>2, <3>2
    <3>4. idequeue'[i - 1] = c
      BY <1>2, <3>1, <3>3
    <3> QED BY <3>3, <3>4 DEF Queued
  <2> QED BY <2>1, <2>2
<1> QED BY <1>2, <1>3, <1>4

\* Who holds the lock of a buffer is the only one; the buffer has a request
\* exactly while he waits for one, and a block.
LEMMA HolderOf ==
    ASSUME IInv, NEW p \in Procs, pc[p] \in Holding
    PROVE  /\ cur[p] \in Bufs /\ blockno[cur[p]] = want[p] /\ want[p] \in Blocks
           /\ \A q \in Procs : pc[q] \in Holding /\ cur[q] = cur[p] => q = p
           /\ pc[p] \notin InIderw => ~Queued(cur[p])
<1>1. cur[p] \in Bufs
  BY TypeParts DEF IInv, ProcTypes
<1>2. blockno[cur[p]] = want[p] /\ want[p] \in Blocks
  BY DEF IInv, RefsCounted, Wants, Counted, Holding
<1>3. \A q \in Procs : pc[q] \in Holding /\ cur[q] = cur[p] => q = p
  BY <1>1 DEF IInv, Owners
<1>4. pc[p] \notin InIderw => ~Queued(cur[p])
  BY <1>1, <1>3 DEF IInv, Requests, InIderw, Holding
<1> QED BY <1>1, <1>2, <1>3, <1>4

\* iderw() up to its first sleep(), with flags and contents as its caller has
\* set them.
LEMMA IderwStep ==
    ASSUME IInv, NEW p \in Procs, pc[p] \in {"locked", "use"},
           UNCHANGED <<blockno, valid, refcnt, owner, lru, cur, want>>,
           StoreTypes => /\ dirty' \in [Bufs -> BOOLEAN]
                         /\ data' \in [Bufs -> Vals \cup {NoVal}]
                         /\ latest' \in [Blocks -> Vals],
           \A c \in Bufs : c # cur[p] => dirty'[c] = dirty[c] /\ data'[c] = data[c],
           dirty[cur[p]] => dirty'[cur[p]],
           ~valid[cur[p]] \/ dirty'[cur[p]],
           Coherent',
           \A x \in Blocks : latest'[x] = latest[x] \/ (x = want[p] /\ dirty'[cur[p]]),
           idequeue' = Append(idequeue, cur[p]),
           pc' = [pc EXCEPT ![p] = "iosleep"],
           IF idequeue = <<>>
           THEN /\ disk' = Settled
                /\ hw' = IF dirty'[cur[p]]
                         THEN [blk |-> blockno[cur[p]], val |-> data'[cur[p]]]
                         ELSE Idle
           ELSE UNCHANGED <<disk, hw>>
    PROVE  IInv'
<1> DEFINE b == cur[p]
<1>1. ProcTypes /\ StoreTypes
  BY TypeParts DEF IInv
<1>2. /\ b \in Bufs /\ blockno[b] = want[p] /\ want[p] \in Blocks
      /\ \A q \in Procs : pc[q] \in Holding /\ cur[q] = b => q = p
      /\ ~Queued(b)
  BY HolderOf DEF Holding, InIderw
<1>3. /\ idequeue' \in Seq(Bufs) /\ Len(idequeue') = Len(idequeue) + 1
      /\ \A i \in 1..Len(idequeue) : idequeue'[i] = idequeue[i]
      /\ idequeue'[Len(idequeue) + 1] = b
      /\ \A c \in Bufs : Queued(c)' <=> Queued(c) \/ c = b
      /\ Len(idequeue) \in Nat
  BY <1>1, <1>2, AppendQueue DEF StoreTypes
<1>4. dirty'[b] => data'[b] \in Vals
  BY <1>1, <1>2 DEF Coherent, StoreTypes
<1>5. /\ \A x \in Blocks : (hw.blk = x => hw.val \in Vals)
      /\ hw.blk \in Blocks \cup {NoBlock}
  BY <1>1, BufAssumption DEF IInv, Started, Idle, StoreTypes
<1>6. Settled \in [Blocks -> Vals]
  BY <1>1, <1>5 DEF Settled, StoreTypes
<1>7. \A q \in Procs : pc'[q] = IF q = p THEN "iosleep" ELSE pc[q]
  BY <1>1 DEF ProcTypes
<1>8. StoreTypes'
  <2>1. disk' \in [Blocks -> Vals]
    BY <1>1, <1>6 DEF StoreTypes
  <2>2. hw' \in [blk : Blocks \cup {NoBlock}, val : Vals \cup {NoVal}]
    BY <1>1, <1>2, <1>4 DEF StoreTypes, Idle
  <2> QED BY <1>1, <1>3, <2>1, <2>2 DEF StoreTypes
<1>9. ListTypes' /\ Wants' /\ RefsCounted'
  <2>1. \A q \in Procs : Counted(q)' <=> Counted(q)
    BY <1>7 DEF Counted
  <2> QED BY <2>1, SameUsers
<1>10. ProcTypes'
  BY <1>1 DEF ProcTypes, Steps
<1>11. Owners'
  BY <1>7 DEF IInv, Owners, Holding
<1>12. OneBuffer'
  BY DEF IInv, OneBuffer
<1>13. Requests'
  <2>1. ASSUME NEW i \in 1..Len(idequeue'), NEW j \in 1..Len(idequeue'),
               idequeue'[i] = idequeue'[j]
        PROVE  i = j
    <3>1. /\ i \in 1..Len(idequeue) \/ i = Len(idequeue) + 1
          /\ j \in 1..Len(idequeue) \/ j = Len(idequeue) + 1
      BY <1>3
    <3>2. \A k \in 1..Len(idequeue) : idequeue[k] # b
      BY <1>2 DEF Queued
    <3> QED BY <1>3, <2>1, <3>1, <3>2 DEF IInv, Requests
  <2>2. ASSUME NEW c \in Bufs, Queued(c)'
        PROVE  /\ ~valid'[c] \/ dirty'[c]
               /\ \E q \in Procs : pc'[q] \in InIderw /\ cur'[q] = c
    <3>1. CASE c = b
      BY <1>7, <3>1 DEF InIderw
    <3>2. CASE c # b
      BY <1>3, <1>7, <2>2, <3>2 DEF IInv, Requests, InIderw
    <3> QED BY <3>1, <3>2
  <2>3. ASSUME NEW q \in Procs
        PROVE  /\ pc'[q] \in InIderw /\ ~Queued(cur[q])' =>
                     valid'[cur'[q]] /\ ~dirty'[cur'[q]]
               /\ pc'[q] = "use" => valid'[cur'[q]]
    <3>1. CASE q = p
      BY <1>2, <1>3, <1>7, <3>1 DEF Queued
    <3>2. CASE q # p
      <4>1. cur[q] \in Bufs /\ cur' = cur /\ pc'[q] = pc[q]
        BY <1>1, <1>7, <3>2 DEF ProcTypes
      <4>2. pc[q] \in InIderw => cur[q] # b
        BY <1>2, <3>2 DEF InIderw, Holding
      <4>3. Queued(cur[q])' <=> Queued(cur[q]) \/ cur[q] = b
        <5>1. Queued(cur[q])' <=> \E i \in 1..Len(idequeue') : idequeue'[i] = cur[q]
          BY <4>1 DEF Queued
        <5> QED BY <1>3, <4>1, <5>1 DEF Queued
      <4> QED BY <4>1, <4>2, <4>3 DEF IInv, Requests
    <3> QED BY <3>1, <3>2
  <2> QED BY <2>1, <2>2, <2>3 DEF Requests
<1>14. \A x \in Blocks : Settled'[x] = Settled[x] \/ (x = want[p] /\ dirty'[b])
  <2>1. CASE idequeue = <<>>
    <3>1. disk' = Settled
      BY <2>1
    <3>2. CASE dirty'[b]
      BY <1>2, <1>6, <2>1, <3>1, <3>2 DEF Settled
    <3>3. CASE ~dirty'[b]
      <4>1. hw'.blk = NoBlock
        BY <2>1, <3>3 DEF Idle
      <4> QED BY <3>1, <4>1, BufAssumption DEF Settled
    <3> QED BY <3>2, <3>3
  <2>2. CASE idequeue # <<>>
    BY <2>2 DEF Settled
  <2> QED BY <2>1, <2>2
<1>15. Started'
  <2>1. CASE idequeue = <<>>
    <3>1. idequeue'[1] = b /\ idequeue' # <<>>
      BY <1>3, <2>1
    <3>2. CASE dirty'[b]
      <4>1. hw' = [blk |-> blockno[b], val |-> data'[b]]
        BY <2>1, <3>2
      <4>2. Settled'[blockno[b]] = data'[b]
        BY <1>2, <4>1 DEF Settled
      <4> QED BY <1>2, <1>4, <3>1, <3>2, <4>1, <4>2 DEF Started
    <3>3. CASE ~dirty'[b]
      <4>1. hw' = Idle
        BY <2>1, <3>3
      <4>2. Idle' = Idle
        BY DEF Idle
      <4> QED BY <3>1, <3>3, <4>1, <4>2 DEF Started
    <3> QED BY <3>2, <3>3
  <2>2. CASE idequeue # <<>>
    <3>1. 1 \in 1..Len(idequeue) /\ idequeue' # <<>>
      BY <1>1, <1>3, <2>2 DEF StoreTypes
    <3>2. idequeue'[1] = idequeue[1] /\ idequeue[1] # b /\ idequeue[1] \in Bufs
      BY <1>1, <1>2, <1>3, <3>1 DEF Queued, StoreTypes
    <3>3. hw' = hw /\ disk' = disk /\ Settled' = Settled
      BY <2>2 DEF Settled
    <3> QED BY <2>2, <3>1, <3>2, <3>3 DEF IInv, Started, Idle
  <2> QED BY <2>1, <2>2
<1>16. NothingLost'
  <2> SUFFICES ASSUME NEW x \in Blocks, \A c \in Cached(x)' : ~dirty'[c]
               PROVE  Settled'[x] = latest'[x]
    BY DEF NothingLost
  <2>1. ~(x = want[p] /\ dirty'[b])
    BY <1>2 DEF Cached
  <2>2. \A c \in Cached(x) : ~dirty[c]
    BY DEF Cached
  <2> QED BY <1>14, <2>1, <2>2 DEF IInv, NothingLost
<1>17. PinsBounded'
  <2> DEFINE S == {c \in Bufs : dirty[c] /\ ~Queued(c)}
             T == {c \in Bufs : dirty'[c] /\ ~Queued(c)'}
  <2>1. T \subseteq S
    BY <1>3
  <2>2. IsFiniteSet(S) /\ IsFiniteSet(T)
    BY BufsFinite, FS_Subset
  <2>3. Cardinality(T) <= Cardinality(S) /\ Cardinality(T) \in Nat /\ Cardinality(S) \in Nat
    BY <2>1, <2>2, FS_Subset, FS_CardinalityType
  <2>4. Cardinality(S) <= MaxPins
    BY DEF IInv, PinsBounded
  <2>5. Cardinality(T) <= MaxPins
    <3> HIDE DEF S, T
    <3> QED BY <2>3, <2>4, BufAssumption
  <2> QED BY <2>5 DEF PinsBounded
<1>18. LockWaiters'
  BY <1>7 DEF IInv, LockWaiters
<1> QED
  BY <1>8, <1>9, <1>10, <1>11, <1>12, <1>13, <1>15, <1>16, <1>17, <1>18, TypePartsNext
  DEF IInv

\* bread() of a buffer that is not valid.
LEMMA BreadDiskStep ==
    ASSUME IInv, NEW p \in Procs, BreadDisk(p)
    PROVE  IInv'
<1>1. /\ pc[p] = "locked" /\ ~valid[cur[p]]
      /\ blockno' = blockno /\ valid' = valid /\ dirty' = dirty /\ data' = data
      /\ refcnt' = refcnt /\ owner' = owner /\ lru' = lru /\ cur' = cur /\ want' = want
      /\ latest' = latest
      /\ idequeue' = Append(idequeue, cur[p])
      /\ pc' = [pc EXCEPT ![p] = "iosleep"]
  BY DEF BreadDisk, At, bufs, IoStart, Goto
<1>2. IF idequeue = <<>>
      THEN /\ disk' = Settled
           /\ hw' = IF dirty'[cur[p]]
                    THEN [blk |-> blockno[cur[p]], val |-> data'[cur[p]]]
                    ELSE Idle
      ELSE UNCHANGED <<disk, hw>>
  BY <1>1 DEF BreadDisk, IoStart, Idestart
<1>3. Coherent'
  BY <1>1 DEF IInv, Coherent
<1>4. StoreTypes => /\ dirty' \in [Bufs -> BOOLEAN]
                    /\ data' \in [Bufs -> Vals \cup {NoVal}]
                    /\ latest' \in [Blocks -> Vals]
  BY <1>1 DEF StoreTypes
<1>5. /\ pc[p] \in {"locked", "use"}
      /\ UNCHANGED <<blockno, valid, refcnt, owner, lru, cur, want>>
  BY <1>1
<1>6. \A c \in Bufs : c # cur[p] => dirty'[c] = dirty[c] /\ data'[c] = data[c]
  BY <1>1
<1>7. \A x \in Blocks : latest'[x] = latest[x] \/ (x = want[p] /\ dirty'[cur[p]])
  BY <1>1
<1>8. /\ dirty[cur[p]] => dirty'[cur[p]]
      /\ ~valid[cur[p]] \/ dirty'[cur[p]]
  BY <1>1
<1> QED BY <1>1, <1>2, <1>3, <1>4, <1>5, <1>6, <1>7, <1>8, IderwStep

\* The user of a block changes it and sets B_DIRTY.
LEMMA Changed ==
    ASSUME IInv, NEW p \in Procs, NEW v \in Vals, pc[p] = "use",
           data' = [data EXCEPT ![cur[p]] = v],
           dirty' = [dirty EXCEPT ![cur[p]] = TRUE],
           latest' = [latest EXCEPT ![want[p]] = v],
           UNCHANGED <<blockno, valid>>
    PROVE  /\ dirty' \in [Bufs -> BOOLEAN] /\ data' \in [Bufs -> Vals \cup {NoVal}]
           /\ latest' \in [Blocks -> Vals]
           /\ \A c \in Bufs : c # cur[p] => dirty'[c] = dirty[c] /\ data'[c] = data[c]
           /\ dirty'[cur[p]] /\ data'[cur[p]] = v
           /\ \A x \in Blocks : latest'[x] = IF x = want[p] THEN v ELSE latest[x]
           /\ Coherent'
<1>1. StoreTypes
  BY TypeParts DEF IInv
<1>2. cur[p] \in Bufs /\ blockno[cur[p]] = want[p] /\ want[p] \in Blocks
  BY HolderOf DEF Holding
<1>3. /\ dirty' \in [Bufs -> BOOLEAN] /\ data' \in [Bufs -> Vals \cup {NoVal}]
      /\ latest' \in [Blocks -> Vals]
      /\ \A c \in Bufs : c # cur[p] => dirty'[c] = dirty[c] /\ data'[c] = data[c]
      /\ dirty'[cur[p]] /\ data'[cur[p]] = v
      /\ \A x \in Blocks : latest'[x] = IF x = want[p] THEN v ELSE latest[x]
  BY <1>1, <1>2 DEF StoreTypes
<1>4. valid[cur[p]]
  BY DEF IInv, Requests
<1>5. \A c \in Bufs : c # cur[p] => blockno[c] # want[p]
  BY <1>2, BufAssumption DEF IInv, OneBuffer
<1>6. Coherent'
  <2> SUFFICES ASSUME NEW c \in Bufs
               PROVE  /\ dirty'[c] => valid'[c]
                      /\ valid'[c] =>
                            blockno'[c] \in Blocks /\ data'[c] = latest'[blockno'[c]]
    BY DEF Coherent
  <2>1. CASE c = cur[p]
    BY <1>2, <1>3, <1>4, <2>1
  <2>2. CASE c # cur[p]
    BY <1>3, <1>5, <2>2 DEF IInv, Coherent
  <2> QED BY <2>1, <2>2
<1> QED BY <1>3, <1>6

\* bwrite() of a changed block.
LEMMA BwriteStep ==
    ASSUME IInv, NEW p \in Procs, NEW v \in Vals, Bwrite(p, v)
    PROVE  IInv'
<1>1. /\ pc[p] = "use"
      /\ data' = [data EXCEPT ![cur[p]] = v]
      /\ dirty' = [dirty EXCEPT ![cur[p]] = TRUE]
      /\ latest' = [latest EXCEPT ![want[p]] = v]
      /\ UNCHANGED <<blockno, valid, refcnt, owner, lru, cur, want>>
      /\ idequeue' = Append(idequeue, cur[p])
      /\ pc' = [pc EXCEPT ![p] = "iosleep"]
  BY DEF Bwrite, At, IoStart, Goto
<1>2. IF idequeue = <<>>
      THEN /\ disk' = Settled
           /\ hw' = IF dirty'[cur[p]]
                    THEN [blk |-> blockno[cur[p]], val |-> data'[cur[p]]]
                    ELSE Idle
      ELSE UNCHANGED <<disk, hw>>
  BY DEF Bwrite, IoStart, Idestart
<1>3. /\ dirty' \in [Bufs -> BOOLEAN] /\ data' \in [Bufs -> Vals \cup {NoVal}]
      /\ latest' \in [Blocks -> Vals]
      /\ \A c \in Bufs : c # cur[p] => dirty'[c] = dirty[c] /\ data'[c] = data[c]
      /\ dirty'[cur[p]]
      /\ \A x \in Blocks : latest'[x] = IF x = want[p] THEN v ELSE latest[x]
      /\ Coherent'
  BY <1>1, Changed
<1>4. \A x \in Blocks : latest'[x] = latest[x] \/ (x = want[p] /\ dirty'[cur[p]])
  BY <1>3
<1> QED BY <1>1, <1>2, <1>3, <1>4, IderwStep

\* log_write() pins a changed block.
LEMMA PinStep ==
    ASSUME IInv, NEW p \in Procs, NEW v \in Vals, Pin(p, v)
    PROVE  IInv'
<1> DEFINE b == cur[p]
<1>1. /\ pc[p] = "use"
      /\ data' = [data EXCEPT ![cur[p]] = v]
      /\ dirty' = [dirty EXCEPT ![cur[p]] = TRUE]
      /\ latest' = [latest EXCEPT ![want[p]] = v]
      /\ UNCHANGED <<blockno, valid, refcnt, owner, lru, pc, cur, want>>
      /\ idequeue' = idequeue /\ disk' = disk /\ hw' = hw
  BY DEF Pin, At, drive
<1>2. /\ dirty' \in [Bufs -> BOOLEAN] /\ data' \in [Bufs -> Vals \cup {NoVal}]
      /\ latest' \in [Blocks -> Vals]
      /\ \A c \in Bufs : c # b => dirty'[c] = dirty[c] /\ data'[c] = data[c]
      /\ dirty'[b]
      /\ \A x \in Blocks : latest'[x] = IF x = want[p] THEN v ELSE latest[x]
      /\ Coherent'
  BY <1>1, Changed
<1>3. /\ b \in Bufs /\ blockno[b] = want[p]
      /\ \A q \in Procs : pc[q] \in Holding /\ cur[q] = b => q = p
      /\ ~Queued(b)
  BY <1>1, HolderOf DEF Holding, InIderw
<1>4. StoreTypes /\ ProcTypes
  BY TypeParts DEF IInv
<1>5. StoreTypes'
  BY <1>1, <1>2, <1>4 DEF StoreTypes
<1>6. ProcTypes'
  BY <1>1, <1>4 DEF ProcTypes
<1>7. ListTypes' /\ Wants' /\ RefsCounted'
  <2>1. \A q \in Procs : Counted(q)' <=> Counted(q)
    BY <1>1 DEF Counted
  <2> QED BY <1>1, <2>1, SameUsers
<1>8. Owners' /\ OneBuffer' /\ LockWaiters'
  BY <1>1 DEF IInv, Owners, OneBuffer, LockWaiters
<1>9. \A c \in Bufs : Queued(c)' <=> Queued(c)
  BY <1>1 DEF Queued
<1>10. Requests'
  <2>1. ASSUME NEW c \in Bufs, Queued(c)'
        PROVE  /\ ~valid'[c] \/ dirty'[c]
               /\ \E q \in Procs : pc'[q] \in InIderw /\ cur'[q] = c
    BY <1>1, <1>2, <1>9, <2>1 DEF IInv, Requests
  <2>2. ASSUME NEW q \in Procs
        PROVE  /\ pc'[q] \in InIderw /\ ~Queued(cur[q])' =>
                     valid'[cur'[q]] /\ ~dirty'[cur'[q]]
               /\ pc'[q] = "use" => valid'[cur'[q]]
    <3>1. cur[q] \in Bufs /\ (Queued(cur[q])' <=> Queued(cur[q]))
      BY <1>1, <1>4 DEF ProcTypes, Queued
    <3>2. pc[q] \in InIderw => cur[q] # b
      BY <1>1, <1>3 DEF InIderw, Holding
    <3> QED BY <1>1, <1>2, <3>1, <3>2 DEF IInv, Requests
  <2>3. \A i, j \in 1..Len(idequeue') : idequeue'[i] = idequeue'[j] => i = j
    BY <1>1 DEF IInv, Requests
  <2> QED BY <2>1, <2>2, <2>3 DEF Requests
<1>11. Settled' = Settled
  BY <1>1 DEF Settled
<1>12. Started'
  <2>1. idequeue # <<>> => idequeue[1] \in Bufs /\ idequeue[1] # b
    BY <1>3, <1>4 DEF StoreTypes, Queued
  <2> QED BY <1>1, <1>2, <1>11, <2>1 DEF IInv, Started, Idle
<1>13. NothingLost'
  <2> SUFFICES ASSUME NEW x \in Blocks, \A c \in Cached(x)' : ~dirty'[c]
               PROVE  Settled'[x] = latest'[x]
    BY DEF NothingLost
  <2>1. x # want[p]
    BY <1>1, <1>2, <1>3 DEF Cached
  <2>2. \A c \in Cached(x) : ~dirty[c]
    BY <1>1, <1>2, <1>3, <2>1 DEF Cached
  <2> QED BY <1>2, <1>11, <2>1, <2>2 DEF IInv, NothingLost
<1>14. PinsBounded'
  <2> DEFINE S == {c \in Bufs : dirty[c]} \cup {b}
             T == {c \in Bufs : dirty'[c] /\ ~Queued(c)'}
  <2>1. T \subseteq S
    BY <1>2
  <2>2. IsFiniteSet(S) /\ IsFiniteSet(T)
    BY <1>3, BufsFinite, FS_Subset
  <2>3. Cardinality(T) <= Cardinality(S) /\ Cardinality(T) \in Nat /\ Cardinality(S) \in Nat
    BY <2>1, <2>2, FS_Subset, FS_CardinalityType
  <2>4. Cardinality(S) <= MaxPins
    BY DEF Pin
  <2>5. Cardinality(T) <= MaxPins
    <3> HIDE DEF S, T
    <3> QED BY <2>3, <2>4, BufAssumption
  <2> QED BY <2>5 DEF PinsBounded
<1> QED
  BY <1>2, <1>5, <1>6, <1>7, <1>8, <1>10, <1>12, <1>13, <1>14, TypePartsNext DEF IInv

\* The drive finishes a write.
LEMMA DriveDoneStep ==
    ASSUME IInv, DriveDone
    PROVE  IInv'
<1>1. /\ hw # Idle /\ disk' = Settled /\ hw' = Idle
      /\ blockno' = blockno /\ valid' = valid /\ dirty' = dirty /\ data' = data
      /\ UNCHANGED <<refcnt, owner, lru, idequeue, pc, cur, want, latest>>
  BY DEF DriveDone, bufs
<1>2. StoreTypes /\ ProcTypes
  BY TypeParts DEF IInv
<1>3. Settled \in [Blocks -> Vals]
  BY <1>1, <1>2 DEF Settled, IInv, Started, StoreTypes
<1>4. Settled' = Settled
  BY <1>1, <1>3, BufAssumption DEF Settled, Idle
<1>5. StoreTypes'
  BY <1>1, <1>2, <1>3 DEF StoreTypes, Idle
<1>6. ProcTypes' /\ Owners' /\ OneBuffer' /\ LockWaiters' /\ Coherent'
  BY <1>1, <1>2 DEF ProcTypes, IInv, Owners, OneBuffer, LockWaiters, Coherent
<1>7. ListTypes' /\ Wants' /\ RefsCounted'
  <2>1. \A q \in Procs : Counted(q)' <=> Counted(q)
    BY <1>1 DEF Counted
  <2> QED BY <1>1, <2>1, SameUsers
<1>8. Requests'
  BY <1>1 DEF IInv, Requests, Queued
<1>9. Started'
  BY <1>1, <1>4 DEF IInv, Started, Idle
<1>10. NothingLost'
  BY <1>1, <1>4 DEF IInv, NothingLost, Cached
<1>11. PinsBounded'
  <2>1. {c \in Bufs : dirty'[c] /\ ~Queued(c)'} = {c \in Bufs : dirty[c] /\ ~Queued(c)}
    BY <1>1 DEF Queued
  <2> QED BY <2>1 DEF IInv, PinsBounded
<1> QED
  BY <1>5, <1>6, <1>7, <1>8, <1>9, <1>10, <1>11, TypePartsNext DEF IInv

\* The interrupt: the first request is done and the next one is started.
LEMMA IdeintrStep ==
    ASSUME IInv, Ideintr
    PROVE  IInv'
<1> DEFINE h == idequeue[1]
<1>1. StoreTypes /\ ProcTypes
  BY TypeParts DEF IInv
<1>2. /\ idequeue' \in Seq(Bufs) /\ Len(idequeue') = Len(idequeue) - 1
      /\ \A i \in 1..Len(idequeue') : i + 1 \in 1..Len(idequeue)
                                      /\ idequeue'[i] = idequeue[i + 1]
      /\ Head(idequeue) = h /\ h \in Bufs
      /\ \A c \in Bufs : Queued(c)' <=> Queued(c) /\ c # h
      /\ idequeue # <<>>
  <2>1. \A i, j \in 1..Len(idequeue) : idequeue[i] = idequeue[j] => i = j
    BY DEF IInv, Requests
  <2>2. idequeue # <<>> /\ idequeue' = Tail(idequeue) /\ idequeue \in Seq(Bufs)
    BY <1>1 DEF Ideintr, StoreTypes
  <2> QED BY <2>1, <2>2, TailQueue
<1>3. /\ data' = [data EXCEPT ![h] = IF dirty[h] THEN data[h] ELSE disk[blockno[h]]]
      /\ valid' = [valid EXCEPT ![h] = TRUE]
      /\ dirty' = [dirty EXCEPT ![h] = FALSE]
      /\ UNCHANGED <<blockno, refcnt, owner, lru, cur, want, latest>>
      /\ idequeue' = <<>> => disk' = disk /\ hw' = hw
      /\ idequeue' # <<>> =>
            LET n == idequeue'[1] IN
            /\ disk' = Settled
            /\ hw' = IF dirty'[n] THEN [blk |-> blockno[n], val |-> data'[n]] ELSE Idle
  BY <1>2 DEF Ideintr, Idestart
<1>4. PICK W \in SUBSET Sleepers(h, "iosleep") :
         pc' = [q \in Procs |-> IF q \in W THEN "iotest" ELSE pc[q]]
  <2>1. Wakeup(h, "iosleep", pc)
    BY <1>2 DEF Ideintr
  <2> QED BY <2>1 DEF Wakeup, Woken
<1>5. \A q \in Procs : pc'[q] = IF q \in W THEN "iotest" ELSE pc[q]
  BY <1>4
<1>6. \A q \in W : q \in Procs /\ pc[q] = "iosleep"
  BY DEF Sleepers
<1>7. Queued(h)
  <2>1. 1 \in 1..Len(idequeue)
    BY <1>1, <1>2 DEF StoreTypes
  <2> QED BY <2>1 DEF Queued
<1>8. blockno[h] \in Blocks
  <2>1. PICK q \in Procs : pc[q] \in InIderw /\ cur[q] = h
    BY <1>2, <1>7 DEF IInv, Requests
  <2> QED BY <2>1, HolderOf DEF InIderw, Holding
<1>9. \A c \in Bufs : blockno[c] = blockno[h] => c = h
  BY <1>2, <1>8, BufAssumption DEF IInv, OneBuffer
<1>10. dirty[h] => data[h] = latest[blockno[h]] /\ Settled[blockno[h]] = latest[blockno[h]]
  BY <1>2 DEF IInv, Coherent, Started
<1>11. ~dirty[h] => /\ Settled[blockno[h]] = latest[blockno[h]]
                    /\ disk[blockno[h]] = latest[blockno[h]]
  <2> SUFFICES ASSUME ~dirty[h]
               PROVE  /\ Settled[blockno[h]] = latest[blockno[h]]
                      /\ disk[blockno[h]] = latest[blockno[h]]
    OBVIOUS
  <2>1. hw.blk = NoBlock
    BY <1>2 DEF IInv, Started, Idle
  <2>2. Settled[blockno[h]] = disk[blockno[h]]
    BY <1>8, <2>1, BufAssumption DEF Settled
  <2>3. \A c \in Cached(blockno[h]) : ~dirty[c]
    BY <1>9 DEF Cached
  <2> QED BY <1>8, <2>2, <2>3 DEF IInv, NothingLost
<1>12. /\ data' \in [Bufs -> Vals \cup {NoVal}] /\ data'[h] = latest[blockno[h]]
       /\ valid' \in [Bufs -> BOOLEAN] /\ dirty' \in [Bufs -> BOOLEAN]
       /\ valid'[h] /\ ~dirty'[h]
       /\ \A c \in Bufs : c # h =>
             data'[c] = data[c] /\ valid'[c] = valid[c] /\ dirty'[c] = dirty[c]
  BY <1>1, <1>2, <1>3, <1>8, <1>10, <1>11 DEF StoreTypes
<1> HIDE DEF h
<1>13. Coherent'
  BY <1>3, <1>8, <1>12 DEF IInv, Coherent
<1>14. idequeue' # <<>> =>
          /\ idequeue'[1] \in Bufs /\ idequeue'[1] # h
          /\ dirty'[idequeue'[1]] =>
                /\ blockno[idequeue'[1]] \in Blocks
                /\ data'[idequeue'[1]] \in Vals
  <2> SUFFICES ASSUME idequeue' # <<>>
               PROVE  /\ idequeue'[1] \in Bufs /\ idequeue'[1] # h
                      /\ dirty'[idequeue'[1]] =>
                            /\ blockno[idequeue'[1]] \in Blocks
                            /\ data'[idequeue'[1]] \in Vals
    OBVIOUS
  <2>1. 1 \in 1..Len(idequeue') /\ idequeue'[1] \in Bufs
    BY <1>2
  <2>2. Queued(idequeue'[1]) /\ idequeue'[1] # h
    <3>1. idequeue'[1] = idequeue[2] /\ 2 \in 1..Len(idequeue) /\ 1 \in 1..Len(idequeue)
      BY <1>1, <1>2, <2>1 DEF StoreTypes
    <3>2. idequeue[2] # idequeue[1]
      BY <3>1 DEF IInv, Requests
    <3> QED BY <3>1, <3>2 DEF Queued, h
  <2> QED BY <1>1, <1>3, <1>12, <1>13, <2>1, <2>2 DEF Coherent, StoreTypes
<1>15. /\ \A x \in Blocks : (hw.blk = x => hw.val \in Vals)
       /\ Settled \in [Blocks -> Vals]
  <2>1. \A x \in Blocks : (hw.blk = x => hw.val \in Vals)
    BY <1>1, BufAssumption DEF IInv, Started, Idle
  <2> QED BY <1>1, <2>1 DEF Settled, StoreTypes
<1>16. \A x \in Blocks :
          \/ Settled'[x] = Settled[x]
          \/ /\ idequeue' # <<>> /\ x = blockno[idequeue'[1]]
             /\ dirty'[idequeue'[1]]
  <2>1. CASE idequeue' = <<>>
    BY <1>3, <2>1 DEF Settled
  <2>2. CASE idequeue' # <<>> /\ dirty'[idequeue'[1]]
    BY <1>3, <1>15, <2>2 DEF Settled
  <2>3. CASE idequeue' # <<>> /\ ~dirty'[idequeue'[1]]
    <3>1. hw'.blk = NoBlock /\ disk' = Settled
      BY <1>3, <2>3 DEF Idle
    <3> QED BY <3>1, BufAssumption DEF Settled
  <2> QED BY <2>1, <2>2, <2>3
<1>17. StoreTypes'
  <2>1. disk' \in [Blocks -> Vals]
    BY <1>1, <1>3, <1>15 DEF StoreTypes
  <2>2. hw' \in [blk : Blocks \cup {NoBlock}, val : Vals \cup {NoVal}]
    BY <1>1, <1>3, <1>14 DEF StoreTypes, Idle
  <2> QED BY <1>1, <1>2, <1>3, <1>12, <2>1, <2>2 DEF StoreTypes
<1>18. ProcTypes'
  BY <1>1, <1>3, <1>4, <1>5 DEF ProcTypes, Steps
<1>19. ListTypes' /\ Wants' /\ RefsCounted'
  <2>1. \A q \in Procs : Counted(q)' <=> Counted(q)
    BY <1>5, <1>6 DEF Counted
  <2> QED BY <1>3, <2>1, SameUsers
<1>20. Owners' /\ OneBuffer' /\ LockWaiters'
  BY <1>3, <1>5, <1>6 DEF IInv, Owners, OneBuffer, LockWaiters, Holding
<1>21. Requests'
  <2>1. ASSUME NEW i \in 1..Len(idequeue'), NEW j \in 1..Len(idequeue'),
               idequeue'[i] = idequeue'[j]
        PROVE  i = j
    <3>1. i + 1 = j + 1
      BY <1>2, <2>1 DEF IInv, Requests
    <3> QED BY <3>1
  <2>2. ASSUME NEW c \in Bufs, Queued(c)'
        PROVE  /\ ~valid'[c] \/ dirty'[c]
               /\ \E q \in Procs : pc'[q] \in InIderw /\ cur'[q] = c
    BY <1>2, <1>3, <1>5, <1>6, <1>12, <2>2 DEF IInv, Requests, InIderw
  <2>3. ASSUME NEW q \in Procs
        PROVE  /\ pc'[q] \in InIderw /\ ~Queued(cur[q])' =>
                     valid'[cur'[q]] /\ ~dirty'[cur'[q]]
               /\ pc'[q] = "use" => valid'[cur'[q]]
    <3>1. cur[q] \in Bufs /\ cur' = cur
      BY <1>1, <1>3 DEF ProcTypes
    <3>2. Queued(cur[q])' <=> Queued(cur[q]) /\ cur[q] # h
      <4>1. Queued(cur[q])' <=> \E i \in 1..Len(idequeue') : idequeue'[i] = cur[q]
        BY <3>1 DEF Queued
      <4> QED BY <1>2, <3>1, <4>1 DEF Queued
    <3>3. /\ pc'[q] \in InIderw => pc[q] \in InIderw
          /\ pc'[q] = "use" => pc[q] = "use"
      BY <1>5, <1>6 DEF InIderw
    <3>4. CASE cur[q] = h
      BY <1>12, <3>1, <3>4
    <3>5. CASE cur[q] # h
      BY <1>12, <3>1, <3>2, <3>3, <3>5 DEF IInv, Requests
    <3> QED BY <3>4, <3>5
  <2> QED BY <2>1, <2>2, <2>3 DEF Requests
<1>22. Started'
  <2>1. CASE idequeue' = <<>>
    BY <1>3, <2>1 DEF IInv, Started, Idle
  <2>2. CASE idequeue' # <<>> /\ dirty'[idequeue'[1]]
    <3>1. hw' = [blk |-> blockno[idequeue'[1]], val |-> data'[idequeue'[1]]]
      BY <1>3, <2>2
    <3>2. Settled'[blockno[idequeue'[1]]] = data'[idequeue'[1]]
      BY <1>14, <2>2, <3>1 DEF Settled
    <3> QED BY <1>3, <1>14, <2>2, <3>1, <3>2 DEF Started
  <2>3. CASE idequeue' # <<>> /\ ~dirty'[idequeue'[1]]
    <3>1. hw' = Idle /\ Idle' = Idle
      BY <1>3, <2>3 DEF Idle
    <3> QED BY <2>3, <3>1 DEF Started
  <2> QED BY <2>1, <2>2, <2>3
<1>23. NothingLost'
  <2> SUFFICES ASSUME NEW x \in Blocks, \A c \in Cached(x)' : ~dirty'[c]
               PROVE  Settled'[x] = latest'[x]
    BY DEF NothingLost
  <2>1. Settled'[x] = Settled[x]
    BY <1>3, <1>14, <1>16 DEF Cached
  <2>2. CASE x = blockno[h]
    BY <1>3, <1>10, <1>11, <2>1, <2>2 DEF h
  <2>3. CASE x # blockno[h]
    <3>1. \A c \in Cached(x) : ~dirty[c]
      BY <1>3, <1>12, <2>3 DEF Cached
    <3> QED BY <1>3, <2>1, <3>1 DEF IInv, NothingLost
  <2> QED BY <2>2, <2>3
<1>24. PinsBounded'
  <2> DEFINE S == {c \in Bufs : dirty[c] /\ ~Queued(c)}
             T == {c \in Bufs : dirty'[c] /\ ~Queued(c)'}
  <2>1. T \subseteq S
    BY <1>2, <1>12
  <2>2. IsFiniteSet(S) /\ IsFiniteSet(T)
    BY BufsFinite, FS_Subset
  <2>3. Cardinality(T) <= Cardinality(S) /\ Cardinality(T) \in Nat /\ Cardinality(S) \in Nat
    BY <2>1, <2>2, FS_Subset, FS_CardinalityType
  <2>4. Cardinality(S) <= MaxPins
    BY DEF IInv, PinsBounded
  <2>5. Cardinality(T) <= MaxPins
    <3> HIDE DEF S, T
    <3> QED BY <2>3, <2>4, BufAssumption
  <2> QED BY <2>5 DEF PinsBounded
<1> QED
  BY <1>13, <1>17, <1>18, <1>19, <1>20, <1>21, <1>22, <1>23, <1>24, TypePartsNext
  DEF IInv

-----------------------------------------------------------------------------
(* The theorems.                                                            *)

\* The cache as binit() and ideinit() leave it.
LEMMA InitIInv == Init => IInv
<1> SUFFICES ASSUME Init PROVE IInv
  OBVIOUS
<1> USE DEF Init
<1>1. NBUF \in Nat \ {0} /\ 1 \in Bufs
  BY BufAssumption DEF Bufs
<1>2. Settled = disk
  BY BufAssumption DEF Settled, Idle
<1>3. StoreTypes
  BY BufAssumption DEF StoreTypes, Idle
<1>4. ListTypes
  <2>1. Cardinality(Procs) \in Nat
    BY BufAssumption, FS_CardinalityType
  <2>2. \A i \in Bufs : NBUF + 1 - i \in Bufs /\ NBUF + 1 - (NBUF + 1 - i) = i
    BY <1>1 DEF Bufs
  <2>3. lru \in [Bufs -> Bufs] /\ \A i \in Bufs : lru[i] = NBUF + 1 - i
    BY <2>2
  <2>4. ASSUME NEW b \in Bufs PROVE \E i \in Bufs : lru[i] = b
    <3>1. NBUF + 1 - b \in Bufs /\ lru[NBUF + 1 - b] = b
      BY <2>2, <2>3
    <3> QED BY <3>1
  <2>5. {lru[i] : i \in Bufs} = Bufs
    BY <2>3, <2>4
  <2> QED BY <2>1, <2>3, <2>5 DEF ListTypes
<1>5. ProcTypes
  BY <1>1 DEF ProcTypes, Steps
<1>6. Owners /\ OneBuffer /\ Wants /\ LockWaiters
  BY BufAssumption DEF Owners, OneBuffer, Wants, LockWaiters, Counted, Holding
<1>7. RefsCounted
  <2>1. \A b \in Bufs : {p \in Procs : Counted(p) /\ cur[p] = b} = {}
    BY DEF Counted
  <2> QED BY <2>1, FS_EmptySet DEF RefsCounted, Counted
<1>8. Coherent /\ Requests /\ Started
  BY DEF Coherent, Requests, Started, Queued, InIderw
<1>9. NothingLost
  BY <1>2 DEF NothingLost
<1>10. PinsBounded
  <2>1. {b \in Bufs : dirty[b] /\ ~Queued(b)} = {}
    OBVIOUS
  <2>2. Cardinality({b \in Bufs : dirty[b] /\ ~Queued(b)}) = 0
    BY <2>1, FS_EmptySet
  <2> QED BY <2>2, BufAssumption DEF PinsBounded
<1> QED
  BY <1>3, <1>4, <1>5, <1>6, <1>7, <1>8, <1>9, <1>10, TypeParts DEF IInv

\* No step breaks the invariant.
LEMMA NextIInv == IInv /\ [Next]_vars => IInv'
<1> SUFFICES ASSUME IInv, [Next]_vars PROVE IInv'
  OBVIOUS
<1>1. ASSUME NEW p \in Procs, NEW blk \in Blocks, BgetHit(p, blk) \/ BgetMiss(p, blk)
      PROVE  IInv'
  BY <1>1, BgetHitStep, BgetMissStep
<1>2. ASSUME NEW p \in Procs,
             \/ Acquire(p) \/ AcquireSleep(p) \/ BreadCached(p) \/ BreadDisk(p)
             \/ IoAgain(p) \/ WakeByKill(p) \/ Releasesleep(p) \/ Brelse(p)
      PROVE  IInv'
  BY <1>2, AcquireStep, AcquireSleepStep, BreadCachedStep, BreadDiskStep, IoAgainStep,
     WakeByKillStep, ReleasesleepStep, BrelseStep
<1>3. ASSUME NEW p \in Procs, NEW v \in Vals, Pin(p, v) \/ Bwrite(p, v)
      PROVE  IInv'
  BY <1>3, PinStep, BwriteStep
<1>4. CASE Ideintr \/ DriveDone
  BY <1>4, IdeintrStep, DriveDoneStep
<1>5. CASE UNCHANGED vars
  <2>1. /\ UNCHANGED <<bufs, drive, latest>>
        /\ UNCHANGED <<refcnt, owner, lru, pc, cur, want>>
    BY <1>5 DEF vars
  <2>2. /\ StoreTypes' /\ OneBuffer' /\ Coherent' /\ Started' /\ NothingLost'
        /\ PinsBounded'
    BY <2>1, SameStore
  <2>3. ListTypes' /\ Wants' /\ RefsCounted'
    <3>1. \A q \in Procs : Counted(q)' <=> Counted(q)
      BY <2>1 DEF Counted
    <3> QED BY <2>1, <3>1, SameUsers DEF bufs
  <2>4. ProcTypes' /\ Owners' /\ LockWaiters'
    BY <2>1, TypeParts DEF IInv, ProcTypes, Owners, LockWaiters
  <2>5. Requests'
    BY <2>1 DEF IInv, Requests, Queued, bufs, drive
  <2> QED BY <2>2, <2>3, <2>4, <2>5, TypePartsNext DEF IInv
<1> QED BY <1>1, <1>2, <1>3, <1>4, <1>5 DEF Next

\* The invariant holds in every state of the cache, whatever the numbers of
\* processes, blocks and buffers.
THEOREM CacheInvariance == Spec => []IInv
<1>1. Init => IInv
  BY InitIInv
<1>2. IInv /\ [Next]_vars => IInv'
  BY NextIInv
<1> QED BY <1>1, <1>2, PTL DEF Spec

\* bread() returns the last contents written to the block, to one process at a
\* time, and a buffer that is recycled loses nothing.
THEOREM ReadersSeeLastWrite == Spec => []ReadsRight
<1>1. ASSUME IInv PROVE ReadsRight
  <2>1. ASSUME NEW p \in Procs, pc[p] = "use"
        PROVE  /\ blockno[cur[p]] = want[p] /\ data[cur[p]] = latest[want[p]]
               /\ \A q \in Procs \ {p} : pc[q] = "use" => want[q] # want[p]
    <3>1. /\ cur[p] \in Bufs /\ blockno[cur[p]] = want[p] /\ want[p] \in Blocks
          /\ \A q \in Procs : pc[q] \in Holding /\ cur[q] = cur[p] => q = p
      BY <1>1, <2>1, HolderOf DEF Holding
    <3>2. data[cur[p]] = latest[want[p]]
      BY <1>1, <2>1, <3>1 DEF IInv, Requests, Coherent
    <3>3. ASSUME NEW q \in Procs \ {p}, pc[q] = "use" PROVE want[q] # want[p]
      <4>1. cur[q] \in Bufs /\ blockno[cur[q]] = want[q]
        BY <1>1, <3>3, HolderOf DEF Holding
      <4>2. cur[q] # cur[p]
        BY <3>1, <3>3 DEF Holding
      <4> QED BY <1>1, <3>1, <4>1, <4>2, BufAssumption DEF IInv, OneBuffer
    <3> QED BY <3>1, <3>2, <3>3
  <2>2. ReadsLatest
    BY <2>1 DEF ReadsLatest
  <2> QED BY <1>1, <2>2 DEF IInv, ReadsRight
<1> QED BY <1>1, CacheInvariance, PTL

\* Nobody sleeps in acquiresleep() for a lock that is free and that nobody is
\* about to take.
THEOREM LockSleepersServed == Spec => []LockWaiters
<1>1. IInv => LockWaiters
  BY DEF IInv
<1> QED BY <1>1, CacheInvariance, PTL

\* The tests of bwrite(), brelse() and iderw() that end in a panic.
LocksHeld ==
    \A p \in Procs :
       /\ pc[p] \in {"locked", "use"} => owner[cur[p]] = p
       /\ pc[p] = "iosleep" /\ ~Queued(cur[p]) => valid[cur[p]] /\ ~dirty[cur[p]]
       /\ pc[p] \in {"locked", "use"} => ~Queued(cur[p])

\* bwrite(), brelse() and iderw() are called by the holder of the buffer's lock
\* for a buffer without a request, and a request is not forgotten by the queue.
THEOREM DriverCalledRight == Spec => []LocksHeld
<1>1. ASSUME IInv, NEW p \in Procs
      PROVE  /\ pc[p] \in {"locked", "use"} => owner[cur[p]] = p
             /\ pc[p] = "iosleep" /\ ~Queued(cur[p]) => valid[cur[p]] /\ ~dirty[cur[p]]
             /\ pc[p] \in {"locked", "use"} => ~Queued(cur[p])
  <2>1. pc[p] \in {"locked", "use"} => owner[cur[p]] = p
    BY <1>1, TypeParts DEF IInv, Owners, Holding, ProcTypes
  <2>2. pc[p] = "iosleep" /\ ~Queued(cur[p]) => valid[cur[p]] /\ ~dirty[cur[p]]
    BY <1>1 DEF IInv, Requests, InIderw
  <2>3. pc[p] \in {"locked", "use"} => ~Queued(cur[p])
    BY <1>1, HolderOf DEF Holding, InIderw
  <2> QED BY <2>1, <2>2, <2>3
<1>2. IInv => LocksHeld
  BY <1>1 DEF LocksHeld
<1> QED BY <1>2, CacheInvariance, PTL

\* A buffer that bget() passes over is pinned, or the process that uses it is
\* counted, so that there are no more of them than pins and processes.
LEMMA BufferLeft == ASSUME IInv PROVE Exhausted
<1> DEFINE U == {q \in Procs : Counted(q)}
           C == {cur[q] : q \in U}
           f == [q \in U |-> cur[q]]
<1> SUFFICES ASSUME Recyclable = {}
             PROVE  Cardinality(Pinned) + Cardinality(U) >= NBUF
  BY DEF Exhausted
<1>1. ListTypes /\ ProcTypes
  BY TypeParts DEF IInv
<1>2. ASSUME NEW b \in Bufs PROVE b \in Pinned \cup C
  <2>1. PICK i \in Bufs : lru[i] = b
    BY <1>1 DEF ListTypes
  <2>2. refcnt[b] # 0 \/ dirty[b]
    BY <2>1 DEF Recyclable
  <2>3. CASE refcnt[b] # 0
    <3>1. Users(b) # {}
      BY <2>3, RefsAreUsers, FS_EmptySet DEF IInv
    <3>2. PICK q \in Procs : Counted(q) /\ cur[q] = b
      BY <3>1 DEF Users
    <3> QED BY <3>2
  <2>4. CASE refcnt[b] = 0
    BY <2>2, <2>4 DEF Pinned
  <2> QED BY <2>3, <2>4
<1>3. IsFiniteSet(Pinned)
  BY BufsFinite, FS_Subset DEF Pinned
<1>4. IsFiniteSet(U)
  BY BufAssumption, FS_Subset
<1>5. f \in Surjection(U, C)
  BY DEF Surjection
<1>6. IsFiniteSet(C) /\ Cardinality(C) <= Cardinality(U)
  BY <1>4, <1>5, FS_Surjection
<1>7. /\ IsFiniteSet(Pinned \cup C)
      /\ Cardinality(Pinned \cup C)
           = Cardinality(Pinned) + Cardinality(C) - Cardinality(Pinned \cap C)
  BY <1>3, <1>6, FS_Union
<1>8. Cardinality(Bufs) <= Cardinality(Pinned \cup C)
  BY <1>2, <1>7, FS_Subset
<1>9. IsFiniteSet(Pinned \cap C)
  BY <1>3, FS_Subset
<1>10. /\ Cardinality(Pinned) \in Nat /\ Cardinality(C) \in Nat /\ Cardinality(U) \in Nat
       /\ Cardinality(Pinned \cap C) \in Nat
  BY <1>3, <1>4, <1>6, <1>9, FS_CardinalityType
<1> HIDE DEF U, C, f
<1> QED
  BY <1>6, <1>7, <1>8, <1>10, BufsFinite, BufAssumption

\* Types, the list and the reference counts are right, and bget() panics only when
\* every buffer is pinned or taken by a process, however many of each there are.
THEOREM CountsAlwaysRight == Spec => []CountsRight
<1>1. IInv => CountsRight
  BY BufferLeft DEF IInv, CountsRight
<1> QED BY <1>1, CacheInvariance, PTL
=============================================================================
