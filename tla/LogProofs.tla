----------------------------- MODULE LogProofs -----------------------------
(***************************************************************************)
(* Proofs about Log, for every number of processes and blocks and every    *)
(* size of the log: the transactions fit, nobody is forgotten in           *)
(* begin_op(), and the log implements AtomicDisk.                          *)
(***************************************************************************)
EXTENDS Log, FiniteSetTheorems, TLAPS

-----------------------------------------------------------------------------
(* The inductive invariant.                                                 *)

\* Operations between begin_op() and end_op().
Running == {p \in Procs : pc[p] \in {"op", "log_write"}}

\* What the running operations may still add to the log, a pair per block.
Reserved == {x \in Procs \X (1..MAXOPBLOCKS) :
                x[1] \in Running /\ x[2] > Cardinality(wset[x[1]])}

NoRepeats(s) == \A i, j \in DOMAIN s : s[i] = s[j] => i = j

\* Where commit() and recovery stand determines who may run, and what the header
\* on the disk says.
Phases ==
    /\ ~up => /\ stage \in {"read_head", "install"}
              /\ dirty = {} /\ ~committing
              /\ \A p \in Procs : pc[p] = "idle"
    /\ up => stage # "read_head"
    /\ up /\ ~committing => stage = "done"
    /\ committing => Running = {}
    /\ \A p \in Procs : pc[p] = "commit" => committing
    /\ \A p, q \in Procs : pc[p] = "commit" /\ pc[q] = "commit" => p = q
    /\ stage = "done" /\ Running = {} => lh = <<>>
    /\ stage = "read_head" => lh = <<>>
    /\ stage \in {"write_log", "done"} => hdr = <<>>
    /\ stage = "install" => hdr = lh
    /\ stage \in {"write_log", "install"} => tail <= Len(lh)

\* A buffer is held exactly in log_write().
Holders == \A p \in Procs : pc[p] = "log_write" <=> blk[p] # NoBlk

\* log.outstanding counts the operations.
OutstandingRight == outstanding = Cardinality(Running)

\* An operation stays within what it writes, and what it wrote is logged.
WritesRight ==
    \A p \in Running :
       /\ wset[p] \subseteq Logged(lh)
       /\ Cardinality(wset[p]) <= OPBLOCKS
       /\ pc[p] = "log_write" => Cardinality(wset[p] \cup {blk[p]}) <= OPBLOCKS

\* What is logged and what is reserved fits.  The last operation that runs has
\* more room than that, because the ones that have ended gave up a block at
\* least, unless it is the only one since the last commit.
Space ==
    \A p \in Running :
       /\ Len(lh) + Cardinality(Reserved) <= LOGSIZE
       /\ Running = {p} => \/ Len(lh) + Cardinality(Reserved) < LOGSIZE
                           \/ Len(lh) <= Cardinality(wset[p])

\* The two headers are lists of different blocks and fit in the log area.
HeadersRight ==
    /\ NoRepeats(lh) /\ Len(lh) <= NLOG - 1
    /\ NoRepeats(hdr) /\ Len(hdr) <= NLOG - 1

\* A buffer that is neither pinned nor held agrees with the disk, and all
\* pinned blocks are in the transaction, those installed excepted.
CacheRight ==
    /\ \A b \in Blocks : b \notin dirty /\ (\A p \in Procs : blk[p] # b)
                         => cache[b] \in {NoVal, disk[b]}
    /\ dirty \subseteq Logged(lh)
    /\ stage = "install" => \A i \in 1..tail : lh[i] \notin dirty

\* What commit() has copied so far.
Copied ==
    /\ stage = "write_log" => \A i \in 1..tail : logarea[i] = Bread(lh[i])
    /\ stage = "install" /\ up => \A i \in 1..Len(lh) : logarea[i] = Bread(lh[i])
    /\ stage = "install" => \A i \in 1..tail : disk[lh[i]] = logarea[i]

IInv ==
    /\ TypeOK /\ LogNoPanic /\ WaitersServed
    /\ Phases /\ Holders /\ OutstandingRight /\ WritesRight /\ Space
    /\ HeadersRight /\ CacheRight /\ Copied
-----------------------------------------------------------------------------
(* Lemmas.                                                                  *)

\* bread() returns the contents of a block.
LEMMA BreadType ==
    ASSUME TypeOK, NEW b \in Blocks
    PROVE  Bread(b) \in Vals
BY DEF TypeOK, Bread

\* A log block inside the log area is a block of the area.
LEMMA LogBlockInside ==
    ASSUME TypeOK, NEW i \in Nat \ {0}, i <= NLOG - 1
    PROVE  LogBlock(i) = logarea[i] /\ LogBlock(i) \in Vals
BY LogSizeAssumption DEF TypeOK, LogBlock

\* Appending a new block to a header.
LEMMA LoggedAppend ==
    ASSUME NEW s \in Seq(Blocks), NEW b \in Blocks
    PROVE  /\ Append(s, b) \in Seq(Blocks) /\ Len(Append(s, b)) = Len(s) + 1
           /\ Logged(Append(s, b)) = Logged(s) \cup {b}
           /\ NoRepeats(s) /\ b \notin Logged(s) => NoRepeats(Append(s, b))
<1>1. /\ Append(s, b) \in Seq(Blocks) /\ Len(Append(s, b)) = Len(s) + 1
      /\ DOMAIN Append(s, b) = 1..(Len(s) + 1) /\ DOMAIN s = 1..Len(s) /\ Len(s) \in Nat
      /\ \A i \in 1..Len(s) : Append(s, b)[i] = s[i]
      /\ Append(s, b)[Len(s) + 1] = b
  OBVIOUS
<1>2. Logged(Append(s, b)) \subseteq Logged(s) \cup {b}
  <2> SUFFICES ASSUME NEW i \in 1..(Len(s) + 1)
               PROVE  Append(s, b)[i] \in Logged(s) \cup {b}
    BY <1>1 DEF Logged
  <2>1. CASE i = Len(s) + 1
    BY <2>1, <1>1
  <2>2. CASE i \in 1..Len(s)
    BY <2>2, <1>1 DEF Logged
  <2> QED BY <2>1, <2>2, <1>1
<1>3. Logged(s) \subseteq Logged(Append(s, b))
  <2> SUFFICES ASSUME NEW i \in 1..Len(s)
               PROVE  s[i] \in Logged(Append(s, b))
    BY <1>1 DEF Logged
  <2> QED BY <1>1 DEF Logged
<1>4. b \in Logged(Append(s, b))
  <2>1. Len(s) + 1 \in DOMAIN Append(s, b)
    BY <1>1
  <2> QED BY <2>1, <1>1 DEF Logged
<1>5. ASSUME NoRepeats(s), b \notin Logged(s) PROVE NoRepeats(Append(s, b))
  BY <1>5, <1>1 DEF NoRepeats, Logged
<1> QED BY <1>1, <1>2, <1>3, <1>4, <1>5

\* Everything a header lists is a block.
LEMMA LoggedBlocks ==
    ASSUME NEW s \in Seq(Blocks)
    PROVE  Logged(s) \subseteq Blocks /\ (s = <<>> => Logged(s) = {})
BY DEF Logged

\* The sets that are counted are finite.
LEMMA Finite ==
    ASSUME TypeOK
    PROVE  /\ IsFiniteSet(Running) /\ Cardinality(Running) \in Nat
           /\ IsFiniteSet(Reserved) /\ Cardinality(Reserved) \in Nat
           /\ \A p \in Procs : IsFiniteSet(wset[p]) /\ Cardinality(wset[p]) \in Nat
<1>1. IsFiniteSet(Procs) /\ IsFiniteSet(Blocks)
  BY BlocksAssumption
<1>2. IsFiniteSet(Running)
  BY <1>1, FS_Subset DEF Running
<1>3. IsFiniteSet(1..MAXOPBLOCKS)
  BY FS_Interval, LogSizeAssumption
<1>4. IsFiniteSet(Procs \X (1..MAXOPBLOCKS))
  BY <1>1, <1>3, FS_Product
<1>5. IsFiniteSet(Reserved)
  BY <1>4, FS_Subset DEF Reserved
<1>6. \A p \in Procs : IsFiniteSet(wset[p])
  BY <1>1, FS_Subset DEF TypeOK
<1> QED BY <1>2, <1>5, <1>6, FS_CardinalityType

\* Every running operation has a block left, since it writes less than it
\* reserves.
LEMMA LastReserved ==
    ASSUME TypeOK, WritesRight, NEW p \in Running
    PROVE  <<p, MAXOPBLOCKS>> \in Reserved
<1>1. p \in Procs /\ MAXOPBLOCKS \in 1..MAXOPBLOCKS
  BY LogSizeAssumption DEF Running
<1>3. Cardinality(wset[p]) \in Nat /\ Cardinality(wset[p]) <= OPBLOCKS
  BY <1>1, Finite DEF WritesRight
<1>2. Cardinality(wset[p]) < MAXOPBLOCKS
  BY <1>3, LogSizeAssumption
<1> QED BY <1>1, <1>2 DEF Reserved

\* While operations run, the log has room for another block, and for two if
\* there are two of them.
LEMMA RoomLeft ==
    ASSUME TypeOK, WritesRight, Space, NEW p \in Running
    PROVE  /\ Len(lh) + 1 <= LOGSIZE
           /\ Len(lh) + 2 <= NLOG
<1>1. Len(lh) \in Nat
  BY DEF TypeOK
<1>2. Cardinality(Reserved) \in Nat /\ IsFiniteSet(Reserved)
  BY Finite
<1>3. Cardinality(Reserved) >= 1
  <2>1. Reserved # {}
    BY LastReserved
  <2>2. Cardinality(Reserved) # 0
    BY <1>2, <2>1, FS_EmptySet
  <2> QED BY <1>2, <2>2
<1>4. Len(lh) + Cardinality(Reserved) <= LOGSIZE
  BY DEF Space
<1>5. CASE Running = {p}
  <2>1. CASE Len(lh) + Cardinality(Reserved) < LOGSIZE
    BY <2>1, <1>1, <1>2, <1>3, LogSizeAssumption
  <2>2. CASE Len(lh) <= Cardinality(wset[p])
    <3>1. Cardinality(wset[p]) \in Nat /\ Cardinality(wset[p]) <= OPBLOCKS
      BY Finite DEF WritesRight, Running
    <3> QED BY <3>1, <2>2, <1>1, LogSizeAssumption
  <2> QED BY <1>5, <2>1, <2>2 DEF Space
<1>6. CASE Running # {p}
  <2>1. PICK q \in Running : q # p
    BY <1>6
  <2>2. <<p, MAXOPBLOCKS>> \in Reserved /\ <<q, MAXOPBLOCKS>> \in Reserved
    BY LastReserved
  <2>3. <<p, MAXOPBLOCKS>> # <<q, MAXOPBLOCKS>>
    BY <2>1
  <2> DEFINE R == Reserved \ {<<p, MAXOPBLOCKS>>}
  <2>4. IsFiniteSet(R) /\ Cardinality(R) = Cardinality(Reserved) - 1
    BY <1>2, <2>2, FS_RemoveElement
  <2>5. R # {}
    BY <2>2, <2>3
  <2>6. Cardinality(R) # 0 
    BY <2>4, <2>5, FS_EmptySet
  <2>7. Cardinality(Reserved) >= 2
    <3> HIDE DEF R
    <3> QED BY <2>4, <2>6, <1>2, <1>3
  <2> QED BY <2>7, <1>1, <1>2, <1>4, LogSizeAssumption
<1> QED BY <1>5, <1>6

\* wakeup() changes sleepers only, and wakes one if there is one.
LEMMA WakeupSome ==
    ASSUME NEW S, NEW f \in [Procs -> S], "retry" \in S, Wakeup(f)
    PROVE  /\ pc' \in [Procs -> S]
           /\ \A p \in Procs : pc'[p] = f[p] \/ (f[p] = "sleep" /\ pc'[p] = "retry")
           /\ (\E p \in Procs : f[p] = "sleep") => \E q \in Procs : pc'[q] = "retry"
<1> DEFINE Z == {p \in Procs : f[p] = "sleep"}
<1>1. PICK W \in SUBSET Z :
         /\ Z # {} => W # {}
         /\ pc' = [p \in Procs |-> IF p \in W THEN "retry" ELSE f[p]]
  BY DEF Wakeup
<1> QED BY <1>1
-----------------------------------------------------------------------------
(* One lemma per action.                                                    *)

\* The machine boots with an empty log and nothing in the cache.
LEMMA InitIInv == Init => IInv
<1> SUFFICES ASSUME Init PROVE IInv
  OBVIOUS
<1>1. TypeOK
  <2>1. /\ disk \in [Blocks -> Vals] /\ logarea \in [1..(NLOG - 1) -> Vals]
        /\ cache \in [Blocks -> Vals \cup {NoVal}] /\ dirty \subseteq Blocks
    BY BlocksAssumption DEF Init
  <2>2. hdr \in Seq(Blocks) /\ lh \in Seq(Blocks)
    BY DEF Init
  <2> QED BY <2>1, <2>2 DEF Init, TypeOK
<1>2. Running = {} /\ Reserved = {}
  BY DEF Init, Running, Reserved
<1>3. OutstandingRight
  BY <1>2, FS_EmptySet DEF Init, OutstandingRight
<1>4. LogNoPanic /\ WaitersServed /\ Phases /\ Holders
  BY <1>2 DEF Init, LogNoPanic, WaitersServed, Phases, Holders
<1>5. WritesRight /\ Space
  BY <1>2 DEF WritesRight, Space
<1>6. HeadersRight
  BY LogSizeAssumption DEF Init, HeadersRight, NoRepeats
<1>7. CacheRight /\ Copied
  BY DEF Init, CacheRight, Copied
<1> QED BY <1>1, <1>3, <1>4, <1>5, <1>6, <1>7 DEF IInv

\* begin_op() of an operation that finds room.
LEMMA BeginOpInv ==
    ASSUME IInv, NEW p \in Procs, BeginOp(p)
    PROVE  IInv'
<1> USE DEF IInv
<1>1. TypeOK'
  BY DEF TypeOK, BeginOp, diskVars, cacheVars, commitVars
<1>2. p \notin Running /\ Running' = Running \cup {p}
  BY DEF TypeOK, BeginOp, Running
<1>3. /\ LogNoPanic' /\ WaitersServed'
      /\ pc' \in [Procs -> {"idle", "sleep", "retry", "op", "log_write", "commit", "panic"}]
  BY <1>1 DEF TypeOK, BeginOp, LogNoPanic, WaitersServed
<1>4. Phases'
  BY <1>2 DEF TypeOK, Phases, BeginOp, diskVars, cacheVars, commitVars
<1>5. Holders'
  BY DEF TypeOK, Holders, BeginOp
<1>6. OutstandingRight'
  BY <1>2, Finite, FS_AddElement DEF OutstandingRight, BeginOp
<1>7. WritesRight'
  <2> SUFFICES ASSUME NEW q \in Running'
               PROVE  /\ wset'[q] \subseteq Logged(lh)'
                      /\ Cardinality(wset'[q]) <= OPBLOCKS
                      /\ pc'[q] = "log_write" => Cardinality(wset'[q] \cup {blk'[q]}) <= OPBLOCKS
    BY DEF WritesRight
  <2>1. CASE q = p
    BY <2>1, FS_EmptySet, LogSizeAssumption DEF TypeOK, BeginOp
  <2>2. CASE q # p
    BY <2>2, <1>2 DEF WritesRight, TypeOK, BeginOp, Running
  <2> QED BY <2>1, <2>2
<1>8. Space'
  <2>1. lh' = lh /\ Len(lh) \in Nat /\ Len(lh) + (outstanding + 1) * MAXOPBLOCKS <= LOGSIZE
    BY DEF BeginOp, LogSpace, TypeOK
  <2>2. IsFiniteSet(Running') /\ Cardinality(Running') = outstanding + 1
    BY <1>2, Finite, FS_AddElement DEF OutstandingRight
  <2>3. Reserved' \subseteq Running' \X (1..MAXOPBLOCKS)
    BY DEF Reserved, Running
  <2>4. /\ IsFiniteSet(1..MAXOPBLOCKS) /\ Cardinality(1..MAXOPBLOCKS) = MAXOPBLOCKS
    BY FS_Interval, LogSizeAssumption
  <2>5. /\ IsFiniteSet(Running' \X (1..MAXOPBLOCKS))
        /\ Cardinality(Running' \X (1..MAXOPBLOCKS)) = (outstanding + 1) * MAXOPBLOCKS
    BY <2>2, <2>4, FS_Product
  <2>6. /\ Cardinality(Reserved') <= (outstanding + 1) * MAXOPBLOCKS
        /\ Cardinality(Reserved') \in Nat
    BY <2>3, <2>5, FS_Subset, FS_CardinalityType
  <2>7. (outstanding + 1) * MAXOPBLOCKS \in Nat
    BY LogSizeAssumption DEF TypeOK
  <2>8. Len(lh') + Cardinality(Reserved') <= LOGSIZE
    BY <2>1, <2>6, <2>7, LogSizeAssumption
  <2>9. ASSUME NEW q \in Running', Running' = {q} PROVE Len(lh') <= Cardinality(wset'[q])
    <3>1. q = p /\ Running = {}
      BY <2>9, <1>2
    <3>2. lh = <<>>
      BY <3>1 DEF Phases, BeginOp
    <3>3. wset'[p] = {}
      BY DEF BeginOp, TypeOK
    <3> QED BY <3>1, <3>2, <3>3, <2>1, FS_EmptySet
  <2> QED BY <2>8, <2>9 DEF Space
<1>9. HeadersRight' /\ CacheRight' /\ Copied'
  BY DEF BeginOp, diskVars, cacheVars, commitVars, HeadersRight, CacheRight, Copied, Bread
<1> QED BY <1>1, <1>3, <1>4, <1>5, <1>6, <1>7, <1>8, <1>9

\* begin_op() of an operation that must wait.
LEMMA BeginSleepInv ==
    ASSUME IInv, NEW p \in Procs, BeginSleep(p)
    PROVE  IInv'
<1> USE DEF IInv
<1>1. TypeOK'
  BY DEF TypeOK, BeginSleep, diskVars, cacheVars, logVars, commitVars
<1>2. p \notin Running /\ Running' = Running
  BY DEF TypeOK, BeginSleep, Running
<1>3. LogNoPanic' /\ Holders'
  BY DEF TypeOK, BeginSleep, LogNoPanic, Holders
<1>4. WaitersServed'
  <2>1. outstanding' = outstanding /\ committing' = committing /\ outstanding \in Nat
    BY DEF BeginSleep, logVars, TypeOK
  <2>2. CASE committing
    BY <2>1, <2>2 DEF WaitersServed
  <2>3. CASE ~committing
    <3>1. ~LogSpace
      BY <2>3 DEF BeginSleep
    <3>2. SUFFICES ASSUME outstanding = 0 PROVE FALSE
      BY <2>1 DEF WaitersServed
    <3>3. Running = {}
      BY <3>2, Finite, FS_EmptySet DEF OutstandingRight
    <3>4. lh = <<>>
      BY <3>3, <2>3 DEF Phases, BeginSleep
    <3> QED BY <3>1, <3>2, <3>4, LogSizeAssumption DEF LogSpace
  <2> QED BY <2>2, <2>3
<1>5. Phases'
  BY <1>2 DEF TypeOK, Phases, BeginSleep, diskVars, cacheVars, logVars, commitVars
<1>6. OutstandingRight'
  BY <1>2 DEF OutstandingRight, BeginSleep, logVars
<1>7. WritesRight'
  BY <1>2 DEF WritesRight, TypeOK, BeginSleep, logVars, Running
<1>8. Reserved' = Reserved
  BY <1>2 DEF Reserved, BeginSleep
<1>9. Space'
  BY <1>2, <1>8 DEF Space, BeginSleep, logVars
<1>10. HeadersRight' /\ CacheRight' /\ Copied'
  BY DEF BeginSleep, diskVars, cacheVars, logVars, commitVars, HeadersRight, CacheRight, Copied, Bread
<1> QED BY <1>1, <1>3, <1>4, <1>5, <1>6, <1>7, <1>9, <1>10

\* The change of a buffer and the unlocked tests of log_write().
LEMMA ModifyInv ==
    ASSUME IInv, NEW p \in Procs, NEW b \in Blocks, NEW v \in Vals, Modify(p, b, v)
    PROVE  IInv'
<1> USE DEF IInv
<1>1. p \in Running /\ blk[p] = NoBlk /\ b # NoBlk
  BY BlocksAssumption DEF Modify, Running, Holders
<1>2. outstanding >= 1 /\ outstanding \in Nat
  <2>1. Cardinality(Running) # 0 /\ Cardinality(Running) \in Nat
    BY <1>1, Finite, FS_EmptySet
  <2> QED BY <2>1 DEF OutstandingRight
<1>3. ~TooBig
  <2>1. Len(lh) \in Nat
    BY DEF TypeOK
  <2> QED BY <1>1, <2>1, RoomLeft, LogSizeAssumption DEF TooBig
<1>4. pc' = [pc EXCEPT ![p] = "log_write"]
  <2>1. ~(TooBig \/ outstanding < 1)
    BY <1>2, <1>3
  <2> QED BY <2>1 DEF Modify
<1>5. TypeOK'
  BY <1>4 DEF TypeOK, Modify, diskVars, logVars, commitVars
<1>6. Running' = Running
  BY <1>1, <1>4 DEF TypeOK, Running
<1>7. LogNoPanic' /\ WaitersServed' /\ Holders'
  BY <1>1, <1>4 DEF TypeOK, Modify, LogNoPanic, WaitersServed, Holders, logVars
<1>8. Phases'
  <2>1. up /\ up'
    BY DEF Modify
  <2> QED BY <1>4, <1>6, <2>1 DEF TypeOK, Phases, Modify, diskVars, logVars, commitVars
<1>9. OutstandingRight' /\ Reserved' = Reserved
  BY <1>6 DEF OutstandingRight, Reserved, Modify, logVars
<1>10. WritesRight'
  <2> SUFFICES ASSUME NEW q \in Running
               PROVE  /\ wset'[q] \subseteq Logged(lh)'
                      /\ Cardinality(wset'[q]) <= OPBLOCKS
                      /\ pc'[q] = "log_write" => Cardinality(wset'[q] \cup {blk'[q]}) <= OPBLOCKS
    BY <1>6 DEF WritesRight
  <2>1. wset' = wset /\ lh' = lh
    BY DEF Modify, logVars
  <2>2. CASE q = p
    BY <2>1, <2>2 DEF WritesRight, TypeOK, Modify
  <2>3. CASE q # p
    BY <2>1, <2>3, <1>4 DEF WritesRight, TypeOK, Modify, Running
  <2> QED BY <2>2, <2>3
<1>11. Space'
  BY <1>6, <1>9 DEF Space, Modify, logVars
<1>12. HeadersRight'
  BY DEF HeadersRight, Modify, diskVars, logVars
<1>13. CacheRight'
  <2>1. \A x \in Blocks : x \notin dirty' /\ (\A q \in Procs : blk'[q] # x)
                          => cache'[x] \in {NoVal, disk'[x]}
    <3> SUFFICES ASSUME NEW x \in Blocks, x \notin dirty', \A q \in Procs : blk'[q] # x
                 PROVE  cache'[x] \in {NoVal, disk'[x]}
      OBVIOUS
    <3>1. x # b
      BY DEF Modify, TypeOK
    <3>2. \A q \in Procs : blk[q] # x
      BY <1>1, BlocksAssumption DEF Modify, TypeOK
    <3> QED BY <3>1, <3>2 DEF CacheRight, Modify, TypeOK, diskVars
  <2> QED BY <2>1 DEF CacheRight, Modify, logVars, commitVars
<1>14. Copied'
  <2>1. stage = "done" /\ stage' = "done"
    BY <1>1 DEF Modify, Phases, commitVars
  <2> QED BY <2>1 DEF Copied
<1> QED BY <1>5, <1>7, <1>8, <1>9, <1>10, <1>11, <1>12, <1>13, <1>14

\* The critical section of log_write(): absorbed or appended, the block costs
\* no more than what was reserved for it.
LEMMA LogWriteInv ==
    ASSUME IInv, NEW p \in Procs, LogWrite(p)
    PROVE  IInv'
<1> USE DEF IInv
<1> DEFINE b == blk[p]
<1>1. p \in Running /\ b \in Blocks /\ b # NoBlk
  BY DEF LogWrite, Running, Holders, TypeOK
<1>2. /\ lh' \in Seq(Blocks) /\ NoRepeats(lh')
      /\ Logged(lh') = Logged(lh) \cup {b}
      /\ Len(lh') = IF b \in Logged(lh) THEN Len(lh) ELSE Len(lh) + 1
  BY <1>1, LoggedAppend DEF LogWrite, TypeOK, HeadersRight
<1>3. TypeOK'
  BY <1>1, <1>2 DEF TypeOK, LogWrite, diskVars, commitVars
<1>4. Running' = Running
  BY <1>1 DEF TypeOK, Running, LogWrite
<1>5. LogNoPanic' /\ WaitersServed'
  BY DEF TypeOK, LogWrite, LogNoPanic, WaitersServed
<1>6. Holders'
  BY <1>1 DEF TypeOK, LogWrite, Holders
<1>7. up /\ up' /\ ~committing /\ stage = "done" /\ stage' = "done" /\ Running # {}
  BY <1>1 DEF LogWrite, Phases, commitVars
<1>8. Phases'
  BY <1>4, <1>7 DEF TypeOK, Phases, LogWrite, diskVars, cacheVars, commitVars
<1>9. OutstandingRight'
  BY <1>4 DEF OutstandingRight, LogWrite
<1>10. wset' = [wset EXCEPT ![p] = wset[p] \cup {b}]
  BY DEF LogWrite
<1>11. WritesRight'
  <2> SUFFICES ASSUME NEW q \in Running
               PROVE  /\ wset'[q] \subseteq Logged(lh')
                      /\ Cardinality(wset'[q]) <= OPBLOCKS
                      /\ pc'[q] = "log_write" => Cardinality(wset'[q] \cup {blk'[q]}) <= OPBLOCKS
    BY <1>4 DEF WritesRight
  <2>1. CASE q = p
    BY <2>1, <1>2, <1>10 DEF WritesRight, TypeOK, LogWrite, Running
  <2>2. CASE q # p
    BY <2>2, <1>2, <1>10 DEF WritesRight, TypeOK, LogWrite, Running
  <2> QED BY <2>1, <2>2
<1>12. /\ IsFiniteSet(Reserved) /\ Cardinality(Reserved) \in Nat
       /\ IsFiniteSet(wset[p]) /\ Cardinality(wset[p]) \in Nat /\ Len(lh) \in Nat
  BY Finite DEF TypeOK
<1>13. Cardinality(wset'[p]) = IF b \in wset[p] THEN Cardinality(wset[p])
                               ELSE Cardinality(wset[p]) + 1
  BY <1>10, <1>12, FS_AddElement DEF TypeOK
<1>14. /\ IsFiniteSet(Reserved') /\ Cardinality(Reserved') \in Nat
       /\ Cardinality(Reserved') <= Cardinality(Reserved)
       /\ b \notin wset[p] => Cardinality(Reserved') <= Cardinality(Reserved) - 1
  <2> DEFINE n == Cardinality(wset[p]) + 1
  <2>1. Reserved' \subseteq Reserved
    <3> SUFFICES ASSUME NEW x \in Procs \X (1..MAXOPBLOCKS), x[1] \in Running,
                        x[2] > Cardinality(wset'[x[1]])
                 PROVE  x[2] > Cardinality(wset[x[1]])
      BY <1>4 DEF Reserved
    <3>1. CASE x[1] = p
      BY <3>1, <1>12, <1>13
    <3>2. CASE x[1] # p
      BY <3>2, <1>10 DEF TypeOK
    <3> QED BY <3>1, <3>2
  <2>2. ASSUME b \notin wset[p] PROVE <<p, n>> \in Reserved /\ <<p, n>> \notin Reserved'
    <3>1. Cardinality(wset[p] \cup {b}) <= OPBLOCKS
      BY <1>1 DEF WritesRight, LogWrite
    <3>2. n <= OPBLOCKS
      <4>1. Cardinality(wset[p] \cup {b}) = n
        BY <2>2, <1>12, FS_AddElement
      <4> QED BY <3>1, <4>1
    <3>3. n \in 1..MAXOPBLOCKS
      BY <3>2, <1>12, LogSizeAssumption
    <3>4. n > Cardinality(wset[p]) /\ ~(n > Cardinality(wset'[p]))
      BY <1>12, <1>13, <2>2
    <3> HIDE DEF n
    <3> QED BY <3>3, <3>4, <1>1 DEF Reserved
  <2>3. IsFiniteSet(Reserved') /\ Cardinality(Reserved') <= Cardinality(Reserved)
    BY <2>1, <1>12, FS_Subset
  <2>4. ASSUME b \notin wset[p] PROVE Cardinality(Reserved') <= Cardinality(Reserved) - 1
    <3>1. Reserved' \subseteq Reserved \ {<<p, n>>}
      BY <2>1, <2>2, <2>4
    <3>2. /\ IsFiniteSet(Reserved \ {<<p, n>>})
          /\ Cardinality(Reserved \ {<<p, n>>}) = Cardinality(Reserved) - 1
      BY <1>12, <2>2, <2>4, FS_RemoveElement
    <3> QED BY <3>1, <3>2, FS_Subset
  <2> QED BY <2>3, <2>4, FS_CardinalityType
<1>15. b \notin Logged(lh) => b \notin wset[p]
  BY <1>1 DEF WritesRight
<1>16. Space'
  <2> SUFFICES ASSUME NEW q \in Running
               PROVE  /\ Len(lh') + Cardinality(Reserved') <= LOGSIZE
                      /\ Running = {q} => \/ Len(lh') + Cardinality(Reserved') < LOGSIZE
                                          \/ Len(lh') <= Cardinality(wset'[q])
    BY <1>4 DEF Space
  <2>1. Len(lh') + Cardinality(Reserved') <= Len(lh) + Cardinality(Reserved)
    BY <1>2, <1>12, <1>14, <1>15
  <2>2. Len(lh') \in Nat
    BY <1>2
  <2>3. Len(lh') + Cardinality(Reserved') <= LOGSIZE
    BY <2>1, <2>2, <1>12, <1>14, LogSizeAssumption DEF Space
  <2>4. ASSUME Running = {q}, ~(Len(lh') + Cardinality(Reserved') < LOGSIZE)
        PROVE  Len(lh') <= Cardinality(wset'[q])
    <3>1. q = p
      BY <2>4, <1>1
    <3>2. Len(lh) <= Cardinality(wset[p])
      BY <3>1, <2>4, <2>1, <2>2, <1>12, <1>14, LogSizeAssumption DEF Space
    <3> QED BY <3>1, <3>2, <1>2, <1>12, <1>13, <1>15
  <2> QED BY <2>3, <2>4
<1>17. HeadersRight'
  <2>1. Len(lh') <= NLOG - 1
    BY <1>1, <1>2, <1>12, RoomLeft, LogSizeAssumption
  <2> QED BY <1>2, <2>1 DEF HeadersRight, LogWrite, diskVars
<1>18. CacheRight'
  <2>1. dirty' = dirty \cup {b} /\ cache' = cache /\ disk' = disk
    BY DEF LogWrite, diskVars
  <2>2. ASSUME NEW x \in Blocks, x \notin dirty', \A q \in Procs : blk'[q] # x
        PROVE  cache'[x] \in {NoVal, disk'[x]}
    <3>1. x \notin dirty /\ x # b
      BY <2>1, <2>2
    <3>2. \A q \in Procs : blk[q] # x
      BY <2>2, <3>1 DEF LogWrite, TypeOK
    <3> QED BY <2>1, <3>1, <3>2 DEF CacheRight
  <2> QED BY <2>1, <2>2, <1>2, <1>7 DEF CacheRight
<1>19. Copied'
  BY <1>7 DEF Copied
<1> QED BY <1>3, <1>5, <1>6, <1>8, <1>9, <1>11, <1>16, <1>17, <1>18, <1>19

\* end_op(): the last operation begins the commit, any other wakes a waiter and
\* gives up the blocks it has not used.
LEMMA EndOpInv ==
    ASSUME IInv, NEW p \in Procs, EndOp(p)
    PROVE  IInv'
<1> USE DEF IInv
<1> DEFINE PC == {"idle", "sleep", "retry", "op", "log_write", "commit", "panic"}
           f == [pc EXCEPT ![p] = "idle"]
<1>1. p \in Running /\ up /\ pc \in [Procs -> PC]
  BY DEF EndOp, Running, TypeOK
<1>2. ~committing /\ stage = "done" /\ hdr = <<>>
  BY <1>1 DEF Phases
<1>3. /\ IsFiniteSet(Running \ {p}) /\ Cardinality(Running \ {p}) = outstanding - 1
      /\ outstanding - 1 \in Nat
  <2>1. IsFiniteSet(Running \ {p}) /\ Cardinality(Running \ {p}) = outstanding - 1
    BY <1>1, Finite, FS_RemoveElement DEF OutstandingRight
  <2> QED BY <2>1, FS_CardinalityType
<1>4. UNCHANGED <<disk, logarea, hdr, cache, dirty, lh, blk, wset, up>>
  BY DEF EndOp, diskVars, cacheVars
<1>5. outstanding' = outstanding - 1
  BY DEF EndOp
<1>6. /\ pc' \in [Procs -> PC] /\ Running' = Running \ {p}
      /\ pc'[p] # "log_write"
      /\ \A q \in Procs : /\ pc'[q] = "log_write" => pc[q] = "log_write"
                          /\ pc'[q] # "panic"
      /\ \A q \in Procs \ {p} : pc[q] \in {"op", "log_write"} => pc'[q] = pc[q]
      /\ \A q \in Procs : (pc'[q] = "commit") <=> (outstanding = 1 /\ q = p)
      /\ IF outstanding = 1 THEN committing' /\ stage' \in {"write_log", "done"} /\ tail' = 0
         ELSE /\ ~committing' /\ stage' = "done" /\ tail' = tail
              /\ outstanding' > 0
      /\ (outstanding = 1 /\ stage' = "done") <=> (outstanding = 1 /\ Len(lh) = 0)
  <2>1. CASE outstanding = 1
    <3>1. /\ pc' = [pc EXCEPT ![p] = "commit"] /\ committing' = TRUE /\ tail' = 0
          /\ stage' = (IF Len(lh) > 0 THEN "write_log" ELSE "done")
      BY <2>1, <1>2 DEF EndOp
    <3>2. Len(lh) \in Nat
      BY DEF TypeOK
    <3>3. \A q \in Procs : pc[q] # "commit"
      BY <1>2 DEF Phases
    <3> QED BY <3>1, <3>2, <3>3, <2>1, <1>1 DEF Running, LogNoPanic
  <2>2. CASE outstanding # 1
    <3>1. Wakeup(f) /\ committing' = committing /\ stage' = stage /\ tail' = tail
      BY <2>2, <1>2 DEF EndOp, commitVars
    <3>2. f \in [Procs -> PC]
      BY <1>1
    <3>3. /\ pc' \in [Procs -> PC]
          /\ \A q \in Procs : pc'[q] = f[q] \/ (f[q] = "sleep" /\ pc'[q] = "retry")
      BY <3>1, <3>2, WakeupSome
    <3>4. \A q \in Procs : pc[q] # "commit" /\ pc[q] # "panic"
      BY <1>2 DEF Phases, LogNoPanic
    <3>5. outstanding' > 0
      BY <2>2, <1>3, <1>5 DEF TypeOK
    <3> QED BY <3>1, <3>3, <3>4, <3>5, <2>2, <1>1, <1>2 DEF Running
  <2> QED BY <2>1, <2>2
<1> HIDE DEF f
<1>7. TypeOK'
  <2>1. tail' \in Nat /\ stage' \in {"write_log", "done"}
    BY <1>6 DEF TypeOK
  <2>2. committing' \in BOOLEAN
    BY Zenon DEF EndOp, TypeOK
  <2> QED BY <1>3, <1>4, <1>5, <1>6, <2>1, <2>2 DEF TypeOK
<1>8. LogNoPanic'
  BY <1>6 DEF LogNoPanic
<1>9. WaitersServed'
  BY <1>6 DEF WaitersServed
<1>10. OutstandingRight'
  BY <1>3, <1>5, <1>6 DEF OutstandingRight
<1>11. Holders'
  BY <1>1, <1>4, <1>6 DEF Holders, EndOp, Running
<1>12. outstanding = 1 <=> Running' = {}
  <2>1. IsFiniteSet(Running \ {p}) /\ Cardinality(Running \ {p}) = outstanding - 1
    BY <1>1, Finite, FS_RemoveElement DEF OutstandingRight
  <2>2. Running \ {p} = {} <=> outstanding - 1 = 0
    BY <2>1, FS_EmptySet
  <2> QED BY <1>6, <2>2 DEF TypeOK
<1>13. Phases'
  <2>1. Running' = {} /\ stage' = "done" => lh' = <<>>
    BY <1>4, <1>6, <1>12 DEF TypeOK
  <2>2. stage' \in {"write_log", "install"} => tail' <= Len(lh')
    BY <1>4, <1>6, <1>12 DEF TypeOK
  <2> QED BY <1>1, <1>2, <1>4, <1>6, <1>12, <2>1, <2>2 DEF Phases
<1>14. WritesRight'
  BY <1>4, <1>6 DEF WritesRight, Running
<1>15. Space'
  <2>1. Reserved' \subseteq Reserved \ {<<p, MAXOPBLOCKS>>}
    BY <1>4, <1>6 DEF Reserved
  <2>2. /\ IsFiniteSet(Reserved) /\ Cardinality(Reserved) \in Nat /\ Len(lh) \in Nat
    BY Finite DEF TypeOK
  <2>3. /\ IsFiniteSet(Reserved \ {<<p, MAXOPBLOCKS>>})
        /\ Cardinality(Reserved \ {<<p, MAXOPBLOCKS>>}) = Cardinality(Reserved) - 1
    BY <1>1, <2>2, LastReserved, FS_RemoveElement
  <2>4. Cardinality(Reserved') <= Cardinality(Reserved) - 1 /\ Cardinality(Reserved') \in Nat
    BY <2>1, <2>3, FS_Subset, FS_CardinalityType
  <2>5. Len(lh) + Cardinality(Reserved) <= LOGSIZE
    BY <1>1 DEF Space
  <2>6. Len(lh') + Cardinality(Reserved') < LOGSIZE
    BY <1>4, <2>2, <2>4, <2>5, LogSizeAssumption
  <2>7. Len(lh') + Cardinality(Reserved') <= LOGSIZE
    BY <1>4, <2>2, <2>4, <2>5, LogSizeAssumption
  <2> QED BY <2>6, <2>7 DEF Space
<1>16. HeadersRight' 
  BY <1>4 DEF HeadersRight
<1>17. CacheRight'
  BY <1>4, <1>6 DEF CacheRight
<1>18. Copied'
  BY <1>6 DEF Copied
<1> QED BY <1>7, <1>8, <1>9, <1>10, <1>11, <1>13, <1>14, <1>15, <1>16, <1>17, <1>18

\* A step of commit() or of recovery that leaves the operations alone keeps
\* what is said of them: there are none while it runs.
LEMMA CommitFrame ==
    ASSUME IInv, UNCHANGED <<pc, blk, wset, outstanding, committing>>, stage # "done"
    PROVE  /\ Running = {} /\ Running' = {}
           /\ LogNoPanic' /\ WaitersServed' /\ Holders' /\ OutstandingRight'
           /\ WritesRight' /\ Space'
           /\ \A p \in Procs : blk[p] = NoBlk
<1>1. Running = {}
  BY DEF IInv, Phases, Running
<1>2. Running' = {}
  BY <1>1 DEF Running
<1> QED BY <1>1, <1>2 DEF IInv, LogNoPanic, WaitersServed, Holders, OutstandingRight,
                          WritesRight, Space, Running

\* write_log(): the next block is copied to the log.
LEMMA WriteLogInv ==
    ASSUME IInv, WriteLog
    PROVE  IInv' /\ \A b \in Blocks : Bread(b)' = Bread(b)
<1> USE DEF IInv
<1> DEFINE i == tail + 1
<1>1. /\ stage = "write_log" /\ tail \in Nat /\ tail < Len(lh) /\ Len(lh) \in Nat
      /\ Len(lh) <= NLOG - 1
  BY DEF WriteLog, TypeOK, HeadersRight
<1>2. i \in 1..(NLOG - 1) /\ i < NLOG /\ i \in 1..Len(lh)
  BY <1>1, LogSizeAssumption
<1>3. /\ logarea' = [logarea EXCEPT ![i] = Bread(lh[i])] /\ tail' = i
      /\ UNCHANGED <<disk, cache, dirty, hdr, lh, outstanding, committing, pc, blk, wset,
                     stage, up>>
  BY <1>2 DEF WriteLog, cacheVars, logVars, opVars
<1>4. lh[i] \in Blocks /\ Bread(lh[i]) \in Vals
  BY <1>2, BreadType DEF TypeOK
<1>5. TypeOK'
  <2>1. logarea' \in [1..(NLOG - 1) -> Vals] /\ tail' \in Nat
    BY <1>1, <1>2, <1>3, <1>4 DEF TypeOK
  <2> QED BY <1>3, <2>1 DEF TypeOK
<1>6. /\ Running' = {} /\ LogNoPanic' /\ WaitersServed' /\ Holders' /\ OutstandingRight'
      /\ WritesRight' /\ Space' /\ Running = {}
  BY <1>1, <1>3, CommitFrame
<1>7. Phases'
  BY <1>1, <1>2, <1>3, <1>6 DEF Phases
<1>8. HeadersRight' /\ CacheRight'
  BY <1>1, <1>3 DEF HeadersRight, CacheRight
<1>9. \A b \in Blocks : Bread(b)' = Bread(b)
  BY <1>3 DEF Bread
<1>10. Copied'
  <2>1. stage' = "write_log"
    BY <1>1, <1>3
  <2>2. ASSUME NEW j \in 1..i PROVE logarea'[j] = Bread(lh[j])
    <3>1. CASE j = i
      BY <3>1, <1>2, <1>3 DEF TypeOK
    <3>2. CASE j # i
      BY <3>2, <1>1, <1>2, <1>3 DEF TypeOK, Copied
    <3> QED BY <3>1, <3>2
  <2> QED BY <2>1, <2>2, <1>3 DEF Copied, Bread
<1> QED BY <1>5, <1>6, <1>7, <1>8, <1>9, <1>10

\* write_head(): the header of the transaction reaches the disk.
LEMMA WriteHeadInv ==
    ASSUME IInv, WriteHead
    PROVE  IInv'
<1> USE DEF IInv
<1>1. /\ stage = "write_log" /\ tail = Len(lh) /\ hdr' = lh /\ stage' = "install" /\ tail' = 0
      /\ UNCHANGED <<disk, logarea, cache, dirty, lh, outstanding, committing, pc, blk, wset,
                     up>>
  BY DEF WriteHead, cacheVars, logVars, opVars
<1>2. TypeOK'
  BY <1>1 DEF TypeOK
<1>3. /\ Running' = {} /\ LogNoPanic' /\ WaitersServed' /\ Holders' /\ OutstandingRight'
      /\ WritesRight' /\ Space' /\ Running = {}
  BY <1>1, CommitFrame
<1>4. Phases'
  BY <1>1, <1>3 DEF Phases, TypeOK
<1>5. HeadersRight' /\ CacheRight' /\ Copied'
  BY <1>1 DEF HeadersRight, CacheRight, Copied, Bread
<1> QED BY <1>2, <1>3, <1>4, <1>5

\* install_trans(), of commit() or of recovery: the next block goes home.
LEMMA InstallTransInv ==
    ASSUME IInv, InstallTrans
    PROVE  IInv' /\ (up => \A b \in Blocks : Bread(b)' = Bread(b))
<1> USE DEF IInv
<1> DEFINE i == tail + 1
           b == lh[i]
           v == logarea[i]
<1>1. /\ stage = "install" /\ tail \in Nat /\ tail < Len(lh) /\ Len(lh) \in Nat
      /\ Len(lh) <= NLOG - 1
  BY DEF InstallTrans, TypeOK, HeadersRight
<1>2. i \in 1..(NLOG - 1) /\ i \in Nat \ {0} /\ i <= NLOG - 1 /\ i \in 1..Len(lh)
  BY <1>1, LogSizeAssumption
<1>3. LogBlock(i) = v /\ v \in Vals /\ b \in Blocks
  BY <1>2, LogBlockInside DEF TypeOK
<1>4. /\ disk' = [disk EXCEPT ![b] = v] /\ cache' = [cache EXCEPT ![b] = v]
      /\ dirty' = dirty \ {b} /\ tail' = i
      /\ UNCHANGED <<logarea, hdr, lh, outstanding, committing, pc, blk, wset, stage, up>>
  BY <1>3 DEF InstallTrans, logVars, opVars
<1>5. \A j \in 1..Len(lh) : j # i => lh[j] # b
  BY <1>2 DEF HeadersRight, NoRepeats, TypeOK
<1>6. TypeOK'
  BY <1>1, <1>3, <1>4 DEF TypeOK
<1>7. /\ Running' = {} /\ LogNoPanic' /\ WaitersServed' /\ Holders' /\ OutstandingRight'
      /\ WritesRight' /\ Space' /\ Running = {}
  BY <1>1, <1>4, CommitFrame
<1> HIDE DEF v, b
<1>8. Phases'
  <2>1. tail' <= Len(lh')
    BY <1>2, <1>4
  <2>2. dirty = {} => dirty' = {}
    BY <1>4
  <2> QED BY <1>1, <1>4, <1>7, <2>1, <2>2 DEF Phases
<1>9. HeadersRight'
  BY <1>4 DEF HeadersRight
<1>10. cache'[b] = v /\ disk'[b] = v
  BY <1>3, <1>4 DEF TypeOK
<1>11. \A x \in Blocks : x # b => cache'[x] = cache[x] /\ disk'[x] = disk[x]
  BY <1>4 DEF TypeOK
<1>12. CacheRight'
  <2>1. ASSUME NEW x \in Blocks, x \notin dirty', \A q \in Procs : blk'[q] # x
        PROVE  cache'[x] \in {NoVal, disk'[x]}
    <3>1. CASE x = b
      BY <3>1, <1>10
    <3>2. CASE x # b
      BY <3>2, <2>1, <1>4, <1>11 DEF CacheRight
    <3> QED BY <3>1, <3>2
  <2>2. dirty' \subseteq Logged(lh')
    BY <1>4 DEF CacheRight
  <2>3. \A j \in 1..i : lh[j] \notin dirty'
    <3> SUFFICES ASSUME NEW j \in 1..i, j # i PROVE lh[j] \notin dirty
      BY <1>4 DEF b
    <3>1. j \in 1..tail
      BY <1>1
    <3> QED BY <3>1, <1>1 DEF CacheRight
  <2> QED BY <2>1, <2>2, <2>3, <1>4 DEF CacheRight
<1>13. ASSUME up PROVE \A x \in Blocks : Bread(x)' = Bread(x)
  <2>1. Bread(b) = v
    BY <1>1, <1>2, <1>13 DEF Copied, b, v
  <2>2. ASSUME NEW x \in Blocks, x = b PROVE Bread(x)' = v
    BY <2>2, <1>3, <1>10, BlocksAssumption DEF Bread
  <2>3. ASSUME NEW x \in Blocks, x # b PROVE Bread(x)' = Bread(x)
    BY <2>3, <1>11 DEF Bread
  <2> QED BY <2>1, <2>2, <2>3
<1>14. Copied'
  <2>1. ASSUME NEW j \in 1..i PROVE disk'[lh[j]] = logarea[j]
    <3>1. CASE j = i
      BY <3>1, <1>10 DEF b, v
    <3>2. CASE j # i
      <4>1. j \in 1..tail /\ j \in 1..Len(lh)
        BY <3>2, <1>1
      <4>2. lh[j] # b /\ lh[j] \in Blocks
        BY <4>1, <3>2, <1>5 DEF TypeOK
      <4> QED BY <4>1, <4>2, <1>1, <1>11 DEF Copied
    <3> QED BY <3>1, <3>2
  <2>2. ASSUME up, NEW j \in 1..Len(lh) PROVE logarea[j] = Bread(lh[j])'
    <3>1. lh[j] \in Blocks /\ logarea[j] = Bread(lh[j])
      BY <1>1, <2>2 DEF Copied, TypeOK
    <3>2. Bread(lh[j])' = Bread(lh[j])
      BY <3>1, <1>4, <1>13, <2>2 DEF Bread
    <3> QED BY <3>1, <3>2
  <2> QED BY <2>1, <2>2, <1>1, <1>4 DEF Copied
<1> QED BY <1>6, <1>7, <1>8, <1>9, <1>12, <1>13, <1>14

\* The end of commit() and of recovery: the transaction is erased.
LEMMA ClearLogInv ==
    ASSUME IInv, ClearLog
    PROVE  IInv'
<1> USE DEF IInv
<1>1. /\ stage = "install" /\ tail = Len(lh) /\ hdr' = <<>> /\ lh' = <<>> /\ stage' = "done"
      /\ up' = TRUE
      /\ UNCHANGED <<disk, logarea, cache, dirty, outstanding, committing, pc, blk, wset, tail>>
  BY DEF ClearLog, cacheVars, opVars
<1>2. TypeOK'
  <2>1. lh' \in Seq(Blocks) /\ hdr' \in Seq(Blocks)
    BY <1>1
  <2> QED BY <1>1, <2>1 DEF TypeOK
<1>3. /\ Running' = {} /\ LogNoPanic' /\ WaitersServed' /\ Holders' /\ OutstandingRight'
      /\ WritesRight' /\ Space' /\ Running = {}
  BY <1>1, CommitFrame
<1>4. Phases'
  BY <1>1, <1>3 DEF Phases
<1>5. HeadersRight'
  BY <1>1, LogSizeAssumption DEF HeadersRight, NoRepeats
<1>6. dirty = {}
  BY <1>1 DEF CacheRight, Logged, TypeOK
<1>7. CacheRight' /\ Copied'
  BY <1>1, <1>6 DEF CacheRight, Copied
<1> QED BY <1>2, <1>3, <1>4, <1>5, <1>7

\* The end of end_op() after the commit: a sleeper is woken if there is one.
LEMMA EndCommitInv ==
    ASSUME IInv, NEW p \in Procs, EndCommit(p)
    PROVE  IInv'
<1> USE DEF IInv
<1> DEFINE PC == {"idle", "sleep", "retry", "op", "log_write", "commit", "panic"}
           f == [pc EXCEPT ![p] = "idle"]
<1>1. /\ up /\ pc[p] = "commit" /\ stage = "done" /\ committing' = FALSE /\ Wakeup(f)
      /\ UNCHANGED <<disk, logarea, hdr, cache, dirty, lh, outstanding, blk, wset, stage,
                     tail, up>>
  BY DEF EndCommit, diskVars, cacheVars, commitVars
<1>2. committing /\ Running = {} /\ lh = <<>> /\ hdr = <<>> /\ pc \in [Procs -> PC]
  BY <1>1 DEF Phases, TypeOK
<1>3. /\ pc' \in [Procs -> PC]
      /\ \A q \in Procs : pc'[q] = f[q] \/ (f[q] = "sleep" /\ pc'[q] = "retry")
      /\ (\E q \in Procs : f[q] = "sleep") => \E q \in Procs : pc'[q] = "retry"
  <2>1. f \in [Procs -> PC] /\ "retry" \in PC
    BY <1>2
  <2> HIDE DEF PC, f
  <2> QED BY <1>1, <2>1, WakeupSome
<1>4. \A q \in Procs : pc'[q] # "commit" /\ pc'[q] # "panic" /\ pc'[q] \notin {"op", "log_write"}
  BY <1>1, <1>2, <1>3 DEF Phases, LogNoPanic, Running
<1>5. WaitersServed'
  BY <1>3 DEF WaitersServed
<1> HIDE DEF f
<1>6. Running' = {}
  BY <1>4 DEF Running
<1>7. TypeOK'
  BY <1>1, <1>3 DEF TypeOK
<1>8. LogNoPanic' /\ OutstandingRight' /\ WritesRight' /\ Space'
  BY <1>1, <1>2, <1>4, <1>6 DEF LogNoPanic, OutstandingRight, WritesRight, Space
<1>9. Holders'
  BY <1>1, <1>2, <1>4 DEF Holders, Running
<1>10. Phases'
  BY <1>1, <1>2, <1>4, <1>6 DEF Phases
<1>11. HeadersRight' /\ CacheRight' /\ Copied'
  BY <1>1 DEF HeadersRight, CacheRight, Copied, Bread
<1> QED BY <1>5, <1>7, <1>8, <1>9, <1>10, <1>11

\* The beginning of recovery.
LEMMA ReadHeadInv ==
    ASSUME IInv, ReadHead
    PROVE  IInv'
<1> USE DEF IInv
<1>1. /\ stage = "read_head" /\ lh' = hdr /\ stage' = "install" /\ tail' = 0
      /\ UNCHANGED <<disk, logarea, hdr, cache, dirty, outstanding, committing, pc, blk, wset,
                     up>>
  BY DEF ReadHead, diskVars, cacheVars, opVars
<1>2. TypeOK'
  BY <1>1 DEF TypeOK
<1>3. ~up /\ dirty = {}
  BY <1>1 DEF Phases, TypeOK
<1>4. /\ Running' = {} /\ LogNoPanic' /\ WaitersServed' /\ Holders' /\ OutstandingRight'
      /\ WritesRight' /\ Space' /\ Running = {}
  BY <1>1, CommitFrame
<1>5. Phases'
  BY <1>1, <1>3, <1>4 DEF Phases, TypeOK
<1>6. HeadersRight' /\ CacheRight' /\ Copied'
  BY <1>1, <1>3 DEF HeadersRight, CacheRight, Copied
<1> QED BY <1>2, <1>4, <1>5, <1>6

\* A buffer that is recycled agrees with the disk.
LEMMA EvictInv ==
    ASSUME IInv, NEW b \in Blocks, Evict(b)
    PROVE  IInv' /\ \A x \in Blocks : Bread(x)' = Bread(x)
<1> USE DEF IInv
<1>1. /\ cache' = [cache EXCEPT ![b] = NoVal] /\ cache[b] = disk[b]
      /\ UNCHANGED <<disk, logarea, hdr, dirty, lh, outstanding, committing, pc, blk, wset,
                     stage, tail, up>>
  BY DEF Evict, CacheRight, diskVars, logVars, opVars, commitVars
<1>2. TypeOK'
  BY <1>1 DEF TypeOK
<1>3. \A x \in Blocks : Bread(x)' = Bread(x)
  BY <1>1 DEF Bread, TypeOK
<1>4. Running' = Running /\ Reserved' = Reserved
  BY <1>1 DEF Running, Reserved
<1>5. /\ LogNoPanic' /\ WaitersServed' /\ Holders' /\ OutstandingRight' /\ WritesRight'
      /\ Space' /\ Phases' /\ HeadersRight'
  BY <1>1, <1>4 DEF LogNoPanic, WaitersServed, Holders, OutstandingRight, WritesRight,
                    Space, Phases, HeadersRight
<1>6. CacheRight'
  BY <1>1 DEF CacheRight, TypeOK
<1>7. Copied'
  <2>1. \A j \in 1..Len(lh) : Bread(lh[j])' = Bread(lh[j])
    BY <1>1, <1>3 DEF TypeOK, Bread
  <2>2. stage \in {"write_log", "install"} => 1..tail \subseteq 1..Len(lh)
    BY DEF Phases, TypeOK
  <2> QED BY <1>1, <2>1, <2>2 DEF Copied
<1> QED BY <1>2, <1>3, <1>5, <1>6, <1>7

\* Power failure.
LEMMA CrashInv ==
    ASSUME IInv, Crash
    PROVE  IInv'
<1> USE DEF IInv
<1>1. TypeOK'
  <2>1. lh' \in Seq(Blocks)
    BY DEF Crash
  <2> QED BY <2>1 DEF Crash, TypeOK, diskVars
<1>2. Running' = {}
  BY DEF Running, Crash
<1>3. LogNoPanic' /\ WaitersServed' /\ Holders' /\ WritesRight' /\ Space'
  BY <1>2 DEF Crash, LogNoPanic, WaitersServed, Holders, WritesRight, Space
<1>4. OutstandingRight'
  BY <1>2, FS_EmptySet DEF OutstandingRight, Crash
<1>5. Phases'
  BY <1>2 DEF Phases, Crash
<1>6. HeadersRight' /\ CacheRight' /\ Copied'
  BY LogSizeAssumption DEF HeadersRight, NoRepeats, CacheRight, Copied, Crash, diskVars
<1> QED BY <1>1, <1>3, <1>4, <1>5, <1>6

\* Nothing happens.
LEMMA StutterInv ==
    ASSUME IInv, UNCHANGED vars
    PROVE  IInv'
<1>1. UNCHANGED <<disk, logarea, hdr, cache, dirty, lh, outstanding, committing, pc, blk,
                  wset, stage, tail, up>>
  BY DEF vars, diskVars, cacheVars, logVars, opVars, commitVars
<1>2. Running' = Running /\ Reserved' = Reserved
  BY <1>1 DEF Running, Reserved
<1> QED BY <1>1, <1>2 DEF IInv, TypeOK, LogNoPanic, WaitersServed, Phases, Holders,
             OutstandingRight, WritesRight, Space, HeadersRight, CacheRight, Copied, Bread

\* Every step of Log preserves the invariant.
LEMMA NextIInv == IInv /\ [Next]_vars => IInv'
<1> SUFFICES ASSUME IInv, [Next]_vars PROVE IInv'
  OBVIOUS
<1>1. ASSUME NEW p \in Procs, Op(p) PROVE IInv'
  BY <1>1, BeginOpInv, BeginSleepInv, LogWriteInv, EndOpInv, EndCommitInv, ModifyInv DEF Op
<1>2. CASE Commit
  BY <1>2, WriteLogInv, WriteHeadInv, InstallTransInv, ClearLogInv, ReadHeadInv DEF Commit
<1>3. ASSUME NEW b \in Blocks, Evict(b) PROVE IInv'
  BY <1>3, EvictInv
<1>4. CASE Crash
  BY <1>4, CrashInv
<1>5. CASE UNCHANGED vars
  BY <1>5, StutterInv
<1> QED BY <1>1, <1>2, <1>3, <1>4, <1>5 DEF Next

-----------------------------------------------------------------------------
(* The steps of AtomicDisk.                                                 *)

\* The place of a block in a header.
LEMMA Chosen ==
    ASSUME NEW h \in Seq(Blocks), NEW b \in Logged(h)
    PROVE  /\ (CHOOSE i \in DOMAIN h : h[i] = b) \in 1..Len(h)
           /\ h[CHOOSE i \in DOMAIN h : h[i] = b] = b
<1>1. \E i \in DOMAIN h : h[i] = b
  BY DEF Logged
<1>2. DOMAIN h = 1..Len(h)
  OBVIOUS
<1> QED BY <1>1, <1>2

\* Recovery takes a block that is in the header on the disk from the log area,
\* and leaves the others alone.
LEMMA DurableIs ==
    IInv => /\ Durable \in [Blocks -> Vals]
            /\ \A b \in Blocks \ Logged(hdr) : Durable[b] = disk[b]
            /\ \A b \in Logged(hdr) :
                  Durable[b] = logarea[CHOOSE i \in DOMAIN hdr : hdr[i] = b]
            /\ \A i \in 1..Len(hdr) : Durable[hdr[i]] = logarea[i]
<1> SUFFICES ASSUME IInv
             PROVE  /\ Durable \in [Blocks -> Vals]
                    /\ \A b \in Blocks \ Logged(hdr) : Durable[b] = disk[b]
                    /\ \A b \in Logged(hdr) :
                          Durable[b] = logarea[CHOOSE i \in DOMAIN hdr : hdr[i] = b]
                    /\ \A i \in 1..Len(hdr) : Durable[hdr[i]] = logarea[i]
  OBVIOUS
<1>1. /\ TypeOK /\ hdr \in Seq(Blocks) /\ Logged(hdr) \subseteq Blocks /\ Len(hdr) <= NLOG - 1
      /\ disk \in [Blocks -> Vals]
  BY LoggedBlocks DEF IInv, TypeOK, HeadersRight
<1>2. ASSUME NEW b \in Blocks \ Logged(hdr) PROVE Durable[b] = disk[b]
  BY <1>2 DEF Durable
<1>3. ASSUME NEW b \in Logged(hdr)
      PROVE  /\ Durable[b] = logarea[CHOOSE i \in DOMAIN hdr : hdr[i] = b]
             /\ Durable[b] \in Vals
  <2> DEFINE j == CHOOSE i \in DOMAIN hdr : hdr[i] = b
  <2>1. j \in 1..Len(hdr)
    BY <1>1, Chosen
  <2>2. Durable[b] = LogBlock(j)
    BY <1>1 DEF Durable
  <2> HIDE DEF j
  <2>3. j \in Nat \ {0} /\ j <= NLOG - 1
    BY <2>1, <1>1, LogSizeAssumption
  <2>4. LogBlock(j) = logarea[j] /\ LogBlock(j) \in Vals
    BY <2>3, <1>1, LogBlockInside
  <2> QED BY <2>2, <2>4 DEF j
<1>4. ASSUME NEW i \in 1..Len(hdr) PROVE Durable[hdr[i]] = logarea[i]
  <2>1. i \in DOMAIN hdr /\ hdr[i] \in Logged(hdr) /\ DOMAIN hdr = 1..Len(hdr)
    BY <1>1 DEF Logged
  <2> DEFINE j == CHOOSE k \in DOMAIN hdr : hdr[k] = hdr[i]
  <2>2. j \in 1..Len(hdr) /\ hdr[j] = hdr[i]
    BY <1>1, <2>1, Chosen
  <2>3. Durable[hdr[i]] = logarea[j]
    BY <1>3, <2>1
  <2> HIDE DEF j
  <2>4. j = i
    BY <2>1, <2>2 DEF IInv, HeadersRight, NoRepeats
  <2> QED BY <2>3, <2>4
<1>5. Durable \in [Blocks -> Vals]
  <2>1. \A b \in Blocks : Durable[b] \in Vals
    BY <1>1, <1>2, <1>3
  <2>2. Durable = [b \in Blocks |-> Durable[b]]
    BY DEF Durable
  <2> QED BY <2>1, <2>2
<1> QED BY <1>2, <1>3, <1>4, <1>5

\* As long as the header and the log area it covers stay, and no other block is
\* written on the disk, a crash leaves the same.
LEMMA DurableSame ==
    ASSUME IInv, IInv', hdr' = hdr,
           \A i \in 1..Len(hdr) : logarea'[i] = logarea[i],
           \A b \in Blocks \ Logged(hdr) : disk'[b] = disk[b]
    PROVE  Durable' = Durable
<1>1. /\ Durable' \in [Blocks -> Vals]
      /\ \A b \in Blocks \ Logged(hdr') : Durable'[b] = disk'[b]
      /\ \A b \in Logged(hdr') :
            Durable'[b] = logarea'[CHOOSE i \in DOMAIN hdr' : hdr'[i] = b]
  <2>1. (IInv => /\ Durable \in [Blocks -> Vals]
                 /\ \A b \in Blocks \ Logged(hdr) : Durable[b] = disk[b]
                 /\ \A b \in Logged(hdr) :
                       Durable[b] = logarea[CHOOSE i \in DOMAIN hdr : hdr[i] = b]
                 /\ \A i \in 1..Len(hdr) : Durable[hdr[i]] = logarea[i])'
    BY DurableIs, PTL
  <2> QED BY <2>1
<1>2. ASSUME NEW b \in Blocks PROVE Durable'[b] = Durable[b]
  <2>1. CASE b \in Logged(hdr)
    <3>1. (CHOOSE i \in DOMAIN hdr : hdr[i] = b) \in 1..Len(hdr)
      BY <2>1, Chosen DEF IInv, TypeOK
    <3>2. Durable[b] = logarea[CHOOSE i \in DOMAIN hdr : hdr[i] = b]
      BY <2>1, DurableIs
    <3>3. Durable'[b] = logarea'[CHOOSE i \in DOMAIN hdr' : hdr'[i] = b]
      BY <2>1, <1>1
    <3>4. (CHOOSE i \in DOMAIN hdr' : hdr'[i] = b) = (CHOOSE i \in DOMAIN hdr : hdr[i] = b)
      OBVIOUS
    <3> QED BY <3>1, <3>2, <3>3, <3>4
  <2>2. CASE b \notin Logged(hdr)
    BY <2>2, <1>1, DurableIs
  <2> QED BY <2>1, <2>2
<1> QED BY <1>1, <1>2, DurableIs

\* The same for what the file system reads.
LEMMA CurrentSame ==
    ASSUME up' = up, Durable' = Durable, up => \A b \in Blocks : Bread(b)' = Bread(b)
    PROVE  Current' = Current
<1>1. CASE up
  BY <1>1 DEF Current
<1>2. CASE ~up
  BY <1>2 DEF Current
<1> QED BY <1>1, <1>2

\* Nobody panics, so the operations under way are the running ones.
LEMMA ActiveRunning == IInv => Active = Running
BY DEF IInv, LogNoPanic, Active, Running

\* The operations of a process: begin_op(), log_write() and end_op() are a step
\* of AtomicDisk or invisible there.
LEMMA OpStep ==
    ASSUME IInv, IInv', NEW p \in Procs, Op(p)
    PROVE  AD!Next \/ UNCHANGED AD!vars
<1>1. Active = Running /\ Active' = Running'
  <2>1. (IInv => Active = Running)'
    BY ActiveRunning, PTL
  <2> QED BY <2>1, ActiveRunning
<1>2. UNCHANGED <<disk, logarea, hdr, up>>
  BY DEF Op, BeginOp, BeginSleep, LogWrite, EndOp, EndCommit, Modify, diskVars
<1>3. Durable' = Durable
  BY <1>2, DurableSame
<1>4. ASSUME UNCHANGED cache PROVE Current' = Current
  BY <1>2, <1>3, <1>4, CurrentSame DEF Bread
<1>5. CASE BeginOp(p)
  <2>1. p \notin Running /\ Running' = Running \cup {p} /\ cache' = cache
    BY <1>5 DEF BeginOp, Running, IInv, TypeOK, cacheVars
  <2>2. AD!Begin(p)
    BY <2>1, <1>1, <1>3, <1>4 DEF AD!Begin
  <2> QED BY <2>2 DEF AD!Next
<1>6. CASE BeginSleep(p)
  <2>1. Running' = Running /\ cache' = cache
    BY <1>6 DEF BeginSleep, Running, IInv, TypeOK, cacheVars
  <2> QED BY <2>1, <1>1, <1>3, <1>4 DEF AD!vars
<1>7. CASE LogWrite(p)
  <2>1. Running' = Running /\ cache' = cache
    BY <1>7 DEF LogWrite, Running, IInv, TypeOK
  <2> QED BY <2>1, <1>1, <1>3, <1>4 DEF AD!vars
<1>8. CASE EndOp(p)
  <2>1. p \in Running /\ Running' = Running \ {p} /\ cache' = cache
    <3>1. ~committing /\ p \in Running /\ cache' = cache
      BY <1>8 DEF EndOp, Running, IInv, Phases, cacheVars
    <3>2. CASE outstanding = 1
      BY <1>8, <3>1, <3>2 DEF EndOp, Running, IInv, TypeOK
    <3>3. CASE outstanding # 1
      <4> DEFINE PC == {"idle", "sleep", "retry", "op", "log_write", "commit", "panic"}
                 f == [pc EXCEPT ![p] = "idle"]
      <4>1. Wakeup(f) /\ f \in [Procs -> PC] /\ "retry" \in PC
        BY <1>8, <3>1, <3>3 DEF EndOp, IInv, TypeOK
      <4>2. \A q \in Procs : pc'[q] = f[q] \/ (f[q] = "sleep" /\ pc'[q] = "retry")
        <5> HIDE DEF f, PC
        <5> QED BY <4>1, WakeupSome
      <4> QED BY <4>2, <3>1 DEF Running, IInv, TypeOK
    <3> QED BY <3>1, <3>2, <3>3
  <2>2. AD!End(p)
    BY <2>1, <1>1, <1>3, <1>4 DEF AD!End
  <2> QED BY <2>2 DEF AD!Next
<1>9. CASE EndCommit(p)
  <2>1. cache' = cache
    BY <1>9 DEF EndCommit, cacheVars
  <2>2. Running' = Running
    <3> DEFINE PC == {"idle", "sleep", "retry", "op", "log_write", "commit", "panic"}
               f == [pc EXCEPT ![p] = "idle"]
    <3>1. Wakeup(f) /\ f \in [Procs -> PC] /\ "retry" \in PC /\ pc[p] = "commit"
      BY <1>9 DEF EndCommit, IInv, TypeOK
    <3>2. \A q \in Procs : pc'[q] = f[q] \/ (f[q] = "sleep" /\ pc'[q] = "retry")
      <4> HIDE DEF f, PC
      <4> QED BY <3>1, WakeupSome
    <3> QED BY <3>1, <3>2 DEF Running, IInv, TypeOK
  <2> QED BY <2>1, <2>2, <1>1, <1>3, <1>4 DEF AD!vars
<1>10. ASSUME NEW b \in Blocks, NEW v \in Vals, Modify(p, b, v)
       PROVE  AD!Next \/ UNCHANGED AD!vars
  <2>1. up /\ pc[p] = "op" /\ cache' = [cache EXCEPT ![b] = v]
    BY <1>10 DEF Modify
  <2>2. p \in Running /\ Running' = Running
    <3>1. \A q \in Procs \ {p} : pc'[q] = pc[q]
      BY <1>10 DEF Modify, IInv, TypeOK
    <3>2. pc'[p] \in {"log_write", "panic"} /\ pc'[p] # "panic"
      BY <1>10 DEF Modify, IInv, TypeOK, LogNoPanic
    <3> QED BY <2>1, <3>1, <3>2 DEF Running
  <2>3. Current' = [Current EXCEPT ![b] = v]
    <3>1. Current = [x \in Blocks |-> Bread(x)] /\ Current' = [x \in Blocks |-> Bread(x)']
      BY <2>1, <1>2 DEF Current
    <3>2. ASSUME NEW x \in Blocks PROVE Bread(x)' = IF x = b THEN v ELSE Bread(x)
      BY <2>1, <1>2, BlocksAssumption DEF Bread, IInv, TypeOK
    <3> QED BY <3>1, <3>2
  <2>4. AD!Write(p, b, v)
    BY <2>2, <2>3, <1>1, <1>3 DEF AD!Write
  <2> QED BY <2>4 DEF AD!Next
<1> QED BY <1>5, <1>6, <1>7, <1>8, <1>9, <1>10 DEF Op

\* The header that reaches the disk makes everything read so far durable: its
\* blocks have been copied, and the others are the same in the cache and on the
\* disk.
LEMMA WriteHeadStep ==
    ASSUME IInv, IInv', WriteHead
    PROVE  AD!Commit
<1>1. /\ stage = "write_log" /\ tail = Len(lh) /\ hdr' = lh
      /\ UNCHANGED <<disk, logarea, cache, dirty, lh, outstanding, committing, pc, blk, wset, up>>
  BY DEF WriteHead, cacheVars, logVars, opVars
<1>2. up /\ Running = {} /\ \A p \in Procs : blk[p] = NoBlk
  BY <1>1, CommitFrame DEF IInv, Phases
<1>3. Active = {} /\ Active' = {}
  BY <1>1, <1>2, ActiveRunning DEF Active
<1>4. Current = [b \in Blocks |-> Bread(b)] /\ Current' = Current
  BY <1>1, <1>2 DEF Current, Bread
<1>5. /\ Durable' \in [Blocks -> Vals]
      /\ \A b \in Blocks \ Logged(lh) : Durable'[b] = disk[b]
      /\ \A i \in 1..Len(lh) : Durable'[lh[i]] = logarea[i]
  <2>1. (IInv => /\ Durable \in [Blocks -> Vals]
                 /\ \A b \in Blocks \ Logged(hdr) : Durable[b] = disk[b]
                 /\ \A b \in Logged(hdr) :
                       Durable[b] = logarea[CHOOSE i \in DOMAIN hdr : hdr[i] = b]
                 /\ \A i \in 1..Len(hdr) : Durable[hdr[i]] = logarea[i])'
    BY DurableIs, PTL
  <2> QED BY <2>1, <1>1
<1>6. ASSUME NEW b \in Blocks PROVE Durable'[b] = Bread(b)
  <2>1. CASE b \in Logged(lh)
    <3>1. PICK i \in 1..Len(lh) : lh[i] = b
      BY <2>1 DEF Logged, IInv, TypeOK
    <3> QED BY <3>1, <1>1, <1>5 DEF IInv, Copied
  <2>2. CASE b \notin Logged(lh)
    <3>1. b \notin dirty /\ \A p \in Procs : blk[p] # b
      BY <2>2, <1>2, BlocksAssumption DEF IInv, CacheRight
    <3>2. Bread(b) = disk[b]
      BY <3>1 DEF Bread, IInv, CacheRight
    <3> QED BY <2>2, <3>2, <1>5
  <2> QED BY <2>1, <2>2
<1>7. Durable' = Current
  BY <1>4, <1>5, <1>6
<1> QED BY <1>3, <1>4, <1>7 DEF AD!Commit

\* Erasing the transaction: everything has been installed.
LEMMA ClearLogStep ==
    ASSUME IInv, IInv', ClearLog
    PROVE  UNCHANGED AD!vars
<1>1. /\ stage = "install" /\ tail = Len(lh) /\ hdr' = <<>> /\ up' = TRUE /\ hdr = lh
      /\ UNCHANGED <<disk, logarea, cache, dirty, outstanding, committing, pc, blk, wset, tail>>
  BY DEF ClearLog, cacheVars, opVars, IInv, Phases
<1>2. Active' = Active
  BY <1>1 DEF Active
<1>3. Durable' = disk /\ disk \in [Blocks -> Vals]
  BY <1>1 DEF Durable, Logged, IInv, TypeOK
<1>4. Durable = disk
  <2>1. ASSUME NEW b \in Blocks PROVE Durable[b] = disk[b]
    <3>1. CASE b \in Logged(hdr)
      <4>1. PICK i \in 1..Len(hdr) : hdr[i] = b
        BY <3>1 DEF Logged, IInv, TypeOK
      <4>2. disk[b] = logarea[i]
        BY <4>1, <1>1 DEF IInv, Copied
      <4> QED BY <4>1, <4>2, DurableIs
    <3>2. CASE b \notin Logged(hdr)
      BY <3>2, DurableIs
    <3> QED BY <3>1, <3>2
  <2> QED BY <2>1, <1>3, DurableIs
<1>5. Current' = Current
  <2>1. \A b \in Blocks : Bread(b)' = Bread(b)
    BY <1>1 DEF Bread
  <2>2. CASE up
    BY <2>1, <2>2, <1>1 DEF Current
  <2>3. CASE ~up
    <3>1. dirty = {} /\ \A p \in Procs : blk[p] = NoBlk
      BY <2>3 DEF IInv, Phases, Holders
    <3>2. ASSUME NEW b \in Blocks PROVE Bread(b) = disk[b]
      BY <3>1, BlocksAssumption DEF Bread, IInv, CacheRight
    <3>3. Current' = [b \in Blocks |-> disk[b]]
      BY <2>1, <3>2, <1>1 DEF Current
    <3> QED BY <3>3, <2>3, <1>3, <1>4 DEF Current
  <2> QED BY <2>2, <2>3
<1> QED BY <1>2, <1>3, <1>4, <1>5 DEF AD!vars

\* Every step of the log is a step of AtomicDisk or is invisible there.
LEMMA AtomicStep == IInv /\ IInv' /\ [Next]_vars => [AD!Next]_(AD!vars)
<1> SUFFICES ASSUME IInv, IInv', [Next]_vars PROVE AD!Next \/ UNCHANGED AD!vars
  OBVIOUS
<1>1. ASSUME NEW p \in Procs, Op(p) PROVE AD!Next \/ UNCHANGED AD!vars
  BY <1>1, OpStep
<1>2. CASE WriteHead
  BY <1>2, WriteHeadStep DEF AD!Next
<1>3. CASE ClearLog
  BY <1>3, ClearLogStep
<1>4. CASE WriteLog
  <2>1. UNCHANGED <<hdr, pc, up>> /\ hdr = <<>> /\ disk' = disk
    <3>1. UNCHANGED <<hdr, pc, up>> /\ stage = "write_log" /\ tail < Len(lh)
      BY <1>4 DEF WriteLog, opVars
    <3>2. tail + 1 < NLOG
      BY <3>1, LogSizeAssumption DEF IInv, TypeOK, HeadersRight
    <3> QED BY <1>4, <3>1, <3>2 DEF WriteLog, IInv, Phases
  <2>2. Durable' = Durable
    BY <2>1, DurableSame
  <2>3. Current' = Current
    BY <1>4, <2>1, <2>2, WriteLogInv, CurrentSame
  <2> QED BY <2>1, <2>2, <2>3 DEF AD!vars, Active
<1>5. CASE InstallTrans
  <2>1. UNCHANGED <<hdr, logarea, pc, up>> /\ hdr = lh /\ tail + 1 \in 1..Len(lh)
    BY <1>5 DEF InstallTrans, opVars, IInv, Phases, TypeOK
  <2>2. ASSUME NEW b \in Blocks \ Logged(hdr) PROVE disk'[b] = disk[b]
    <3>1. b # lh[tail + 1]
      BY <2>1 DEF Logged, IInv, TypeOK
    <3> QED BY <1>5, <3>1 DEF InstallTrans, IInv, TypeOK
  <2>3. Durable' = Durable
    BY <2>1, <2>2, DurableSame
  <2>4. Current' = Current
    BY <1>5, <2>1, <2>3, InstallTransInv, CurrentSame
  <2> QED BY <2>1, <2>3, <2>4 DEF AD!vars, Active
<1>6. CASE ReadHead
  <2>1. UNCHANGED <<disk, hdr, logarea, cache, pc, up>>
    BY <1>6 DEF ReadHead, opVars, diskVars, cacheVars
  <2>2. Durable' = Durable
    BY <2>1, DurableSame
  <2>3. Current' = Current
    BY <2>1, <2>2, CurrentSame DEF Bread
  <2> QED BY <2>1, <2>2, <2>3 DEF AD!vars, Active
<1>7. ASSUME NEW b \in Blocks, Evict(b) PROVE UNCHANGED AD!vars
  <2>1. UNCHANGED <<disk, hdr, logarea, pc, up>>
    BY <1>7 DEF Evict, opVars, diskVars
  <2>2. Durable' = Durable
    BY <2>1, DurableSame
  <2>3. Current' = Current
    BY <1>7, <2>1, <2>2, EvictInv, CurrentSame
  <2> QED BY <2>1, <2>2, <2>3 DEF AD!vars, Active
<1>8. CASE Crash
  <2>1. UNCHANGED <<disk, hdr, logarea>> /\ ~up' /\ \A p \in Procs : pc'[p] = "idle"
    BY <1>8 DEF Crash, diskVars
  <2>2. Durable' = Durable
    BY <2>1, DurableSame
  <2>3. Current' = Durable /\ Active' = {}
    BY <2>1, <2>2 DEF Current, Active
  <2> QED BY <2>2, <2>3 DEF AD!Next, AD!Crash
<1>9. CASE UNCHANGED vars
  <2>1. UNCHANGED <<disk, hdr, logarea, cache, pc, up>>
    BY <1>9 DEF vars, opVars, diskVars, cacheVars
  <2>2. Durable' = Durable
    BY <2>1, DurableSame
  <2>3. Current' = Current
    BY <2>1, <2>2, CurrentSame DEF Bread
  <2> QED BY <2>1, <2>2, <2>3 DEF AD!vars, Active
<1> QED BY <1>1, <1>2, <1>3, <1>4, <1>5, <1>6, <1>7, <1>8, <1>9 DEF Next, Commit

\* At the first boot the log is empty, and the file system reads what is on the
\* disk.
LEMMA AtomicInit == Init => AD!Init
<1> SUFFICES ASSUME Init PROVE AD!Init
  OBVIOUS
<1>1. Durable = [b \in Blocks |-> InitVal]
  BY DEF Init, Durable, Logged
<1>2. Current = Durable /\ Active = {}
  BY DEF Init, Current, Active
<1> QED BY <1>1, <1>2 DEF AD!Init

-----------------------------------------------------------------------------
(* The theorems.                                                            *)

\* The inductive invariant holds.
THEOREM LogInvariance == Spec => []IInv
BY InitIInv, NextIInv, PTL DEF Spec

\* begin_op() reserves enough: no operation dies in log_write() or end_op(), and
\* no transaction is longer than the log area, whatever the number of processes
\* and the sizes of the log.
THEOREM LogHasRoom == Spec => []SpaceRight
<1>1. IInv => SpaceRight
  BY DEF IInv, SpaceRight, LogFits, HeadersRight
<1> QED BY <1>1, LogInvariance, PTL

\* Nobody sleeps in begin_op() without somebody who will wake him, or who has
\* been woken and still has to try.
THEOREM LogWaiters == Spec => []WaitersServed
<1>1. IInv => WaitersServed
  BY DEF IInv
<1> QED BY <1>1, LogInvariance, PTL

\* The log implements an atomic disk: a crash at any step, of commit() and of
\* recovery too, leaves the transactions whose header reached the disk, each of
\* them whole, and nothing else.
THEOREM LogRefinesAtomicDisk == Spec => CrashAtomic
BY AtomicInit, AtomicStep, LogInvariance, PTL DEF Spec, CrashAtomic, AD!Spec
=============================================================================
