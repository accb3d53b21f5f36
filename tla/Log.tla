-------------------------------- MODULE Log --------------------------------
(***************************************************************************)
(* The redo log of the file system (log.c) on top of the buffer cache and  *)
(* a disk that writes one block at a time, with a crash possible between   *)
(* any two steps and recovery at the next boot.                            *)
(*                                                                         *)
(* log.start is the header block, log.start + i the i-th data block.  The  *)
(* log area has NLOG blocks in all, so the block at log.start + NLOG is    *)
(* already the first inode block, here AfterLog.                           *)
(***************************************************************************)
EXTENDS Integers, Sequences, FiniteSets

CONSTANTS
    Procs,        \* processes making file system calls
    Blocks,       \* home blocks
    AfterLog,     \* the home block that follows the log area
    Vals,         \* contents of a block
    InitVal,
    NoVal,        \* content of a buffer that does not hold the block
    MAXOPBLOCKS,  \* blocks begin_op() reserves for an operation
    OPBLOCKS,     \* blocks an operation really writes
    LOGSIZE,      \* bound of begin_op() on the log, capacity of lh.block
    NLOG          \* log.size, blocks of the log area, header included

NoBlk == "none"

ASSUME BlocksAssumption ==
    /\ NoBlk \notin Blocks
    /\ AfterLog \in Blocks /\ InitVal \in Vals /\ NoVal \notin Vals
    /\ IsFiniteSet(Procs) /\ IsFiniteSet(Blocks)
\* param.h has 10 and 30 blocks, mkfs makes the log area as large as LOGSIZE, and
\* no operation writes all it reserves: the largest, a chunk of filewrite(), logs
\* four data blocks, the indirect block, the inode and the bitmap.
ASSUME LogSizeAssumption ==
    /\ MAXOPBLOCKS \in Nat \ {0} /\ LOGSIZE \in Nat /\ NLOG \in Nat
    /\ OPBLOCKS \in 0..(MAXOPBLOCKS - 1)
    /\ MAXOPBLOCKS < LOGSIZE /\ LOGSIZE <= NLOG

VARIABLES
    \* on disk
    disk, logarea, hdr,
    \* buffer cache: contents, and the buffers flagged B_DIRTY
    cache, dirty,
    \* struct log
    lh, outstanding, committing,
    \* file system calls: where they stand, the buffer held, the blocks written
    pc, blk, wset,
    \* progress of commit() or recover_from_log()
    stage, tail,
    \* the machine has finished initlog()
    up

diskVars  == <<disk, logarea, hdr>>
cacheVars == <<cache, dirty>>
logVars   == <<lh, outstanding, committing>>
opVars    == <<pc, blk, wset>>
commitVars == <<stage, tail>>
vars == <<diskVars, cacheVars, logVars, opVars, commitVars, up>>

Init ==
    /\ disk = [b \in Blocks |-> InitVal]
    /\ logarea = [i \in 1..(NLOG - 1) |-> InitVal]
    /\ hdr = <<>>
    /\ cache = [b \in Blocks |-> NoVal] /\ dirty = {}
    /\ lh = <<>> /\ outstanding = 0 /\ committing = FALSE
    /\ pc = [p \in Procs |-> "idle"]
    /\ blk = [p \in Procs |-> NoBlk]
    /\ wset = [p \in Procs |-> {}]
    /\ stage = "read_head" /\ tail = 0
    /\ up = FALSE

-----------------------------------------------------------------------------
Logged(h) == {h[i] : i \in DOMAIN h}

\* What bread(b) finds: the buffer if the block is cached, else the disk.
Bread(b) == IF cache[b] = NoVal THEN disk[b] ELSE cache[b]

\* Content of the i-th log block, counted from 1.
LogBlock(i) == IF i < NLOG THEN logarea[i] ELSE Bread(AfterLog)

\* Fault: the wakeup is forgotten.
NoWakeup(f) == pc' = f

\* wakeup(&log) wakes at least one sleeper: the first one where sleepers are
\* kept on a list, all of them otherwise.
Wakeup(f) ==
    LET S == {p \in Procs : f[p] = "sleep"} IN
    \E W \in SUBSET S :
       /\ S # {} => W # {}
       /\ pc' = [p \in Procs |-> IF p \in W THEN "retry" ELSE f[p]]

-----------------------------------------------------------------------------
(* begin_op, log_write, end_op                                              *)

\* Fault: begin_op() does not count the caller itself.
LogSpaceOthers == Len(lh) + outstanding * MAXOPBLOCKS <= LOGSIZE

LogSpace == Len(lh) + (outstanding + 1) * MAXOPBLOCKS <= LOGSIZE

BeginOp(p) ==
    /\ up /\ pc[p] \in {"idle", "retry"}
    /\ ~committing /\ LogSpace
    /\ outstanding' = outstanding + 1
    /\ pc' = [pc EXCEPT ![p] = "op"]
    /\ wset' = [wset EXCEPT ![p] = {}]
    /\ UNCHANGED <<diskVars, cacheVars, lh, committing, blk, commitVars, up>>

BeginSleep(p) ==
    /\ up /\ pc[p] \in {"idle", "retry"}
    /\ committing \/ ~LogSpace
    /\ pc' = [pc EXCEPT ![p] = "sleep"]
    /\ UNCHANGED <<diskVars, cacheVars, logVars, blk, wset, commitVars, up>>

TooBig == Len(lh) >= LOGSIZE \/ Len(lh) >= NLOG - 1

\* The caller locks and modifies a buffer and calls log_write(), which looks
\* at log.lh.n and log.outstanding without log.lock.
Modify(p, b, v) ==
    /\ up /\ pc[p] = "op"
    /\ Cardinality(wset[p] \cup {b}) <= OPBLOCKS
    /\ \A q \in Procs : blk[q] # b
    /\ cache' = [cache EXCEPT ![b] = v]
    /\ blk' = [blk EXCEPT ![p] = b]
    /\ pc' = [pc EXCEPT ![p] = IF TooBig \/ outstanding < 1 THEN "panic"
                               ELSE "log_write"]
    /\ UNCHANGED <<diskVars, dirty, logVars, wset, commitVars, up>>

\* Fault: a block that is in the log already is appended again.
LogWriteAgain(p) ==
    /\ up /\ pc[p] = "log_write"
    /\ lh' = Append(lh, blk[p])
    /\ dirty' = dirty \cup {blk[p]}
    /\ wset' = [wset EXCEPT ![p] = @ \cup {blk[p]}]
    /\ blk' = [blk EXCEPT ![p] = NoBlk]
    /\ pc' = [pc EXCEPT ![p] = "op"]
    /\ UNCHANGED <<diskVars, cache, outstanding, committing, commitVars, up>>

\* The critical section of log_write: absorb or append, pin the buffer.
LogWrite(p) ==
    /\ up /\ pc[p] = "log_write"
    /\ lh' = IF blk[p] \in Logged(lh) THEN lh ELSE Append(lh, blk[p])
    /\ dirty' = dirty \cup {blk[p]}
    /\ wset' = [wset EXCEPT ![p] = @ \cup {blk[p]}]
    /\ blk' = [blk EXCEPT ![p] = NoBlk]
    /\ pc' = [pc EXCEPT ![p] = "op"]
    /\ UNCHANGED <<diskVars, cache, outstanding, committing, commitVars, up>>

\* end_op: the last operation commits, any other lets waiters try again.
EndOp(p) ==
    /\ up /\ pc[p] = "op"
    /\ outstanding' = outstanding - 1
    /\ IF committing
       THEN /\ pc' = [pc EXCEPT ![p] = "panic"]
            /\ UNCHANGED <<committing, commitVars>>
       ELSE IF outstanding = 1
       THEN /\ committing' = TRUE
            /\ pc' = [pc EXCEPT ![p] = "commit"]
            /\ stage' = (IF Len(lh) > 0 THEN "write_log" ELSE "done")
            /\ tail' = 0
       ELSE /\ Wakeup([pc EXCEPT ![p] = "idle"])
            /\ UNCHANGED <<committing, commitVars>>
    /\ UNCHANGED <<diskVars, cacheVars, lh, blk, wset, up>>

-----------------------------------------------------------------------------
(* commit and recover_from_log: one block write per step.                   *)

\* write_log: copy the next modified block from the cache to the log.
WriteLog ==
    /\ stage = "write_log" /\ tail < Len(lh)
    /\ LET i == tail + 1
           v == Bread(lh[i]) IN
       IF i < NLOG
       THEN /\ logarea' = [logarea EXCEPT ![i] = v]
            /\ UNCHANGED <<disk, cacheVars>>
       ELSE /\ disk' = [disk EXCEPT ![AfterLog] = v]
            /\ cache' = [cache EXCEPT ![AfterLog] = v]
            /\ dirty' = dirty \ {AfterLog}
            /\ UNCHANGED logarea
    /\ tail' = tail + 1
    /\ UNCHANGED <<hdr, logVars, opVars, stage, up>>

\* Fault: the header may reach the disk before the log blocks.
WriteHeadEarly ==
    /\ stage = "write_log"
    /\ hdr' = lh
    /\ stage' = "install" /\ tail' = 0
    /\ UNCHANGED <<disk, logarea, cacheVars, logVars, opVars, up>>

\* write_head: the real commit.
WriteHead ==
    /\ stage = "write_log" /\ tail = Len(lh)
    /\ hdr' = lh
    /\ stage' = "install" /\ tail' = 0
    /\ UNCHANGED <<disk, logarea, cacheVars, logVars, opVars, up>>

\* install_trans: copy the next log block to its home location.
InstallTrans ==
    /\ stage = "install" /\ tail < Len(lh)
    /\ LET b == lh[tail + 1]
           v == LogBlock(tail + 1) IN
       /\ disk' = [disk EXCEPT ![b] = v]
       /\ cache' = [cache EXCEPT ![b] = v]
       /\ dirty' = dirty \ {b}
    /\ tail' = tail + 1
    /\ UNCHANGED <<logarea, hdr, logVars, opVars, stage, up>>

\* log.lh.n = 0 and write_head: erase the transaction.  This ends recovery.
ClearLog ==
    /\ stage = "install" /\ tail = Len(lh)
    /\ lh' = <<>> /\ hdr' = <<>>
    /\ stage' = "done"
    /\ up' = TRUE
    /\ UNCHANGED <<disk, logarea, cacheVars, outstanding, committing, opVars,
                   tail>>

\* The end of end_op for the operation that committed.
EndCommit(p) ==
    /\ up /\ pc[p] = "commit" /\ stage = "done"
    /\ committing' = FALSE
    /\ Wakeup([pc EXCEPT ![p] = "idle"])
    /\ UNCHANGED <<diskVars, cacheVars, lh, outstanding, blk, wset, commitVars,
                   up>>

\* read_head, the beginning of recover_from_log.
ReadHead ==
    /\ stage = "read_head"
    /\ lh' = hdr
    /\ stage' = "install" /\ tail' = 0
    /\ UNCHANGED <<diskVars, cacheVars, outstanding, committing, opVars, up>>

-----------------------------------------------------------------------------
\* bget recycles a buffer that nobody holds and that is not B_DIRTY.
Evict(b) ==
    /\ cache[b] # NoVal /\ b \notin dirty
    /\ \A p \in Procs : blk[p] # b
    /\ cache' = [cache EXCEPT ![b] = NoVal]
    /\ UNCHANGED <<diskVars, dirty, logVars, opVars, commitVars, up>>

\* Power failure and reboot: only the disk is left.
Crash ==
    /\ cache' = [b \in Blocks |-> NoVal] /\ dirty' = {}
    /\ lh' = <<>> /\ outstanding' = 0 /\ committing' = FALSE
    /\ pc' = [p \in Procs |-> "idle"]
    /\ blk' = [p \in Procs |-> NoBlk]
    /\ wset' = [p \in Procs |-> {}]
    /\ stage' = "read_head" /\ tail' = 0
    /\ up' = FALSE
    /\ UNCHANGED diskVars

Op(p) == \/ BeginOp(p) \/ BeginSleep(p) \/ LogWrite(p) \/ EndOp(p)
         \/ EndCommit(p)
         \/ \E b \in Blocks, v \in Vals : Modify(p, b, v)

Commit == WriteLog \/ WriteHead \/ InstallTrans \/ ClearLog \/ ReadHead

Next == \/ \E p \in Procs : Op(p)
        \/ Commit
        \/ \E b \in Blocks : Evict(b)
        \/ Crash

Spec == Init /\ [][Next]_vars

(* Fairness: a file system call that has begun makes finitely many writes   *)
(* and ends, and so does the commit; nothing is assumed of new calls or of  *)
(* crashes.                                                                 *)
Fairness ==
    /\ WF_vars(Commit)
    /\ \A p \in Procs : WF_vars(LogWrite(p) \/ EndCommit(p)) /\ SF_vars(EndOp(p))

FairSpec == Spec /\ Fairness
-----------------------------------------------------------------------------
(* Properties.                                                              *)

\* Every variable keeps its type; log.outstanding never becomes negative.
TypeOK ==
    /\ disk \in [Blocks -> Vals]
    /\ logarea \in [1..(NLOG - 1) -> Vals]
    /\ hdr \in Seq(Blocks) /\ lh \in Seq(Blocks)
    /\ cache \in [Blocks -> Vals \cup {NoVal}] /\ dirty \subseteq Blocks
    /\ outstanding \in Nat /\ committing \in BOOLEAN /\ up \in BOOLEAN
    /\ pc \in [Procs -> {"idle", "sleep", "retry", "op", "log_write", "commit",
                         "panic"}]
    /\ blk \in [Procs -> Blocks \cup {NoBlk}]
    /\ wset \in [Procs -> SUBSET Blocks]
    /\ stage \in {"read_head", "write_log", "install", "done"}
    /\ tail \in Nat

\* The disk as recovery would leave it after a crash now.
Durable ==
    [b \in Blocks |-> IF b \in Logged(hdr)
                      THEN LogBlock(CHOOSE i \in DOMAIN hdr : hdr[i] = b)
                      ELSE disk[b]]

\* What the file system reads; after a crash it reads nothing before recovery
\* is over.
Current == IF up THEN [b \in Blocks |-> Bread(b)] ELSE Durable

Active == {p \in Procs : pc[p] \in {"op", "log_write", "panic"}}

AD == INSTANCE AtomicDisk WITH store <- Durable, cur <- Current,
                               active <- Active

\* The log implements an atomic disk: whatever the interleaving of operations,
\* evictions, the steps of commit() and crashes, a crash (also one during
\* recovery) leaves exactly the operations of the transactions whose header
\* reached the disk.
CrashAtomic == AD!Spec

\* No operation dies in log_write() or end_op(): begin_op() reserves enough.
LogNoPanic == \A p \in Procs : pc[p] # "panic"

\* The transaction fits in the log area, so write_log() never writes on the
\* inode blocks behind it, although log_write() tests the space unlocked.
LogFits == Len(lh) <= NLOG - 1

\* Nobody is forgotten in begin_op(): while a process sleeps there, an
\* operation or a commit that will wake somebody is under way, or somebody
\* woken has still to try.
WaitersServed ==
    (\E p \in Procs : pc[p] = "sleep") =>
        outstanding > 0 \/ committing \/ \E q \in Procs : pc[q] = "retry"

\* A wait in begin_op() is followed by another attempt, or by a crash: wakeups
\* that reach one sleeper only are enough.
WaitEnds ==
    (\E p \in Procs : pc[p] = "sleep") ~> ((\E p \in Procs : pc[p] = "retry") \/ ~up)

\* The log has room: the reservations of begin_op() keep log_write() from
\* panicking and the transaction inside the log area.
SpaceRight == TypeOK /\ LogNoPanic /\ LogFits
=============================================================================
