------------------------------- MODULE Bcache -------------------------------
(***************************************************************************)
(* The buffer cache (bio.c) with the sleep lock of each buffer             *)
(* (sleeplock.c) and the queue of the IDE driver (ide.c).                  *)
(*                                                                         *)
(* An action is a section under one spin lock: bcache.lock, the spin lock  *)
(* inside a sleep lock, or idelock.  A process uses one block at a time;   *)
(* it may pin a block as log_write() does (B_DIRTY without iderw) or write *)
(* it.  wakeup() is any choice of at least one sleeper, which covers the   *)
(* builds with process lists (the first one) and without (all).  The drive *)
(* may interrupt at any time, spurious interrupts included; a write it has *)
(* accepted reaches the disk later, and idewait() waits for that.          *)
(***************************************************************************)
EXTENDS Integers, Sequences, FiniteSets

CONSTANTS
    Procs, Blocks, Vals,
    Writable,     \* bound: the blocks that are written
    NBUF,
    MaxPins,      \* bound: blocks that log.c keeps pinned at a time
    InitDisk,     \* contents of the disk at boot
    NoProc, NoBlock, NoVal

Bufs == 1..NBUF

ASSUME BufAssumption ==
    /\ NBUF \in Nat \ {0} /\ MaxPins \in Nat
    /\ IsFiniteSet(Procs) /\ InitDisk \in [Blocks -> Vals]
    /\ NoProc \notin Procs /\ NoBlock \notin Blocks /\ NoVal \notin Vals

VARIABLES
    blockno, valid, dirty, refcnt, data,   \* struct buf
    owner,      \* the process that holds the buffer's sleep lock
    lru,        \* the list from bcache.head.next on: most recently used first
    idequeue,   \* buffers with a request; the first is being served
    disk,       \* contents of the disk
    hw,         \* the write the drive has accepted and not finished
    pc, cur, want, \* processes: where, with which buffer, for which block
    latest      \* the contents written last (for the properties)

bufs  == <<blockno, valid, dirty, data>>
drive == <<idequeue, disk, hw>>
vars  == <<bufs, refcnt, owner, lru, drive, pc, cur, want, latest>>

Idle == [blk |-> NoBlock, val |-> NoVal]

\* binit() and ideinit()
Init ==
    /\ blockno = [b \in Bufs |-> NoBlock]
    /\ valid = [b \in Bufs |-> FALSE] /\ dirty = [b \in Bufs |-> FALSE]
    /\ refcnt = [b \in Bufs |-> 0]
    /\ data = [b \in Bufs |-> NoVal]
    /\ owner = [b \in Bufs |-> NoProc]
    /\ lru = [i \in Bufs |-> NBUF + 1 - i]
    /\ idequeue = <<>> /\ hw = Idle
    /\ disk = InitDisk /\ latest = disk
    /\ pc = [p \in Procs |-> "user"]
    /\ cur = [p \in Procs |-> 1] /\ want = [p \in Procs |-> NoBlock]

At(p, l)   == pc[p] = l
Goto(p, l) == pc' = [pc EXCEPT ![p] = l]

-----------------------------------------------------------------------------
(* bget: the section under bcache.lock.                                     *)

Cached(blk) == {b \in Bufs : blockno[b] = blk}

\* Fault: a pinned buffer is taken for a free one.
RecyclablePinned == {i \in Bufs : refcnt[lru[i]] = 0}

\* Places in the list of the buffers that may be recycled.
Recyclable == {i \in Bufs : refcnt[lru[i]] = 0 /\ ~dirty[lru[i]]}

\* The least recently used of them, if there is one.
Victim == {lru[i] : i \in {i \in Recyclable : \A j \in Recyclable : j <= i}}

BgetHit(p, blk) ==
    /\ At(p, "user")
    /\ \E b \in Cached(blk) : /\ refcnt' = [refcnt EXCEPT ![b] = @ + 1]
                              /\ cur' = [cur EXCEPT ![p] = b]
    /\ want' = [want EXCEPT ![p] = blk]
    /\ Goto(p, "acquire")
    /\ UNCHANGED <<bufs, owner, lru, drive, latest>>

\* Fault: the flags of the block the buffer held before stay.
BgetMissStale(p, blk) ==
    /\ At(p, "user") /\ Cached(blk) = {}
    /\ \E b \in Victim :
       /\ blockno' = [blockno EXCEPT ![b] = blk]
       /\ refcnt' = [refcnt EXCEPT ![b] = 1]
       /\ cur' = [cur EXCEPT ![p] = b]
    /\ want' = [want EXCEPT ![p] = blk]
    /\ Goto(p, "acquire")
    /\ UNCHANGED <<valid, dirty, data, owner, lru, drive, latest>>

\* Not cached: the least recently used buffer is recycled.  Without one the
\* kernel stops with panic("bget: no buffers"), see Exhausted.
BgetMiss(p, blk) ==
    /\ At(p, "user") /\ Cached(blk) = {}
    /\ \E b \in Victim :
       /\ blockno' = [blockno EXCEPT ![b] = blk]
       /\ valid' = [valid EXCEPT ![b] = FALSE]
       /\ dirty' = [dirty EXCEPT ![b] = FALSE]
       /\ refcnt' = [refcnt EXCEPT ![b] = 1]
       /\ cur' = [cur EXCEPT ![p] = b]
    /\ want' = [want EXCEPT ![p] = blk]
    /\ Goto(p, "acquire")
    /\ UNCHANGED <<data, owner, lru, drive, latest>>

-----------------------------------------------------------------------------
(* acquiresleep                                                             *)

Acquire(p) ==
    /\ At(p, "acquire") /\ owner[cur[p]] = NoProc
    /\ owner' = [owner EXCEPT ![cur[p]] = p]
    /\ Goto(p, "locked")
    /\ UNCHANGED <<bufs, refcnt, lru, drive, cur, want, latest>>

AcquireSleep(p) ==
    /\ At(p, "acquire") /\ owner[cur[p]] # NoProc
    /\ Goto(p, "locksleep")
    /\ UNCHANGED <<bufs, refcnt, owner, lru, drive, cur, want, latest>>

\* kill(), or a wakeup() that was not for p: the sleeper tests again.
Woken(l) == IF l = "locksleep" THEN "acquire" ELSE "iotest"

WakeByKill(p) ==
    /\ pc[p] \in {"locksleep", "iosleep"}
    /\ Goto(p, Woken(pc[p]))
    /\ UNCHANGED <<bufs, refcnt, owner, lru, drive, cur, want, latest>>

Sleepers(b, l) == {p \in Procs : pc[p] = l /\ cur[p] = b}

\* wakeup() of the processes that sleep at l for buffer b.
Wakeup(b, l, f) ==
    \E W \in SUBSET Sleepers(b, l) :
       /\ Sleepers(b, l) # {} => W # {}
       /\ pc' = [p \in Procs |-> IF p \in W THEN Woken(l) ELSE f[p]]

-----------------------------------------------------------------------------
(* iderw and ideintr: sections under idelock.                               *)

\* The disk once the drive is ready, as after idewait().
Settled == [x \in Blocks |-> IF hw.blk = x THEN hw.val ELSE disk[x]]

\* idestart() of buffer b, with flags and data as they are now.
Idestart(b, d) ==
    /\ disk' = Settled
    /\ hw' = IF d[b] THEN [blk |-> blockno[b], val |-> data'[b]] ELSE Idle

\* iderw() up to its first sleep().
IoStart(p, d) ==
    /\ idequeue' = Append(idequeue, cur[p])
    /\ IF idequeue = <<>> THEN Idestart(cur[p], d) ELSE UNCHANGED <<disk, hw>>
    /\ Goto(p, "iosleep")

\* bread() of a valid buffer, and of one that must be read.
BreadCached(p) ==
    /\ At(p, "locked") /\ valid[cur[p]]
    /\ Goto(p, "use")
    /\ UNCHANGED <<bufs, refcnt, owner, lru, drive, cur, want, latest>>

BreadDisk(p) ==
    /\ At(p, "locked") /\ ~valid[cur[p]]
    /\ UNCHANGED <<bufs, refcnt, owner, lru, cur, want, latest>>
    /\ IoStart(p, dirty)

\* The loop test of iderw() after sleep(), and its end.
IoAgain(p) ==
    /\ At(p, "iotest")
    /\ Goto(p, IF valid[cur[p]] /\ ~dirty[cur[p]] THEN "use" ELSE "iosleep")
    /\ UNCHANGED <<bufs, refcnt, owner, lru, drive, cur, want, latest>>

\* Fault: the rest of the queue is forgotten.
IdeintrDrop ==
    /\ idequeue # <<>>
    /\ LET b == Head(idequeue) IN
       /\ idequeue' = <<>>
       /\ data' = [data EXCEPT ![b] = IF dirty[b] THEN @ ELSE disk[blockno[b]]]
       /\ valid' = [valid EXCEPT ![b] = TRUE]
       /\ dirty' = [dirty EXCEPT ![b] = FALSE]
       /\ Wakeup(b, "iosleep", pc)
    /\ UNCHANGED <<blockno, refcnt, owner, lru, cur, want, disk, hw, latest>>

\* With an empty queue ideintr() returns at once.
Ideintr ==
    /\ idequeue # <<>>
    /\ LET b == Head(idequeue) IN
       /\ idequeue' = Tail(idequeue)
       /\ data' = [data EXCEPT ![b] = IF dirty[b] THEN @ ELSE disk[blockno[b]]]
       /\ valid' = [valid EXCEPT ![b] = TRUE]
       /\ dirty' = [dirty EXCEPT ![b] = FALSE]
       /\ Wakeup(b, "iosleep", pc)
    /\ IF idequeue' = <<>> THEN UNCHANGED <<disk, hw>>
       ELSE Idestart(Head(idequeue'), dirty')
    /\ UNCHANGED <<blockno, refcnt, owner, lru, cur, want, latest>>

\* The drive finishes a write.
DriveDone ==
    /\ hw # Idle
    /\ disk' = Settled /\ hw' = Idle
    /\ UNCHANGED <<bufs, refcnt, owner, lru, idequeue, pc, cur, want, latest>>

-----------------------------------------------------------------------------
(* The user of a block, its caller's changes included.                      *)

\* The caller changes the block and log_write() pins it.
Pin(p, v) ==
    /\ At(p, "use") /\ want[p] \in Writable
    /\ Cardinality({b \in Bufs : dirty[b]} \cup {cur[p]}) <= MaxPins
    /\ data' = [data EXCEPT ![cur[p]] = v]
    /\ dirty' = [dirty EXCEPT ![cur[p]] = TRUE]
    /\ latest' = [latest EXCEPT ![want[p]] = v]
    /\ UNCHANGED <<blockno, valid, refcnt, owner, lru, drive, pc, cur, want>>

\* The caller changes the block and calls bwrite().
Bwrite(p, v) ==
    /\ At(p, "use") /\ want[p] \in Writable
    /\ data' = [data EXCEPT ![cur[p]] = v]
    /\ dirty' = [dirty EXCEPT ![cur[p]] = TRUE]
    /\ latest' = [latest EXCEPT ![want[p]] = v]
    /\ UNCHANGED <<blockno, valid, refcnt, owner, lru, cur, want>>
    /\ IoStart(p, dirty')

\* Fault: the sleepers are not woken.
ReleasesleepQuiet(p) ==
    /\ At(p, "use")
    /\ owner' = [owner EXCEPT ![cur[p]] = NoProc]
    /\ Goto(p, "release")
    /\ UNCHANGED <<bufs, refcnt, lru, drive, cur, want, latest>>

\* brelse(): first releasesleep() ...
Releasesleep(p) ==
    /\ At(p, "use")
    /\ owner' = [owner EXCEPT ![cur[p]] = NoProc]
    /\ Wakeup(cur[p], "locksleep", [pc EXCEPT ![p] = "release"])
    /\ UNCHANGED <<bufs, refcnt, lru, drive, cur, want, latest>>

\* Unlink b and link it in front.
ToFront(s, b) ==
    LET k == CHOOSE k \in Bufs : s[k] = b
    IN [i \in Bufs |-> IF i = 1 THEN b ELSE IF i <= k THEN s[i - 1] ELSE s[i]]

\* Fault: the buffer is free although others wait for it.
BrelseClear(p) ==
    /\ At(p, "release")
    /\ refcnt' = [refcnt EXCEPT ![cur[p]] = 0]
    /\ lru' = ToFront(lru, cur[p])
    /\ Goto(p, "user")
    /\ cur' = [cur EXCEPT ![p] = 1] /\ want' = [want EXCEPT ![p] = NoBlock]
    /\ UNCHANGED <<bufs, owner, drive, latest>>

\* Fault: the buffer is linked in front without being unlinked where it was.
BrelseLink(p) ==
    /\ At(p, "release")
    /\ refcnt' = [refcnt EXCEPT ![cur[p]] = @ - 1]
    /\ lru' = IF refcnt[cur[p]] = 1 THEN <<cur[p]>> \o SubSeq(lru, 1, NBUF - 1)
              ELSE lru
    /\ Goto(p, "user")
    /\ cur' = [cur EXCEPT ![p] = 1] /\ want' = [want EXCEPT ![p] = NoBlock]
    /\ UNCHANGED <<bufs, owner, drive, latest>>

\* Fault: only the last user is counted down.
BrelseLast(p) ==
    /\ At(p, "release")
    /\ refcnt' = [refcnt EXCEPT ![cur[p]] = IF @ = 1 THEN 0 ELSE @]
    /\ lru' = IF refcnt[cur[p]] = 1 THEN ToFront(lru, cur[p])
              ELSE lru
    /\ Goto(p, "user")
    /\ cur' = [cur EXCEPT ![p] = 1] /\ want' = [want EXCEPT ![p] = NoBlock]
    /\ UNCHANGED <<bufs, owner, drive, latest>>

\* ... then the section under bcache.lock.
Brelse(p) ==
    /\ At(p, "release")
    /\ refcnt' = [refcnt EXCEPT ![cur[p]] = @ - 1]
    /\ lru' = IF refcnt[cur[p]] = 1 THEN ToFront(lru, cur[p])
              ELSE lru
    /\ Goto(p, "user")
    /\ cur' = [cur EXCEPT ![p] = 1] /\ want' = [want EXCEPT ![p] = NoBlock]
    /\ UNCHANGED <<bufs, owner, drive, latest>>

Next ==
    \/ \E p \in Procs, blk \in Blocks :
          BgetHit(p, blk) \/ BgetMiss(p, blk)
    \/ \E p \in Procs : \/ Acquire(p) \/ AcquireSleep(p) \/ BreadCached(p)
                        \/ BreadDisk(p) \/ IoAgain(p) \/ WakeByKill(p)
                        \/ Releasesleep(p) \/ Brelse(p)
    \/ \E p \in Procs, v \in Vals : Pin(p, v) \/ Bwrite(p, v)
    \/ Ideintr \/ DriveDone

Spec == Init /\ [][Next]_vars

(* Fairness: a process that can run goes on and the drive answers every     *)
(* request.  Nothing is assumed of the users of blocks.                     *)
Fairness == WF_vars(Ideintr) /\ \A p \in Procs : WF_vars(IoAgain(p))

FairSpec == Spec /\ Fairness
-----------------------------------------------------------------------------
(* Properties.                                                              *)

Counted(p) == pc[p] \notin {"user"}

\* Every variable keeps its type, the list of brelse() always has every buffer
\* exactly once, and refcnt stays between zero and the number of processes.
TypeOK ==
    /\ blockno \in [Bufs -> Blocks \cup {NoBlock}]
    /\ valid \in [Bufs -> BOOLEAN] /\ dirty \in [Bufs -> BOOLEAN]
    /\ refcnt \in [Bufs -> 0..Cardinality(Procs)]
    /\ data \in [Bufs -> Vals \cup {NoVal}]
    /\ owner \in [Bufs -> Procs \cup {NoProc}]
    /\ lru \in [Bufs -> Bufs] /\ {lru[i] : i \in Bufs} = Bufs
    /\ idequeue \in Seq(Bufs)
    /\ disk \in [Blocks -> Vals] /\ latest \in [Blocks -> Vals]
    /\ hw \in [blk : Blocks \cup {NoBlock}, val : Vals \cup {NoVal}]
    /\ pc \in [Procs -> {"user", "acquire", "locksleep", "locked", "iosleep",
                         "iotest", "use", "release"}]
    /\ cur \in [Procs -> Bufs] /\ want \in [Procs -> Blocks \cup {NoBlock}]

\* bread() returns a buffer with the contents of the indicated block: what was
\* written last, by whomever, in the cache, on its way or on the disk, and no
\* other process has the block meanwhile.
ReadsLatest ==
    \A p \in Procs : pc[p] = "use" =>
       /\ blockno[cur[p]] = want[p] /\ data[cur[p]] = latest[want[p]]
       /\ \A q \in Procs \ {p} : pc[q] = "use" => want[q] # want[p]

\* The buffer a process has asked for is not recycled while it waits for the
\* lock or the disk, and refcnt counts exactly those processes.
RefsCounted ==
    /\ \A p \in Procs : Counted(p) => blockno[cur[p]] = want[p]
    /\ \A b \in Bufs :
          refcnt[b] = Cardinality({p \in Procs : Counted(p) /\ cur[p] = b})

\* What is not pinned and not being written is on the disk or accepted by the
\* drive: recycling a buffer loses nothing, although ideintr() clears B_DIRTY
\* even when the interrupt was spurious.
NothingLost ==
    \A x \in Blocks :
       (\A b \in Cached(x) : ~dirty[b]) => Settled[x] = latest[x]

\* Nobody sleeps for a lock that is free, unless another process that was
\* woken or has just come is about to take it and to wake the next one.
LockWaiters ==
    \A p \in Procs : pc[p] = "locksleep" =>
       \/ owner[cur[p]] # NoProc
       \/ \E q \in Procs : pc[q] = "acquire" /\ cur[q] = cur[p]

Pinned == {b \in Bufs : dirty[b] /\ refcnt[b] = 0}

\* bget() finds no buffer to recycle, and panics, only when those that are pinned
\* and the processes that use one are together as many as there are buffers: no
\* path leaves refcnt above zero, or a buffer dirty or off the list.
Exhausted ==
    Recyclable = {} =>
       Cardinality(Pinned) + Cardinality({p \in Procs : Counted(p)}) >= NBUF

\* A transfer ends, whatever other requests and interrupts, early or late,
\* there are: no process is left in iderw().
IoEnds == \A p \in Procs : pc[p] = "iosleep" ~> pc[p] = "use"

\* The cache counts right: types, reference counts and the list, on which bget()
\* finds a buffer as long as one is neither pinned nor in use.
CountsRight == TypeOK /\ RefsCounted /\ Exhausted

\* The cache forgets nothing: readers see the last write, in the buffer or, once
\* it is recycled, on the disk.
ReadsRight == ReadsLatest /\ NothingLost
=============================================================================
