-------------------------------- MODULE Pipe --------------------------------
(***************************************************************************)
(* A pipe (pipe.c) shared by several processes, the last close of an end   *)
(* as fileclose() makes it, and kill().  p->lock is held from one sleep()  *)
(* to the next, so the loops run a byte per step with the lock held.       *)
(*                                                                         *)
(* The sleepers on a channel are kept in the order in which they fell      *)
(* asleep.  wakeup() wakes the first one where processes are kept on lists *)
(* (WAKEONE, see StateList), and all of them otherwise (CS333_P0).         *)
(***************************************************************************)
EXTENDS Integers, Sequences

CONSTANTS
    Readers, Writers,  \* processes that hold the read end, the write end
    Killable,          \* processes that may be killed
    Bytes,             \* values of a byte
    PIPESIZE,
    UINTMOD,           \* nread and nwrite count modulo UINTMOD
    MaxN,              \* bound: the largest n of a read or write
    WAKEONE,           \* TRUE in the builds with process lists
    NoProc

Users == Readers \cup Writers

ASSUME SizeAssumption ==
    /\ PIPESIZE \in Nat \ {0} /\ MaxN \in Nat \ {0}
    /\ UINTMOD \in Nat /\ UINTMOD > PIPESIZE /\ UINTMOD % PIPESIZE = 0
ASSUME ProcAssumption ==
    /\ Killable \subseteq Users /\ NoProc \notin Users
    /\ WAKEONE \in BOOLEAN /\ Bytes # {}

VARIABLES
    \* struct pipe; freed after kfree()
    data, nread, nwrite, readopen, writeopen, lock, freed,
    \* sleepers on &p->nread and &p->nwrite
    rq, wq,
    \* processes: point in pipe.c, bytes still to do, killed
    pc, left, killed,
    \* holders of the two files
    rref, wref,
    \* the byte stored last in a reader's buffer
    addr

ring  == <<data, nread, nwrite, addr>>
ends  == <<readopen, writeopen, freed>>
refs  == <<rref, wref>>
sleep == <<rq, wq>>
vars  == <<ring, ends, refs, sleep, lock, pc, left, killed>>

Init ==
    /\ data \in [0..(PIPESIZE - 1) -> Bytes]
    /\ nread = 0 /\ nwrite = 0
    /\ readopen = TRUE /\ writeopen = TRUE /\ freed = FALSE
    /\ lock = NoProc
    /\ rq = <<>> /\ wq = <<>>
    /\ pc = [p \in Users |-> "user"]
    /\ left = [p \in Users |-> 0]
    /\ killed = [p \in Users |-> FALSE]
    /\ rref = Readers /\ wref = Writers
    /\ addr \in Bytes

-----------------------------------------------------------------------------
Empty == nread = nwrite

\* Fault: one byte too many.
FullLate == nwrite = (nread + PIPESIZE + 1) % UINTMOD

Full == nwrite = (nread + PIPESIZE) % UINTMOD

Members(s) == {s[i] : i \in DOMAIN s}

\* Fault: nobody is woken.
NoneWoken(s) == s

\* wakeup(): the sleepers of channel s that stay asleep.
Wakeup(s) == IF WAKEONE /\ s # <<>> THEN Tail(s) ELSE <<>>

\* Sleepers s without p, who is there once at most.
Without(s, p) ==
    LET i == CHOOSE i \in DOMAIN s : s[i] = p IN
    IF p \in Members(s) THEN [j \in 1..(Len(s) - 1) |-> IF j < i THEN s[j] ELSE s[j + 1]]
    ELSE s

\* Process p, at point l, runs and holds p->lock or gets it now.
Runs(p, l) == /\ pc[p] = l
              /\ p \notin Members(rq) \cup Members(wq)
              /\ lock \in {p, NoProc}

Goto(p, l) == pc' = [pc EXCEPT ![p] = l]

\* The call returns to the system call layer and the lock is released.
Return(p) == Goto(p, "user") /\ lock' = NoProc

\* A process whose last call has returned; a killed one only closes its files.
User(p) == pc[p] = "user"

-----------------------------------------------------------------------------
(* pipewrite                                                                *)

WriteStart(p, n) ==
    /\ User(p) /\ p \in wref /\ ~killed[p]
    /\ Goto(p, "write")
    /\ left' = [left EXCEPT ![p] = n]
    /\ UNCHANGED <<ring, ends, refs, sleep, lock, killed>>

PutByte(p, b) ==
    /\ Runs(p, "write") /\ left[p] > 0 /\ ~Full
    /\ data' = [data EXCEPT ![nwrite % PIPESIZE] = b]
    /\ nwrite' = (nwrite + 1) % UINTMOD
    /\ left' = [left EXCEPT ![p] = @ - 1]
    /\ lock' = p
    /\ UNCHANGED <<nread, addr, ends, refs, sleep, pc, killed>>

\* The pipe is full: return -1 if it makes no sense to wait.
WriteFail(p) ==
    /\ Runs(p, "write") /\ left[p] > 0 /\ Full
    /\ ~readopen \/ killed[p]
    /\ Return(p)
    /\ UNCHANGED <<ring, ends, refs, sleep, left, killed>>

\* Else wake a reader; a kill() may come between this and the sleep.
WriteFull(p) ==
    /\ Runs(p, "write") /\ left[p] > 0 /\ Full
    /\ readopen /\ ~killed[p]
    /\ rq' = Wakeup(rq)
    /\ Goto(p, "wsleep") /\ lock' = p
    /\ UNCHANGED <<ring, ends, refs, wq, left, killed>>

WriteSleep(p) ==
    /\ Runs(p, "wsleep")
    /\ wq' = Append(wq, p)
    /\ Goto(p, "write") /\ lock' = NoProc
    /\ UNCHANGED <<ring, ends, refs, rq, left, killed>>

WriteEnd(p) ==
    /\ Runs(p, "write") /\ left[p] = 0
    /\ rq' = Wakeup(rq)
    /\ Return(p)
    /\ UNCHANGED <<ring, ends, refs, wq, left, killed>>

-----------------------------------------------------------------------------
(* piperead                                                                 *)

ReadStart(p, n) ==
    /\ User(p) /\ p \in rref /\ ~killed[p]
    /\ Goto(p, "read")
    /\ left' = [left EXCEPT ![p] = n]
    /\ UNCHANGED <<ring, ends, refs, sleep, lock, killed>>

ReadFail(p) ==
    /\ Runs(p, "read") /\ Empty /\ writeopen /\ killed[p]
    /\ Return(p)
    /\ UNCHANGED <<ring, ends, refs, sleep, left, killed>>

ReadEmpty(p) ==
    /\ Runs(p, "read") /\ Empty /\ writeopen /\ ~killed[p]
    /\ Goto(p, "rsleep") /\ lock' = p
    /\ UNCHANGED <<ring, ends, refs, sleep, left, killed>>

ReadSleep(p) ==
    /\ Runs(p, "rsleep")
    /\ rq' = Append(rq, p)
    /\ Goto(p, "read") /\ lock' = NoProc
    /\ UNCHANGED <<ring, ends, refs, wq, left, killed>>

ReadReady(p) ==
    /\ Runs(p, "read") /\ ~(Empty /\ writeopen)
    /\ Goto(p, "copy") /\ lock' = p
    /\ UNCHANGED <<ring, ends, refs, sleep, left, killed>>

TakeByte(p) ==
    /\ Runs(p, "copy") /\ left[p] > 0 /\ ~Empty
    /\ addr' = data[nread % PIPESIZE]
    /\ nread' = (nread + 1) % UINTMOD
    /\ left' = [left EXCEPT ![p] = @ - 1]
    /\ UNCHANGED <<data, nwrite, ends, refs, sleep, lock, pc, killed>>

\* Fault: the writers are not woken.
ReadEndQuiet(p) ==
    /\ Runs(p, "copy") /\ (left[p] = 0 \/ Empty)
    /\ Return(p)
    /\ UNCHANGED <<ring, ends, refs, sleep, left, killed>>

ReadEnd(p) ==
    /\ Runs(p, "copy") /\ (left[p] = 0 \/ Empty)
    /\ wq' = Wakeup(wq)
    /\ Return(p)
    /\ UNCHANGED <<ring, ends, refs, rq, left, killed>>

-----------------------------------------------------------------------------
(* fileclose: the last holder of an end calls pipeclose.                    *)

DropRead(p) ==
    /\ User(p) /\ p \in rref
    /\ rref' = rref \ {p}
    /\ Goto(p, IF rref = {p} THEN "rclose" ELSE "user")
    /\ UNCHANGED <<ring, ends, wref, sleep, lock, left, killed>>

DropWrite(p) ==
    /\ User(p) /\ p \in wref
    /\ wref' = wref \ {p}
    /\ Goto(p, IF wref = {p} THEN "wclose" ELSE "user")
    /\ UNCHANGED <<ring, ends, rref, sleep, lock, left, killed>>

CloseRead(p) ==
    /\ Runs(p, "rclose")
    /\ readopen' = FALSE
    /\ wq' = Wakeup(wq)
    /\ freed' = ~writeopen
    /\ Return(p)
    /\ UNCHANGED <<ring, writeopen, refs, rq, left, killed>>

\* Fault: the pipe is freed with its write end.
CloseWriteFree(p) ==
    /\ Runs(p, "wclose")
    /\ writeopen' = FALSE
    /\ rq' = Wakeup(rq)
    /\ freed' = TRUE
    /\ Return(p)
    /\ UNCHANGED <<ring, readopen, refs, wq, left, killed>>

CloseWrite(p) ==
    /\ Runs(p, "wclose")
    /\ writeopen' = FALSE
    /\ rq' = Wakeup(rq)
    /\ freed' = ~readopen
    /\ Return(p)
    /\ UNCHANGED <<ring, readopen, refs, wq, left, killed>>

\* kill(): a sleeper is made runnable.  It takes ptable.lock, not p->lock.
Kill(p) ==
    /\ p \in Killable /\ ~killed[p]
    /\ killed' = [killed EXCEPT ![p] = TRUE]
    /\ rq' = Without(rq, p) /\ wq' = Without(wq, p)
    /\ UNCHANGED <<ring, ends, refs, lock, pc, left>>

-----------------------------------------------------------------------------
\* The steps of a call that is under way.
Step(p) ==
    \/ WriteFail(p) \/ WriteFull(p) \/ WriteSleep(p) \/ WriteEnd(p)
    \/ ReadFail(p) \/ ReadEmpty(p) \/ ReadSleep(p) \/ ReadReady(p)
    \/ TakeByte(p) \/ ReadEnd(p)
    \/ CloseRead(p) \/ CloseWrite(p)
    \/ \E b \in Bytes : PutByte(p, b)

Drop(p) == DropRead(p) \/ DropWrite(p)

Next == \E p \in Users :
           \/ Step(p) \/ Drop(p) \/ Kill(p)
           \/ \E n \in 1..MaxN : WriteStart(p, n) \/ ReadStart(p, n)

Spec == Init /\ [][Next]_vars

(* Fairness: a call under way goes on whenever the lock is free again and   *)
(* again, and a killed process exits, which closes its files.  Nothing is   *)
(* assumed of the other processes while they are in user mode.              *)
Fairness == \A p \in Users : SF_vars(Step(p)) /\ WF_vars(killed[p] /\ Drop(p))

FairSpec == Spec /\ Fairness
-----------------------------------------------------------------------------
(* Properties.                                                              *)

\* Bytes between nread and nwrite.
Fill == (nwrite - nread) % UINTMOD

\* Every variable keeps its type, and the counters, which wrap around, never
\* drift apart by more than the size of the ring.
PipeTypeOK ==
    /\ data \in [0..(PIPESIZE - 1) -> Bytes] /\ addr \in Bytes
    /\ nread \in 0..(UINTMOD - 1) /\ nwrite \in 0..(UINTMOD - 1)
    /\ Fill <= PIPESIZE
    /\ readopen \in BOOLEAN /\ writeopen \in BOOLEAN /\ freed \in BOOLEAN
    /\ lock \in Users \cup {NoProc}
    /\ rq \in Seq(Users) /\ wq \in Seq(Users)
    /\ pc \in [Users -> {"user", "write", "wsleep", "read", "rsleep", "copy",
                         "rclose", "wclose"}]
    /\ left \in [Users -> 0..MaxN]
    /\ killed \in [Users -> BOOLEAN]
    /\ rref \subseteq Users /\ wref \subseteq Users

BQ == INSTANCE ByteQueue WITH
        q <- [i \in 1..Fill |-> data[(nread + i - 1) % PIPESIZE]],
        out <- addr, Capacity <- PIPESIZE

\* Whoever reads and writes, sleeps, is killed or closes, and wherever the
\* counters wrap: the ring buffer is a queue of bytes.
BytesInOrder == BQ!Spec

\* pipeclose() frees the pipe when nobody is in it or can get into it any more.
FreedUnused ==
    freed => /\ rref = {} /\ wref = {} /\ lock = NoProc
             /\ \A p \in Users : User(p)

WriterKilled == \E p \in Writers : killed[p]

\* Nobody sleeps in the pipe with something to do: a reader only while the pipe
\* can still be written and is empty, a writer only while it is full and can
\* still be read.  One exception is the code's: a writer that was killed leaves
\* pipewrite() with -1 and wakes nobody, so that the bytes it has written may lie
\* there until some other call, or its exit, wakes the readers.
SleepJustified ==
    lock = NoProc => /\ rq # <<>> => writeopen /\ (Empty \/ WriterKilled)
                     /\ wq # <<>> => Full /\ readopen

\* End of file reaches every reader: once the write end is closed, a read()
\* returns.
EofSeen ==
    \A p \in Users :
       ~writeopen /\ pc[p] \in {"read", "rsleep", "copy"} ~> User(p)

\* Reader and writer never wait for each other: a write() returns if again and
\* again a process is in read(), or once the read end is closed.
WriteReturns ==
    []<>(~readopen \/ \E p \in Users : pc[p] \in {"read", "rsleep", "copy"}) =>
       \A p \in Users : pc[p] \in {"write", "wsleep"} ~> User(p)

\* A killed process gets out of the pipe.
KillEnds == \A p \in Users : killed[p] ~> User(p)

\* The pipe is sound: types, no use of a freed pipe, no lost wakeup.
PipeRight == PipeTypeOK /\ FreedUnused /\ SleepJustified

\* Calls on a pipe return: read() sees the end of file, and write() ends if it is
\* read.
CallsReturn == EofSeen /\ WriteReturns
=============================================================================
