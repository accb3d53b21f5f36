----------------------------- MODULE PipeProofs -----------------------------
(***************************************************************************)
(* Proofs about Pipe, for every number of readers and writers and every    *)
(* size of the ring: the ring buffer is a queue of bytes, a freed pipe is  *)
(* not used, and, where wakeup() leaves nobody asleep, no wakeup is lost   *)
(* but the one that a killed writer owes.                                  *)
(***************************************************************************)
EXTENDS Pipe, TLAPS

-----------------------------------------------------------------------------
(* The inductive invariant.                                                 *)

\* Who is in the pipe holds the end he uses.
Holds ==
    \A p \in Users :
       /\ pc[p] \in {"read", "rsleep", "copy"} => p \in rref
       /\ pc[p] \in {"write", "wsleep"} => p \in wref
       /\ pc[p] = "rclose" => rref = {} /\ readopen
       /\ pc[p] = "wclose" => wref = {} /\ writeopen

\* An end is closed once, by the last holder, and then nobody holds it.
Closed ==
    /\ rref \subseteq Readers /\ wref \subseteq Writers
    /\ ~readopen => rref = {}
    /\ ~writeopen => wref = {}
    /\ freed <=> ~readopen /\ ~writeopen
    /\ \A p, q \in Users :
          pc[p] = pc[q] /\ pc[p] \in {"rclose", "wclose"} => p = q

\* The lock is held between two steps of a loop and until sleep() gives it up.
Locked ==
    /\ lock # NoProc => /\ pc[lock] \in {"write", "wsleep", "rsleep", "copy"}
                        /\ lock \notin Members(rq) \cup Members(wq)
    /\ \A p \in Users : pc[p] \in {"wsleep", "rsleep", "copy"} => lock = p

Distinct(s) == \A i, j \in DOMAIN s : s[i] = s[j] => i = j

\* Nobody sleeps twice.
SleepOnce == Distinct(rq) /\ Distinct(wq)

\* Sleepers are in the loop that tests again.
Sleepers ==
    /\ \A p \in Members(rq) : pc[p] = "read"
    /\ \A p \in Members(wq) : pc[p] = "write"

IInv == PipeTypeOK /\ Holds /\ Closed /\ Locked /\ Sleepers /\ SleepOnce

\* What the holder of the lock knows of the sleepers, when no wakeup is lost but
\* that of a killed writer.
Awake ==
    /\ SleepJustified
    /\ rq # <<>> => writeopen
    /\ \A p \in Users :
          /\ lock = p /\ pc[p] = "write" => wq = <<>>
          /\ pc[p] = "wsleep" => rq = <<>> /\ Full /\ readopen
          /\ pc[p] = "rsleep" => Empty /\ writeopen /\ wq = <<>>
          /\ pc[p] = "copy" => rq = <<>> \/ WriterKilled

-----------------------------------------------------------------------------
(* Arithmetic of the counters and facts about lists of sleepers.            *)

\* Remainders of numbers near the modulus.
LEMMA ModNear ==
    ASSUME NEW m \in Nat \ {0}
    PROVE  /\ \A x \in 0..(m - 1) : x % m = x
           /\ \A x \in m..(2 * m - 1) : x % m = x - m
           /\ \A x \in (-m)..(-1) : x % m = x + m
<1>1. ASSUME NEW x \in 0..(m - 1) PROVE x % m = x
  OBVIOUS
<1>2. ASSUME NEW x \in m..(2 * m - 1) PROVE x % m = x - m
  OBVIOUS
<1>3. ASSUME NEW x \in (-m)..(-1) PROVE x % m = x + m
  OBVIOUS
<1> QED BY <1>1, <1>2, <1>3

\* The difference of two counters, across their wrap.
LEMMA Distance ==
    ASSUME NEW r \in 0..(UINTMOD - 1), NEW w \in 0..(UINTMOD - 1)
    PROVE  /\ w >= r => (w - r) % UINTMOD = w - r
           /\ w < r => (w - r) % UINTMOD = w - r + UINTMOD
<1>1. UINTMOD \in Nat \ {0}
  BY SizeAssumption
<1>2. ASSUME w >= r PROVE (w - r) % UINTMOD = w - r
  <2>1. w - r \in 0..(UINTMOD - 1)
    BY <1>2, <1>1
  <2> QED BY <2>1, <1>1, ModNear
<1>3. ASSUME w < r PROVE (w - r) % UINTMOD = w - r + UINTMOD
  <2>1. w - r \in (-UINTMOD)..(-1)
    BY <1>3, <1>1
  <2> QED BY <2>1, <1>1, ModNear
<1> QED BY <1>2, <1>3

\* The ring is empty and full when its fill says so.
LEMMA FillIs ==
    ASSUME nread \in 0..(UINTMOD - 1), nwrite \in 0..(UINTMOD - 1)
    PROVE  /\ Fill \in 0..(UINTMOD - 1)
           /\ nwrite >= nread => Fill = nwrite - nread
           /\ nwrite < nread => Fill = nwrite - nread + UINTMOD
           /\ Empty <=> Fill = 0
           /\ Full <=> Fill = PIPESIZE
<1>1. UINTMOD \in Nat \ {0} /\ PIPESIZE \in Nat \ {0} /\ PIPESIZE < UINTMOD
  BY SizeAssumption
<1>2. /\ nwrite >= nread => Fill = nwrite - nread
      /\ nwrite < nread => Fill = nwrite - nread + UINTMOD
  BY Distance DEF Fill
<1>3. (nread + PIPESIZE) % UINTMOD = IF nread + PIPESIZE < UINTMOD THEN nread + PIPESIZE
                                     ELSE nread + PIPESIZE - UINTMOD
  BY <1>1, ModNear
<1> QED BY <1>1, <1>2, <1>3 DEF Empty, Full

\* Places in the ring: the same one for a counter before and after its wrap, and
\* different ones for the bytes inside.
LEMMA Places ==
    ASSUME NEW x \in Nat
    PROVE  /\ x % PIPESIZE \in 0..(PIPESIZE - 1)
           /\ x >= UINTMOD => (x - UINTMOD) % PIPESIZE = x % PIPESIZE
           /\ \A y \in Nat : x < y /\ y - x < PIPESIZE => x % PIPESIZE # y % PIPESIZE
<1> DEFINE P == PIPESIZE
           q == x \div P
           r == x % P
           k == UINTMOD \div P
<1>1. P \in Nat \ {0} /\ UINTMOD \in Nat /\ UINTMOD % P = 0
  BY SizeAssumption
<1>2. r \in 0..(P - 1) /\ q \in Int /\ x = P * q + r /\ k \in Int /\ UINTMOD = P * k
  BY <1>1
<1>3. (x - UINTMOD) % P = r
  <2>1. ASSUME NEW m \in Int PROVE (P * m + r) % P = r
    BY <1>1, <1>2
  <2> HIDE DEF P, q, r, k
  <2>2. x - UINTMOD = P * (q - k) + r
    BY <1>1, <1>2
  <2>3. q - k \in Int
    BY <1>2
  <2> QED BY <2>1, <2>2, <2>3
<1>4. ASSUME NEW y \in Nat, x < y, y - x < P, x % P = y % P PROVE FALSE
  <2> DEFINE z == y \div P
  <2>1. z \in Int /\ y = P * z + r
    BY <1>1, <1>4
  <2> HIDE DEF P, q, r, k, z
  <2>2. y - x = P * (z - q)
    BY <1>1, <1>2, <2>1
  <2>3. z - q \in Int
    BY <1>2, <2>1
  <2> QED BY <1>1, <1>4, <2>2, <2>3
<1> QED BY <1>2, <1>3, <1>4

\* A counter that is incremented.
LEMMA Incremented ==
    ASSUME NEW n \in 0..(UINTMOD - 1)
    PROVE  (n + 1) % UINTMOD = IF n + 1 = UINTMOD THEN 0 ELSE n + 1
<1>1. UINTMOD \in Nat \ {0}
  BY SizeAssumption
<1> QED BY <1>1, ModNear

\* Who sleeps after a wakeup(), a sleep() and a kill().
LEMMA Queues ==
    ASSUME NEW s \in Seq(Users), NEW p \in Users
    PROVE  /\ Wakeup(s) \in Seq(Users) /\ Members(Wakeup(s)) \subseteq Members(s)
           /\ Append(s, p) \in Seq(Users) /\ Members(Append(s, p)) = Members(s) \cup {p}
           /\ Without(s, p) \in Seq(Users) /\ Members(Without(s, p)) \subseteq Members(s)
           /\ Members(s) \subseteq Users /\ (Members(s) = {} <=> s = <<>>)
           /\ Distinct(s) => /\ Distinct(Wakeup(s)) /\ Distinct(Without(s, p))
                             /\ p \notin Members(s) => Distinct(Append(s, p))
<1>1. Len(s) \in Nat /\ DOMAIN s = 1..Len(s) /\ Members(s) \subseteq Users
  BY DEF Members
<1>2. Members(s) = {} <=> s = <<>>
  <2>1. ASSUME s # <<>> PROVE s[1] \in Members(s)
    BY <2>1, <1>1 DEF Members
  <2>2. Members(<<>>) = {}
    BY DEF Members
  <2> QED BY <2>1, <2>2
<1>3. Wakeup(s) \in Seq(Users) /\ Members(Wakeup(s)) \subseteq Members(s)
  <2>1. CASE WAKEONE /\ s # <<>>
    <3>1. Wakeup(s) = Tail(s) /\ Tail(s) \in Seq(Users)
      BY <2>1 DEF Wakeup
    <3>2. ASSUME NEW i \in DOMAIN Tail(s) PROVE Tail(s)[i] \in Members(s)
      <4>1. i + 1 \in DOMAIN s /\ Tail(s)[i] = s[i + 1]
        BY <2>1
      <4> QED BY <4>1 DEF Members
    <3> QED BY <3>1, <3>2 DEF Members
  <2>2. CASE ~(WAKEONE /\ s # <<>>)
    BY <2>2 DEF Wakeup, Members
  <2> QED BY <2>1, <2>2
<1>4. Append(s, p) \in Seq(Users) /\ Members(Append(s, p)) = Members(s) \cup {p}
  <2>1. /\ Append(s, p) \in Seq(Users) /\ DOMAIN Append(s, p) = 1..(Len(s) + 1)
        /\ \A i \in 1..Len(s) : Append(s, p)[i] = s[i]
        /\ Append(s, p)[Len(s) + 1] = p
    BY <1>1
  <2>2. \A i \in 1..(Len(s) + 1) : i = Len(s) + 1 \/ i \in 1..Len(s)
    BY <1>1
  <2>3. Members(Append(s, p)) \subseteq Members(s) \cup {p}
    BY <1>1, <2>1, <2>2 DEF Members
  <2>4. Members(s) \cup {p} \subseteq Members(Append(s, p))
    <3>1. Len(s) + 1 \in 1..(Len(s) + 1) /\ 1..Len(s) \subseteq 1..(Len(s) + 1)
      BY <1>1
    <3> QED BY <1>1, <2>1, <3>1 DEF Members
  <2> QED BY <2>1, <2>3, <2>4
<1>5. Without(s, p) \in Seq(Users) /\ Members(Without(s, p)) \subseteq Members(s)
  <2> DEFINE i == CHOOSE i \in DOMAIN s : s[i] = p
             t == [j \in 1..(Len(s) - 1) |-> IF j < i THEN s[j] ELSE s[j + 1]]
  <2>1. CASE p \in Members(s)
    <3>1. i \in 1..Len(s)
      BY <2>1, <1>1 DEF Members
    <3> HIDE DEF i
    <3>2. Len(s) - 1 \in Nat
      BY <3>1, <1>1
    <3>3. ASSUME NEW j \in 1..(Len(s) - 1)
          PROVE  /\ j \in DOMAIN s /\ j + 1 \in DOMAIN s /\ t[j] \in {s[j], s[j + 1]}
                 /\ t[j] \in Users /\ t[j] \in Members(s)
      BY <1>1 DEF Members
    <3>4. t \in Seq(Users) /\ DOMAIN t = 1..(Len(s) - 1)
      BY <3>2, <3>3
    <3>5. Without(s, p) = t
      BY <2>1 DEF Without, i
    <3> HIDE DEF t
    <3> QED BY <3>3, <3>4, <3>5 DEF Members
  <2>2. CASE p \notin Members(s)
    BY <2>2 DEF Without
  <2> QED BY <2>1, <2>2
<1>6. ASSUME Distinct(s) PROVE Distinct(Wakeup(s))
  <2>1. CASE WAKEONE /\ s # <<>>
    <3>1. Wakeup(s) = Tail(s) /\ DOMAIN Tail(s) = 1..(Len(s) - 1)
      BY <2>1, <1>1 DEF Wakeup
    <3>2. \A i \in 1..(Len(s) - 1) : Tail(s)[i] = s[i + 1] /\ i + 1 \in DOMAIN s
      BY <2>1, <1>1
    <3> QED BY <3>1, <3>2, <1>6, <1>1 DEF Distinct
  <2>2. CASE ~(WAKEONE /\ s # <<>>)
    BY <2>2 DEF Wakeup, Distinct
  <2> QED BY <2>1, <2>2
<1>7. ASSUME Distinct(s), p \notin Members(s) PROVE Distinct(Append(s, p))
  <2>1. /\ DOMAIN Append(s, p) = 1..(Len(s) + 1)
        /\ \A i \in 1..Len(s) : Append(s, p)[i] = s[i] /\ s[i] # p
        /\ Append(s, p)[Len(s) + 1] = p
    BY <1>1, <1>7 DEF Members
  <2> QED BY <2>1, <1>7, <1>1 DEF Distinct
<1>8. ASSUME Distinct(s) PROVE Distinct(Without(s, p))
  <2> DEFINE i == CHOOSE i \in DOMAIN s : s[i] = p
             t == [j \in 1..(Len(s) - 1) |-> IF j < i THEN s[j] ELSE s[j + 1]]
  <2>1. CASE p \in Members(s)
    <3>1. Without(s, p) = t /\ i \in 1..Len(s)
      BY <2>1, <1>1 DEF Without, Members
    <3> HIDE DEF i
    <3>2. ASSUME NEW j \in DOMAIN t, NEW k \in DOMAIN t, t[j] = t[k] PROVE j = k
      <4> DEFINE a == IF j < i THEN j ELSE j + 1
                 b == IF k < i THEN k ELSE k + 1
      <4>1. /\ j \in 1..(Len(s) - 1) /\ k \in 1..(Len(s) - 1)
            /\ a \in DOMAIN s /\ b \in DOMAIN s
        BY <1>1
      <4>2. t[j] = s[a] /\ t[k] = s[b]
        BY <4>1
      <4>3. a = b
        BY <4>1, <4>2, <3>2, <1>8, Zenon DEF Distinct
      <4> QED BY <4>1, <4>3, <3>1, <1>1
    <3> HIDE DEF t
    <3> QED BY <3>1, <3>2 DEF Distinct
  <2>2. CASE p \notin Members(s)
    BY <2>2, <1>8 DEF Without
  <2> QED BY <2>1, <2>2
<1> QED BY <1>1, <1>2, <1>3, <1>4, <1>5, <1>6, <1>7, <1>8

-----------------------------------------------------------------------------
(* Every step preserves the invariant.                                      *)

\* A new pipe.
LEMMA InitIInv == Init => IInv /\ Awake
<1> SUFFICES ASSUME Init PROVE IInv /\ Awake
  OBVIOUS
<1>1. nread \in 0..(UINTMOD - 1) /\ nwrite \in 0..(UINTMOD - 1) /\ Empty
  BY SizeAssumption DEF Init, Empty
<1>2. Fill = 0
  BY <1>1, FillIs
<1>3. rq \in Seq(Users) /\ wq \in Seq(Users) /\ Members(rq) = {} /\ Members(wq) = {}
  BY DEF Init, Members
<1>4. PipeTypeOK
  BY <1>1, <1>2, <1>3, SizeAssumption DEF Init, PipeTypeOK, Users
<1>5. Holds /\ Closed /\ Locked /\ Sleepers /\ SleepOnce
  BY <1>3 DEF Init, Holds, Closed, Locked, Sleepers, SleepOnce, Distinct
<1>6. Awake
  BY DEF Init, Awake, SleepJustified
<1> QED BY <1>4, <1>5, <1>6 DEF IInv

\* The steps that leave the ring alone.
LEMMA ProcInv ==
    ASSUME IInv, NEW p \in Users,
           \/ WriteFail(p) \/ WriteFull(p) \/ WriteSleep(p) \/ WriteEnd(p)
           \/ ReadFail(p) \/ ReadEmpty(p) \/ ReadSleep(p) \/ ReadReady(p) \/ ReadEnd(p)
           \/ CloseRead(p) \/ CloseWrite(p) \/ DropRead(p) \/ DropWrite(p) \/ Kill(p)
           \/ \E n \in 1..MaxN : WriteStart(p, n) \/ ReadStart(p, n)
    PROVE  IInv' /\ UNCHANGED ring
<1> DEFINE PC == {"user", "write", "wsleep", "read", "rsleep", "copy", "rclose", "wclose"}
<1>1. UNCHANGED ring
  BY DEF WriteFail, WriteFull, WriteSleep, WriteEnd, ReadFail, ReadEmpty, ReadSleep,
         ReadReady, ReadEnd, CloseRead, CloseWrite, DropRead, DropWrite, Kill,
         WriteStart, ReadStart
<1>2. /\ data' \in [0..(PIPESIZE - 1) -> Bytes] /\ addr' \in Bytes
      /\ nread' \in 0..(UINTMOD - 1) /\ nwrite' \in 0..(UINTMOD - 1)
      /\ Fill' <= PIPESIZE
  BY <1>1 DEF ring, IInv, PipeTypeOK, Fill
<1>3. /\ rq \in Seq(Users) /\ wq \in Seq(Users) /\ pc \in [Users -> PC] /\ \A q \in Users : q # NoProc
      /\ left \in [Users -> 0..MaxN] /\ killed \in [Users -> BOOLEAN]
      /\ rref \subseteq Users /\ wref \subseteq Users
      /\ lock \in Users \cup {NoProc}
      /\ readopen \in BOOLEAN /\ writeopen \in BOOLEAN /\ freed \in BOOLEAN
  BY ProcAssumption DEF IInv, PipeTypeOK
<1>4. ASSUME NEW s \in Seq(Users)
      PROVE  /\ Wakeup(s) \in Seq(Users) /\ Members(Wakeup(s)) \subseteq Members(s)
             /\ Append(s, p) \in Seq(Users) /\ Members(Append(s, p)) = Members(s) \cup {p}
             /\ Without(s, p) \in Seq(Users) /\ Members(Without(s, p)) \subseteq Members(s)
             /\ Members(s) \subseteq Users
  BY Queues
<1>4a. SleepOnce'
  <2>1. ASSUME NEW s \in Seq(Users), NEW t, Distinct(s),
               \/ t \in {s, Wakeup(s), Without(s, p)}
               \/ t = Append(s, p) /\ p \notin Members(s)
        PROVE  Distinct(t)
    <3>1. /\ Distinct(Wakeup(s)) /\ Distinct(Without(s, p))
          /\ p \notin Members(s) => Distinct(Append(s, p))
      BY <2>1, Queues
    <3> QED BY ONLY <2>1, <3>1, Zenon
  <2>2. \/ rq' \in {rq, Wakeup(rq), Without(rq, p)}
        \/ rq' = Append(rq, p) /\ p \notin Members(rq)
    BY DEF WriteFail, WriteFull, WriteSleep, WriteEnd, ReadFail, ReadEmpty, ReadSleep,
           ReadReady, ReadEnd, CloseRead, CloseWrite, DropRead, DropWrite, Kill,
           WriteStart, ReadStart, sleep, Runs
  <2>3. \/ wq' \in {wq, Wakeup(wq), Without(wq, p)}
        \/ wq' = Append(wq, p) /\ p \notin Members(wq)
    BY DEF WriteFail, WriteFull, WriteSleep, WriteEnd, ReadFail, ReadEmpty, ReadSleep,
           ReadReady, ReadEnd, CloseRead, CloseWrite, DropRead, DropWrite, Kill,
           WriteStart, ReadStart, sleep, Runs
  <2>4. Distinct(rq) /\ Distinct(wq)
    BY DEF IInv, SleepOnce
  <2>5. Distinct(rq')
    <3>1. rq \in Seq(Users) /\ Distinct(rq)
      BY <1>3, <2>4
    <3> QED BY ONLY <2>1, <2>2, <3>1
  <2>6. Distinct(wq')
    <3>1. wq \in Seq(Users) /\ Distinct(wq)
      BY <1>3, <2>4
    <3> QED BY ONLY <2>1, <2>3, <3>1
  <2> QED BY <2>5, <2>6 DEF SleepOnce
<1> SUFFICES PipeTypeOK' /\ Holds' /\ Closed' /\ Locked' /\ Sleepers'
  BY <1>1, <1>4a DEF IInv
<1> DEFINE Rest == /\ readopen' \in BOOLEAN /\ writeopen' \in BOOLEAN /\ freed' \in BOOLEAN
                   /\ lock' \in Users \cup {NoProc}
                   /\ rq' \in Seq(Users) /\ wq' \in Seq(Users)
                   /\ pc' \in [Users -> PC]
                   /\ left' \in [Users -> 0..MaxN]
                   /\ killed' \in [Users -> BOOLEAN]
                   /\ rref' \subseteq Users /\ wref' \subseteq Users
                   /\ Holds' /\ Closed' /\ Locked' /\ Sleepers'
<1> SUFFICES Rest
  BY <1>2 DEF PipeTypeOK
<1> USE DEF IInv, Holds, Closed, Locked, Sleepers, Goto, Return, Runs, User, ends, refs, sleep
<1>5. CASE WriteFail(p)
  BY <1>5, <1>3, <1>4 DEF WriteFail
<1>6. CASE WriteFull(p)
  BY <1>6, <1>3, <1>4 DEF WriteFull
<1>7. CASE WriteSleep(p)
  BY <1>7, <1>3, <1>4 DEF WriteSleep
<1>8. CASE WriteEnd(p)
  BY <1>8, <1>3, <1>4 DEF WriteEnd
<1>9. CASE ReadFail(p)
  BY <1>9, <1>3, <1>4 DEF ReadFail
<1>10. CASE ReadEmpty(p)
  BY <1>10, <1>3, <1>4 DEF ReadEmpty
<1>11. CASE ReadSleep(p)
  BY <1>11, <1>3, <1>4 DEF ReadSleep
<1>12. CASE ReadReady(p)
  BY <1>12, <1>3, <1>4 DEF ReadReady
<1>13. CASE ReadEnd(p)
  BY <1>13, <1>3, <1>4 DEF ReadEnd
<1>14. CASE DropRead(p)
  BY <1>14, <1>3, <1>4 DEF DropRead
<1>15. CASE DropWrite(p)
  BY <1>15, <1>3, <1>4 DEF DropWrite
<1>16. CASE CloseRead(p)
  <2>1. /\ readopen' = FALSE /\ writeopen' = writeopen /\ freed' = ~writeopen
        /\ wq' = Wakeup(wq) /\ rq' = rq /\ pc' = [pc EXCEPT ![p] = "user"]
        /\ lock \in {p, NoProc} /\ lock' = NoProc /\ pc[p] = "rclose"
        /\ UNCHANGED <<rref, wref, left, killed>>
    BY <1>16 DEF CloseRead
  <2>2. readopen' \in BOOLEAN /\ writeopen' \in BOOLEAN /\ freed' \in BOOLEAN
    BY <2>1, <1>3, Zenon
  <2>3. Closed'
    <3>1. freed' <=> ~readopen' /\ ~writeopen'
      BY <2>1, Zenon
    <3>2. ~readopen => ~readopen'
      BY <2>1, Zenon
    <3> QED BY <2>1, <3>1, <1>3
  <2>4. Holds' /\ Locked' /\ Sleepers'
    BY <2>1, <1>3, <1>4
  <2> QED BY <2>1, <2>2, <2>3, <2>4, <1>3, <1>4
<1>17. CASE CloseWrite(p)
  <2>1. /\ writeopen' = FALSE /\ readopen' = readopen /\ freed' = ~readopen
        /\ rq' = Wakeup(rq) /\ wq' = wq /\ pc' = [pc EXCEPT ![p] = "user"]
        /\ lock \in {p, NoProc} /\ lock' = NoProc /\ pc[p] = "wclose"
        /\ UNCHANGED <<rref, wref, left, killed>>
    BY <1>17 DEF CloseWrite
  <2>2. writeopen' \in BOOLEAN /\ readopen' \in BOOLEAN /\ freed' \in BOOLEAN
    BY <2>1, <1>3, Zenon
  <2>3. Closed'
    <3>1. freed' <=> ~readopen' /\ ~writeopen'
      BY <2>1, Zenon
    <3>2. ~writeopen => ~writeopen'
      BY <2>1, Zenon
    <3> QED BY <2>1, <3>1, <1>3
  <2>4. Holds' /\ Locked' /\ Sleepers'
    BY <2>1, <1>3, <1>4
  <2> QED BY <2>1, <2>2, <2>3, <2>4, <1>3, <1>4
<1>18. CASE Kill(p)
  BY <1>18, <1>3, <1>4 DEF Kill
<1>19. ASSUME NEW n \in 1..MaxN, WriteStart(p, n) PROVE Rest
  BY <1>19, <1>3, SizeAssumption DEF WriteStart
<1>20. ASSUME NEW n \in 1..MaxN, ReadStart(p, n) PROVE Rest
  BY <1>20, <1>3, SizeAssumption DEF ReadStart
<1> QED BY <1>5, <1>6, <1>7, <1>8, <1>9, <1>10, <1>11, <1>12, <1>13, <1>14, <1>15, <1>16, <1>17,
           <1>18, <1>19, <1>20

\* The ring as a sequence.
Queue == [i \in 1..Fill |-> data[(nread + i - 1) % PIPESIZE]]

\* It is a sequence of bytes.
LEMMA QueueType ==
    ASSUME PipeTypeOK
    PROVE  Queue \in Seq(Bytes) /\ Len(Queue) = Fill /\ Fill \in Nat /\ nread \in Nat
<1>1. Fill \in Nat /\ nread \in Nat
  BY FillIs, SizeAssumption DEF PipeTypeOK
<1>2. ASSUME NEW i \in 1..Fill PROVE data[(nread + i - 1) % PIPESIZE] \in Bytes
  <2>1. nread + i - 1 \in Nat
    BY <1>1
  <2> QED BY <2>1, Places DEF PipeTypeOK
<1> QED BY <1>1, <1>2 DEF Queue

\* Sequences as functions.
LEMMA SeqOps ==
    ASSUME NEW s \in Seq(Bytes), NEW b \in Bytes
    PROVE  /\ Append(s, b) = [i \in 1..(Len(s) + 1) |-> IF i = Len(s) + 1 THEN b ELSE s[i]]
           /\ s # <<>> => Tail(s) = [i \in 1..(Len(s) - 1) |-> s[i + 1]]
<1>1. Append(s, b) = [i \in 1..(Len(s) + 1) |-> IF i = Len(s) + 1 THEN b ELSE s[i]]
  <2> DEFINE t == Append(s, b)
  <2>1. t \in Seq(Bytes) /\ Len(t) = Len(s) + 1 /\ Len(s) \in Nat
    OBVIOUS
  <2>2. \A i \in 1..Len(t) : t[i] = IF i = Len(s) + 1 THEN b ELSE s[i]
    OBVIOUS
  <2>3. t = [i \in 1..Len(t) |-> t[i]]
    <3> HIDE DEF t
    <3> QED BY <2>1
  <2> HIDE DEF t
  <2>4. t = [i \in 1..(Len(s) + 1) |-> IF i = Len(s) + 1 THEN b ELSE s[i]]
    BY <2>1, <2>2, <2>3
  <2> QED BY <2>4 DEF t
<1>2. ASSUME s # <<>> PROVE Tail(s) = [i \in 1..(Len(s) - 1) |-> s[i + 1]]
  <2> DEFINE t == Tail(s)
  <2>1. t \in Seq(Bytes) /\ Len(t) = Len(s) - 1 /\ Len(s) \in Nat
    BY <1>2
  <2>2. \A i \in 1..Len(t) : t[i] = s[i + 1]
    BY <1>2
  <2>3. t = [i \in 1..Len(t) |-> t[i]]
    <3> HIDE DEF t
    <3> QED BY <2>1
  <2> HIDE DEF t
  <2>4. t = [i \in 1..(Len(s) - 1) |-> s[i + 1]]
    BY <2>1, <2>2, <2>3
  <2> QED BY <2>4 DEF t
<1> QED BY <1>1, <1>2

\* A byte is written: it is appended to the queue.
LEMMA PutInv ==
    ASSUME IInv, NEW p \in Users, NEW b \in Bytes, PutByte(p, b)
    PROVE  IInv' /\ Fill' = Fill + 1 /\ BQ!Put(b)
<1>1. /\ nread \in 0..(UINTMOD - 1) /\ nwrite \in 0..(UINTMOD - 1) /\ nread' = nread
      /\ Fill \in Nat /\ Fill < PIPESIZE
      /\ UINTMOD \in Nat /\ PIPESIZE \in Nat \ {0} /\ PIPESIZE < UINTMOD
  <2>1. ~Full /\ nread' = nread
    BY DEF PutByte
  <2> QED BY <2>1, FillIs, SizeAssumption DEF IInv, PipeTypeOK
<1>2. nwrite' = IF nwrite + 1 = UINTMOD THEN 0 ELSE nwrite + 1
  BY <1>1, Incremented DEF PutByte
<1>3. nwrite' \in 0..(UINTMOD - 1)
  BY <1>1, <1>2
<1>4. Fill' = Fill + 1
  <2>1. /\ nwrite >= nread => Fill = nwrite - nread
        /\ nwrite < nread => Fill = nwrite - nread + UINTMOD
    BY <1>1, FillIs
  <2>2. /\ nwrite' >= nread => Fill' = nwrite' - nread
        /\ nwrite' < nread => Fill' = nwrite' - nread + UINTMOD
    BY <1>1, <1>3, Distance DEF Fill
  <2> QED BY <2>1, <2>2, <1>1, <1>2
<1>5. nwrite % PIPESIZE = (nread + Fill) % PIPESIZE
  <2> DEFINE x == nread + Fill
  <2>1. x \in Nat /\ (nwrite = x \/ (x >= UINTMOD /\ nwrite = x - UINTMOD))
    BY <1>1, FillIs
  <2> HIDE DEF x
  <2>2. nwrite % PIPESIZE = x % PIPESIZE
    BY <2>1, Places
  <2> QED BY <2>2 DEF x
<1>6. data' = [data EXCEPT ![(nread + Fill) % PIPESIZE] = b] /\ addr' = addr
  BY <1>5 DEF PutByte
<1>7. /\ (nread + Fill) % PIPESIZE \in 0..(PIPESIZE - 1)
      /\ \A i \in 1..Fill : /\ (nread + i - 1) % PIPESIZE # (nread + Fill) % PIPESIZE
                            /\ (nread + i - 1) % PIPESIZE \in 0..(PIPESIZE - 1)
  <2> DEFINE y == nread + Fill
  <2>1. y \in Nat
    BY <1>1
  <2>2. ASSUME NEW i \in 1..Fill
        PROVE  /\ (nread + i - 1) % PIPESIZE # y % PIPESIZE
               /\ (nread + i - 1) % PIPESIZE \in 0..(PIPESIZE - 1)
    <3> DEFINE x == nread + i - 1
    <3>1. x \in Nat /\ x < y /\ y - x < PIPESIZE
      BY <1>1
    <3> HIDE DEF x, y
    <3>2. x % PIPESIZE # y % PIPESIZE /\ x % PIPESIZE \in 0..(PIPESIZE - 1)
      BY <2>1, <3>1, Places
    <3> QED BY <3>2 DEF x
  <2>3. y % PIPESIZE \in 0..(PIPESIZE - 1)
    <3> HIDE DEF y
    <3> QED BY <2>1, Places
  <2> QED BY <2>2, <2>3
<1>8. PipeTypeOK'
  <2>1. data' \in [0..(PIPESIZE - 1) -> Bytes] /\ addr' \in Bytes
    BY <1>6, <1>7 DEF IInv, PipeTypeOK
  <2>2. Fill' <= PIPESIZE /\ nread' \in 0..(UINTMOD - 1)
    BY <1>1, <1>4
  <2>3. left' \in [Users -> 0..MaxN] /\ lock' \in Users \cup {NoProc}
    BY SizeAssumption DEF PutByte, IInv, PipeTypeOK
  <2> QED BY <1>3, <2>1, <2>2, <2>3 DEF PutByte, ends, refs, sleep, IInv, PipeTypeOK
<1>9. Holds' /\ Closed' /\ Locked' /\ Sleepers' /\ SleepOnce'
  BY ProcAssumption DEF PutByte, Runs, ends, refs, sleep, IInv, PipeTypeOK, Holds, Closed,
                        Locked, Sleepers, SleepOnce, Distinct
<1>10. BQ!Put(b)
  <2>1. Queue' = Append(Queue, b)
    <3>1. Queue \in Seq(Bytes) /\ Len(Queue) = Fill
      BY QueueType DEF IInv
    <3>2. Append(Queue, b) = [i \in 1..(Fill + 1) |-> IF i = Fill + 1 THEN b ELSE Queue[i]]
      BY <3>1, SeqOps
    <3>3. Queue' = [i \in 1..(Fill + 1) |-> data'[(nread + i - 1) % PIPESIZE]]
      BY <1>1, <1>4 DEF Queue
    <3>4. ASSUME NEW i \in 1..(Fill + 1)
          PROVE  data'[(nread + i - 1) % PIPESIZE] = IF i = Fill + 1 THEN b ELSE Queue[i]
      <4>1. CASE i = Fill + 1
        <5>1. nread + i - 1 = nread + Fill
          BY <4>1, <1>1
        <5> QED BY <5>1, <4>1, <1>6, <1>7 DEF IInv, PipeTypeOK
      <4>2. CASE i # Fill + 1
        <5>1. i \in 1..Fill
          BY <4>2, <1>1
        <5> QED BY <4>2, <5>1, <1>6, <1>7 DEF IInv, PipeTypeOK, Queue
      <4> QED BY <4>1, <4>2
    <3> QED BY <3>2, <3>3, <3>4
  <2>2. Len(Queue) < PIPESIZE
    BY <1>1, QueueType DEF IInv
  <2> QED BY <2>1, <2>2, <1>6 DEF BQ!Put, Queue
<1> QED BY <1>4, <1>8, <1>9, <1>10 DEF IInv

\* A byte is read: it is the first of the queue.
LEMMA TakeInv ==
    ASSUME IInv, NEW p \in Users, TakeByte(p)
    PROVE  IInv' /\ Fill' = Fill - 1 /\ BQ!Take
<1>1. /\ nread \in 0..(UINTMOD - 1) /\ nwrite \in 0..(UINTMOD - 1) /\ nwrite' = nwrite
      /\ Fill \in Nat /\ Fill > 0 /\ Fill <= PIPESIZE
      /\ UINTMOD \in Nat /\ PIPESIZE \in Nat \ {0} /\ PIPESIZE < UINTMOD
  <2>1. ~Empty /\ nwrite' = nwrite
    BY DEF TakeByte
  <2> QED BY <2>1, FillIs, SizeAssumption DEF IInv, PipeTypeOK
<1>2. nread' = IF nread + 1 = UINTMOD THEN 0 ELSE nread + 1
  BY <1>1, Incremented DEF TakeByte
<1>3. nread' \in 0..(UINTMOD - 1)
  BY <1>1, <1>2
<1>4. Fill' = Fill - 1
  <2>1. /\ nwrite >= nread => Fill = nwrite - nread
        /\ nwrite < nread => Fill = nwrite - nread + UINTMOD
    BY <1>1, FillIs
  <2>2. /\ nwrite >= nread' => Fill' = nwrite - nread'
        /\ nwrite < nread' => Fill' = nwrite - nread' + UINTMOD
    BY <1>1, <1>3, Distance DEF Fill
  <2> QED BY <2>1, <2>2, <1>1, <1>2
<1>5. data' = data /\ addr' = data[nread % PIPESIZE] /\ nread % PIPESIZE \in 0..(PIPESIZE - 1)
  BY <1>1, Places DEF TakeByte
<1>6. PipeTypeOK'
  <2>1. data' \in [0..(PIPESIZE - 1) -> Bytes] /\ addr' \in Bytes
    BY <1>5 DEF IInv, PipeTypeOK
  <2>2. Fill' <= PIPESIZE /\ nwrite' \in 0..(UINTMOD - 1)
    BY <1>1, <1>4
  <2>3. left' \in [Users -> 0..MaxN]
    BY SizeAssumption DEF TakeByte, IInv, PipeTypeOK
  <2> QED BY <1>3, <2>1, <2>2, <2>3 DEF TakeByte, ends, refs, sleep, IInv, PipeTypeOK
<1>7. Holds' /\ Closed' /\ Locked' /\ Sleepers' /\ SleepOnce'
  BY DEF TakeByte, ends, refs, sleep, IInv, Holds, Closed, Locked, Sleepers, SleepOnce,
         Distinct
<1>8. BQ!Take
  <2>1. Queue \in Seq(Bytes) /\ Len(Queue) = Fill /\ Queue # <<>>
    BY <1>1, QueueType DEF IInv
  <2>2. addr' = Head(Queue)
    <3>1. Head(Queue) = Queue[1]
      BY <2>1
    <3>2. Queue[1] = data[(nread + 1 - 1) % PIPESIZE] /\ nread + 1 - 1 = nread
      BY <1>1 DEF Queue
    <3> QED BY <3>1, <3>2, <1>5
  <2>3. Queue' = Tail(Queue)
    <3>1. Tail(Queue) = [i \in 1..(Fill - 1) |-> Queue[i + 1]]
      BY <2>1, SeqOps, ProcAssumption
    <3>2. Queue' = [i \in 1..(Fill - 1) |-> data[(nread' + i - 1) % PIPESIZE]]
      BY <1>4, <1>5 DEF Queue
    <3>3. ASSUME NEW i \in 1..(Fill - 1)
          PROVE  data[(nread' + i - 1) % PIPESIZE] = Queue[i + 1]
      <4>1. Queue[i + 1] = data[(nread + i) % PIPESIZE]
        <5>1. i + 1 \in 1..Fill /\ nread + (i + 1) - 1 = nread + i
          BY <1>1
        <5> QED BY <5>1 DEF Queue
      <4> DEFINE x == nread + i
                 y == nread' + i - 1
      <4>2. x \in Nat /\ (y = x \/ (x >= UINTMOD /\ y = x - UINTMOD))
        BY <1>1, <1>2
      <4>3. y % PIPESIZE = x % PIPESIZE
        <5> HIDE DEF x, y
        <5> QED BY <4>2, Places
      <4> QED BY <4>1, <4>3
    <3> QED BY <3>1, <3>2, <3>3
  <2> QED BY <2>1, <2>2, <2>3 DEF BQ!Take, Queue
<1> QED BY <1>4, <1>6, <1>7, <1>8 DEF IInv

\* Nothing happens.
LEMMA StutterInv ==
    ASSUME UNCHANGED vars
    PROVE  /\ IInv => IInv'
           /\ Awake => Awake'
           /\ UNCHANGED ring
<1> USE DEF vars, ring, ends, refs, sleep
<1>1. IInv => IInv'
  BY DEF IInv, PipeTypeOK, Fill, Holds, Closed, Locked, Sleepers, SleepOnce, Distinct
<1>2. Awake => Awake'
  BY DEF Awake, SleepJustified, WriterKilled, Empty, Full
<1> QED BY <1>1, <1>2

\* Every step preserves the invariant.
LEMMA NextIInv == IInv /\ [Next]_vars => IInv'
<1> SUFFICES ASSUME IInv, [Next]_vars PROVE IInv'
  OBVIOUS
<1>1. ASSUME NEW p \in Users,
             \/ Step(p) \/ Drop(p) \/ Kill(p)
             \/ \E n \in 1..MaxN : WriteStart(p, n) \/ ReadStart(p, n)
      PROVE  IInv'
  BY <1>1, ProcInv, PutInv, TakeInv DEF Step, Drop
<1> QED BY <1>1, StutterInv DEF Next

\* wakeup() leaves nobody asleep.
WakesAll == ~WAKEONE \/ \E r, w \in Users : Readers = {r} /\ Writers = {w}

\* No wakeup is lost by a step, where wakeup() leaves nobody asleep: whoever leaves
\* something to do behind wakes those who can do it, or is a writer that was killed.
LEMMA AwakeStep ==
    ASSUME WakesAll, IInv, IInv', Awake, [Next]_vars
    PROVE  Awake'
<1>1. /\ rq \in Seq(Users) /\ wq \in Seq(Users)
      /\ (rq = <<>> <=> Members(rq) = {}) /\ (wq = <<>> <=> Members(wq) = {})
      /\ Members(rq) \subseteq rref /\ Members(wq) \subseteq wref
      /\ Members(rq) \subseteq Users /\ Members(wq) \subseteq Users
  <2>1. ASSUME NEW s \in Seq(Users)
        PROVE  Members(s) \subseteq Users /\ (Members(s) = {} <=> s = <<>>)
    <3>1. CASE s = <<>>
      BY <3>1 DEF Members
    <3>2. CASE s # <<>>
      <4>1. s[1] \in Users
        BY <3>2
      <4> QED BY <4>1, Queues
    <3> QED BY <3>1, <3>2
  <2>2. rq \in Seq(Users) /\ wq \in Seq(Users)
    BY DEF IInv, PipeTypeOK
  <2>3. Members(rq) \subseteq rref /\ Members(wq) \subseteq wref
    BY <2>1, <2>2 DEF IInv, Sleepers, Holds
  <2>4. /\ (rq = <<>> <=> Members(rq) = {}) /\ Members(rq) \subseteq Users
        /\ (wq = <<>> <=> Members(wq) = {}) /\ Members(wq) \subseteq Users
    BY <2>1, <2>2, Zenon
  <2> QED BY <2>2, <2>3, <2>4
<1>2. Wakeup(rq) = <<>> /\ Wakeup(wq) = <<>>
  <2>1. CASE ~WAKEONE
    BY <2>1 DEF Wakeup
  <2>2. ASSUME NEW r \in Users, NEW s \in Seq(Users), Members(s) \subseteq {r}, Distinct(s)
        PROVE  Wakeup(s) = <<>>
    <3>1. Len(s) \in Nat /\ DOMAIN s = 1..Len(s) /\ \A i \in 1..Len(s) : s[i] = r
      BY <2>2 DEF Members
    <3>2. Len(s) <= 1
      BY <3>1, <2>2 DEF Distinct
    <3>3. s # <<>> => Tail(s) = <<>>
      BY <3>1, <3>2
    <3> QED BY <3>3 DEF Wakeup
  <2>3. ASSUME NEW r \in Users, NEW w \in Users, Readers = {r}, Writers = {w}
        PROVE  Wakeup(rq) = <<>> /\ Wakeup(wq) = <<>>
    <3>1. Members(rq) \subseteq {r} /\ Members(wq) \subseteq {w}
      BY <2>3, <1>1 DEF IInv, Closed
    <3> QED BY <3>1, <2>2, <2>3, <1>1 DEF IInv, SleepOnce
  <2> QED BY <2>1, <2>3 DEF WakesAll
<1>3. Empty => ~Full
  BY FillIs, SizeAssumption DEF IInv, PipeTypeOK
<1>4. \A p \in Users : p # NoProc
  BY ProcAssumption
<1>5. (\A p \in wref : killed[p] => WriterKilled) /\ Writers \subseteq Users
  BY DEF WriterKilled, IInv, Closed, Users
<1>6. /\ pc \in [Users -> {"user", "write", "wsleep", "read", "rsleep", "copy", "rclose", "wclose"}]
      /\ killed \in [Users -> BOOLEAN]
  BY DEF IInv, PipeTypeOK
<1>7. ASSUME UNCHANGED ring PROVE Empty' = Empty /\ Full' = Full
  BY <1>7 DEF ring, Empty, Full
<1>kept. ASSUME killed' = killed \/ \E p \in Users : killed' = [killed EXCEPT ![p] = TRUE]
       PROVE  WriterKilled => WriterKilled'
  BY <1>kept, <1>5, <1>6 DEF WriterKilled
<1>8. ASSUME NEW p \in Users, NEW s \in {rq, wq}
      PROVE  Without(s, p) # <<>> => s # <<>>
  BY <1>1 DEF Without
<1> USE DEF Awake, SleepJustified, Goto, Return, Runs, User, ends, refs, sleep
<1> USE <1>4, <1>6
<1>9. ASSUME NEW p \in Users, NEW b \in Bytes, PutByte(p, b) PROVE Awake'
  BY <1>9, <1>kept DEF PutByte, IInv, Locked
<1>10. ASSUME NEW p \in Users, TakeByte(p) PROVE Awake'
  BY <1>10, <1>kept DEF TakeByte, IInv, Locked
<1> USE <1>7, <1>kept
<1>11. ASSUME NEW p \in Users, WriteFail(p) PROVE Awake'
  BY <1>11, <1>1, <1>5 DEF WriteFail, IInv, Locked, Closed, Holds
<1>12. ASSUME NEW p \in Users, WriteFull(p) PROVE Awake'
  BY <1>12, <1>2 DEF WriteFull, IInv, Locked, Holds, Closed
<1>13. ASSUME NEW p \in Users, WriteSleep(p) PROVE Awake'
  BY <1>13, <1>2 DEF WriteSleep, IInv, Locked, Holds, Closed
<1>14. ASSUME NEW p \in Users, WriteEnd(p) PROVE Awake'
  BY <1>14, <1>2 DEF WriteEnd, IInv, Locked, Holds, Closed
<1>15. ASSUME NEW p \in Users, ReadFail(p) PROVE Awake'
  BY <1>15, <1>2 DEF ReadFail, IInv, Locked, Holds, Closed
<1>16. ASSUME NEW p \in Users, ReadEmpty(p) PROVE Awake'
  BY <1>16, <1>2, <1>3 DEF ReadEmpty, IInv, Locked, Holds, Closed
<1>17. ASSUME NEW p \in Users, ReadSleep(p) PROVE Awake'
  BY <1>17, <1>2 DEF ReadSleep, IInv, Locked, Holds, Closed
<1>18. ASSUME NEW p \in Users, ReadReady(p) PROVE Awake'
  BY <1>18, <1>2 DEF ReadReady, IInv, Locked, Holds, Closed
<1>19. ASSUME NEW p \in Users, ReadEnd(p) PROVE Awake'
  BY <1>19, <1>2 DEF ReadEnd, IInv, Locked, Holds, Closed
<1>20. ASSUME NEW p \in Users, CloseRead(p) PROVE Awake'
  BY <1>20, <1>2, <1>1 DEF CloseRead, IInv, Locked, Holds, Closed
<1>21. ASSUME NEW p \in Users, CloseWrite(p) PROVE Awake'
  BY <1>21, <1>2, <1>1 DEF CloseWrite, IInv, Locked, Holds, Closed
<1>22. ASSUME NEW p \in Users, DropRead(p) PROVE Awake'
  BY <1>22, <1>2 DEF DropRead, IInv, Locked, Holds, Closed
<1>23. ASSUME NEW p \in Users, DropWrite(p) PROVE Awake'
  BY <1>23, <1>2 DEF DropWrite, IInv, Locked, Holds, Closed
<1>24. ASSUME NEW p \in Users, Kill(p) PROVE Awake'
  <2>1. /\ rq' # <<>> => rq # <<>>
        /\ wq' # <<>> => wq # <<>>
    BY <1>24, <1>8 DEF Kill
  <2>2. /\ UNCHANGED <<ring, readopen, writeopen, lock, pc>>
        /\ WriterKilled => WriterKilled'
    BY <1>24 DEF Kill
  <2> QED BY <2>1, <2>2
<1>25. ASSUME NEW p \in Users, NEW n \in 1..MaxN, WriteStart(p, n) \/ ReadStart(p, n) PROVE Awake'
  BY <1>25 DEF WriteStart, ReadStart, IInv, Locked
<1>26. CASE UNCHANGED vars
  BY <1>26, StutterInv
<1> QED BY <1>9, <1>10, <1>11, <1>12, <1>13, <1>14, <1>15, <1>16, <1>17, <1>18, <1>19, <1>20, <1>21, <1>22, <1>23, <1>24, <1>25, <1>26 DEF Next, Step, Drop

\* A freed pipe has no holder, so nobody is in it.
LEMMA FreedIsUnused == IInv => FreedUnused
<1> SUFFICES ASSUME IInv, freed
             PROVE  rref = {} /\ wref = {} /\ lock = NoProc /\ \A p \in Users : User(p)
  BY DEF FreedUnused
<1>1. rref = {} /\ wref = {}
  BY DEF IInv, Closed
<1>2. \A p \in Users : pc[p] = "user"
  BY <1>1 DEF IInv, Holds, Closed, PipeTypeOK
<1> QED BY <1>1, <1>2 DEF IInv, Locked, PipeTypeOK, User

-----------------------------------------------------------------------------
(* The theorems.                                                            *)

\* The inductive invariant holds.
THEOREM PipeInvariance == Spec => []IInv
BY InitIInv, NextIInv, PTL DEF Spec

\* Whatever wakeup() and kill() do: the counters, which wrap, never drift apart by
\* more than the ring holds, and pipeclose() frees the pipe only when nobody is in
\* it or can get into it.
THEOREM PipeSafe == Spec => [](PipeTypeOK /\ FreedUnused)
<1>1. IInv => PipeTypeOK /\ FreedUnused
  BY FreedIsUnused DEF IInv
<1> QED BY <1>1, PipeInvariance, PTL

\* Where wakeup() wakes all sleepers (CS333_P0), or one reader and one writer share
\* the pipe, whoever is killed: nobody sleeps in the pipe with something to do,
\* except readers after a writer was killed, and these not past the last close.
THEOREM PipeWakeups ==
    ASSUME WakesAll
    PROVE  Spec => []PipeRight
<1>1. Init => IInv /\ Awake
  BY InitIInv
<1>2. IInv /\ Awake /\ [Next]_vars => (IInv /\ Awake)'
  BY NextIInv, AwakeStep
<1>3. IInv /\ Awake => PipeRight
  BY FreedIsUnused DEF IInv, Awake, PipeRight
<1> QED BY <1>1, <1>2, <1>3, PTL DEF Spec

\* The ring buffer implements a queue of bytes: they come out in the order in which
\* they went in, none twice and none missing, across every wrap of the counters.
THEOREM PipeRefinesQueue == Spec => BytesInOrder
<1>1. Init => BQ!Init
  <2> SUFFICES ASSUME Init PROVE BQ!Init
    OBVIOUS
  <2>1. Fill = 0
    <3>1. nread \in 0..(UINTMOD - 1) /\ nwrite \in 0..(UINTMOD - 1) /\ Empty
      BY SizeAssumption DEF Init, Empty
    <3> QED BY <3>1, FillIs
  <2> QED BY <2>1 DEF Init, BQ!Init
<1>2. IInv /\ [Next]_vars => [BQ!Next]_<<Queue, addr>>
  <2> SUFFICES ASSUME IInv, [Next]_vars PROVE BQ!Next \/ UNCHANGED <<Queue, addr>>
    OBVIOUS
  <2>1. ASSUME UNCHANGED ring PROVE UNCHANGED <<Queue, addr>>
    BY <2>1 DEF ring, Queue, Fill
  <2>2. ASSUME NEW p \in Users,
               \/ Step(p) \/ Drop(p) \/ Kill(p)
               \/ \E n \in 1..MaxN : WriteStart(p, n) \/ ReadStart(p, n)
        PROVE  BQ!Next \/ UNCHANGED ring
    BY <2>2, ProcInv, PutInv, TakeInv DEF Step, Drop, BQ!Next
  <2> QED BY <2>1, <2>2, StutterInv DEF Next
<1> QED BY <1>1, <1>2, PipeInvariance, PTL DEF Spec, BytesInOrder, BQ!Spec, Queue
=============================================================================
