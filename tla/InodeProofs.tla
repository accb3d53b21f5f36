---------------------------- MODULE InodeProofs -----------------------------
(***************************************************************************)
(* Proofs about Files, second part.  The second layer of the argument      *)
(* (locks, the life of an inode from ialloc() to the iput() that frees it, *)
(* links and directories) is an invariant, so references, link counts and  *)
(* locks are right; the third (directories form a forest) says who can     *)
(* wait for whom.                                                          *)
(***************************************************************************)
EXTENDS FilesProofs

-----------------------------------------------------------------------------
(* The second layer: every action preserves it.                             *)

\* The instruction that is run, and what it keeps.
LEMMA Doing ==
    ASSUME Base, NEW p \in Procs, NEW op, On(p, op)
    PROVE  /\ k[p] # <<>> /\ Top(k[p]) = k[p][1] /\ Arg(p) = k[p][1] /\ Top(k[p]).op = op
           /\ op \notin Keepers \cup TOps => Keeps(Top(k[p])) = NULL
           /\ op \notin Keepers \cup TOps /\ (op \notin PutOps \cup Ends \/ res[p] = NULL) => Unkept(p)
           /\ op \in PutOps \cup Ends => KeepsRes(k[p], res[p]) = res[p]
           /\ op \notin PutOps \cup Ends => KeepsRes(k[p], res[p]) = NULL
<1>1. k[p] # <<>> /\ k[p][1].op = op /\ Arg(p) = k[p][1]
  BY OnFacts
<1>2. Top(k[p]) = k[p][1]
  BY <1>1 DEF Top
<1>3. op \notin Keepers \cup TOps => Keeps(Top(k[p])) = NULL
  BY <1>1, <1>2 DEF Keeps
<1>4. KeepsRes(k[p], res[p]) = IF op \in PutOps \cup Ends THEN res[p] ELSE NULL
  BY <1>1, <1>2 DEF KeepsRes
<1> QED
  BY <1>1, <1>2, <1>3, <1>4 DEF Unkept

\* The locks after ilock().
LEMMA LoadLk ==
    ASSUME Base, NEW s, Live(s), NEW q \in Procs \cup {NoProc}
    PROVE  /\ Load(s, q)[s].lk = q /\ \A z \in Slots : z # s => Load(s, q)[z] = ic[z]
           /\ Load(s, q)[s].valid
           /\ Lockable(s) /\ q = NoProc => \A z \in Slots : Load(s, q)[z].lk = ic[z].lk
<1>0. FilesTypes
  BY DEF Base
<1>1. Load(s, q)[s].lk = q
  BY <1>0, LoadFacts
<1>2. \A z \in Slots : z # s => Load(s, q)[z] = ic[z]
  BY BaseTypes DEF Load, Live
<1>3. Load(s, q)[s].valid
  BY <1>0, LoadFacts
<1> QED
  BY <1>1, <1>2, <1>3 DEF Lockable

\* A failed call ends.
LEMMA FailedSecond ==
    ASSUME Base, Second, NEW p \in Procs, Failed(p)
    PROVE  Second'
<1>1. PICK op \in {"unlink", "link1", "open", "made", "create", "opened", "chdir"} : On(p, op)
  BY DEF Failed
<1>2. /\ res[p] = NULL /\ Then(p, <<>>) /\ ic' = ic /\ dn' = dn /\ res' = res /\ halted' = halted
  BY DEF Failed
<1>3. op \notin Keepers \cup TOps /\ op \notin LifeOps
  BY DEF Keepers, TOps, LifeOps
<1>4. k[p] # <<>> /\ Top(k[p]).op = op /\ Unkept(p)
  BY <1>1, <1>2, <1>3, Doing
<1>5. CalmCache(ic', dn)
  BY <1>2, CalmLocks DEF OnlyLk, Second
<1>6. Others(res, res', p)
  BY <1>2, BaseTypes
<1> QED
  BY <1>2, <1>3, <1>4, <1>5, <1>6, EndsStep DEF Second

\* So does one on descriptors that are not there.
LEMMA NoSuchSecond ==
    ASSUME Base, Second, NEW p \in Procs, NoSuch(p)
    PROVE  Second'
<1>1. PICK op \in {"close", "dup", "fork"} : On(p, op)
  BY DEF NoSuch
<1>2. /\ Then(p, <<>>) /\ ic' = ic /\ dn' = dn /\ res' = res /\ halted' = halted
  BY DEF NoSuch
<1>3. op \notin Keepers \cup TOps /\ op \notin LifeOps /\ op \in {"dup", "close", "fork", "exit"}
  BY DEF Keepers, TOps, LifeOps
<1>4. res[p] = NULL
  BY <1>1, <1>3, FdCall
<1>5. k[p] # <<>> /\ Top(k[p]).op = op /\ Unkept(p)
  BY <1>1, <1>3, <1>4, Doing
<1>6. CalmCache(ic', dn)
  BY <1>2, CalmLocks DEF OnlyLk, Second
<1>7. Others(res, res', p)
  BY <1>2, BaseTypes
<1> QED
  BY <1>2, <1>3, <1>4, <1>5, <1>6, <1>7, EndsStep DEF Second

\* dup(), ...
LEMMA DupSecond ==
    ASSUME Base, Second, NEW p \in Procs, NEW d \in 1..NOFILE, Dup(p, d)
    PROVE  Second'
<1> DEFINE op == "dup"
<1>1. /\ On(p, op) /\ Then(p, <<>>) /\ ic' = ic /\ dn' = dn /\ res' = res /\ halted' = halted
  BY DEF Dup
<1>3. op \notin Keepers \cup TOps /\ op \notin LifeOps /\ op \in {"dup", "close", "fork", "exit"}
  BY DEF Keepers, TOps, LifeOps
<1> HIDE DEF op
<1>4. res[p] = NULL
  BY <1>1, <1>3, FdCall
<1>5. k[p] # <<>> /\ Top(k[p]).op = op /\ Unkept(p)
  BY <1>1, <1>3, <1>4, Doing
<1>6. CalmCache(ic', dn)
  BY <1>1, CalmLocks DEF OnlyLk, Second
<1>7. Others(res, res', p)
  BY <1>1, BaseTypes
<1> QED
  BY <1>1, <1>3, <1>4, <1>5, <1>6, <1>7, EndsStep DEF Second

\* ... close() ...
LEMMA CloseSecond ==
    ASSUME Base, Second, NEW p \in Procs, NEW d \in 1..NOFILE, Close(p, d)
    PROVE  Second'
<1> DEFINE op == "close"
           f == ofile[p][d]
<1>1. /\ On(p, op) /\ ic' = ic /\ dn' = dn /\ res' = res /\ halted' = halted /\ f # NULL
      /\ \/ Then(p, <<>>)
         \/ Then(p, <<Put(ft[f].ip)>>)
  BY DEF Close
<1>2. op \notin Keepers \cup TOps /\ op \notin LifeOps /\ op \in {"dup", "close", "fork", "exit"}
  BY DEF Keepers, TOps, LifeOps
<1>3. ft[f].ip \in Slots
  BY <1>1, FileHeld DEF Live
<1> HIDE DEF op
<1>4. res[p] = NULL
  BY <1>1, <1>2, FdCall
<1>5. k[p] # <<>> /\ Top(k[p]).op = op /\ Unkept(p)
  BY <1>1, <1>2, <1>4, Doing
<1>6. CalmCache(ic', dn) /\ \A z \in Slots : ic'[z].lk = ic[z].lk
  BY <1>1, CalmLocks DEF OnlyLk, Second
<1>7. Others(res, res', p) /\ res'[p] = NULL /\ ~halted' /\ Top(k[p]).op \notin LifeOps
  BY <1>1, <1>2, <1>4, <1>5, BaseTypes DEF Second
<1>8. CASE Then(p, <<>>)
  BY <1>1, <1>5, <1>6, <1>7, <1>8, EndsStep
<1>9. CASE Then(p, <<Put(ft[f].ip)>>)
  BY <1>1, <1>3, <1>5, <1>6, <1>7, <1>9, PutsStep
<1> QED
  BY <1>1, <1>8, <1>9

\* ... and fork() leave the inodes alone, except for the child's directory.
LEMMA ForkSecond ==
    ASSUME Base, Second, NEW p \in Procs, NEW q \in Procs, Fork(p, q)
    PROVE  Second'
<1> DEFINE op == "fork"
<1>1. /\ On(p, op) /\ Then(p, <<>>) /\ ic' = idup(ic, cwd[p]) /\ dn' = dn /\ res' = res
      /\ halted' = halted
  BY DEF Fork
<1>3. op \notin Keepers \cup TOps /\ op \notin LifeOps /\ op \in {"dup", "close", "fork", "exit"}
  BY DEF Keepers, TOps, LifeOps
<1> HIDE DEF op
<1>4. res[p] = NULL /\ cwd[p] # NULL
  BY <1>1, <1>3, FdCall
<1>5. k[p] # <<>> /\ Top(k[p]).op = op /\ Unkept(p)
  BY <1>1, <1>3, <1>4, Doing
<1>8. Fine(cwd[p])
  BY <1>4, FineHeld DEF Second
<1>6. CalmCache(ic', dn) /\ \A z \in Slots : ic'[z].lk = ic[z].lk
  BY <1>1, <1>8, CalmDup DEF Second
<1>7. Others(res, res', p)
  BY <1>1, BaseTypes
<1> QED
  BY <1>1, <1>3, <1>4, <1>5, <1>6, <1>7, EndsStep DEF Second

\* exit() closes the files first ...
LEMMA ExitCloseSecond ==
    ASSUME Base, Second, NEW p \in Procs, ExitClose(p)
    PROVE  Second'
<1> DEFINE op == "exit"
<1>1. /\ On(p, op) /\ ic' = ic /\ dn' = dn /\ res' = res /\ halted' = halted
      /\ Then(p, <<Ins("close", NULL, NULL, <<>>, ""), Ins("exit", NULL, NULL, <<>>, "")>>)
  BY DEF ExitClose
<1>3. op \notin Keepers \cup TOps /\ op \notin LifeOps /\ op \in {"dup", "close", "fork", "exit"}
      /\ op # "close"
  BY DEF Keepers, TOps, LifeOps
<1> HIDE DEF op
<1>4. res[p] = NULL /\ ~ (Len(k[p]) > 1)
  BY <1>1, <1>3, FdCall
<1>5. k[p] # <<>> /\ Top(k[p]).op = op /\ Unkept(p)
  BY <1>1, <1>3, <1>4, Doing
<1>6. CalmCache(ic', dn) /\ \A z \in Slots : ic'[z].lk = ic[z].lk
  BY <1>1, CalmLocks DEF OnlyLk, Second
<1>7. Others(res, res', p) /\ res'[p] = NULL /\ ~halted' /\ Top(k[p]).op \notin LifeOps
  BY <1>1, <1>3, <1>4, <1>5, BaseTypes DEF Second
<1>8. PICK a, b : a = Ins("close", NULL, NULL, <<>>, "") /\ b = Ins("exit", NULL, NULL, <<>>, "")
  OBVIOUS
<1>9. /\ a \in Instr /\ Well(a) /\ a.op = "close" /\ b \in Instr /\ Well(b) /\ b.op = "exit"
      /\ b.op \in Bottom
  BY <1>8, NoneWell DEF NoneIns
<1>10. Fit2(a, b, k[p])
  BY <1>4, <1>9 DEF Fit2, Fit1, Above, Over, Deep
<1>11. Light(a) /\ Light(b)
  BY <1>9 DEF Light, Keepers, TOps, Counting, ToDir
<1>12. /\ Keeps(a) = NULL /\ RelyNew(a) /\ Keeps(b) = NULL /\ RelyNew(b) /\ CountsOn(p, b)
       /\ a.op \notin {"free", "freed", "new"}
  BY <1>11, LightFacts
<1>13. Then(p, <<a, b>>)
  BY <1>1, <1>8
<1>14. Top(k'[p]) = a
  BY <1>5, <1>10, <1>12, <1>13, Turn2
<1>15. TopNew(p)
  BY <1>11, <1>14, LightFacts
<1>16. KeepsRes(k'[p], res'[p]) = NULL
  BY <1>7 DEF KeepsRes
<1>17. LockMove(p, Keeps(Top(k[p])), KeepsRes(k[p], res[p]), NULL, KeepsRes(k'[p], res'[p]))
  BY <1>5, <1>6, <1>16, LocksSame DEF Second, Unkept
<1> QED
  BY <1>1, <1>5, <1>6, <1>7, <1>10, <1>12, <1>13, <1>15, <1>17, Reads2

\* ... and puts the current directory last.
LEMMA ExitCwdSecond ==
    ASSUME Base, Second, NEW p \in Procs, ExitCwd(p)
    PROVE  Second'
<1> DEFINE op == "exit"
<1>1. /\ On(p, op) /\ ic' = ic /\ dn' = dn /\ res' = res /\ halted' = halted
      /\ Then(p, <<Put(cwd[p])>>)
  BY DEF ExitCwd
<1>3. op \notin Keepers \cup TOps /\ op \notin LifeOps /\ op \in {"dup", "close", "fork", "exit"}
  BY DEF Keepers, TOps, LifeOps
<1> HIDE DEF op
<1>4. res[p] = NULL /\ Live(cwd[p])
  BY <1>1, <1>3, FdCall
<1>5. k[p] # <<>> /\ Top(k[p]).op = op /\ Unkept(p) /\ cwd[p] \in Slots
  BY <1>1, <1>3, <1>4, Doing DEF Live
<1>6. CalmCache(ic', dn) /\ \A z \in Slots : ic'[z].lk = ic[z].lk
  BY <1>1, CalmLocks DEF OnlyLk, Second
<1>7. Others(res, res', p) /\ res'[p] = NULL /\ ~halted' /\ Top(k[p]).op \notin LifeOps
  BY <1>1, <1>3, <1>4, <1>5, BaseTypes DEF Second
<1> QED
  BY <1>1, <1>5, <1>6, <1>7, PutsStep

\* A step with an iget() of an inode that may be got.
LEMMA GotCalm ==
    ASSUME Base, NEW c \in [Slots -> Inode], SameRefs(ic, c), CalmCache(c, dn), NEW i, Safe(i),
           HasSlot(i), ic' = iget(c, i)
    PROVE  /\ CalmCache(ic', dn) /\ SlotOf(ic, i) \in Slots /\ SlotOf(c, i) = SlotOf(ic, i)
           /\ \A z \in Slots : ic'[z].lk = c[z].lk
           /\ ic'[SlotOf(ic, i)].inum = i
           /\ \A z \in Slots : ic[z].ref > 0 /\ c[z].valid => ic'[z].valid
<1>1. FilesTypes /\ i \in Inums
  BY DEF Base, Safe
<1>2. /\ Got(c, iget(c, i), i, SlotOf(ic, i))
      /\ Finds(i, SlotOf(ic, i)) /\ SlotOf(c, i) = SlotOf(ic, i)
  BY <1>1, IgetGot
<1> DEFINE x == SlotOf(ic, i)
<1>3. Got(c, ic', i, x) /\ Finds(i, x)
  BY <1>2
<1> HIDE DEF x
<1>4. CalmCache(ic', dn)
  BY <1>3, CalmGot
<1>5. /\ x \in Slots /\ ic'[x].inum = i /\ ic'[x].lk = c[x].lk
      /\ (ic[x].ref > 0 => ic'[x].valid = c[x].valid)
      /\ \A z \in Slots : z # x => ic'[z] = c[z]
  BY <1>3 DEF Got, Finds
<1>6. \A z \in Slots : ic'[z].lk = c[z].lk
  BY <1>5
<1>7. \A z \in Slots : ic[z].ref > 0 /\ c[z].valid => ic'[z].valid
  BY <1>5
<1>8. ic'[x].inum = i /\ x \in Slots
  BY <1>5
<1> QED
  BY <1>2, <1>4, <1>6, <1>7, <1>8 DEF x

\* namex() begins, ...
LEMMA NamexStartSecond ==
    ASSUME Base, Second, NEW p \in Procs, NamexStart(p)
    PROVE  Second'
<1> DEFINE i == k[p][1]
<1> DEFINE path == i.path
<1> DEFINE abs == path[1] = "/"
<1> DEFINE s == IF abs THEN SlotOf(ic, ROOTINO) ELSE cwd[p]
<1> DEFINE w == IF abs THEN Tail(path) ELSE path
<1> DEFINE a == Ins("walk", s, NULL, w, i.arg)
<1> DEFINE op == "namex"
<1>0. /\ On(p, op) /\ op \notin SOps /\ op \notin TOps /\ op \notin Bottom
      /\ op \notin PutOps /\ op \notin PutOps \cup ToDir \cup ToFile \cup Ends
      /\ op \notin Keepers \cup TOps /\ op \notin PutOps \cup Ends /\ op \notin LifeOps
  BY DEF NamexStart, SOps, TOps, Bottom, PutOps, ToDir, ToFile, Ends, Keepers, LifeOps
<1>1. /\ k[p] # <<>> /\ i.op = "namex" /\ Arg(p) = i /\ Well(i) /\ i.s = NULL /\ i.t = NULL
      /\ cwd[p] # NULL /\ Live(cwd[p]) /\ Len(k[p]) > 1 /\ Above(i, k[p][2]) /\ res[p] = NULL
      /\ k[p][2].op \in Deep
  BY <1>0, OnFacts
<1>2. /\ Then(p, <<a>>) /\ dn' = dn /\ res' = res /\ halted' = halted
      /\ abs => HasSlot(ROOTINO) /\ ic' = iget(ic, ROOTINO)
      /\ ~abs => ic' = idup(ic, cwd[p])
  BY <1>1 DEF NamexStart
<1>3. IsPath(path) /\ i.arg \in {"parent", "file"}
  BY <1>1 DEF Well
<1>4. CalmCache(ic', dn) /\ s \in Slots /\ \A z \in Slots : ic'[z].lk = ic[z].lk
  <2>1. CASE abs
    <3>1. Safe(ROOTINO)
      BY SafeRoot DEF Second
    <3>2. CalmCache(ic, dn)
      BY CalmLocks DEF OnlyLk, Second
    <3>3. ic \in [Slots -> Inode] /\ SameRefs(ic, ic)
      BY BaseTypes
    <3>4. /\ CalmCache(ic', dn) /\ SlotOf(ic, ROOTINO) \in Slots
          /\ \A z \in Slots : ic'[z].lk = ic[z].lk
      BY <1>2, <2>1, <3>1, <3>2, <3>3, GotCalm
    <3> QED
      BY <2>1, <3>4
  <2>2. CASE ~abs
    <3>1. Fine(cwd[p])
      BY <1>1, FineHeld DEF Second
    <3>2. CalmCache(ic', dn) /\ \A z \in Slots : ic'[z].lk = ic[z].lk
      BY <1>2, <2>2, <3>1, CalmDup DEF Second
    <3> QED
      BY <1>1, <2>2, <3>2 DEF Live
  <2> QED
    BY <2>1, <2>2
<1>5. /\ w \in Seq(Names \cup {".", ".."})
      /\ w # <<>> => Last(path) # "/"
  BY <1>3, PathRest
<1> HIDE DEF s, w
<1>6. /\ a \in Instr /\ Well(a) /\ a.op = "walk" /\ a.path = w /\ a.arg = i.arg
  BY <1>3, <1>4, <1>5, WalkWell
<1> HIDE DEF a
<1>7. Above(a, k[p][2])
  <2>1. a.op \in Over /\ k[p][2].op \in IF a.arg = "parent" THEN ToDir ELSE ToFile
    BY <1>1, <1>6 DEF Above, Over
  <2>2. a.arg = "parent" /\ a.path # <<>> => Last(k[p][2].path) # "/"
    BY <1>1, <1>5, <1>6 DEF Above
  <2> QED
    BY <1>1, <1>6, <2>1, <2>2 DEF Above
<1>8. Fit1(a, k[p])
  BY <1>1, <1>6, <1>7 DEF Fit1
<1>9. Light(a) /\ a.op \notin PutOps \cup Ends
  BY <1>6 DEF Light, Keepers, TOps, Counting, ToDir, PutOps, Ends
<1> HIDE DEF op
<1>10. Unkept(p) /\ Top(k[p]).op = op
  BY <1>0, Doing
<1>11. Others(res, res', p)
  BY <1>2, BaseTypes
<1> QED
  BY <1>0, <1>1, <1>2, <1>4, <1>8, <1>9, <1>10, <1>11, LightStep DEF Second

\* ... ends, ...
LEMMA NamexEndSecond ==
    ASSUME Base, Second, NEW p \in Procs, NamexEnd(p)
    PROVE  Second'
<1> DEFINE i == k[p][1]
<1> DEFINE s == i.s
<1> DEFINE op == "walk"
<1>0. /\ On(p, op) /\ op \in SOps /\ op \notin TOps /\ op \notin Bottom
      /\ op \notin PutOps /\ op \notin PutOps \cup ToDir \cup ToFile \cup Ends
      /\ op \notin Keepers \cup TOps /\ op \notin PutOps \cup Ends /\ op \notin LifeOps
  BY DEF NamexEnd, SOps, TOps, Bottom, PutOps, ToDir, ToFile, Ends, Keepers, LifeOps
<1>1. /\ k[p] # <<>> /\ Arg(p) = i /\ Well(i) /\ i.op = "walk"
      /\ Live(s) /\ Len(k[p]) > 1 /\ Above(i, k[p][2]) /\ res[p] = NULL
  BY <1>0, OnFacts
<1>2. /\ ic' = ic /\ dn' = dn /\ halted' = halted
      /\ i.arg = "parent" => Return(p, NULL) /\ Then(p, <<Put(s)>>)
      /\ i.arg # "parent" => Return(p, s) /\ Then(p, <<>>)
  BY <1>1 DEF NamexEnd
<1> HIDE DEF op
<1>3. Unkept(p) /\ Top(k[p]).op = op
  BY <1>0, Doing
<1>4. CalmCache(ic', dn) /\ (\A z \in Slots : ic'[z].lk = ic[z].lk) /\ ~halted'
  BY <1>2, CalmLocks DEF OnlyLk, Second
<1>5. s \in Slots
  BY <1>1 DEF Live
<1>6. CASE i.arg = "parent"
  <2>1. Others(res, res', p) /\ res'[p] = NULL
    BY <1>2, <1>6, ReturnFacts, NullSlot
  <2> QED
    BY <1>0, <1>1, <1>2, <1>3, <1>4, <1>5, <1>6, <2>1, PutsStep
<1>7. CASE i.arg # "parent"
  <2>1. Others(res, res', p) /\ res'[p] = s
    BY <1>2, <1>5, <1>7, ReturnFacts, NullSlot
  <2>2. k[p][2].op \in ToFile
    BY <1>1, <1>7 DEF Above
  <2>3. Top(k'[p]) = k[p][2]
    BY <1>1, <1>2, <1>7, Turn0
  <2>4. Top(k'[p]).op \notin ToDir /\ Top(k'[p]).op \notin TOps /\ Top(k'[p]).op \notin PutOps \cup Ends
    BY <2>2, <2>3 DEF ToFile, ToDir, TOps, PutOps, Ends
  <2>5. TopNew(p)
    BY <2>4 DEF TopNew, TOps
  <2>6. KeepsRes(k'[p], res'[p]) = NULL
    BY <2>4 DEF KeepsRes
  <2>7. LockMove(p, Keeps(Top(k[p])), KeepsRes(k[p], res[p]), NULL, KeepsRes(k'[p], res'[p]))
    BY <1>3, <1>4, <2>6, LocksSame DEF Second, Unkept
  <2> QED
    BY <1>0, <1>1, <1>2, <1>3, <1>4, <1>7, <2>1, <2>5, <2>7, Reads0
<1> QED
  BY <1>6, <1>7

\* What Straight says of a process that takes a step.
Climbs(p) == LooksUp(p) # NULL => ~ ParentGone(Num(LooksUp(p)))

\* ... or makes one turn.
LEMMA NamexStepSecond ==
    ASSUME Base, Second, NEW p \in Procs, NamexStep(p), Climbs(p)
    PROVE  Second'
<1> DEFINE i == k[p][1]
<1> DEFINE s == i.s
<1> DEFINE path == i.path
<1> DEFINE next == dirlookup(s, Head(path))
<1> DEFINE c == Load(s, NoProc)
<1> DEFINE op == "walk"
<1>0. /\ On(p, op) /\ op \in SOps /\ op \notin TOps /\ op \notin Bottom
      /\ op \notin PutOps /\ op \notin PutOps \cup ToDir \cup ToFile \cup Ends
      /\ op \notin Keepers \cup TOps /\ op \notin PutOps \cup Ends /\ op \notin LifeOps
      /\ op \in SOps \ LifeOps
  BY DEF NamexStep, SOps, TOps, Bottom, PutOps, ToDir, ToFile, Ends, Keepers, LifeOps
<1>1. /\ k[p] # <<>> /\ i.op = op /\ Arg(p) = i /\ Well(i) /\ i.t = NULL
      /\ Live(s) /\ Len(k[p]) > 1 /\ Above(i, k[p][2]) /\ res[p] = NULL /\ cwd[p] # NULL
      /\ k[p][2].op \in Deep
  BY <1>0, OnFacts
<1>2. /\ dn' = dn /\ path # <<>> /\ halted' = NoType(s) /\ Lockable(s)
      /\ \/ ic' = c /\ Return(p, NULL) /\ Then(p, <<Put(s)>>)
         \/ /\ ic' = c /\ Return(p, s) /\ Then(p, <<>>) /\ i.arg = "parent" /\ c[s].type = "DIR"
         \/ /\ next # NULL /\ HasSlot(next) /\ ic' = iget(c, next) /\ res' = res /\ c[s].type = "DIR"
            /\ ~ (i.arg = "parent" /\ Len(path) = 1)
            /\ Then(p, <<Put(s), Ins("walk", SlotOf(c, next), NULL, Tail(path), i.arg)>>)
  BY <1>1 DEF NamexStep
<1>3. Fine(s) /\ s \in Slots
  BY <1>0, <1>1, FineHeld DEF Second, Live
<1>4. ~ NoType(s) /\ Loaded(s).type = dn[Num(s)].type
  BY <1>3, FineFacts DEF Second
<1>5. CalmCache(c, dn) /\ SameRefs(ic, c) /\ c \in [Slots -> Inode]
  BY <1>3, CalmLoad DEF Second
<1>6. /\ \A z \in Slots : c[z].lk = ic[z].lk
      /\ c[s].type = Loaded(s).type
  <2>1. \A z \in Slots : c[z].lk = ic[z].lk
    BY <1>1, <1>2, LoadLk
  <2>2. FilesTypes /\ NoProc \in Procs \cup {NoProc}
    BY DEF Base
  <2>3. c[s].type = Loaded(s).type
    BY <1>1, <2>2, LoadFacts
  <2> QED
    BY <2>1, <2>3
<1>7. path \in Seq(Names \cup {".", ".."}) /\ i.arg \in {"parent", "file"} /\ "walk" = i.op
  BY <1>1 DEF Well
<1> HIDE DEF op, c
<1>8. Unkept(p) /\ Top(k[p]).op = op /\ ~halted'
  BY <1>0, <1>2, <1>4, Doing
<1>9. CASE ic' = c /\ Return(p, NULL) /\ Then(p, <<Put(s)>>)
  <2>1. Others(res, res', p) /\ res'[p] = NULL
    BY <1>9, ReturnFacts, NullSlot
  <2>2. (\A z \in Slots : ic'[z].lk = ic[z].lk) /\ CalmCache(ic', dn)
    BY <1>5, <1>6, <1>9
  <2> QED
    BY <1>0, <1>1, <1>2, <1>3, <1>8, <1>9, <2>1, <2>2, PutsStep
<1>10. CASE ic' = c /\ Return(p, s) /\ Then(p, <<>>) /\ i.arg = "parent" /\ c[s].type = "DIR"
  <2>1. Others(res, res', p) /\ res'[p] = s
    BY <1>3, <1>10, ReturnFacts, NullSlot
  <2>2. k[p][2].op \in ToDir
    BY <1>1, <1>7, <1>10 DEF Above
  <2>3. Top(k'[p]) = k[p][2]
    BY <1>1, <1>10, Turn0
  <2>4. Top(k'[p]).op \notin TOps /\ Top(k'[p]).op \notin PutOps \cup Ends
    BY <2>2, <2>3 DEF ToDir, TOps, PutOps, Ends
  <2>5. dn'[ic'[res'[p]].inum].type = "DIR"
    <3>1. ic'[s].inum = Num(s)
      BY <1>3, <1>5, <1>10 DEF SameRefs, Num
    <3> QED
      BY <1>2, <1>4, <1>6, <1>10, <2>1, <3>1
  <2>6. TopNew(p)
    BY <2>4, <2>5 DEF TopNew, TOps
  <2>7. KeepsRes(k'[p], res'[p]) = NULL
    BY <2>4 DEF KeepsRes
  <2>8. (\A z \in Slots : ic'[z].lk = ic[z].lk) /\ CalmCache(ic', dn)
    BY <1>5, <1>6, <1>10
  <2>9. LockMove(p, Keeps(Top(k[p])), KeepsRes(k[p], res[p]), NULL, KeepsRes(k'[p], res'[p]))
    BY <1>8, <2>7, <2>8, LocksSame DEF Second, Unkept
  <2> QED
    BY <1>0, <1>1, <1>2, <1>8, <1>10, <2>1, <2>6, <2>8, <2>9, Reads0
<1>11. ASSUME next # NULL, HasSlot(next), ic' = iget(c, next), res' = res, c[s].type = "DIR",
              ~ (i.arg = "parent" /\ Len(path) = 1),
              Then(p, <<Put(s), Ins("walk", SlotOf(c, next), NULL, Tail(path), i.arg)>>)
       PROVE  Second'
  <2>1. Head(path) \in Names \cup {".", ".."} /\ Tail(path) \in Seq(Names \cup {".", ".."})
    BY <1>2, <1>7
  <2>2. Safe(next)
    <3>1. dn[Num(s)].type = "DIR"
      BY <1>4, <1>6, <1>11
    <3> DEFINE h == Head(path)
    <3>2. h \in Names \cup {".", ".."} /\ dirlookup(s, h) # NULL
      BY <2>1, <1>11
    <3>4. ASSUME h = ".." PROVE ~ ParentGone(Num(s))
      <4>1. LooksUp(p) = s
        BY <1>0, <1>1, <1>2, <1>11, <3>4 DEF LooksUp, op
      <4> QED
        BY <1>3, <4>1, NullSlot DEF Climbs
    <3> HIDE DEF h
    <3>3. Safe(dirlookup(s, h))
      BY <1>3, <3>1, <3>2, <3>4, SafeEntry DEF Second
    <3> QED
      BY <3>3 DEF h
  <2> DEFINE x == SlotOf(ic, next)
  <2> DEFINE a == Put(s)
  <2> DEFINE b == Ins("walk", x, NULL, Tail(path), i.arg)
  <2>3. CalmCache(ic', dn) /\ x \in Slots /\ SlotOf(c, next) = x
        /\ \A z \in Slots : ic'[z].lk = ic[z].lk
    <3> HIDE DEF next
    <3> QED
      BY <1>5, <1>6, <1>11, <2>2, GotCalm
  <2>4. Then(p, <<a, b>>)
    BY <1>11, <2>3
  <2> HIDE DEF x
  <2>5. a \in Instr /\ Well(a) /\ a.op = "put" /\ \A d : d.op \in Deep => Above(a, d)
    BY <1>3, PutWell
  <2>6. b \in Instr /\ Well(b) /\ b.op = "walk" /\ b.arg = i.arg
    <3> DEFINE w == Tail(path)
    <3> DEFINE g == i.arg
    <3>1. w \in Seq(Names \cup {".", ".."}) /\ g \in {"parent", "file"} /\ b = Ins("walk", x, NULL, w, g)
      BY <1>7, <2>1
    <3> HIDE DEF w, g, b
    <3>2. b \in Instr /\ Well(b) /\ b.op = "walk" /\ b.arg = g
      BY <2>3, <3>1, WalkWell
    <3> QED
      BY <3>2 DEF g
  <2> HIDE DEF a, b
  <2>7. Above(b, k[p][2])
    <3>0. i.op = "walk"
      BY <1>7
    <3>1. b.op \in Over /\ k[p][2].op \in IF b.arg = "parent" THEN ToDir ELSE ToFile
      BY <1>1, <2>6, <3>0 DEF Above, Over
    <3>2. b.arg = "parent" => Last(k[p][2].path) # "/"
      BY <1>1, <1>2, <2>6, <3>0 DEF Above
    <3> QED
      BY <1>1, <2>6, <3>1, <3>2 DEF Above
  <2>8. Fit2(a, b, k[p])
    <3>1. Above(a, b)
      BY <2>5, <2>6 DEF Deep
    <3> QED
      BY <1>1, <2>5, <2>6, <2>7, <3>1 DEF Fit2, Fit1
  <2>9. Light(a) /\ Light(b)
    BY <2>5, <2>6 DEF Light, Keepers, TOps, Counting, ToDir
  <2>10. /\ Keeps(a) = NULL /\ RelyNew(a) /\ Keeps(b) = NULL /\ RelyNew(b) /\ CountsOn(p, b)
         /\ a.op \notin {"free", "freed", "new"}
    BY <2>9, LightFacts
  <2>11. Top(k'[p]) = a
    BY <1>1, <2>4, <2>8, <2>10, Turn2
  <2>12. TopNew(p)
    BY <2>9, <2>11, LightFacts
  <2>13. res'[p] = NULL /\ Others(res, res', p)
    BY <1>1, <1>11, BaseTypes
  <2>14. KeepsRes(k'[p], res'[p]) = NULL
    BY <2>13 DEF KeepsRes
  <2>15. LockMove(p, Keeps(Top(k[p])), KeepsRes(k[p], res[p]), NULL, KeepsRes(k'[p], res'[p]))
    BY <1>8, <2>3, <2>14, LocksSame DEF Second, Unkept
  <2>16. /\ LockMove(p, Keeps(Top(k[p])), KeepsRes(k[p], res[p]), Keeps(b), KeepsRes(k'[p], res'[p]))
         /\ Top(k[p]).op \notin LifeOps
    BY <1>0, <1>8, <2>10, <2>15
  <2> QED
    BY <1>1, <1>2, <1>8, <2>3, <2>4, <2>8, <2>10, <2>12, <2>13, <2>16, Reads2
<1> QED
  BY <1>2, <1>9, <1>10, <1>11

\* iput() finds that the inode is not to be freed.
LEMMA IputDecides ==
    ASSUME Base, Second, NEW p \in Procs, On(p, "put"), ic' = ic, dn' = dn, res' = res,
           halted' = halted, Then(p, <<Ins("dec", k[p][1].s, NULL, <<>>, "")>>)
    PROVE  Second'
<1> DEFINE op == "put"
           s == k[p][1].s
<1>0. On(p, op) /\ op \notin Keepers \cup TOps /\ op \notin LifeOps /\ op \in PutOps \cup Ends
      /\ op \in SOps
  BY DEF Keepers, TOps, LifeOps, PutOps, SOps
<1> HIDE DEF op
<1>1. /\ k[p] # <<>> /\ Top(k[p]).op = op /\ Keeps(Top(k[p])) = NULL
      /\ KeepsRes(k[p], res[p]) = res[p]
  BY <1>0, Doing
<1>2. s \in Slots
  BY <1>0, OnFacts DEF Live
<1> HIDE DEF s
<1>3. PICK a : a = Ins("dec", s, NULL, <<>>, "")
  OBVIOUS
<1>4. a.op = "dec" /\ a.op \in PutOps
  BY <1>3 DEF Ins, PutOps
<1>5. Fit1(a, k[p])
  <2>1. "dec" \in PutOps
    BY DEF PutOps
  <2> QED
    BY <1>1, <1>2, <1>3, <2>1, FitPut
<1>6. Light(a)
  BY <1>4 DEF Light, Keepers, TOps, Counting, ToDir
<1>7. Keeps(a) = NULL /\ RelyNew(a) /\ CountsOn(p, a) /\ a.op \notin {"free", "freed", "new"}
  BY <1>6, LightFacts
<1>8. Then(p, <<a>>)
  BY <1>3 DEF s
<1>9. Top(k'[p]) = a
  BY <1>1, <1>5, <1>8, Turn1
<1>10. TopNew(p)
  BY <1>6, <1>9, LightFacts
<1>11. KeepsRes(k'[p], res'[p]) = res[p]
  BY <1>4, <1>9 DEF KeepsRes
<1>12. LockMove(p, Keeps(Top(k[p])), KeepsRes(k[p], res[p]), NULL, KeepsRes(k'[p], res'[p]))
  BY <1>1, <1>11, LocksSame DEF Second
<1>13. CalmCache(ic', dn)
  BY CalmLocks DEF OnlyLk, Second
<1>14. Others(res, res', p) /\ ~halted' /\ Top(k[p]).op \notin LifeOps
  BY <1>0, <1>1, BaseTypes DEF Second
<1>15. LockMove(p, Keeps(Top(k[p])), KeepsRes(k[p], res[p]), Keeps(a), KeepsRes(k'[p], res'[p]))
  BY <1>7, <1>12
<1> QED
  BY <1>1, <1>5, <1>7, <1>8, <1>10, <1>13, <1>14, <1>15, Reads1

\* A lock is released.
LEMMA LockGone ==
    ASSUME NEW p, NEW s \in Slots, ic'[s].lk = NoProc, \A z \in Slots : z # s => ic'[z].lk = ic[z].lk
    PROVE  LockMove(p, s, NULL, NULL, NULL) /\ LockMove(p, NULL, s, NULL, NULL)
BY NullSlot DEF LockMove

\* A lock is taken for the result.
LEMMA LockTaken ==
    ASSUME NEW p, NEW s \in Slots, ic[s].lk = NoProc, ic'[s].lk = p,
           \A z \in Slots : z # s => ic'[z].lk = ic[z].lk
    PROVE  LockMove(p, NULL, NULL, NULL, s) /\ LockMove(p, NULL, NULL, s, NULL)
BY NullSlot DEF LockMove

\* iunlockput() releases the lock first.
LEMMA IunlockputSecond ==
    ASSUME Base, Second, NEW p \in Procs, Iunlockput(p)
    PROVE  Second'
<1> DEFINE op == "unlockput"
           s == k[p][1].s
<1>0. /\ On(p, op) /\ op \notin LifeOps /\ op \notin PutOps \cup Ends /\ op \in SOps
      /\ op \notin PutOps \cup ToDir \cup ToFile \cup Ends /\ op \in Keepers
  BY DEF Iunlockput, Keepers, LifeOps, PutOps, SOps, Ends, ToDir, ToFile
<1> HIDE DEF op
<1>1. /\ k[p] # <<>> /\ Top(k[p]) = k[p][1] /\ Top(k[p]).op = op /\ Arg(p) = k[p][1]
      /\ KeepsRes(k[p], res[p]) = NULL
  BY <1>0, Doing
<1>2. s \in Slots /\ res[p] = NULL
  BY <1>0, OnFacts DEF Live
<1>3. Keeps(Top(k[p])) = s
  BY <1>0, <1>1 DEF Keeps
<1>4. /\ Locking(ic', s, NoProc) /\ Then(p, <<Put(s)>>) /\ dn' = dn /\ res' = res /\ halted' = halted
  BY <1>1 DEF Iunlockput, Locking
<1> HIDE DEF s
<1>5. /\ SameRefs(ic, ic') /\ ic'[s] = [ic[s] EXCEPT !.lk = NoProc]
      /\ \A z \in Slots : z # s => ic'[z] = ic[z]
  <2>1. NoProc \in Procs \cup {NoProc}
    OBVIOUS
  <2> QED
    BY <1>2, <1>4, <2>1, LkSet
<1>6. ic[s] \in Inode
  BY <1>2, BaseTypes
<1>7. /\ ic'[s].lk = NoProc /\ ic'[s].valid = ic[s].valid /\ ic'[s].type = ic[s].type
      /\ ic'[s].nlink = ic[s].nlink /\ ic'[s].ref = ic[s].ref /\ ic'[s].inum = ic[s].inum
  BY <1>5, <1>6 DEF Inode
<1>8. OnlyLk(ic')
  BY <1>5, <1>7 DEF OnlyLk
<1>9. CalmCache(ic', dn)
  BY <1>8, CalmLocks DEF Second
<1>10. PICK a : a = Put(s)
  OBVIOUS
<1>11. Fit1(a, k[p])
  <2>1. "put" \in PutOps
    BY DEF PutOps
  <2> QED
    BY <1>1, <1>2, <1>10, <2>1, FitPut DEF Put
<1>12. a.op = "put"
  BY <1>2, <1>10, PutWell
<1>13. Light(a)
  BY <1>12 DEF Light, Keepers, TOps, Counting, ToDir
<1>14. Keeps(a) = NULL /\ RelyNew(a) /\ CountsOn(p, a) /\ a.op \notin {"free", "freed", "new"}
  BY <1>13, LightFacts
<1>15. Then(p, <<a>>)
  BY <1>4, <1>10
<1>16. Top(k'[p]) = a
  BY <1>1, <1>11, <1>15, Turn1
<1>17. TopNew(p)
  BY <1>13, <1>16, LightFacts
<1>18. KeepsRes(k'[p], res'[p]) = NULL
  BY <1>2, <1>4 DEF KeepsRes
<1>19. LockMove(p, s, NULL, NULL, NULL)
  BY <1>2, <1>5, <1>7, LockGone
<1>20. Others(res, res', p) /\ ~halted' /\ Top(k[p]).op \notin LifeOps
  BY <1>0, <1>1, <1>4, BaseTypes DEF Second
<1>21. LockMove(p, Keeps(Top(k[p])), KeepsRes(k[p], res[p]), Keeps(a), KeepsRes(k'[p], res'[p]))
  BY <1>1, <1>3, <1>14, <1>18, <1>19
<1> QED
  BY <1>1, <1>4, <1>9, <1>11, <1>14, <1>15, <1>17, <1>20, <1>21, Reads1

\* What create() or open() has returned is handed to iunlockput().
LEMMA UnlocksStep ==
    ASSUME Base, Second, NEW p \in Procs, NEW op \in Ends, On(p, op), res[p] # NULL,
           Then(p, <<Unlock(res[p])>>), Return(p, NULL), ic' = ic, dn' = dn, halted' = halted
    PROVE  Second'
<1>0. /\ op \notin LifeOps /\ op \in PutOps \cup Ends /\ op \notin Over /\ op \notin Keepers \cup TOps
  BY DEF Ends, Over, LifeOps, PutOps, Keepers, TOps
<1>1. /\ k[p] # <<>> /\ Top(k[p]).op = op
      /\ Keeps(Top(k[p])) = NULL /\ KeepsRes(k[p], res[p]) = res[p]
  BY <1>0, Doing
<1>2. Live(res[p]) /\ ~ (Len(k[p]) > 1)
  BY <1>0, OnFacts
<1>3. PICK s \in Slots : s = res[p]
  BY <1>2 DEF Live
<1>4. PICK a : a = Unlock(s)
  OBVIOUS
<1>5. a \in Instr /\ Well(a) /\ a.op = "unlockput" /\ a.s = s /\ a.op \in Bottom
  BY <1>4, UnlockWell
<1>6. Fit1(a, k[p])
  BY <1>2, <1>5, FitLast
<1>7. Keeps(a) = s
  BY <1>5 DEF Keeps, Keepers
<1>8. RelyNew(a) /\ CountsOn(p, a) /\ a.op \notin {"free", "freed", "new"}
  BY <1>5 DEF RelyNew, CountsOn, Counting
<1>9. Then(p, <<a>>)
  BY <1>3, <1>4
<1>10. Top(k'[p]) = a
  BY <1>1, <1>6, <1>9, Turn1
<1>11. Others(res, res', p) /\ res'[p] = NULL /\ ~halted'
  BY ReturnFacts, NullSlot DEF Second
<1>12. TopNew(p)
  BY <1>5, <1>10, <1>11 DEF TopNew, TOps
<1>13. KeepsRes(k'[p], res'[p]) = NULL
  BY <1>11 DEF KeepsRes
<1>14. ic[s].lk = p
  BY <1>1, <1>3, LockFacts DEF Second
<1>15. LockMove(p, NULL, s, s, NULL)
  BY <1>14, NullSlot DEF LockMove
<1>16. CalmCache(ic', dn)
  BY CalmLocks DEF OnlyLk, Second
<1>17. LockMove(p, Keeps(Top(k[p])), KeepsRes(k[p], res[p]), Keeps(a), KeepsRes(k'[p], res'[p]))
  BY <1>1, <1>3, <1>7, <1>13, <1>15
<1>18. Top(k[p]).op \notin LifeOps
  BY <1>0, <1>1
<1> QED
  BY <1>1, <1>6, <1>8, <1>9, <1>11, <1>12, <1>16, <1>17, <1>18, Reads1

\* mkdir() and mknod() do so, ...
LEMMA MadeSecond ==
    ASSUME Base, Second, NEW p \in Procs, Made(p)
    PROVE  Second'
<1> DEFINE op == "made"
<1>1. /\ op \in Ends /\ On(p, op) /\ res[p] # NULL /\ Then(p, <<Unlock(res[p])>>) /\ Return(p, NULL)
      /\ ic' = ic /\ dn' = dn /\ halted' = halted
  BY DEF Made, Ends
<1> HIDE DEF op
<1> QED
  BY <1>1, UnlocksStep

\* ... and open() without a file.
LEMMA OpenFailSecond ==
    ASSUME Base, Second, NEW p \in Procs, OpenFail(p)
    PROVE  Second'
<1> DEFINE op == "opened"
<1>1. /\ op \in Ends /\ On(p, op) /\ res[p] # NULL /\ Then(p, <<Unlock(res[p])>>) /\ Return(p, NULL)
      /\ ic' = ic /\ dn' = dn /\ halted' = halted
  BY DEF OpenFail, Ends
<1> HIDE DEF op
<1> QED
  BY <1>1, UnlocksStep

\* open() gives the inode to a file.
LEMMA OpenFileSecond ==
    ASSUME Base, Second, NEW p \in Procs, OpenFile(p)
    PROVE  Second'
<1> DEFINE op == "opened"
<1>0. /\ On(p, op) /\ op \notin LifeOps /\ op \in PutOps \cup Ends /\ op \notin Over
      /\ op \notin Keepers \cup TOps
  BY DEF OpenFile, Ends, Over, LifeOps, PutOps, Keepers, TOps
<1> HIDE DEF op
<1>1. /\ k[p] # <<>> /\ Top(k[p]).op = op
      /\ Keeps(Top(k[p])) = NULL /\ KeepsRes(k[p], res[p]) = res[p]
  BY <1>0, Doing
<1>2. Live(res[p]) /\ ~ (Len(k[p]) > 1) /\ res[p] # NULL
  BY <1>0, OnFacts DEF OpenFile
<1>3. PICK s \in Slots : s = res[p]
  BY <1>2 DEF Live
<1>4. /\ Locking(ic', s, NoProc) /\ Then(p, <<>>) /\ dn' = dn /\ Return(p, NULL) /\ halted' = halted
  BY <1>3 DEF OpenFile, Locking
<1>5. /\ SameRefs(ic, ic') /\ ic'[s] = [ic[s] EXCEPT !.lk = NoProc]
      /\ \A z \in Slots : z # s => ic'[z] = ic[z]
  <2>1. NoProc \in Procs \cup {NoProc}
    OBVIOUS
  <2> QED
    BY <1>3, <1>4, <2>1, LkSet
<1>6. ic[s] \in Inode
  BY <1>3, BaseTypes
<1>7. /\ ic'[s].lk = NoProc /\ ic'[s].valid = ic[s].valid /\ ic'[s].type = ic[s].type
      /\ ic'[s].nlink = ic[s].nlink /\ ic'[s].ref = ic[s].ref /\ ic'[s].inum = ic[s].inum
  BY <1>5, <1>6 DEF Inode
<1>8. OnlyLk(ic')
  BY <1>5, <1>7 DEF OnlyLk
<1>9. CalmCache(ic', dn)
  BY <1>8, CalmLocks DEF Second
<1>11. Others(res, res', p) /\ res'[p] = NULL /\ ~halted'
  BY <1>4, ReturnFacts, NullSlot DEF Second
<1>12. Top(k'[p]) = None
  BY <1>1, <1>2, <1>4, Turn0
<1>13. TopNew(p)
  BY <1>11, <1>12, KeepsNone DEF TopNew, TOps
<1>14. KeepsRes(k'[p], res'[p]) = NULL
  BY <1>11 DEF KeepsRes
<1>15. LockMove(p, NULL, s, NULL, NULL)
  BY <1>5, <1>7, LockGone
<1>16. LockMove(p, Keeps(Top(k[p])), KeepsRes(k[p], res[p]), NULL, KeepsRes(k'[p], res'[p]))
  BY <1>1, <1>3, <1>14, <1>15
<1>17. Top(k[p]).op \notin LifeOps
  BY <1>0, <1>1
<1> QED
  BY <1>1, <1>4, <1>9, <1>11, <1>13, <1>16, <1>17, Reads0

\* A call that goes on with the inode that namex() has found.
LEMMA ResDoing ==
    ASSUME Base, Second, NEW p \in Procs, NEW op, On(p, op), op \in ToDir \cup ToFile, res[p] # NULL
    PROVE  /\ k[p] # <<>> /\ Arg(p) = k[p][1] /\ Top(k[p]) = k[p][1] /\ Top(k[p]).op = op
           /\ Fine(res[p]) /\ Live(res[p]) /\ res[p] \in Slots /\ Unkept(p)
           /\ Top(k[p]).op \notin LifeOps
           /\ ~ NoType(res[p]) /\ Loaded(res[p]).type = dn[Num(res[p])].type
           /\ Loaded(res[p]).nlink = dn[Num(res[p])].nlink
           /\ op \in ToDir => dn[Num(res[p])].type = "DIR"
<1>1. /\ op \notin Keepers \cup TOps /\ op \notin PutOps \cup Ends /\ op \notin LifeOps
  BY DEF ToDir, ToFile, TOps, Keepers, PutOps, Ends, LifeOps
<1>2. k[p] # <<>> /\ Arg(p) = k[p][1] /\ Top(k[p]) = k[p][1] /\ Top(k[p]).op = op /\ Unkept(p)
  BY <1>1, Doing
<1>3. Live(res[p]) /\ res[p] \in Slots
  BY OnFacts DEF Live
<1>4. Fine(res[p])
  BY FineHeld DEF Second
<1>5. /\ ~ NoType(res[p]) /\ Loaded(res[p]).type = dn[Num(res[p])].type
      /\ Loaded(res[p]).nlink = dn[Num(res[p])].nlink
  BY <1>4, FineFacts DEF Second
<1>6. op \in ToDir => dn[Num(res[p])].type = "DIR"
  BY <1>2 DEF Second, Relying, TopRelies
<1> QED
  BY <1>1, <1>2, <1>3, <1>4, <1>5, <1>6

\* ilock() and iunlock().
LEMMA LoadsCalm ==
    ASSUME Base, Second, NEW s, Fine(s), Lockable(s)
    PROVE  /\ CalmCache(Load(s, NoProc), dn) /\ \A z \in Slots : Load(s, NoProc)[z].lk = ic[z].lk
           /\ SameRefs(ic, Load(s, NoProc)) /\ Load(s, NoProc) \in [Slots -> Inode]
<1>1. NoProc \in Procs \cup {NoProc}
  OBVIOUS
<1>2. Live(s)
  BY DEF Fine
<1> QED
  BY <1>1, <1>2, CalmLoad, LoadLk DEF Second

\* ilock() alone.
LEMMA LoadsLock ==
    ASSUME Base, Second, NEW p \in Procs, NEW s, Fine(s), Lockable(s)
    PROVE  /\ CalmCache(Load(s, p), dn) /\ SameRefs(ic, Load(s, p)) /\ Load(s, p) \in [Slots -> Inode]
           /\ Load(s, p)[s].lk = p /\ Load(s, p)[s].valid /\ ic[s].lk = NoProc
           /\ Load(s, p)[s].type = Loaded(s).type /\ Load(s, p)[s].nlink = Loaded(s).nlink
           /\ \A z \in Slots : z # s => Load(s, p)[z] = ic[z]
<1>1. p \in Procs \cup {NoProc} /\ FilesTypes
  BY DEF Base
<1>2. Live(s)
  BY DEF Fine
<1>3. /\ CalmCache(Load(s, p), dn) /\ SameRefs(ic, Load(s, p)) /\ Load(s, p) \in [Slots -> Inode]
  BY <1>1, CalmLoad DEF Second
<1>4. /\ Load(s, p)[s].lk = p /\ Load(s, p)[s].valid
      /\ \A z \in Slots : z # s => Load(s, p)[z] = ic[z]
  BY <1>1, <1>2, LoadLk
<1>5. Load(s, p)[s].type = Loaded(s).type /\ Load(s, p)[s].nlink = Loaded(s).nlink
  BY <1>1, <1>2, LoadFacts
<1> QED
  BY <1>3, <1>4, <1>5 DEF Lockable

\* The inode is looked at and put.
LEMMA LooksPut ==
    ASSUME Base, Second, NEW p \in Procs, k[p] # <<>>, NEW s, Fine(s), Lockable(s),
           ic' = Load(s, NoProc), dn' = dn, ~halted', Unkept(p), Top(k[p]).op \notin LifeOps,
           Others(res, res', p), res'[p] = NULL, NEW z \in Slots, Then(p, <<Put(z)>>)
    PROVE  Second'
<1>1. CalmCache(ic', dn) /\ \A x \in Slots : ic'[x].lk = ic[x].lk
  BY LoadsCalm
<1> QED
  BY <1>1, PutsStep

\* open() locks the inode, or puts it if it may not be opened.
LEMMA OpenLockSecond ==
    ASSUME Base, Second, NEW p \in Procs, OpenLock(p)
    PROVE  Second'
<1> DEFINE op == "open"
<1> DEFINE s == res[p]
<1>0. On(p, op) /\ op \in ToDir \cup ToFile /\ op \notin Over /\ s # NULL
  BY DEF OpenLock, ToFile, Over, PutOps
<1> HIDE DEF op
<1>1. /\ k[p] # <<>> /\ Fine(s) /\ Live(s) /\ s \in Slots /\ Unkept(p) /\ Top(k[p]).op \notin LifeOps
      /\ ~ NoType(s)
  BY <1>0, ResDoing
<1>2. ~ (Len(k[p]) > 1)
  BY <1>0, OnFacts
<1>3. /\ dn' = dn /\ halted' = NoType(s) /\ Lockable(s)
      /\ \/ ic' = Load(s, NoProc) /\ Then(p, <<Put(s)>>) /\ Return(p, NULL)
         \/ ic' = Load(s, p) /\ Then(p, <<Ins("opened", NULL, NULL, <<>>, "")>>) /\ res' = res
  BY DEF OpenLock
<1>4. ~halted'
  BY <1>1, <1>3
<1>5. ASSUME ic' = Load(s, NoProc), Then(p, <<Put(s)>>), Return(p, NULL)
      PROVE  Second'
  <2>1. Others(res, res', p) /\ res'[p] = NULL
    BY <1>5, ReturnFacts, NullSlot
  <2> HIDE DEF s
  <2> QED
    BY <1>1, <1>3, <1>4, <1>5, <2>1, LooksPut
<1>6. ASSUME ic' = Load(s, p), Then(p, <<Ins("opened", NULL, NULL, <<>>, "")>>), res' = res
      PROVE  Second'
  <2>1. PICK a : NoneIns(a, "opened") /\ Then(p, <<a>>)
    BY <1>6 DEF NoneIns
  <2>2. a \in Instr /\ Well(a) /\ a.op = "opened" /\ a.op \in Bottom
    BY <2>1, NoneWell
  <2>3. Fit1(a, k[p])
    BY <1>2, <2>2, FitLast
  <2>4. Light(a)
    BY <2>2 DEF Light, Keepers, TOps, Counting, ToDir
  <2>5. Keeps(a) = NULL /\ RelyNew(a) /\ CountsOn(p, a) /\ a.op \notin {"free", "freed", "new"}
    BY <2>4, LightFacts
  <2>6. Top(k'[p]) = a
    BY <1>1, <2>1, <2>3, Turn1
  <2>7. TopNew(p)
    BY <2>4, <2>6, LightFacts
  <2>8. KeepsRes(k'[p], res'[p]) = s
    BY <1>6, <2>2, <2>6 DEF KeepsRes, Ends
  <2>9. Others(res, res', p)
    BY <1>6, BaseTypes
  <2> HIDE DEF s
  <2>10. /\ CalmCache(ic', dn) /\ ic[s].lk = NoProc /\ ic'[s].lk = p
         /\ \A z \in Slots : z # s => ic'[z] = ic[z]
    <3>1. Fine(s) /\ Lockable(s)
      BY <1>1, <1>3
    <3>2. /\ CalmCache(Load(s, p), dn) /\ ic[s].lk = NoProc /\ Load(s, p)[s].lk = p
          /\ \A z \in Slots : z # s => Load(s, p)[z] = ic[z]
      BY <3>1, LoadsLock
    <3>3. ic' = Load(s, p)
      BY <1>6
    <3> HIDE DEF Load
    <3> QED
      BY <3>2, <3>3
  <2>11. LockMove(p, NULL, NULL, NULL, s)
    BY <1>1, <2>10, LockTaken
  <2>12. LockMove(p, Keeps(Top(k[p])), KeepsRes(k[p], res[p]), Keeps(a), KeepsRes(k'[p], res'[p]))
    BY <1>1, <2>5, <2>8, <2>11 DEF Unkept
  <2> QED
    BY <1>1, <1>3, <1>4, <2>1, <2>3, <2>5, <2>7, <2>9, <2>10, <2>12, Reads1
<1> QED
  BY <1>3, <1>5, <1>6

\* chdir() puts the old directory, or what is not a directory.
LEMMA ChdirSecond ==
    ASSUME Base, Second, NEW p \in Procs, Chdir(p)
    PROVE  Second'
<1> DEFINE op == "chdir"
<1> DEFINE s == res[p]
<1>0. On(p, op) /\ op \in ToDir \cup ToFile /\ op \notin PutOps /\ s # NULL
  BY DEF Chdir, ToFile, PutOps
<1> HIDE DEF op
<1>1. /\ k[p] # <<>> /\ Fine(s) /\ Live(s) /\ s \in Slots /\ Unkept(p) /\ Top(k[p]).op \notin LifeOps
      /\ ~ NoType(s)
  BY <1>0, ResDoing
<1>2. cwd[p] \in Slots
  BY <1>0, OnFacts DEF Live
<1>3. /\ dn' = dn /\ halted' = NoType(s) /\ Lockable(s) /\ ic' = Load(s, NoProc) /\ Return(p, NULL)
      /\ Then(p, <<Put(cwd[p])>>) \/ Then(p, <<Put(s)>>)
  BY DEF Chdir
<1>4. ~halted'
  BY <1>1, <1>3
<1>5. Others(res, res', p) /\ res'[p] = NULL
  BY <1>3, ReturnFacts, NullSlot
<1>6. PICK z \in Slots : Then(p, <<Put(z)>>)
  BY <1>1, <1>2, <1>3
<1> HIDE DEF s
<1> QED
  BY <1>1, <1>3, <1>4, <1>5, <1>6, LooksPut

\* create() returns an existing file locked.
LEMMA CreateExistsSecond ==
    ASSUME Base, Second, NEW p \in Procs, CreateExists(p)
    PROVE  Second'
<1> DEFINE op == "exists"
<1> DEFINE s == k[p][1].s
<1>0. /\ On(p, op) /\ op \in SOps \ LifeOps /\ op \notin LifeOps /\ op \notin Keepers \cup TOps
      /\ op \notin PutOps \cup Ends /\ op \notin Bottom /\ op \in {"create", "exists", "new"}
  BY DEF CreateExists, SOps, LifeOps, Keepers, TOps, PutOps, Ends, Bottom
<1> HIDE DEF op
<1>1. k[p] # <<>> /\ Arg(p) = k[p][1] /\ Top(k[p]) = k[p][1] /\ Top(k[p]).op = op /\ Unkept(p)
  BY <1>0, Doing
<1>2. Len(k[p]) > 1 /\ k[p][2].op \in Ends
  BY <1>0, OnFacts DEF Above
<1>3. Fine(s) /\ s \in Slots
  BY <1>0, <1>1, FineHeld DEF Second, Fine, Live
<1>4. /\ dn' = dn /\ halted' = NoType(s) /\ Lockable(s)
      /\ \/ ic' = Load(s, p) /\ Return(p, s) /\ Then(p, <<>>)
         \/ ic' = Load(s, NoProc) /\ Return(p, NULL) /\ Then(p, <<Put(s)>>)
  BY <1>1 DEF CreateExists
<1> HIDE DEF s
<1>5. ~halted' /\ Top(k[p]).op \notin LifeOps
  BY <1>0, <1>1, <1>3, <1>4, FineFacts DEF Second
<1>6. ASSUME ic' = Load(s, NoProc), Then(p, <<Put(s)>>), Return(p, NULL)
      PROVE  Second'
  <2>1. Others(res, res', p) /\ res'[p] = NULL
    BY <1>6, ReturnFacts, NullSlot
  <2> QED
    BY <1>1, <1>3, <1>4, <1>5, <1>6, <2>1, LooksPut
<1>7. ASSUME ic' = Load(s, p), Return(p, s), Then(p, <<>>)
      PROVE  Second'
  <2>1. Others(res, res', p) /\ res'[p] = s
    BY <1>3, <1>7, ReturnFacts, NullSlot
  <2>2. Top(k'[p]) = k[p][2]
    BY <1>1, <1>2, <1>7, Turn0
  <2>3. KeepsRes(k'[p], res'[p]) = s /\ TopNew(p)
    BY <1>2, <2>1, <2>2 DEF KeepsRes, TopNew, Ends, TOps, ToDir
  <2>4. /\ CalmCache(ic', dn) /\ ic[s].lk = NoProc /\ ic'[s].lk = p
        /\ \A z \in Slots : z # s => ic'[z] = ic[z]
    BY <1>3, <1>4, <1>7, LoadsLock
  <2>5. LockMove(p, NULL, NULL, NULL, s)
    BY <1>3, <2>4, LockTaken
  <2>6. LockMove(p, Keeps(Top(k[p])), KeepsRes(k[p], res[p]), NULL, KeepsRes(k'[p], res'[p]))
    BY <1>1, <2>3, <2>5 DEF Unkept
  <2> QED
    BY <1>1, <1>4, <1>5, <1>7, <2>1, <2>3, <2>4, <2>6, Reads0
<1> QED
  BY <1>4, <1>6, <1>7

\* A directory is locked, and iget() called for what it names.
LEMMA LocksGot ==
    ASSUME Base, Second, NEW p \in Procs, NEW s, Fine(s), Lockable(s), NEW i, Safe(i), HasSlot(i),
           ic' = iget(Load(s, p), i)
    PROVE  /\ CalmCache(ic', dn) /\ SlotOf(ic, i) \in Slots /\ ic'[SlotOf(ic, i)].inum = i
           /\ ic'[s].valid /\ ic'[s].inum = Num(s) /\ LockMove(p, NULL, NULL, s, NULL)
<1> DEFINE c == Load(s, p)
<1>1. /\ CalmCache(c, dn) /\ SameRefs(ic, c) /\ c \in [Slots -> Inode]
      /\ c[s].lk = p /\ c[s].valid /\ ic[s].lk = NoProc
      /\ \A z \in Slots : z # s => c[z] = ic[z]
  BY LoadsLock
<1>2. ic' = iget(c, i)
  OBVIOUS
<1> HIDE DEF c
<1>3. /\ CalmCache(ic', dn) /\ SlotOf(ic, i) \in Slots /\ ic'[SlotOf(ic, i)].inum = i
      /\ \A z \in Slots : ic'[z].lk = c[z].lk
      /\ \A z \in Slots : ic[z].ref > 0 /\ c[z].valid => ic'[z].valid
  BY <1>1, <1>2, GotCalm
<1>4. s \in Slots /\ ic[s].ref > 0
  BY FineFacts DEF Second
<1>5. ic'[s].inum = Num(s)
  BY <1>3, <1>4 DEF CalmCache, Num
<1>6. LockMove(p, NULL, NULL, s, NULL)
  BY <1>1, <1>3, <1>4, LockTaken
<1> QED
  BY <1>1, <1>3, <1>4, <1>5, <1>6

\* A call that has counted a link.
LEMMA CountingDoing ==
    ASSUME Base, Second, NEW p \in Procs, NEW op \in Counting, On(p, op)
    PROVE  /\ k[p] # <<>> /\ ~ (Len(k[p]) > 1) /\ Fine(k[p][1].s) /\ k[p][1].s \in Slots
           /\ Pending(k[p], ic) = Num(k[p][1].s) /\ Arg(p) = k[p][1] /\ Top(k[p]) = k[p][1]
           /\ Top(k[p]).op = op /\ Top(k[p]).op \notin LifeOps
           /\ op \in {"link2", "bad"} => dn[Num(k[p][1].s)].type # "DIR"
           /\ op = "unlink3" => ic[k[p][1].s].valid
<1>1. op \in SOps \ LifeOps /\ op \notin Over
  BY DEF Counting, SOps, LifeOps, Over, PutOps
<1>2. /\ k[p] # <<>> /\ ~ (Len(k[p]) > 1)
  BY <1>1, OnFacts
<1>3. Arg(p) = k[p][1] /\ Top(k[p]) = k[p][1] /\ Top(k[p]).op = op
  BY Doing
<1>4. Fine(k[p][1].s) /\ k[p][1].s \in Slots
  BY <1>1, <1>2, <1>3, FineHeld DEF Second, Fine, Live
<1>5. View(k[p], 0) = k[p][1]
  BY <1>2, <1>3, TurnPlaces
<1>6. Pending(k[p], ic) = Num(k[p][1].s)
  BY <1>3, <1>5 DEF Pending, Counting, Num
<1>7. Relies(k[p][1])
  <2>1. 0 \in Nat
    OBVIOUS
  <2> QED
    BY <1>5, <2>1 DEF Second, Relying
<1> QED
  BY <1>1, <1>2, <1>3, <1>4, <1>6, <1>7 DEF Relies

\* What link() puts back is what it has counted.
LEMMA BadIns ==
    ASSUME Base, Second, NEW p \in Procs, NEW op \in {"link2"}, On(p, op), CalmCache(ic', dn), dn' = dn,
           NEW a, OneIns(a, "bad", k[p][1].s)
    PROVE  /\ a \in Instr /\ Well(a) /\ a.op = "bad" /\ a.op \in Bottom /\ Keeps(a) = NULL
           /\ RelyNew(a) /\ CountsOn(p, a)
<1> DEFINE s == k[p][1].s
<1>0. op \in Counting
  BY DEF Counting
<1>1. s \in Slots /\ Fine(s) /\ Pending(k[p], ic) = Num(s) /\ dn[Num(s)].type # "DIR"
  BY <1>0, CountingDoing
<1>2. OneIns(a, "bad", s)
  OBVIOUS
<1> HIDE DEF s
<1>3. a \in Instr /\ Well(a) /\ a.op = "bad" /\ a.s = s /\ a.op \in Bottom
  <2>1. "bad" \in PutOps \cup {"unlockput", "bad", "unlink3"}
    OBVIOUS
  <2> QED
    BY <1>1, <1>2, <2>1, OneWell
<1>4. ic'[s].inum = Num(s)
  BY <1>1, FineFacts DEF CalmCache, Num, Second
<1> QED
  BY <1>1, <1>3, <1>4 DEF RelyNew, CountsOn, Keeps, Keepers, TOps

\* The parent of the new name is not there.
LEMMA Link2FailSecond ==
    ASSUME Base, Second, NEW p \in Procs, Link2Fail(p)
    PROVE  Second'
<1> DEFINE op == "link2"
<1>0. /\ On(p, op) /\ op \in Counting /\ op \in {"link2"} /\ op \notin Keepers \cup TOps
      /\ op \notin PutOps \cup Ends
  BY DEF Link2Fail, Counting, Keepers, TOps, PutOps, Ends
<1> HIDE DEF op
<1>1. /\ k[p] # <<>> /\ ~ (Len(k[p]) > 1) /\ Arg(p) = k[p][1] /\ Top(k[p]).op \notin LifeOps
  BY <1>0, CountingDoing
<1>2. /\ Then(p, <<Ins("bad", k[p][1].s, NULL, <<>>, "")>>) /\ ic' = ic /\ dn' = dn /\ res' = res
      /\ halted' = halted /\ res[p] = NULL
  BY <1>1 DEF Link2Fail
<1>3. PICK a : OneIns(a, "bad", k[p][1].s) /\ Then(p, <<a>>)
  BY <1>2 DEF OneIns
<1>4. CalmCache(ic', dn)
  BY <1>2, CalmLocks DEF OnlyLk, Second
<1>5. /\ a \in Instr /\ Well(a) /\ a.op = "bad" /\ a.op \in Bottom /\ Keeps(a) = NULL
      /\ RelyNew(a) /\ CountsOn(p, a)
  BY <1>0, <1>2, <1>3, <1>4, BadIns
<1>6. Fit1(a, k[p])
  BY <1>1, <1>5, FitLast
<1>7. Top(k'[p]) = a
  BY <1>1, <1>3, <1>6, Turn1
<1>8. Unkept(p)
  BY <1>0, Doing
<1>9. Others(res, res', p) /\ ~halted' /\ KeepsRes(k'[p], res'[p]) = NULL /\ TopNew(p)
  <2>1. Others(res, res', p) /\ ~halted' /\ res'[p] = NULL
    BY <1>2, BaseTypes DEF Second
  <2> QED
    BY <1>5, <1>7, <2>1 DEF KeepsRes, TopNew, TOps, ToDir
<1>10. LockMove(p, Keeps(Top(k[p])), KeepsRes(k[p], res[p]), NULL, KeepsRes(k'[p], res'[p]))
  BY <1>2, <1>8, <1>9, LocksSame DEF Second, Unkept
<1>11. LockMove(p, Keeps(Top(k[p])), KeepsRes(k[p], res[p]), Keeps(a), KeepsRes(k'[p], res'[p]))
  BY <1>5, <1>10
<1>12. a.op \notin {"free", "freed", "new"}
  BY <1>5
<1> QED
  BY <1>1, <1>2, <1>3, <1>4, <1>5, <1>6, <1>9, <1>11, <1>12, Reads1

\* create() finds the name.
LEMMA CreateFoundSecond ==
    ASSUME Base, Second, NEW p \in Procs, CreateFound(p), Climbs(p)
    PROVE  Second'
<1> DEFINE op == "create"
<1> DEFINE dp == res[p]
<1> DEFINE name == Last(k[p][1].path)
<1> DEFINE i == dirlookup(dp, name)
<1> DEFINE x == SlotOf(ic, i)
<1> DEFINE g == k[p][1].arg
<1>0. On(p, op) /\ op \in ToDir \cup ToFile /\ op \in ToDir /\ dp # NULL /\ op = "create"
  BY DEF CreateFound, ToDir
<1> HIDE DEF op
<1>1. /\ k[p] # <<>> /\ Arg(p) = k[p][1] /\ Fine(dp) /\ dp \in Slots /\ Unkept(p)
      /\ Top(k[p]).op \notin LifeOps /\ ~ NoType(dp) /\ dn[Num(dp)].type = "DIR"
  BY <1>0, ResDoing
<1>2. /\ Len(k[p]) > 1 /\ k[p][2].op \in Ends /\ name \in Names \cup {".", ".."} /\ g \in Kinds
  <2>1. /\ Len(k[p]) > 1 /\ k[p][2].op \in Ends /\ name \in Names \cup {".", ".."}
        /\ Well(k[p][1]) /\ k[p][1].op = op
    BY <1>0, ResFacts
  <2> QED
    BY <1>0, <2>1 DEF Well
<1>3. /\ halted' = NoType(dp) /\ Return(p, NULL) /\ dn' = dn /\ Lockable(dp)
      /\ i # NULL /\ HasSlot(i) /\ ic' = iget(Load(dp, NoProc), i)
      /\ Then(p, <<Put(dp), Ins("exists", x, NULL, <<>>, g)>>)
  BY <1>1 DEF CreateFound
<1>4. Others(res, res', p) /\ res'[p] = NULL /\ ~halted'
  BY <1>1, <1>3, ReturnFacts, NullSlot
<1>20. ASSUME name = ".." PROVE ~ ParentGone(Num(dp))
  <2>1. LooksUp(p) = dp
    BY <1>0, <1>1, <1>20 DEF LooksUp, On
  <2> QED
    BY <1>0, <2>1 DEF Climbs
<1> HIDE DEF dp, g
<1>5. Safe(i)
  <2> HIDE DEF name
  <2> QED
    BY <1>1, <1>2, <1>3, <1>20, SafeEntry DEF Second
<1> HIDE DEF i
<1>6. /\ CalmCache(ic', dn) /\ x \in Slots /\ \A z \in Slots : ic'[z].lk = ic[z].lk
  <2>1. PICK c : c = Load(dp, NoProc)
    OBVIOUS
  <2>2. /\ CalmCache(c, dn) /\ (\A z \in Slots : c[z].lk = ic[z].lk)
        /\ SameRefs(ic, c) /\ c \in [Slots -> Inode]
    BY <1>1, <1>3, <2>1, LoadsCalm
  <2>3. ic' = iget(c, i)
    BY <1>3, <2>1
  <2> QED
    BY <1>3, <1>5, <2>2, <2>3, GotCalm
<1> HIDE DEF x
<1>7. PICK a : a = Put(dp)
  OBVIOUS
<1>8. PICK b : ExistsIns(b, x, g)
  BY DEF ExistsIns
<1>9. Then(p, <<a, b>>)
  BY <1>3, <1>7, <1>8 DEF ExistsIns
<1>10. a \in Instr /\ Well(a) /\ a.op = "put" /\ \A d : d.op \in Deep => Above(a, d)
  BY <1>1, <1>7, PutWell
<1>11. b \in Instr /\ Well(b) /\ b.op = "exists"
  BY <1>2, <1>6, <1>8, ExistsWell
<1>12. Fit2(a, b, k[p])
  <2>1. Above(a, b)
    BY <1>10, <1>11 DEF Deep
  <2>2. Above(b, k[p][2])
    BY <1>2, <1>11 DEF Above, Over, Deep, Ends
  <2> QED BY <1>2, <1>10, <1>11, <2>1, <2>2 DEF Fit2, Fit1
<1>13. Light(a) /\ Light(b)
  BY <1>10, <1>11 DEF Light, Keepers, TOps, Counting, ToDir
<1>14. /\ Keeps(a) = NULL /\ RelyNew(a) /\ Keeps(b) = NULL /\ RelyNew(b) /\ CountsOn(p, b)
       /\ a.op \notin {"free", "freed", "new"}
  BY <1>13, LightFacts
<1>15. Top(k'[p]) = a
  BY <1>1, <1>9, <1>12, <1>14, Turn2
<1>16. TopNew(p)
  BY <1>13, <1>15, LightFacts
<1>17. KeepsRes(k'[p], res'[p]) = NULL
  BY <1>4 DEF KeepsRes
<1>18. LockMove(p, Keeps(Top(k[p])), KeepsRes(k[p], res[p]), NULL, KeepsRes(k'[p], res'[p]))
  BY <1>1, <1>6, <1>17, LocksSame DEF Second, Unkept
<1>19. LockMove(p, Keeps(Top(k[p])), KeepsRes(k[p], res[p]), Keeps(b), KeepsRes(k'[p], res'[p]))
  BY <1>14, <1>18
<1> QED
  BY <1>1, <1>3, <1>4, <1>6, <1>9, <1>12, <1>14, <1>16, <1>19, Reads2

\* unlink() looks the name up and keeps the directory locked.
LEMMA Unlink1Second ==
    ASSUME Base, Second, NEW p \in Procs, Unlink1(p)
    PROVE  Second'
<1> DEFINE op == "unlink"
<1> DEFINE dp == res[p]
<1> DEFINE name == Last(k[p][1].path)
<1> DEFINE i == dirlookup(dp, name)
<1>0. On(p, op) /\ op \in ToDir \cup ToFile /\ op \in ToDir /\ dp # NULL /\ op # "create"
  BY DEF Unlink1, ToDir
<1> HIDE DEF op
<1>1. /\ k[p] # <<>> /\ Arg(p) = k[p][1] /\ Fine(dp) /\ dp \in Slots /\ Unkept(p)
      /\ Top(k[p]).op \notin LifeOps /\ ~ NoType(dp) /\ dn[Num(dp)].type = "DIR"
  BY <1>0, ResDoing
<1>2. ~ (Len(k[p]) > 1) /\ name \in Names \cup {".", ".."}
  BY <1>0, ResFacts
<1>3. /\ halted' = NoType(dp) /\ Return(p, NULL) /\ dn' = dn /\ Lockable(dp)
      /\ \/ ic' = Load(dp, NoProc) /\ Then(p, <<Put(dp)>>)
         \/ /\ name \notin {".", ".."} /\ i # NULL /\ HasSlot(i) /\ ic' = iget(Load(dp, p), i)
            /\ Then(p, <<Ins("unlink2", SlotOf(ic, i), dp, <<name>>, "")>>)
  BY <1>1 DEF Unlink1
<1>4. Others(res, res', p) /\ res'[p] = NULL /\ ~halted'
  BY <1>1, <1>3, ReturnFacts, NullSlot
<1> HIDE DEF dp, name
<1>5. ASSUME ic' = Load(dp, NoProc), Then(p, <<Put(dp)>>)
      PROVE  Second'
  BY <1>1, <1>3, <1>4, <1>5, LooksPut
<1>6. ASSUME name \notin {".", ".."}, i # NULL, HasSlot(i), ic' = iget(Load(dp, p), i),
             Then(p, <<Ins("unlink2", SlotOf(ic, i), dp, <<name>>, "")>>)
      PROVE  Second'
  <2> DEFINE x == SlotOf(ic, i)
  <2>1. Safe(i) /\ dn[Num(dp)].ents[name] = i /\ name \in Names
    BY <1>1, <1>2, <1>6, SafeEntry DEF Second, dirlookup, Num
  <2> HIDE DEF i
  <2>2. /\ CalmCache(ic', dn) /\ x \in Slots /\ ic'[x].inum = i
        /\ ic'[dp].valid /\ ic'[dp].inum = Num(dp) /\ LockMove(p, NULL, NULL, dp, NULL)
    <3>1. Fine(dp) /\ Lockable(dp) /\ Safe(i) /\ HasSlot(i) /\ ic' = iget(Load(dp, p), i)
      BY <1>1, <1>3, <1>6, <2>1
    <3> QED
      BY <3>1, LocksGot
  <2> HIDE DEF x
  <2> DEFINE o == "unlink2"
             g == ""
  <2>3. o \in TOps /\ TwoArg(o, g) /\ o \in Bottom
    BY DEF TOps, Args, TwoArg, Bottom, Ops, SOps
  <2>4. PICK a : TwoIns(a, o, x, dp, name, g) /\ Then(p, <<a>>)
    BY <1>6 DEF TwoIns, x
  <2> HIDE DEF o, g
  <2>5. /\ a \in Instr /\ Well(a) /\ a.op = o /\ a.s = x /\ a.t = dp /\ a.path[1] = name
    BY <1>1, <1>2, <2>2, <2>3, <2>4, TwoWell
  <2>6. Fit1(a, k[p])
    BY <1>2, <2>3, <2>5, FitLast
  <2>7. a.op = "unlink2"
    BY <2>5 DEF o
  <2>8. Keeps(a) = dp /\ RelyNew(a) /\ CountsOn(p, a) /\ a.op \notin {"free", "freed", "new"}
    BY <2>5, <2>7 DEF Keeps, Keepers, TOps, RelyNew, CountsOn, Counting
  <2>9. Top(k'[p]) = a
    BY <1>1, <2>4, <2>6, Turn1
  <2>10. TopNew(p)
    BY <1>1, <1>3, <1>4, <2>1, <2>2, <2>5, <2>7, <2>9 DEF TopNew, TOps
  <2>11. KeepsRes(k'[p], res'[p]) = NULL
    BY <1>4 DEF KeepsRes
  <2>12. LockMove(p, Keeps(Top(k[p])), KeepsRes(k[p], res[p]), Keeps(a), KeepsRes(k'[p], res'[p]))
    BY <1>1, <2>2, <2>8, <2>11 DEF Unkept
  <2> QED
    BY <1>1, <1>3, <1>4, <2>2, <2>4, <2>6, <2>8, <2>10, <2>12, Reads1
<1> QED
  BY <1>3, <1>5, <1>6

\* link() finds the new name there.
LEMMA Link2FoundSecond ==
    ASSUME Base, Second, NEW p \in Procs, Link2(p), Climbs(p),
           dirlookup(res[p], Last(k[p][1].path)) # NULL
    PROVE  Second'
<1> DEFINE op == "link2"
<1> DEFINE dp == res[p]
<1> DEFINE name == Last(k[p][1].path)
<1> DEFINE i == dirlookup(dp, name)
<1>0. /\ On(p, op) /\ op \in ToDir \cup ToFile /\ op \in ToDir /\ dp # NULL /\ op # "create"
      /\ op \in {"link2"}
  BY DEF Link2, ToDir
<1> HIDE DEF op
<1>1. /\ k[p] # <<>> /\ Arg(p) = k[p][1] /\ Fine(dp) /\ dp \in Slots /\ Unkept(p)
      /\ Top(k[p]).op \notin LifeOps /\ ~ NoType(dp) /\ dn[Num(dp)].type = "DIR"
  BY <1>0, ResDoing
<1>2. ~ (Len(k[p]) > 1) /\ name \in Names \cup {".", ".."}
  BY <1>0, ResFacts
<1>3. /\ halted' = NoType(dp) /\ Return(p, NULL) /\ dn' = dn /\ Lockable(dp)
      /\ i # NULL /\ HasSlot(i) /\ ic' = iget(Load(dp, p), i)
      /\ Then(p, <<Put(SlotOf(ic, i)), Unlock(dp), Ins("bad", k[p][1].s, NULL, <<>>, "")>>)
  BY <1>1 DEF Link2
<1>4. Others(res, res', p) /\ res'[p] = NULL /\ ~halted'
  BY <1>1, <1>3, ReturnFacts, NullSlot
<1>30. ASSUME name = ".." PROVE ~ ParentGone(Num(dp))
  <2>1. LooksUp(p) = dp
    BY <1>0, <1>1, <1>30 DEF LooksUp, On
  <2> QED
    BY <1>0, <2>1 DEF Climbs
<1> HIDE DEF dp, name
<1> DEFINE x == SlotOf(ic, i)
<1>5. Safe(i)
  BY <1>1, <1>2, <1>3, <1>30, SafeEntry DEF Second
<1> HIDE DEF i
<1>6. /\ CalmCache(ic', dn) /\ x \in Slots /\ LockMove(p, NULL, NULL, dp, NULL)
  BY <1>1, <1>3, <1>5, LocksGot
<1> HIDE DEF x
<1>7. PICK a : a = Put(x)
  OBVIOUS
<1>8. PICK b : b = Unlock(dp)
  OBVIOUS
<1>9. PICK c : OneIns(c, "bad", k[p][1].s)
  BY DEF OneIns
<1>10. Then(p, <<a, b, c>>)
  BY <1>3, <1>7, <1>8, <1>9 DEF x, OneIns
<1>11. a \in Instr /\ Well(a) /\ a.op = "put" /\ \A d : d.op \in Deep => Above(a, d)
  BY <1>6, <1>7, PutWell
<1>12. b \in Instr /\ Well(b) /\ b.op = "unlockput" /\ b.s = dp
  BY <1>1, <1>8, UnlockWell
<1>13. /\ c \in Instr /\ Well(c) /\ c.op = "bad" /\ c.op \in Bottom /\ Keeps(c) = NULL
       /\ RelyNew(c) /\ CountsOn(p, c)
  BY <1>0, <1>3, <1>6, <1>9, BadIns
<1>14. Fit3(a, b, c, k[p])
  <2>1. Above(a, b)
    BY <1>11, <1>12 DEF Deep
  <2>2. Above(b, c)
    BY <1>12, <1>13 DEF Above, Over, Deep
  <2> QED BY <1>2, <1>11, <1>12, <1>13, <2>1, <2>2 DEF Fit3, Fit2, Fit1
<1>15. Light(a)
  BY <1>11 DEF Light, Keepers, TOps, Counting, ToDir
<1>16. Keeps(a) = NULL /\ RelyNew(a) /\ a.op \notin {"free", "freed", "new"}
  BY <1>15, LightFacts
<1>17. Keeps(b) = dp /\ RelyNew(b)
  BY <1>12 DEF Keeps, Keepers, RelyNew
<1>18. Top(k'[p]) = a
  BY <1>1, <1>10, <1>13, <1>14, <1>16, Turn3
<1>19. TopNew(p) /\ KeepsRes(k'[p], res'[p]) = NULL
  BY <1>4, <1>15, <1>18, LightFacts DEF KeepsRes
<1>20. LockMove(p, Keeps(Top(k[p])), KeepsRes(k[p], res[p]), Keeps(b), KeepsRes(k'[p], res'[p]))
  BY <1>1, <1>6, <1>17, <1>19 DEF Unkept
<1> QED
  BY <1>1, <1>3, <1>4, <1>6, <1>10, <1>13, <1>14, <1>16, <1>17, <1>19, <1>20, Reads3

\* What unlink() knows when it has locked the directory.
LEMMA Unlink2Doing ==
    ASSUME Base, Second, NEW p \in Procs, NEW op \in {"unlink2"}, On(p, op)
    PROVE  /\ k[p] # <<>> /\ Arg(p) = k[p][1] /\ Top(k[p]) = k[p][1] /\ ~ (Len(k[p]) > 1)
           /\ Top(k[p]).op \notin LifeOps /\ res[p] = NULL
           /\ Fine(k[p][1].s) /\ Fine(k[p][1].t) /\ k[p][1].s \in Slots /\ k[p][1].t \in Slots
           /\ Keeps(Top(k[p])) = k[p][1].t /\ KeepsRes(k[p], res[p]) = NULL
           /\ ic[k[p][1].t].lk = p /\ ic[k[p][1].t].valid /\ dn[Num(k[p][1].t)].type = "DIR"
           /\ k[p][1].path[1] \in Names
           /\ dn[Num(k[p][1].t)].ents[k[p][1].path[1]] = Num(k[p][1].s)
           /\ Pending(k[p], ic) = NULL
<1>1. /\ op \in TOps /\ op \in SOps \ LifeOps /\ op \notin Over /\ op \notin PutOps \cup Ends
      /\ op \notin PutOps \cup ToDir \cup ToFile \cup Ends /\ op \notin LifeOps /\ op \notin Keepers
      /\ op = "unlink2"
  BY DEF TOps, SOps, LifeOps, Over, PutOps, Ends, ToDir, ToFile, Keepers
<1>2. /\ k[p] # <<>> /\ Arg(p) = k[p][1] /\ Top(k[p]) = k[p][1] /\ Top(k[p]).op = op
      /\ KeepsRes(k[p], res[p]) = NULL
  BY <1>1, Doing
<1>3. ~ (Len(k[p]) > 1) /\ res[p] = NULL
  BY <1>1, OnFacts
<1>4. Fine(k[p][1].s) /\ Fine(k[p][1].t) /\ k[p][1].s \in Slots /\ k[p][1].t \in Slots
  BY <1>1, <1>2, FineHeld DEF Second, Fine, Live
<1>5. Keeps(Top(k[p])) = k[p][1].t
  BY <1>1, <1>2 DEF Keeps
<1>6. ic[k[p][1].t].lk = p
  BY <1>4, <1>5, LockFacts, NullSlot DEF Second
<1>7. TopRelies(p)
  BY DEF Second, Relying
<1>8. View(k[p], 0) = k[p][1]
  BY <1>2, <1>3, TurnPlaces
<1>9. Pending(k[p], ic) = NULL
  BY <1>1, <1>2, <1>8 DEF Pending
<1> QED
  BY <1>1, <1>2, <1>3, <1>4, <1>5, <1>6, <1>7, <1>9 DEF TopRelies

\* The directory to be removed is not empty.
LEMMA Unlink2FullSecond ==
    ASSUME Base, Second, NEW p \in Procs, NEW op \in {"unlink2"}, On(p, op),
           Lockable(k[p][1].s), ic' = Load(k[p][1].s, NoProc), dn' = dn, res' = res, ~halted',
           Then(p, <<Put(k[p][1].s), Unlock(k[p][1].t)>>)
    PROVE  Second'
<1> DEFINE ip == k[p][1].s
           dp == k[p][1].t
<1>1. /\ k[p] # <<>> /\ ~ (Len(k[p]) > 1) /\ Top(k[p]).op \notin LifeOps /\ res[p] = NULL
      /\ Fine(ip) /\ ip \in Slots /\ dp \in Slots
      /\ Keeps(Top(k[p])) = dp /\ KeepsRes(k[p], res[p]) = NULL /\ ic[dp].lk = p
  BY Unlink2Doing
<1>2. Lockable(ip) /\ ic' = Load(ip, NoProc) /\ Then(p, <<Put(ip), Unlock(dp)>>)
  OBVIOUS
<1> HIDE DEF ip, dp
<1>3. CalmCache(ic', dn) /\ \A z \in Slots : ic'[z].lk = ic[z].lk
  BY <1>1, <1>2, LoadsCalm
<1>4. PICK a : a = Put(ip)
  OBVIOUS
<1>5. PICK b : b = Unlock(dp)
  OBVIOUS
<1>6. Then(p, <<a, b>>)
  BY <1>2, <1>4, <1>5
<1>7. a \in Instr /\ Well(a) /\ a.op = "put" /\ \A d : d.op \in Deep => Above(a, d)
  BY <1>1, <1>4, PutWell
<1>8. b \in Instr /\ Well(b) /\ b.op = "unlockput" /\ b.s = dp /\ b.op \in Bottom
  BY <1>1, <1>5, UnlockWell
<1>9. Fit2(a, b, k[p])
  <2>1. Above(a, b)
    BY <1>7, <1>8 DEF Deep
  <2> QED BY <1>1, <1>7, <1>8, <2>1 DEF Fit2, Fit1
<1>10. Light(a)
  BY <1>7 DEF Light, Keepers, TOps, Counting, ToDir
<1>11. Keeps(a) = NULL /\ RelyNew(a) /\ a.op \notin {"free", "freed", "new"}
  BY <1>10, LightFacts
<1>12. Keeps(b) = dp /\ RelyNew(b) /\ CountsOn(p, b)
  BY <1>8 DEF Keeps, Keepers, RelyNew, CountsOn, Counting
<1>13. Top(k'[p]) = a
  BY <1>1, <1>6, <1>9, <1>11, Turn2
<1>14. Others(res, res', p) /\ res'[p] = NULL
  BY <1>1, BaseTypes
<1>15. TopNew(p) /\ KeepsRes(k'[p], res'[p]) = NULL
  BY <1>10, <1>13, <1>14, LightFacts DEF KeepsRes
<1>16. LockMove(p, dp, NULL, dp, NULL)
  BY <1>1, <1>3, NullSlot DEF LockMove
<1>17. LockMove(p, Keeps(Top(k[p])), KeepsRes(k[p], res[p]), Keeps(b), KeepsRes(k'[p], res'[p]))
  BY <1>1, <1>12, <1>15, <1>16
<1> QED
  BY <1>1, <1>3, <1>6, <1>9, <1>11, <1>12, <1>14, <1>15, <1>17, Reads2

\* A call begins.
LEMMA CallSecond ==
    ASSUME Base, Second, NEW p \in Procs, NEW c \in Calls[p], Call(p, c)
    PROVE  Second'
<1> DEFINE u == Program(c)
<1>1. /\ k[p] = <<>> /\ k' = [k EXCEPT ![p] = u] /\ ic' = ic /\ dn' = dn /\ res' = res
      /\ halted' = halted
  BY DEF Call
<1>2. Bare(u)
  BY ProgramBare
<1> HIDE DEF u
<1>3. u \in Seq(Instr) /\ Shape(u) /\ \A n \in Nat : View(u, n).s = NULL /\ View(u, n).t = NULL
  BY <1>2 DEF Bare, Shape
<1>4. Stay(p) /\ k'[p] = u
  BY <1>1, <1>3, BaseTypes DEF Stay, Stacks
<1>5. res[p] = NULL
  BY <1>1 DEF Base, Calling, ResShape
<1>6. ASSUME NEW n \in Nat
      PROVE  View(u, n).op \notin SOps /\ Keeps(View(u, n)) = NULL
  <2>1. CASE n < Len(u)
    <3>1. PICK j \in 1..Len(u) : View(u, n) = u[j]
      <4>1. Len(u) - n \in 1..Len(u)
        BY <1>3, <2>1
      <4> QED
        BY <2>1, <4>1 DEF View
    <3>2. Well(View(u, n))
      BY <1>3, <3>1 DEF Shape
    <3>3. View(u, n).s = NULL /\ View(u, n).t = NULL
      BY <1>3
    <3> QED
      BY <3>2, <3>3 DEF Well, Keeps
  <2>2. CASE ~ (n < Len(u))
    <3>1. View(u, n) = None
      BY <2>2 DEF View
    <3> QED
      BY <3>1, KeepsNone DEF Ops
  <2> QED
    BY <2>1, <2>2
<1>7. PICK U : U = {View(u, n) : n \in Nat}
  OBVIOUS
<1>8. Turned(p, 0, U)
  <2>1. \A n \in Nat : View(k[p], n) = None
    BY <1>1 DEF View
  <2>2. Top(k[p]) = None
    BY <1>1 DEF Top
  <2>3. 0 \in Nat /\ \A n \in Nat : ~ (n < 0)
    OBVIOUS
  <2>4. \A n \in Nat : View(k'[p], n) \in U \cup {None}
    BY <1>4, <1>7
  <2> QED
    BY <1>4, <2>1, <2>2, <2>3, <2>4 DEF Turned
<1>9. KeepsNew(p, 0, NULL)
  BY <1>4, <1>6 DEF KeepsNew
<1>10. \A a \in U : RelyNew(a)
  BY <1>6, <1>7 DEF RelyNew, SOps
<1>11. Top(u).op \notin SOps
  <2>1. CASE u = <<>>
    BY <2>1, KeepsNone DEF Top, Ops
  <2>2. CASE u # <<>>
    <3>1. Len(u) - 1 \in Nat /\ Len(u) - 1 < Len(u) /\ Len(u) - (Len(u) - 1) = 1
      BY <1>3, <2>2
    <3>2. View(u, Len(u) - 1) = u[1]
      BY <3>1 DEF View
    <3> QED
      BY <1>6, <2>2, <3>1, <3>2 DEF Top
  <2> QED
    BY <2>1, <2>2
<1>12. Others(res, res', p) /\ res'[p] = NULL /\ ~halted'
  BY <1>1, <1>5, BaseTypes DEF Second
<1>13. TopNew(p) /\ Top(k'[p]).op \notin {"free", "freed", "new"}
  BY <1>4, <1>11, <1>12 DEF TopNew, SOps, PutOps, TOps
<1>14. Top(k[p]).op \notin LifeOps /\ Keeps(Top(k[p])) = NULL
  <2>1. Top(k[p]) = None
    BY <1>1 DEF Top
  <2> QED
    BY <2>1, KeepsNone DEF LifeOps
<1>15. KeepsRes(k'[p], res'[p]) = NULL /\ KeepsRes(k[p], res[p]) = NULL
  BY <1>5, <1>12 DEF KeepsRes
<1>16. LockMove(p, Keeps(Top(k[p])), KeepsRes(k[p], res[p]), NULL, KeepsRes(k'[p], res'[p]))
  BY <1>1, <1>14, <1>15, LocksSame DEF Second
<1>17. CalmCache(ic', dn)
  BY <1>1, CalmLocks DEF OnlyLk, Second
<1>18. Pending(k'[p], ic') = NULL
  <2>1. 0 \in Nat
    OBVIOUS
  <2> QED
    BY <1>4, <1>6, <2>1 DEF Pending, SOps
<1> QED
  BY <1>1, <1>8, <1>9, <1>10, <1>12, <1>13, <1>14, <1>16, <1>17, <1>18, ReadStep

-----------------------------------------------------------------------------
(* Steps that write inodes.                                                 *)

\* Cache c and disk dd after the inodes of the slots in W have been written.
Wrote(c, dd, W) ==
    /\ W \subseteq Slots /\ \A w \in W : Fine(w)
    /\ \A z \in Slots : c[z].ref = ic[z].ref /\ c[z].inum = ic[z].inum
    /\ \A z \in Slots \ W : c[z].valid = ic[z].valid /\ c[z].type = ic[z].type
                             /\ c[z].nlink = ic[z].nlink
    /\ \A w \in W : /\ c[w].valid /\ c[w].nlink = dd[Num(w)].nlink
                    /\ c[w].type = dd[Num(w)].type
    /\ \A i \in Inums : (\A w \in W : i # Num(w)) => dd[i] = dn[i]

\* It is calm.
LEMMA WroteCalm ==
    ASSUME Base, Life, NEW c, NEW dd, NEW W, Wrote(c, dd, W)
    PROVE  CalmCache(c, dd)
<1>1. ASSUME NEW z \in Slots, ic[z].ref > 0, z \notin W
      PROVE  Num(z) \in Inums /\ dd[Num(z)] = dn[Num(z)]
  <2>1. Num(z) \in Inums
    BY <1>1 DEF Base, Unique, Num
  <2>2. ASSUME NEW w \in W PROVE Num(z) # Num(w)
    <3>1. w \in Slots /\ ic[w].ref > 0
      BY FineFacts DEF Wrote
    <3> QED
      BY <1>1, <3>1 DEF Base, Unique, Num
  <2> QED
    BY <2>1, <2>2 DEF Wrote
<1>2. ASSUME NEW z \in Slots
      PROVE  /\ ic[z].ref > 0 => /\ c[z].ref > 0 /\ c[z].inum = ic[z].inum
                                 /\ ic[z].valid => c[z].valid
             /\ ~ (ic[z].ref > 0) => ~ (c[z].ref > 0)
  BY DEF Wrote
<1>3. ASSUME NEW z \in Slots, ic[z].ref > 0, Odd(z)
      PROVE  /\ c[z].ref = ic[z].ref /\ c[z].valid = ic[z].valid
             /\ c[z].type = ic[z].type /\ c[z].nlink = ic[z].nlink
             /\ dd[ic[z].inum] = dn[ic[z].inum]
  <2>1. z \notin W
    BY <1>3 DEF Wrote, Fine
  <2> QED
    BY <1>1, <1>3, <2>1 DEF Wrote, Num
<1>4. ASSUME NEW z \in Slots, ic[z].ref > 0, ~ Odd(z), c[z].valid
      PROVE  c[z].nlink = dd[ic[z].inum].nlink /\ c[z].type = dd[ic[z].inum].type
  <2>1. CASE z \in W
    BY <2>1 DEF Wrote, Num
  <2>2. CASE z \notin W
    <3>1. ic[z].valid /\ c[z].type = ic[z].type /\ c[z].nlink = ic[z].nlink
      BY <1>4, <2>2 DEF Wrote
    <3>2. ~ Freed(z)
      BY <1>4 DEF Odd
    <3>3. ic[z].nlink = dn[Num(z)].nlink /\ ic[z].type = dn[Num(z)].type
      BY <1>4, <3>1, <3>2 DEF Life, Cached
    <3> QED
      BY <1>1, <1>4, <2>2, <3>1, <3>3 DEF Num
  <2> QED
    BY <2>1, <2>2
<1> QED
  BY <1>2, <1>3, <1>4 DEF CalmCache

\* The disk after a link count has been written, ...
LEMMA CountsDisk ==
    ASSUME NEW p, NEW dd, \A i \in Inums : dd[i].type = dn[i].type /\ dd[i].ents = dn[i].ents,
           \A i \in Inums : dn[i].type = "FREE" => dd[i] = dn[i], Base
    PROVE  CalmDisk(p, dd)
<1>1. \A z \in Slots : ic[z].ref > 0 => ic[z].inum \in Inums
  BY DEF Base, Unique
<1> QED
  BY <1>1 DEF CalmDisk

\* ... or an entry of a directory that p has locked, or nobody.
LEMMA EntryDisk ==
    ASSUME Base, Life, NEW p, NEW dd, NEW s \in Slots, Fine(s), NEW name \in Names,
           ic[s].lk \in {p, NoProc}, dn[Num(s)].type = "DIR",
           \A i \in Inums : dd[i].type = dn[i].type,
           \A i \in Inums : dn[i].type = "FREE" => dd[i] = dn[i],
           \A i \in Inums : i # Num(s) => dd[i].ents = dn[i].ents,
           dd[Num(s)].ents["."] = dn[Num(s)].ents["."], dd[Num(s)].ents[".."] = dn[Num(s)].ents[".."]
    PROVE  CalmDisk(p, dd)
<1>1. \A z \in Slots : ic[z].ref > 0 => ic[z].inum \in Inums
  BY DEF Base, Unique
<1>2. ASSUME NEW z \in Slots, ic[z].ref > 0, ic[z].lk \notin {p, NoProc}
      PROVE  dd[ic[z].inum].ents = dn[ic[z].inum].ents
  <2>1. ic[s].ref > 0
    BY FineFacts
  <2>2. z # s
    BY <1>2
  <2>3. ic[z].inum # Num(s)
    BY <1>2, <2>1, <2>2 DEF Base, Unique, Num
  <2> QED
    BY <1>1, <1>2, <2>3
<1> QED
  BY <1>2 DEF CalmDisk

\* A step that writes and goes on with a ...
LEMMA Writes1 ==
    ASSUME Base, Second, NEW p \in Procs, k[p] # <<>>, NEW a, Fit1(a, k[p]), Then(p, <<a>>),
           Others(res, res', p), Top(k[p]).op \notin LifeOps, a.op \notin {"free", "freed", "new"},
           CalmCache(ic', dn'), CalmDisk(p, dn'), Links', ~halted', RelyNew(a), TopNew(p),
           LockMove(p, Keeps(Top(k[p])), KeepsRes(k[p], res[p]), Keeps(a), KeepsRes(k'[p], res'[p]))
    PROVE  Second'
<1>1. PICK m : m = Len(k[p]) - 1
  OBVIOUS
<1>2. /\ Turned(p, m, {a}) /\ KeepsNew(p, m, Keeps(a)) /\ Top(k'[p]) = a
  BY <1>1, Turn1
<1>3. Quiet(p)
  BY <1>2 DEF Turned, Quiet
<1>4. \A b \in {a} : RelyNew(b)
  OBVIOUS
<1> QED
  BY <1>2, <1>3, <1>4, QuietStep

\* ... or with a and b.
LEMMA Writes2 ==
    ASSUME Base, Second, NEW p \in Procs, k[p] # <<>>, NEW a, NEW b, Fit2(a, b, k[p]),
           Then(p, <<a, b>>), Keeps(a) = NULL,
           Others(res, res', p), Top(k[p]).op \notin LifeOps, a.op \notin {"free", "freed", "new"},
           CalmCache(ic', dn'), CalmDisk(p, dn'), Links', ~halted', RelyNew(a), RelyNew(b), TopNew(p),
           LockMove(p, Keeps(Top(k[p])), KeepsRes(k[p], res[p]), Keeps(b), KeepsRes(k'[p], res'[p]))
    PROVE  Second'
<1>1. PICK m : m = Len(k[p]) - 1
  OBVIOUS
<1>2. /\ Turned(p, m, {a, b}) /\ KeepsNew(p, m, Keeps(b)) /\ Top(k'[p]) = a
  BY <1>1, Turn2
<1>3. Quiet(p)
  BY <1>2 DEF Turned, Quiet
<1>4. \A e \in {a, b} : RelyNew(e)
  OBVIOUS
<1> QED
  BY <1>2, <1>3, <1>4, QuietStep

\* The link count of an inode is changed and written.
Counted(s, n) ==
    /\ ic' \in [Slots -> Inode] /\ SameRefs(ic, ic')
    /\ \A z \in Slots : z # s => ic'[z] = ic[z]
    /\ ic'[s].valid /\ ic'[s].type = dn[Num(s)].type /\ ic'[s].nlink = dn[Num(s)].nlink + n
    /\ dn' = Iupdate(ic', s)

\* What this does.
LEMMA CountedFacts ==
    ASSUME Base, Second, NEW p \in Procs, NEW s, Fine(s), NEW n \in Int, Counted(s, n)
    PROVE  /\ CalmCache(ic', dn') /\ CalmDisk(p, dn') /\ TypesKept /\ NlinkTypes /\ InumsKept
           /\ \A d \in Inums : dn'[d].ents = dn[d].ents
           /\ ic'[s].inum = Num(s) /\ dn'[Num(s)].nlink = dn[Num(s)].nlink + n
           /\ \A d \in Inums : d # Num(s) => dn'[d].nlink = dn[d].nlink
<1>0. s \in Slots /\ ic[s].ref > 0 /\ Num(s) \in Inums /\ dn[Num(s)].type # "FREE" /\ Life
  BY FineFacts DEF Second
<1>1. ic'[s].inum = Num(s)
  BY <1>0 DEF Counted, SameRefs, Num
<1>2. /\ dn' \in [Inums -> Dinode]
      /\ \A j \in Inums : j # Num(s) => dn'[j] = dn[j]
      /\ dn'[Num(s)].type = dn[Num(s)].type
      /\ dn'[Num(s)].nlink = dn[Num(s)].nlink + n
      /\ dn'[Num(s)].ents = dn[Num(s)].ents
      /\ dn'[Num(s)].nlink = ic'[s].nlink /\ dn'[Num(s)].type = ic'[s].type
  <2>1. PICK c : c = ic'
    OBVIOUS
  <2>2. c \in [Slots -> Inode] /\ c[s].inum = Num(s) /\ FilesTypes
    BY <1>1, <2>1 DEF Counted, Base
  <2>3. /\ Iupdate(c, s) \in [Inums -> Dinode]
        /\ \A j \in Inums : j # c[s].inum => Iupdate(c, s)[j] = dn[j]
        /\ Iupdate(c, s)[c[s].inum].type = c[s].type
        /\ Iupdate(c, s)[c[s].inum].nlink = c[s].nlink
        /\ Iupdate(c, s)[c[s].inum].ents = dn[c[s].inum].ents
    BY <1>0, <2>2, IupdateFacts
  <2>4. dn' = Iupdate(c, s) /\ c[s].type = dn[Num(s)].type /\ c[s].nlink = dn[Num(s)].nlink + n
    BY <2>1 DEF Counted
  <2> HIDE DEF Iupdate
  <2> QED
    BY <2>1, <2>2, <2>3, <2>4
<1>3. Wrote(ic', dn', {s})
  BY <1>0, <1>1, <1>2 DEF Wrote, Counted, SameRefs
<1>4. CalmCache(ic', dn')
  BY <1>0, <1>3, WroteCalm
<1>5. \A i \in Inums : dn'[i].type = dn[i].type /\ dn'[i].ents = dn[i].ents
  BY <1>2
<1>6. \A i \in Inums : dn[i].type = "FREE" => dn'[i] = dn[i]
  BY <1>0, <1>2
<1>7. CalmDisk(p, dn')
  BY <1>5, <1>6, CountsDisk
<1>8. NlinkTypes
  <2>1. \A i \in Inums : dn[i].nlink \in Int
    BY BaseTypes DEF Dinode
  <2>2. \A i \in Inums : dn'[i].nlink \in Int
    BY <1>2 DEF Dinode
  <2> QED
    BY <2>1, <2>2 DEF NlinkTypes
<1> QED
  BY <1>0, <1>1, <1>2, <1>4, <1>5, <1>7, <1>8 DEF TypesKept, InumsKept, CalmCache

\* A directory has a greater rank than the directories that it names: no directory is
\* below itself.
RankedBy(r, dd) ==
    \A d \in Inums, n \in Names :
       dd[d].ents[n] # NULL /\ dd[dd[d].ents[n]].type = "DIR" => r[dd[d].ents[n]] < r[d]
Forest == \E r \in [Inums -> Nat] : RankedBy(r, dn)

\* No name of a directory is new.
Fewer ==
    \A d \in Inums, n \in Names :
       dn'[d].ents[n] # NULL /\ dn'[dn'[d].ents[n]].type = "DIR" =>
          dn'[d].ents[n] = dn[d].ents[n] /\ dn[dn[d].ents[n]].type = "DIR"

\* An inode without links loses its entries: a name of it there is not.
LEMMA OneFewer ==
    ASSUME Base, Second, NEW i \in Inums, dn[i].nlink = 0, dn'[i].ents = NoEntries,
           \A j \in Inums : j # i => dn'[j] = dn[j]
    PROVE  Fewer
<1>1. \A d \in Inums, n \in Names :
         dn[d].ents[n] # NULL => dn[d].ents[n] \in Inums /\ dn[d].ents[n] # i
  BY NamedOnce DEF Second
<1>2. \A n \in Names : dn'[i].ents[n] = NULL
  BY DEF NoEntries, Entries
<1> QED
  BY <1>1, <1>2 DEF Fewer

\* A link count names nothing.
LEMMA CountedFewer ==
    ASSUME Base, Second, NEW p \in Procs, NEW s, Fine(s), NEW n \in Int, Counted(s, n)
    PROVE  Fewer
<1>1. TypesKept /\ \A d \in Inums : dn'[d].ents = dn[d].ents
  BY CountedFacts
<1>2. \A d \in Inums, m \in Names : dn[d].ents[m] \in Inums \cup {NULL}
  BY BaseTypes DEF Dinode, Entries
<1> QED
  BY <1>1, <1>2 DEF Fewer, TypesKept

\* ilock(), the count changed, iupdate() and iunlock().
LEMMA LoadCounted ==
    ASSUME Base, Second, NEW s, Fine(s), NEW n \in Int, ic' = AddLinks(Load(s, NoProc), s, n),
           dn' = Iupdate(ic', s)
    PROVE  Counted(s, n) /\ ic'[s].lk = NoProc
<1> DEFINE c == Load(s, NoProc)
<1>0. s \in Slots /\ Live(s) /\ FilesTypes /\ NoProc \in Procs \cup {NoProc}
  BY DEF Fine, Live, Base
<1>1. /\ c \in [Slots -> Inode] /\ SameRefs(ic, c) /\ c[s].lk = NoProc /\ c[s].valid
      /\ c[s].type = Loaded(s).type /\ c[s].nlink = Loaded(s).nlink
  BY <1>0, LoadFacts
<1>2. \A z \in Slots : z # s => c[z] = ic[z]
  BY <1>0, LoadLk
<1>3. Loaded(s).type = dn[Num(s)].type /\ Loaded(s).nlink = dn[Num(s)].nlink
  BY FineFacts DEF Second
<1>4. PICK d : d = AddLinks(c, s, n)
  OBVIOUS
<1> HIDE DEF c
<1>5. /\ d \in [Slots -> Inode] /\ SameRefs(c, d) /\ (\A z \in Slots : z # s => d[z] = c[z])
      /\ d[s].nlink = c[s].nlink + n /\ d[s].type = c[s].type /\ d[s].valid = c[s].valid
      /\ d[s].lk = c[s].lk
  BY <1>0, <1>1, <1>4, AddLinksFacts
<1>6. ic' = d
  BY <1>4 DEF c
<1>7. SameRefs(ic, ic')
  BY <1>1, <1>5, <1>6, SameTwice
<1> QED
  BY <1>1, <1>2, <1>3, <1>5, <1>6, <1>7 DEF Counted

\* The link that a call had counted is taken back.
LEMMA CountsBack ==
    ASSUME Base, Second, NEW p \in Procs, NEW op \in Counting \ {"link2"}, On(p, op),
           Counted(k[p][1].s, -1), Then(p, <<Put(k[p][1].s)>>), res' = res, ~halted',
           ic'[k[p][1].s].lk = NoProc, op = "bad" => Lockable(k[p][1].s)
    PROVE  Second'
<1> DEFINE s == k[p][1].s
<1>0. /\ op \in Counting /\ op \notin PutOps \cup Ends /\ op \in {"bad", "unlink3"}
      /\ op \notin PutOps \cup ToDir \cup ToFile \cup Ends
  BY DEF Counting, PutOps, Ends, ToDir, ToFile
<1>1. /\ k[p] # <<>> /\ ~ (Len(k[p]) > 1) /\ Fine(s) /\ s \in Slots
      /\ Pending(k[p], ic) = Num(s) /\ Top(k[p]) = k[p][1] /\ Top(k[p]).op = op
      /\ Top(k[p]).op \notin LifeOps
  BY <1>0, CountingDoing
<1>2. KeepsRes(k[p], res[p]) = NULL
  BY <1>0, Doing
<1>2a. res[p] = NULL
  BY <1>0, OnFacts
<1>3. Keeps(Top(k[p])) = (IF op = "bad" THEN NULL ELSE s)
  BY <1>0, <1>1 DEF Keeps, Keepers, TOps
<1>4. Counted(s, -1) /\ Then(p, <<Put(s)>>) /\ ic'[s].lk = NoProc /\ (op = "bad" => Lockable(s))
  OBVIOUS
<1> HIDE DEF s
<1>5. /\ CalmCache(ic', dn') /\ CalmDisk(p, dn') /\ TypesKept /\ NlinkTypes /\ InumsKept
      /\ \A d \in Inums : dn'[d].ents = dn[d].ents
      /\ dn'[Num(s)].nlink = dn[Num(s)].nlink + (-1)
      /\ \A d \in Inums : d # Num(s) => dn'[d].nlink = dn[d].nlink
  <2>1. PICK n \in Int : n = -1
    OBVIOUS
  <2>2. Counted(s, n)
    BY <1>4, <2>1
  <2>3. /\ CalmCache(ic', dn') /\ CalmDisk(p, dn') /\ TypesKept /\ NlinkTypes /\ InumsKept
        /\ \A d \in Inums : dn'[d].ents = dn[d].ents
        /\ dn'[Num(s)].nlink = dn[Num(s)].nlink + n
        /\ \A d \in Inums : d # Num(s) => dn'[d].nlink = dn[d].nlink
    BY <1>1, <2>2, CountedFacts
  <2> QED
    BY <2>1, <2>3
<1>6. PICK a : a = Put(s)
  OBVIOUS
<1>7. Then(p, <<a>>)
  BY <1>4, <1>6
<1>8. a \in Instr /\ Well(a) /\ a.op = "put" /\ a.op \in Bottom
  BY <1>1, <1>6, PutWell
<1>9. Fit1(a, k[p])
  BY <1>1, <1>8, FitLast
<1>10. Light(a)
  BY <1>8 DEF Light, Keepers, TOps, Counting, ToDir
<1>11. Keeps(a) = NULL /\ RelyNew(a) /\ a.op \notin {"free", "freed", "new"}
  BY <1>10, LightFacts
<1>12. Top(k'[p]) = a /\ View(k'[p], 0) = a /\ Stay(p)
  BY <1>1, <1>7, <1>9, Turn1 DEF Turned
<1>13. TopNew(p)
  BY <1>10, <1>12, LightFacts
<1>14. Pending(k'[p], ic') = NULL
  BY <1>8, <1>12 DEF Pending
<1>15. Links'
  <2>1. ASSUME NEW i \in Inums
        PROVE  Is(Pending(k'[p], ic'), i) - Is(Pending(k[p], ic), i) <= dn'[i].nlink - dn[i].nlink
    <3>1. dn[i].nlink \in Int /\ dn'[i].nlink \in Int /\ NULL # i
      BY <1>5, FilesAssumption DEF NlinkTypes
    <3>2. CASE i = Num(s)
      BY <1>1, <1>5, <1>14, <3>1, <3>2 DEF Is
    <3>3. CASE i # Num(s)
      BY <1>1, <1>5, <1>14, <3>1, <3>3 DEF Is
    <3> QED
      BY <3>2, <3>3
  <2> QED
    BY <1>5, <1>12, <2>1, LinksCall DEF Second
<1>16. Others(res, res', p) /\ KeepsRes(k'[p], res'[p]) = NULL
  BY <1>2a, BaseTypes DEF KeepsRes
<1>17. LockMove(p, Keeps(Top(k[p])), KeepsRes(k[p], res[p]), Keeps(a), KeepsRes(k'[p], res'[p]))
  <2>1. \A z \in Slots : z # s => ic'[z].lk = ic[z].lk
    BY <1>4 DEF Counted
  <2>2. CASE op = "bad"
    <3>1. \A z \in Slots : ic'[z].lk = ic[z].lk
      BY <1>4, <2>1, <2>2 DEF Lockable
    <3>2. LockMove(p, NULL, NULL, NULL, NULL)
      BY <3>1, NullSlot DEF LockMove
    <3> QED
      BY <1>2, <1>3, <1>11, <1>16, <2>2, <3>2
  <2>3. CASE op # "bad"
    <3>1. LockMove(p, s, NULL, NULL, NULL)
      BY <1>1, <1>4, <2>1, LockGone
    <3> QED
      BY <1>2, <1>3, <1>11, <1>16, <2>3, <3>1
  <2> QED
    BY <2>2, <2>3
<1> QED
  BY <1>1, <1>5, <1>7, <1>9, <1>11, <1>13, <1>15, <1>16, <1>17, Writes1

\* link() takes its link back.
LEMMA LinkBadSecond ==
    ASSUME Base, Second, NEW p \in Procs, LinkBad(p)
    PROVE  Second' /\ Fewer
<1> DEFINE op == "bad"
           s == k[p][1].s
<1>0. On(p, op) /\ op \in Counting \ {"link2"} /\ op \in Counting
  BY DEF LinkBad, Counting
<1> HIDE DEF op
<1>1. Arg(p) = k[p][1] /\ Fine(s)
  BY <1>0, CountingDoing
<1>2. /\ ic' = AddLinks(Load(s, NoProc), s, -1) /\ dn' = Iupdate(ic', s) /\ Lockable(s)
      /\ Then(p, <<Put(s)>>) /\ halted' = NoType(s) /\ res' = res
  BY <1>1 DEF LinkBad
<1> HIDE DEF s
<1>3. ~halted'
  BY <1>1, <1>2, FineFacts DEF Second
<1>4. Counted(s, -1) /\ ic'[s].lk = NoProc
  <2>1. PICK n \in Int : n = -1
    OBVIOUS
  <2>2. ic' = AddLinks(Load(s, NoProc), s, n)
    BY <1>2, <2>1
  <2>3. Counted(s, n) /\ ic'[s].lk = NoProc
    BY <1>1, <1>2, <2>2, LoadCounted
  <2> QED
    BY <2>1, <2>3
<1>5. /\ Counted(k[p][1].s, -1) /\ Then(p, <<Put(k[p][1].s)>>) /\ Lockable(k[p][1].s)
      /\ ic'[k[p][1].s].lk = NoProc
  BY <1>2, <1>4 DEF s
<1>6. Second'
  BY <1>0, <1>2, <1>3, <1>5, CountsBack
<1>7. Fewer
  <2>1. PICK n \in Int : n = -1
    OBVIOUS
  <2> QED
    BY <1>1, <1>4, <2>1, CountedFewer
<1> QED
  BY <1>6, <1>7

\* unlink() counts one link less and unlocks the inode.
LEMMA Unlink3Second ==
    ASSUME Base, Second, NEW p \in Procs, Unlink3(p)
    PROVE  Second' /\ Fewer
<1> DEFINE op == "unlink3"
           s == k[p][1].s
<1>0. On(p, op) /\ op \in Counting \ {"link2"} /\ op \in Counting /\ op = "unlink3"
  BY DEF Unlink3, Counting
<1> HIDE DEF op
<1>1. Arg(p) = k[p][1] /\ Fine(s) /\ s \in Slots /\ ic[s].valid
  BY <1>0, CountingDoing
<1>2. /\ ic' = [AddLinks(ic, s, -1) EXCEPT ![s].lk = NoProc] /\ dn' = Iupdate(ic', s)
      /\ Then(p, <<Put(s)>>) /\ halted' = halted /\ res' = res
  BY <1>1 DEF Unlink3
<1> HIDE DEF s
<1>3. ~halted'
  BY <1>2 DEF Second
<1>4. Counted(s, -1) /\ ic'[s].lk = NoProc
  <2>1. PICK n \in Int : n = -1
    OBVIOUS
  <2>2. PICK c : c = AddLinks(ic, s, n)
    OBVIOUS
  <2>3. /\ c \in [Slots -> Inode] /\ SameRefs(ic, c) /\ (\A z \in Slots : z # s => c[z] = ic[z])
        /\ c[s].nlink = ic[s].nlink + n /\ c[s].type = ic[s].type /\ c[s].valid = ic[s].valid
    BY <1>1, <2>2, AddLinksFacts, BaseTypes
  <2>4. Relock(c, ic', s, NoProc) /\ NoProc \in Procs \cup {NoProc}
    BY <1>2, <2>1, <2>2 DEF Relock
  <2>5. PICK d : d = ic'
    OBVIOUS
  <2>6. /\ d \in [Slots -> Inode] /\ SameRefs(c, d) /\ d[s].lk = NoProc
        /\ d[s].type = c[s].type /\ d[s].nlink = c[s].nlink /\ d[s].valid = c[s].valid
        /\ \A z \in Slots : z # s => d[z] = c[z]
    <3> DEFINE e == c[s]
               f == [e EXCEPT !.lk = NoProc]
    <3>1. e \in Inode /\ c \in [Slots -> Inode] /\ s \in Slots
      BY <1>1, <2>3
    <3>2. d = [c EXCEPT ![s] = f]
      BY <2>4, <2>5 DEF Relock
    <3> HIDE DEF e
    <3>3. /\ f \in Inode /\ f.lk = NoProc /\ f.type = e.type /\ f.nlink = e.nlink
          /\ f.valid = e.valid /\ f.ref = e.ref /\ f.inum = e.inum
      BY <3>1 DEF Inode
    <3> HIDE DEF f
    <3>4. d \in [Slots -> Inode] /\ d[s] = f /\ \A z \in Slots : z # s => d[z] = c[z]
      BY <3>1, <3>2, <3>3
    <3>5. SameRefs(c, d)
      BY <3>1, <3>3, <3>4 DEF SameRefs, e
    <3> QED
      BY <3>3, <3>4, <3>5 DEF e
  <2>7. SameRefs(ic, d)
    BY <2>3, <2>6, SameTwice
  <2>8. Loaded(s).type = dn[Num(s)].type /\ Loaded(s).nlink = dn[Num(s)].nlink
    BY <1>1, FineFacts DEF Second
  <2>9. Loaded(s) = ic[s]
    BY <1>1 DEF Loaded
  <2> QED
    <3>1. /\ d[s].lk = NoProc /\ d[s].valid /\ d[s].type = dn[Num(s)].type
          /\ d[s].nlink = dn[Num(s)].nlink + n /\ \A z \in Slots : z # s => d[z] = ic[z]
      BY <1>1, <2>3, <2>6, <2>8, <2>9
    <3> QED
      BY <1>2, <2>1, <2>5, <2>6, <2>7, <3>1 DEF Counted
<1>5. /\ Counted(k[p][1].s, -1) /\ Then(p, <<Put(k[p][1].s)>>)
      /\ ic'[k[p][1].s].lk = NoProc
  BY <1>2, <1>4 DEF s
<1>6. Second'
  BY <1>0, <1>2, <1>3, <1>5, CountsBack
<1>7. Fewer
  <2>1. PICK n \in Int : n = -1
    OBVIOUS
  <2> QED
    BY <1>1, <1>4, <2>1, CountedFewer
<1> QED
  BY <1>6, <1>7

\* link() counts the link before the name exists.
LEMMA Link1Second ==
    ASSUME Base, Second, NEW p \in Procs, Link1(p)
    PROVE  Second' /\ Fewer
<1> DEFINE op == "link1"
           s == res[p]
           path == k[p][1].path
<1>0. On(p, op) /\ op \in ToDir \cup ToFile /\ s # NULL /\ op = "link1" /\ op # "create" /\ op \notin Counting
  BY DEF Link1, ToFile, Counting
<1> HIDE DEF op
<1>1. /\ k[p] # <<>> /\ Arg(p) = k[p][1] /\ Fine(s) /\ s \in Slots /\ Unkept(p) /\ Live(s)
      /\ Top(k[p]).op \notin LifeOps /\ ~ NoType(s) /\ Loaded(s).type = dn[Num(s)].type
      /\ Top(k[p]) = k[p][1] /\ Top(k[p]).op = op
  BY <1>0, ResDoing
<1>2. ~ (Len(k[p]) > 1) /\ Well(k[p][1])
  BY <1>0, ResFacts
<1>3. /\ halted' = NoType(s) /\ Return(p, NULL) /\ Lockable(s)
      /\ \/ ic' = Load(s, NoProc) /\ dn' = dn /\ Then(p, <<Put(s)>>)
         \/ /\ Load(s, NoProc)[s].type # "DIR"
            /\ ic' = AddLinks(Load(s, NoProc), s, 1) /\ dn' = Iupdate(ic', s)
            /\ Then(p, <<Namex(path, "parent"), Ins("link2", s, NULL, path, "")>>)
  BY <1>1 DEF Link1
<1>4. Others(res, res', p) /\ res'[p] = NULL /\ ~halted'
  BY <1>1, <1>3, ReturnFacts, NullSlot
<1>5. IsPath(path)
  BY <1>0, <1>1, <1>2 DEF Well
<1>6. View(k[p], 0) = k[p][1]
  BY <1>1, <1>2, TurnPlaces
<1>7. Pending(k[p], ic) = NULL
  BY <1>0, <1>1, <1>6 DEF Pending, Counting
<1> HIDE DEF s, path
<1>8. ASSUME ic' = Load(s, NoProc), dn' = dn, Then(p, <<Put(s)>>)
      PROVE  Second' /\ Fewer
  <2>1. Second'
    BY <1>1, <1>3, <1>4, <1>8, LooksPut
  <2>2. Fewer
    BY <1>8 DEF Fewer
  <2> QED
    BY <2>1, <2>2
<1>9. ASSUME Load(s, NoProc)[s].type # "DIR",
             ic' = AddLinks(Load(s, NoProc), s, 1), dn' = Iupdate(ic', s),
             Then(p, <<Namex(path, "parent"), Ins("link2", s, NULL, path, "")>>)
      PROVE  Second' /\ Fewer
  <2>1. PICK n \in Int : n = 1
    OBVIOUS
  <2>2. Counted(s, n) /\ ic'[s].lk = NoProc
    <3>1. ic' = AddLinks(Load(s, NoProc), s, n)
      BY <1>9, <2>1
    <3> QED
      BY <1>1, <1>9, <3>1, LoadCounted
  <2>3. /\ CalmCache(ic', dn') /\ CalmDisk(p, dn') /\ TypesKept /\ NlinkTypes /\ InumsKept
        /\ \A d \in Inums : dn'[d].ents = dn[d].ents
        /\ ic'[s].inum = Num(s) /\ dn'[Num(s)].nlink = dn[Num(s)].nlink + n
        /\ \A d \in Inums : d # Num(s) => dn'[d].nlink = dn[d].nlink
    BY <1>1, <2>2, CountedFacts
  <2>4. PICK a : a = Namex(path, "parent")
    OBVIOUS
  <2>5. PICK b : Link2Ins(b, s, path)
    BY DEF Link2Ins
  <2>6. Then(p, <<a, b>>)
    BY <1>9, <2>4, <2>5 DEF Link2Ins
  <2>7. a \in Instr /\ Well(a) /\ a.op = "namex" /\ a.path = path /\ a.arg = "parent"
    BY <1>5, <2>4, NamexWell
  <2>8. b \in Instr /\ Well(b) /\ b.op = "link2" /\ b.path = path /\ b.op \in Bottom /\ b.s = s
    BY <1>1, <1>5, <2>5, Link2Well
  <2>9. Fit2(a, b, k[p])
    <3>1. Above(a, b)
      BY <2>7, <2>8 DEF Above, Over, Deep, ToDir
    <3> QED BY <1>2, <2>7, <2>8, <3>1 DEF Fit2, Fit1
  <2>10. Light(a)
    BY <2>7 DEF Light, Keepers, TOps, Counting, ToDir
  <2>11. Keeps(a) = NULL /\ RelyNew(a) /\ a.op \notin {"free", "freed", "new"}
    BY <2>10, LightFacts
  <2>12. Top(k'[p]) = a /\ View(k'[p], 0) = b /\ Stay(p)
    BY <1>1, <1>2, <2>6, <2>9, <2>11, Turn2 DEF Turned
  <2>13. TopNew(p)
    BY <2>10, <2>12, LightFacts
  <2>14. Pending(k'[p], ic') = Num(s)
    BY <2>3, <2>8, <2>12 DEF Pending
  <2>15. Keeps(b) = NULL /\ RelyNew(b)
    <3>1. dn[Num(s)].type # "DIR" /\ Num(s) \in Inums
      <4>1. FilesTypes /\ NoProc \in Procs \cup {NoProc}
        BY DEF Base
      <4>2. Load(s, NoProc)[s].type = Loaded(s).type
        BY <1>1, <4>1, LoadFacts
      <4> QED
        BY <1>1, <1>9, <4>2, FineFacts DEF Second
    <3>2. dn'[ic'[s].inum].type # "DIR"
      BY <2>3, <3>1 DEF TypesKept
    <3> QED
      BY <2>8, <3>2 DEF RelyNew, Keeps, Keepers, TOps
  <2>16. Links'
    <3>1. ASSUME NEW i \in Inums
          PROVE  Is(Pending(k'[p], ic'), i) - Is(Pending(k[p], ic), i) <= dn'[i].nlink - dn[i].nlink
      <4>1. dn[i].nlink \in Int /\ dn'[i].nlink \in Int /\ NULL # i
        BY <2>3, FilesAssumption DEF NlinkTypes
      <4>2. CASE i = Num(s)
        BY <1>7, <2>1, <2>3, <2>14, <4>1, <4>2 DEF Is
      <4>3. CASE i # Num(s)
        BY <1>7, <2>3, <2>14, <4>1, <4>3 DEF Is
      <4> QED
        BY <4>2, <4>3
    <3> QED
      BY <2>3, <2>12, <3>1, LinksCall DEF Second
  <2>17. KeepsRes(k'[p], res'[p]) = NULL
    BY <1>4 DEF KeepsRes
  <2>18. LockMove(p, Keeps(Top(k[p])), KeepsRes(k[p], res[p]), NULL, KeepsRes(k'[p], res'[p]))
    <3>1. \A z \in Slots : ic'[z].lk = ic[z].lk
      BY <1>3, <2>2 DEF Counted, Lockable
    <3> QED
      BY <1>1, <2>17, <3>1, LocksSame DEF Second, Unkept
  <2>19. LockMove(p, Keeps(Top(k[p])), KeepsRes(k[p], res[p]), Keeps(b), KeepsRes(k'[p], res'[p]))
    BY <2>15, <2>18
  <2>20. Second'
    BY <1>1, <1>4, <2>3, <2>6, <2>9, <2>11, <2>13, <2>15, <2>16, <2>19, Writes2
  <2>21. Fewer
    BY <1>1, <2>2, CountedFewer
  <2> QED
    BY <2>20, <2>21
<1> QED
  BY <1>3, <1>8, <1>9

\* "." and ".." are in a directory that is neither new nor being freed.
LEMMA DotThere ==
    ASSUME Base, Second, NEW s, Fine(s), dn[Num(s)].type = "DIR"
    PROVE  /\ dn[Num(s)].ents["."] = Num(s) /\ dn[Num(s)].ents[".."] # NULL
           /\ Num(s) # NULL /\ Num(s) \in Inums
<1>1. s \in Slots /\ ic[s].ref > 0 /\ Num(s) \in Inums
  BY FineFacts DEF Second
<1>2. ASSUME NEW z \in Slots, ic[z].ref > 0, Num(z) = Num(s) PROVE ~ Filling(z)
  <2>1. z = s
    BY <1>1, <1>2 DEF Base, Unique, Num
  <2> QED
    BY <2>1 DEF Fine, Odd
<1>3. dn[Num(s)].ents["."] = Num(s) /\ dn[Num(s)].ents[".."] # NULL
  BY <1>1, <1>2 DEF Second, Dirs
<1> QED
  BY <1>1, <1>3, FilesAssumption

\* Name n of directory d, and what it and the call of p count.
EntryMove(p, d, n, old, new, b1, b2, c1, c2) ==
    /\ d \in Inums /\ n \in Names
    /\ \A i \in Inums, m \in Names : i # d \/ m # n => dn'[i].ents[m] = dn[i].ents[m]
    /\ old = dn[d].ents[n] /\ new = dn'[d].ents[n]
    /\ b1 = Sub(dn, d, old) /\ b2 = Sub(dn', d, new)
    /\ c1 = Pending(k[p], ic) /\ c2 = Pending(k'[p], ic')
    /\ \A i \in Inums : (Is(new, i) - Is(old, i)) + (Is(b2, i) - Is(b1, i)) + (Is(c2, i) - Is(c1, i))
                            <= dn'[i].nlink - dn[i].nlink

\* The links are counted right after a name has been entered or cleared.
LEMMA LinksMoved ==
    ASSUME Base, Second, InumsKept, NEW p \in Procs, Stay(p), TypesKept, NlinkTypes,
           NEW d, NEW n, NEW old, NEW new, NEW b1, NEW b2, NEW c1, NEW c2,
           EntryMove(p, d, n, old, new, b1, b2, c1, c2)
    PROVE  Links'
<1>1. Life /\ Links
  BY DEF Second
<1>2. d \in Inums /\ n \in Names
  BY DEF EntryMove
<1>3. \A i \in Inums, m \in Names : i # d \/ m # n => dn'[i].ents[m] = dn[i].ents[m]
  BY DEF EntryMove
<1>4. /\ old = dn[d].ents[n] /\ new = dn'[d].ents[n]
      /\ b1 = Sub(dn, d, old) /\ b2 = Sub(dn', d, new)
      /\ c1 = Pending(k[p], ic) /\ c2 = Pending(k'[p], ic')
  BY DEF EntryMove
<1>5. \A i \in Inums : (Is(new, i) - Is(old, i)) + (Is(b2, i) - Is(b1, i)) + (Is(c2, i) - Is(c1, i))
                            <= dn'[i].nlink - dn[i].nlink
  BY DEF EntryMove
<1> QED
  BY <1>1, <1>2, <1>3, <1>4, <1>5, LinksEntry

\* link() enters the new name.
LEMMA Link2EnterSecond ==
    ASSUME Base, Second, NEW p \in Procs, Link2(p), dirlookup(res[p], Last(k[p][1].path)) = NULL
    PROVE  Second' /\ Fewer
<1> DEFINE op == "link2"
           dp == res[p]
           ip == k[p][1].s
           name == Last(k[p][1].path)
<1>0. /\ On(p, op) /\ op \in ToDir \cup ToFile /\ op \in ToDir /\ dp # NULL /\ op # "create"
      /\ op \in {"link2"} /\ op \in Counting
  BY DEF Link2, ToDir, Counting
<1> HIDE DEF op
<1>1. /\ k[p] # <<>> /\ Arg(p) = k[p][1] /\ Fine(dp) /\ dp \in Slots /\ Unkept(p) /\ Live(dp)
      /\ Top(k[p]).op \notin LifeOps /\ ~ NoType(dp) /\ dn[Num(dp)].type = "DIR"
      /\ Loaded(dp).type = dn[Num(dp)].type /\ Loaded(dp).nlink = dn[Num(dp)].nlink
  BY <1>0, ResDoing
<1>2. ~ (Len(k[p]) > 1) /\ name \in Names \cup {".", ".."}
  BY <1>0, ResFacts
<1>3. /\ Fine(ip) /\ ip \in Slots /\ Pending(k[p], ic) = Num(ip) /\ dn[Num(ip)].type # "DIR"
  BY <1>0, CountingDoing
<1>4. /\ halted' = NoType(dp) /\ Return(p, NULL) /\ Lockable(dp)
      /\ ic' = Load(dp, NoProc) /\ dn' = [dn EXCEPT ![ic[dp].inum].ents[name] = ic[ip].inum]
      /\ Then(p, <<Put(dp), Put(ip)>>) /\ dirlookup(dp, name) = NULL
  BY <1>1 DEF Link2
<1>5. Others(res, res', p) /\ res'[p] = NULL /\ ~halted'
  BY <1>1, <1>4, ReturnFacts, NullSlot
<1> HIDE DEF dp, ip, name
<1>6. /\ Num(dp) \in Inums /\ Num(ip) \in Inums /\ Num(ip) # NULL
      /\ name \in Names /\ dn[Num(dp)].ents[name] = NULL
  <2>1. Num(dp) \in Inums /\ Num(ip) \in Inums
    BY <1>1, <1>3, FineFacts DEF Second
  <2>2. dn[Num(dp)].ents["."] # NULL /\ dn[Num(dp)].ents[".."] # NULL
    BY <1>1, DotThere
  <2>3. dn[Num(dp)].ents[name] = NULL
    BY <1>4 DEF dirlookup, Num
  <2> QED
    BY <1>2, <2>1, <2>2, <2>3, FilesAssumption
<1>7. /\ dn' \in [Inums -> Dinode] /\ (\A j \in Inums : j # Num(dp) => dn'[j] = dn[j])
      /\ dn'[Num(dp)].type = dn[Num(dp)].type /\ dn'[Num(dp)].nlink = dn[Num(dp)].nlink
      /\ \A m \in Entries : dn'[Num(dp)].ents[m] = IF m = name THEN Num(ip) ELSE dn[Num(dp)].ents[m]
  <2>1. PICK e : e = dn'
    OBVIOUS
  <2>2. EntSet(dn, e, Num(dp), name, Num(ip)) /\ name \in Entries
    BY <1>4, <1>6, <2>1 DEF EntSet, Num, Entries
  <2>3. dn \in [Inums -> Dinode] /\ Num(ip) \in Inums \cup {NULL}
    BY <1>6, BaseTypes
  <2>4. /\ e \in [Inums -> Dinode] /\ (\A j \in Inums : j # Num(dp) => e[j] = dn[j])
        /\ e[Num(dp)].type = dn[Num(dp)].type /\ e[Num(dp)].nlink = dn[Num(dp)].nlink
        /\ \A m \in Entries : e[Num(dp)].ents[m] = IF m = name THEN Num(ip) ELSE dn[Num(dp)].ents[m]
    BY <1>6, <2>2, <2>3, EntSetFacts
  <2> QED
    BY <2>1, <2>4
<1>8. /\ (\A z \in Slots : ic'[z].lk = ic[z].lk) /\ SameRefs(ic, ic') /\ ic'[dp].valid
      /\ ic'[dp].type = dn[Num(dp)].type /\ ic'[dp].nlink = dn[Num(dp)].nlink
      /\ \A z \in Slots : z # dp => ic'[z] = ic[z]
  <2>1. FilesTypes /\ NoProc \in Procs \cup {NoProc}
    BY DEF Base
  <2>2. PICK c : c = Load(dp, NoProc)
    OBVIOUS
  <2>3. /\ SameRefs(ic, c) /\ c[dp].valid /\ c[dp].type = Loaded(dp).type /\ c[dp].nlink = Loaded(dp).nlink
    <3>1. Live(dp) /\ FilesTypes /\ NoProc \in Procs \cup {NoProc}
      BY <1>1, <2>1
    <3> QED
      BY <2>2, <3>1, LoadFacts
  <2>4. (\A z \in Slots : c[z].lk = ic[z].lk) /\ \A z \in Slots : z # dp => c[z] = ic[z]
    BY <1>1, <1>4, <2>1, <2>2, LoadLk
  <2>5. ic' = c
    BY <1>4, <2>2
  <2> QED
    BY <1>1, <2>3, <2>4, <2>5
<1>9. Wrote(ic', dn', {dp})
  BY <1>1, <1>7, <1>8 DEF Wrote, SameRefs
<1>10. CalmCache(ic', dn')
  BY <1>9, WroteCalm DEF Second
<1>11. TypesKept /\ NlinkTypes /\ InumsKept
  <2>1. TypesKept
    BY <1>7 DEF TypesKept
  <2>2. NlinkTypes
    BY <1>7, BaseTypes DEF NlinkTypes, Dinode
  <2>3. InumsKept
    BY <1>8 DEF InumsKept, SameRefs
  <2> QED
    BY <2>1, <2>2, <2>3
<1>12. /\ "." \in Entries /\ "." # name /\ ".." \in Entries /\ ".." # name
       /\ \A m \in Names : m \in Entries
  BY <1>6, FilesAssumption DEF Entries
<1>13. CalmDisk(p, dn')
  <2>1. ic[dp].lk \in {p, NoProc}
    BY <1>4 DEF Lockable
  <2>2. \A i \in Inums : i # Num(dp) => dn'[i].ents = dn[i].ents
    BY <1>7
  <2>3. /\ dn'[Num(dp)].ents["."] = dn[Num(dp)].ents["."]
        /\ dn'[Num(dp)].ents[".."] = dn[Num(dp)].ents[".."]
    BY <1>7, <1>12
  <2>4. \A i \in Inums : dn[i].type = "FREE" => dn'[i] = dn[i]
    BY <1>1, <1>7
  <2>5. \A i \in Inums : dn'[i].type = dn[i].type
    BY <1>7
  <2> QED
    BY <1>1, <1>6, <2>1, <2>2, <2>3, <2>4, <2>5, EntryDisk DEF Second
<1>14. PICK a : a = Put(dp)
  OBVIOUS
<1>15. PICK b : b = Put(ip)
  OBVIOUS
<1>16. Then(p, <<a, b>>)
  BY <1>4, <1>14, <1>15
<1>17. a \in Instr /\ Well(a) /\ a.op = "put" /\ \A d : d.op \in Deep => Above(a, d)
  BY <1>1, <1>14, PutWell
<1>18. b \in Instr /\ Well(b) /\ b.op = "put" /\ b.op \in Bottom
  BY <1>3, <1>15, PutWell
<1>19. Fit2(a, b, k[p])
  <2>1. Above(a, b)
    BY <1>17, <1>18 DEF Deep
  <2> QED BY <1>2, <1>17, <1>18, <2>1 DEF Fit2, Fit1
<1>20. Light(a) /\ Light(b)
  BY <1>17, <1>18 DEF Light, Keepers, TOps, Counting, ToDir
<1>21. /\ Keeps(a) = NULL /\ RelyNew(a) /\ Keeps(b) = NULL /\ RelyNew(b)
       /\ a.op \notin {"free", "freed", "new"}
  BY <1>20, LightFacts
<1>22. Top(k'[p]) = a /\ View(k'[p], 0) = b /\ Stay(p)
  BY <1>1, <1>2, <1>16, <1>19, <1>21, Turn2 DEF Turned
<1>23. TopNew(p) /\ KeepsRes(k'[p], res'[p]) = NULL
  BY <1>5, <1>20, <1>22, LightFacts DEF KeepsRes
<1>24. Pending(k'[p], ic') = NULL
  BY <1>18, <1>22 DEF Pending
<1>25. Links'
  <2>1. PICK d : d = Num(dp)
    OBVIOUS
  <2>2. PICK j : j = Num(ip)
    OBVIOUS
  <2>3. Sub(dn, d, NULL) = NULL /\ Sub(dn', d, j) = NULL
    BY <1>3, <1>6, <1>11, <2>2 DEF Sub, TypesKept
  <2>4. /\ d \in Inums /\ NULL = dn[d].ents[name] /\ j = dn'[d].ents[name]
        /\ j = Pending(k[p], ic) /\ NULL = Pending(k'[p], ic') /\ j # NULL
    BY <1>3, <1>6, <1>7, <1>12, <1>24, <2>1, <2>2
  <2>5. \A i \in Inums, m \in Names : i # d \/ m # name => dn'[i].ents[m] = dn[i].ents[m]
    BY <1>7, <1>12, <2>1
  <2>6. ASSUME NEW i \in Inums
        PROVE  (Is(j, i) - Is(NULL, i)) + (Is(NULL, i) - Is(NULL, i)) + (Is(NULL, i) - Is(j, i))
                  <= dn'[i].nlink - dn[i].nlink
    <3>1. dn[i].nlink = dn'[i].nlink /\ dn[i].nlink \in Int
      BY <1>7, <1>11 DEF NlinkTypes
    <3>2. Is(j, i) \in Int /\ Is(NULL, i) \in Int
      BY DEF Is
    <3> QED
      BY <3>1, <3>2
  <2>7. EntryMove(p, d, name, NULL, j, NULL, NULL, j, NULL)
    BY <1>6, <2>3, <2>4, <2>5, <2>6 DEF EntryMove
  <2> QED
    BY <1>11, <1>22, <2>7, LinksMoved
<1>26. LockMove(p, Keeps(Top(k[p])), KeepsRes(k[p], res[p]), NULL, KeepsRes(k'[p], res'[p]))
  BY <1>1, <1>8, <1>23, LocksSame DEF Second, Unkept
<1>27. LockMove(p, Keeps(Top(k[p])), KeepsRes(k[p], res[p]), Keeps(b), KeepsRes(k'[p], res'[p]))
  BY <1>21, <1>26
<1>28. Second'
  BY <1>1, <1>5, <1>10, <1>13, <1>16, <1>19, <1>21, <1>23, <1>25, <1>27, Writes2
<1>29. Fewer
  <2>1. \A d \in Inums, m \in Names :
           dn'[d].ents[m] = dn[d].ents[m] \/ dn'[d].ents[m] = Num(ip)
    BY <1>7, <1>12
  <2>2. dn'[Num(ip)].type # "DIR"
    BY <1>3, <1>6, <1>11 DEF TypesKept
  <2>3. \A d \in Inums, m \in Names : dn[d].ents[m] \in Inums \cup {NULL}
    BY BaseTypes DEF Dinode, Entries
  <2> QED
    BY <1>11, <2>1, <2>2, <2>3 DEF Fewer, TypesKept
<1> QED
  BY <1>28, <1>29

\* link() with the parent locked.
LEMMA Link2Second ==
    ASSUME Base, Second, NEW p \in Procs, Link2(p), Climbs(p)
    PROVE  Second' /\ Fewer
<1>1. CASE dirlookup(res[p], Last(k[p][1].path)) # NULL
  <2> DEFINE op == "link2"
  <2>0. On(p, op)
    BY DEF Link2
  <2> HIDE DEF op
  <2>1. dn' = dn
    <3>1. Arg(p) = k[p][1]
      BY <2>0, OnFacts
    <3> QED
      BY Zenon, <1>1, <3>1 DEF Link2
  <2>2. Fewer
    BY <2>1 DEF Fewer
  <2> QED
    BY <1>1, <2>2, Link2FoundSecond
<1>2. CASE dirlookup(res[p], Last(k[p][1].path)) = NULL
  BY Zenon, <1>2, Link2EnterSecond
<1> QED
  BY <1>1, <1>2

\* Entry name of directory dp is cleared and its link count changed by n; dp is unlocked,
\* and ip is locked.
Cleared(p, ip, dp, name, n) ==
    /\ SameRefs(ic, ic')
    /\ \A z \in Slots : z # ip /\ z # dp => ic'[z] = ic[z]
    /\ ic'[ip].lk = p /\ ic'[ip].valid
    /\ ic'[ip].type = dn[Num(ip)].type /\ ic'[ip].nlink = dn[Num(ip)].nlink
    /\ ic'[dp].lk = NoProc /\ ic'[dp].valid
    /\ ic'[dp].type = dn[Num(dp)].type /\ ic'[dp].nlink = dn[Num(dp)].nlink + n
    /\ \A j \in Inums : j # Num(dp) => dn'[j] = dn[j]
    /\ dn'[Num(dp)].type = dn[Num(dp)].type
    /\ dn'[Num(dp)].nlink = dn[Num(dp)].nlink + n
    /\ \A m \in Entries : dn'[Num(dp)].ents[m] = IF m = name THEN NULL ELSE dn[Num(dp)].ents[m]

\* unlink() does this.
LEMMA ClearedFacts ==
    ASSUME Base, Second, NEW p \in Procs, NEW ip, NEW dp, NEW name \in Names, NEW n \in Int,
           Fine(ip), Fine(dp), ip # dp, ic[dp].valid,
           ic' = AddLinks([Load(ip, p) EXCEPT ![dp].lk = NoProc], dp, n),
           dn' = [Iupdate(ic', dp) EXCEPT ![Load(ip, p)[dp].inum].ents[name] = NULL]
    PROVE  Cleared(p, ip, dp, name, n)
<1>0. ip \in Slots /\ dp \in Slots /\ Live(ip) /\ Live(dp) /\ FilesTypes /\ p \in Procs \cup {NoProc}
  BY DEF Fine, Live, Base
<1>1. /\ Loaded(ip).type = dn[Num(ip)].type /\ Loaded(ip).nlink = dn[Num(ip)].nlink
      /\ Loaded(dp).type = dn[Num(dp)].type /\ Loaded(dp).nlink = dn[Num(dp)].nlink
      /\ Num(dp) \in Inums
  BY FineFacts DEF Second
<1>2. ic[dp].type = dn[Num(dp)].type /\ ic[dp].nlink = dn[Num(dp)].nlink
  BY <1>1 DEF Loaded
<1>3. PICK c : c = Load(ip, p)
  OBVIOUS
<1>4. /\ c \in [Slots -> Inode] /\ SameRefs(ic, c) /\ c[ip].lk = p /\ c[ip].valid
      /\ c[ip].type = Loaded(ip).type /\ c[ip].nlink = Loaded(ip).nlink
      /\ \A z \in Slots : z # ip => c[z] = ic[z]
  <2>1. /\ c \in [Slots -> Inode] /\ SameRefs(ic, c)
        /\ c[ip].type = Loaded(ip).type /\ c[ip].nlink = Loaded(ip).nlink
    BY <1>0, <1>3, LoadFacts
  <2>2. c[ip].lk = p /\ c[ip].valid /\ \A z \in Slots : z # ip => c[z] = ic[z]
    BY <1>0, <1>3, LoadLk
  <2> QED
    BY <2>1, <2>2
<1>5. PICK d : d = [c EXCEPT ![dp].lk = NoProc]
  OBVIOUS
<1>6. /\ d \in [Slots -> Inode] /\ SameRefs(c, d) /\ d[dp].lk = NoProc
      /\ d[dp].type = c[dp].type /\ d[dp].nlink = c[dp].nlink /\ d[dp].valid = c[dp].valid
      /\ \A z \in Slots : z # dp => d[z] = c[z]
  <2>1. PICK u : u = c[dp]
    OBVIOUS
  <2>2. PICK v : v = [u EXCEPT !.lk = NoProc]
    OBVIOUS
  <2>3. u \in Inode
    BY <1>0, <1>4, <2>1
  <2>4. /\ v \in Inode /\ v.lk = NoProc /\ v.type = u.type /\ v.nlink = u.nlink
        /\ v.valid = u.valid /\ v.ref = u.ref /\ v.inum = u.inum
    BY <2>2, <2>3 DEF Inode
  <2>5. SlotSet(c, d, dp, v)
    BY <1>5, <2>1, <2>2 DEF SlotSet
  <2>6. /\ d \in [Slots -> Inode] /\ d[dp] = v /\ (\A z \in Slots : z # dp => d[z] = c[z])
        /\ (v.ref = c[dp].ref /\ v.inum = c[dp].inum => SameRefs(c, d))
    BY <1>0, <1>4, <2>4, <2>5, SlotSetFacts
  <2> QED
    BY <2>1, <2>4, <2>6
<1>7. PICK e : e = AddLinks(d, dp, n)
  OBVIOUS
<1>8. /\ e \in [Slots -> Inode] /\ SameRefs(d, e) /\ (\A z \in Slots : z # dp => e[z] = d[z])
      /\ e[dp].nlink = d[dp].nlink + n /\ e[dp].type = d[dp].type /\ e[dp].valid = d[dp].valid
      /\ e[dp].lk = d[dp].lk
  BY <1>0, <1>6, <1>7, AddLinksFacts
<1>9. ic' = e
  BY <1>3, <1>5, <1>7
<1>10. SameRefs(ic, ic')
  BY <1>4, <1>6, <1>8, <1>9 DEF SameRefs
<1>11. /\ (\A z \in Slots : z # ip /\ z # dp => ic'[z] = ic[z])
       /\ ic'[ip].lk = p /\ ic'[ip].valid
       /\ ic'[ip].type = dn[Num(ip)].type /\ ic'[ip].nlink = dn[Num(ip)].nlink
  <2>1. e[ip] = c[ip]
    BY <1>0, <1>6, <1>8
  <2>2. \A z \in Slots : z # ip /\ z # dp => e[z] = ic[z]
    BY <1>4, <1>6, <1>8
  <2> QED
    BY <1>1, <1>4, <1>9, <2>1, <2>2
<1>12. /\ ic'[dp].lk = NoProc /\ ic'[dp].valid
       /\ ic'[dp].type = dn[Num(dp)].type /\ ic'[dp].nlink = dn[Num(dp)].nlink + n
  <2>1. c[dp] = ic[dp]
    BY <1>0, <1>4
  <2> QED
    BY <1>2, <1>6, <1>8, <1>9, <2>1
<1>13. /\ (\A j \in Inums : j # Num(dp) => dn'[j] = dn[j])
       /\ dn'[Num(dp)].type = dn[Num(dp)].type
       /\ dn'[Num(dp)].nlink = dn[Num(dp)].nlink + n
       /\ \A m \in Entries : dn'[Num(dp)].ents[m] = IF m = name THEN NULL ELSE dn[Num(dp)].ents[m]
  <2>1. e[dp].inum = Num(dp) /\ c[dp].inum = Num(dp)
    BY <1>0, <1>4, <1>9, <1>10 DEF SameRefs, Num
  <2>2. PICK g : g = Iupdate(e, dp)
    OBVIOUS
  <2>3. /\ g \in [Inums -> Dinode] /\ (\A j \in Inums : j # e[dp].inum => g[j] = dn[j])
        /\ g[e[dp].inum].type = e[dp].type /\ g[e[dp].inum].nlink = e[dp].nlink
        /\ g[e[dp].inum].ents = dn[e[dp].inum].ents
    <3>1. e[dp].inum \in Inums
      BY <1>1, <2>1
    <3> QED
      BY <1>0, <1>8, <2>2, <3>1, IupdateFacts
  <2>4. PICK h : h = [g EXCEPT ![c[dp].inum].ents[name] = NULL]
    OBVIOUS
  <2>5. dn' = h
    BY <1>3, <1>9, <2>2, <2>4
  <2>6. PICK i : i = Num(dp)
    OBVIOUS
  <2>7. EntSet(g, h, i, name, NULL) /\ i \in Inums /\ name \in Entries
    BY <1>1, <2>1, <2>4, <2>6 DEF EntSet, Entries
  <2>8. /\ (\A j \in Inums : j # i => h[j] = g[j]) /\ h[i].type = g[i].type /\ h[i].nlink = g[i].nlink
        /\ \A m \in Entries : h[i].ents[m] = IF m = name THEN NULL ELSE g[i].ents[m]
    BY <2>3, <2>7, EntSetFacts
  <2>9. e[dp].type = dn[i].type /\ e[dp].nlink = dn[i].nlink + n
    BY <1>9, <1>12, <2>6
  <2>10. /\ (\A j \in Inums : j # i => g[j] = dn[j]) /\ g[i].type = dn[i].type
         /\ g[i].nlink = dn[i].nlink + n /\ g[i].ents = dn[i].ents
    BY <2>1, <2>3, <2>6, <2>9
  <2>11. /\ (\A j \in Inums : j # i => h[j] = dn[j]) /\ h[i].type = dn[i].type
         /\ h[i].nlink = dn[i].nlink + n
         /\ \A m \in Entries : h[i].ents[m] = IF m = name THEN NULL ELSE dn[i].ents[m]
    BY <2>8, <2>10
  <2> QED
    BY <2>5, <2>6, <2>11
<1> QED
  BY <1>10, <1>11, <1>12, <1>13 DEF Cleared

\* The parent of a directory loses a link with it.
Loses(s, n) == n \in Int /\ n + (IF dn[Num(s)].type = "DIR" THEN 1 ELSE 0) = 0

\* The first instruction of p is op, on inodes ip and dp, with a name and an argument.
OnBoth(p, op, ip, dp, name, g) ==
    /\ On(p, op) /\ ip = k[p][1].s /\ dp = k[p][1].t
    /\ name = k[p][1].path[1] /\ g = k[p][1].arg

\* unlink() clears the entry.
LEMMA Unlink2ClearSecond ==
    ASSUME Base, Second, NEW p \in Procs, NEW op \in {"unlink2"}, NEW ip, NEW dp, NEW name, NEW g,
           OnBoth(p, op, ip, dp, name, g), Lockable(ip), NEW n, Loses(ip, n),
           Cleared(p, ip, dp, name, n), res' = res, ~halted',
           NEW b, OneIns(b, "unlink3", ip), Then(p, <<Put(dp), b>>)
    PROVE  Second'
<1>4. /\ k[p] # <<>> /\ ~ (Len(k[p]) > 1) /\ Top(k[p]).op \notin LifeOps /\ res[p] = NULL
      /\ Fine(ip) /\ Fine(dp) /\ ip \in Slots /\ dp \in Slots
      /\ Keeps(Top(k[p])) = dp /\ KeepsRes(k[p], res[p]) = NULL
      /\ ic[dp].lk = p /\ dn[Num(dp)].type = "DIR" /\ name \in Names
      /\ dn[Num(dp)].ents[name] = Num(ip) /\ Pending(k[p], ic) = NULL
  <2>1. On(p, op)
    BY DEF OnBoth
  <2>2. /\ k[p] # <<>> /\ ~ (Len(k[p]) > 1) /\ Top(k[p]).op \notin LifeOps /\ res[p] = NULL
        /\ Fine(k[p][1].s) /\ Fine(k[p][1].t) /\ k[p][1].s \in Slots /\ k[p][1].t \in Slots
        /\ Keeps(Top(k[p])) = k[p][1].t /\ KeepsRes(k[p], res[p]) = NULL
        /\ ic[k[p][1].t].lk = p /\ dn[Num(k[p][1].t)].type = "DIR" /\ k[p][1].path[1] \in Names
        /\ dn[Num(k[p][1].t)].ents[k[p][1].path[1]] = Num(k[p][1].s)
        /\ Pending(k[p], ic) = NULL
    BY <2>1, Unlink2Doing
  <2>3. ip = k[p][1].s /\ dp = k[p][1].t /\ name = k[p][1].path[1]
    BY DEF OnBoth
  <2> QED
    BY Zenon, <2>2, <2>3
<1>5. Cleared(p, ip, dp, name, n) /\ Lockable(ip) /\ n \in Int
  BY DEF Loses
<1>6. ip # dp /\ ic[ip].lk = NoProc
  BY <1>4, <1>5, FilesAssumption DEF Lockable
<1>7. Num(ip) \in Inums /\ Num(dp) \in Inums /\ Num(ip) # NULL
  BY <1>4, FineFacts, FilesAssumption DEF Second
<1>8. CalmCache(ic', dn')
  <2>1. Wrote(ic', dn', {ip, dp})
    <3>1. ic[ip].ref > 0 /\ ic[dp].ref > 0
      BY <1>4, FineFacts DEF Second
    <3>2. Num(ip) # Num(dp)
      BY <1>4, <1>6, <3>1 DEF Base, Unique, Num
    <3>3. /\ {ip, dp} \subseteq Slots /\ \A w \in {ip, dp} : Fine(w)
      BY <1>4
    <3>4. /\ \A z \in Slots : ic'[z].ref = ic[z].ref /\ ic'[z].inum = ic[z].inum
      BY <1>5 DEF Cleared, SameRefs
    <3>5. \A z \in Slots \ {ip, dp} : ic'[z].valid = ic[z].valid /\ ic'[z].type = ic[z].type
                                         /\ ic'[z].nlink = ic[z].nlink
      BY <1>5 DEF Cleared
    <3>6. dn'[Num(ip)] = dn[Num(ip)]
      BY <1>5, <1>7, <3>2 DEF Cleared
    <3>7. /\ ic'[ip].valid /\ ic'[ip].nlink = dn'[Num(ip)].nlink /\ ic'[ip].type = dn'[Num(ip)].type
          /\ ic'[dp].valid /\ ic'[dp].nlink = dn'[Num(dp)].nlink /\ ic'[dp].type = dn'[Num(dp)].type
      BY <1>5, <3>6 DEF Cleared
    <3>8. \A i \in Inums : i # Num(dp) => dn'[i] = dn[i]
      BY <1>5 DEF Cleared
    <3> QED
      BY <3>3, <3>4, <3>5, <3>7, <3>8 DEF Wrote
  <2> QED
    BY <2>1, WroteCalm DEF Second
<1>9. TypesKept /\ NlinkTypes /\ InumsKept
  <2>1. TypesKept
    BY <1>5 DEF TypesKept, Cleared
  <2>2. NlinkTypes
    <3>1. \A i \in Inums : dn[i].nlink \in Int
      BY BaseTypes DEF Dinode
    <3>2. \A i \in Inums : dn'[i].nlink = dn[i].nlink \/ dn'[i].nlink = dn[i].nlink + n
      BY <1>5, <1>7 DEF Cleared
    <3>3. \A i \in Inums : dn[i].nlink + n \in Int
      BY <1>5, <3>1
    <3> QED
      BY <3>1, <3>2, <3>3 DEF NlinkTypes
  <2>3. InumsKept
    BY <1>5 DEF InumsKept, SameRefs, Cleared
  <2> QED
    BY <2>1, <2>2, <2>3
<1>10. /\ "." \in Entries /\ "." # name /\ ".." \in Entries /\ ".." # name
       /\ \A m \in Names : m \in Entries
  BY <1>4, FilesAssumption DEF Entries
<1>11. CalmDisk(p, dn')
  <2>1. ic[dp].lk \in {p, NoProc}
    BY <1>4
  <2>2. \A i \in Inums : i # Num(dp) => dn'[i].ents = dn[i].ents
    BY <1>5 DEF Cleared
  <2>3. /\ dn'[Num(dp)].ents["."] = dn[Num(dp)].ents["."]
        /\ dn'[Num(dp)].ents[".."] = dn[Num(dp)].ents[".."]
    BY <1>5, <1>10 DEF Cleared
  <2>4. \A i \in Inums : dn[i].type = "FREE" => dn'[i] = dn[i]
    BY <1>4, <1>5 DEF Cleared
  <2>5. \A i \in Inums : dn'[i].type = dn[i].type
    BY <1>9 DEF TypesKept
  <2> QED
    BY <1>4, <2>1, <2>2, <2>3, <2>4, <2>5, EntryDisk DEF Second
<1>12. PICK a : a = Put(dp)
  OBVIOUS
<1>13. OneIns(b, "unlink3", ip)
  OBVIOUS
<1>14. Then(p, <<a, b>>)
  BY <1>12
<1>15. a \in Instr /\ Well(a) /\ a.op = "put" /\ \A d : d.op \in Deep => Above(a, d)
  BY <1>4, <1>12, PutWell
<1>16. b \in Instr /\ Well(b) /\ b.op = "unlink3" /\ b.op \in Bottom /\ b.s = ip
  <2> DEFINE o == "unlink3"
  <2>1. o \in PutOps \cup {"unlockput", "bad", "unlink3"} /\ OneIns(b, o, ip)
    BY <1>13
  <2> HIDE DEF o
  <2>3. ip \in Slots
    BY <1>4
  <2>2. b \in Instr /\ Well(b) /\ b.op = o /\ b.s = ip /\ b.op \in Bottom
    BY <2>1, <2>3, OneWell
  <2> QED
    BY <2>2 DEF o
<1>17. Fit2(a, b, k[p])
  <2>1. Above(a, b)
    BY <1>15, <1>16 DEF Deep
  <2> QED BY <1>4, <1>15, <1>16, <2>1 DEF Fit2, Fit1
<1>18. Light(a) /\ Keeps(b) = ip /\ RelyNew(b)
  <2>1. ic'[ip].valid
    BY <1>5 DEF Cleared
  <2> QED
    BY <1>15, <1>16, <2>1 DEF Light, Keepers, TOps, Counting, ToDir, Keeps, RelyNew
<1>19. Keeps(a) = NULL /\ RelyNew(a) /\ a.op \notin {"free", "freed", "new"}
  BY <1>18, LightFacts
<1>20. Top(k'[p]) = a /\ View(k'[p], 0) = b /\ Stay(p)
  BY <1>4, <1>14, <1>17, <1>19, Turn2 DEF Turned
<1>21. TopNew(p) /\ KeepsRes(k'[p], res'[p]) = NULL
  BY <1>4, <1>18, <1>20, LightFacts DEF KeepsRes
<1>22. Pending(k'[p], ic') = Num(ip)
  <2>1. Pending(k'[p], ic') = ic'[ip].inum
    BY <1>16, <1>20 DEF Pending
  <2> QED
    BY <1>4, <1>5, <2>1 DEF Cleared, SameRefs, Num
<1>23. Links'
  <2>1. PICK d : d = Num(dp)
    OBVIOUS
  <2>2. PICK j : j = Num(ip)
    OBVIOUS
  <2>3. PICK b1 : b1 = Sub(dn, d, j)
    OBVIOUS
  <2>4. b1 = (IF dn[j].type = "DIR" THEN d ELSE NULL) /\ Sub(dn', d, NULL) = NULL
    BY <1>7, <2>2, <2>3 DEF Sub
  <2>5. /\ d \in Inums /\ j = dn[d].ents[name] /\ NULL = dn'[d].ents[name]
        /\ NULL = Pending(k[p], ic) /\ j = Pending(k'[p], ic')
    BY <1>4, <1>5, <1>7, <1>10, <1>22, <2>1, <2>2 DEF Cleared
  <2>6. \A i \in Inums, m \in Names : i # d \/ m # name => dn'[i].ents[m] = dn[i].ents[m]
    BY <1>5, <1>10, <2>1 DEF Cleared
  <2>7. ASSUME NEW i \in Inums
        PROVE  (Is(NULL, i) - Is(j, i)) + (Is(NULL, i) - Is(b1, i)) + (Is(j, i) - Is(NULL, i))
                  <= dn'[i].nlink - dn[i].nlink
    <3>1. dn[i].nlink \in Int /\ dn'[i].nlink = dn[i].nlink + (IF i = d THEN n ELSE 0)
      <4>1. dn[i].nlink \in Int
        BY <1>9 DEF NlinkTypes
      <4>2. i = d => dn'[i].nlink = dn[i].nlink + n
        BY <1>5, <2>1 DEF Cleared
      <4>3. i # d => dn'[i].nlink = dn[i].nlink
        BY <1>5, <2>1 DEF Cleared
      <4>4. i # d => dn'[i].nlink = dn[i].nlink + 0
        BY <4>1, <4>3
      <4> QED
        BY <4>1, <4>2, <4>4
    <3>2. Is(j, i) \in Int /\ Is(NULL, i) = 0
      BY FilesAssumption DEF Is
    <3>3. 0 - Is(b1, i) = (IF i = d THEN n ELSE 0)
      <4>1. (dn[j].type = "DIR" => n + 1 = 0) /\ (dn[j].type # "DIR" => n + 0 = 0) /\ n \in Int
        BY <2>2 DEF Loses
      <4>2. dn[j].type = "DIR" => Is(b1, i) = (IF i = d THEN 1 ELSE 0)
        BY <2>4 DEF Is
      <4>3. dn[j].type # "DIR" => Is(b1, i) = 0
        BY <2>4, FilesAssumption DEF Is
      <4> QED
        BY <4>1, <4>2, <4>3
    <3>4. Is(b1, i) \in Int
      BY DEF Is
    <3> HIDE DEF Is
    <3> QED
      BY <3>1, <3>2, <3>3, <3>4
  <2>8. EntryMove(p, d, name, j, NULL, b1, NULL, NULL, j)
    BY <1>4, <2>3, <2>4, <2>5, <2>6, <2>7 DEF EntryMove
  <2> QED
    BY <1>9, <1>20, <2>8, LinksMoved
<1>24. LockMove(p, dp, NULL, ip, NULL)
  BY <1>4, <1>5, <1>6, NullSlot DEF LockMove, Cleared
<1>25. LockMove(p, Keeps(Top(k[p])), KeepsRes(k[p], res[p]), Keeps(b), KeepsRes(k'[p], res'[p]))
  BY <1>4, <1>18, <1>21, <1>24
<1>26. Others(res, res', p)
  BY DEF Others
<1> QED
  BY <1>4, <1>8, <1>11, <1>14, <1>17, <1>18, <1>19, <1>21, <1>23, <1>25, <1>26, Writes2

\* unlink() names no directory anew.
LEMMA ClearedFewer ==
    ASSUME Base, NEW p, NEW ip, NEW dp, NEW name, NEW n, NEW e \in Inums, e = Num(dp),
           Cleared(p, ip, dp, name, n)
    PROVE  Fewer
<1>1. \A j \in Inums : dn'[j].type = dn[j].type
  BY DEF Cleared
<1>2. \A d \in Inums, m \in Names : dn[d].ents[m] \in Inums \cup {NULL}
  BY BaseTypes DEF Dinode, Entries
<1>3. \A d \in Inums, m \in Names : dn'[d].ents[m] = NULL \/ dn'[d].ents[m] = dn[d].ents[m]
  <2>1. \A d \in Inums : d # e => dn'[d] = dn[d]
    BY DEF Cleared
  <2>2. \A m \in Names : dn'[e].ents[m] = NULL \/ dn'[e].ents[m] = dn[e].ents[m]
    <3>1. \A m \in Entries : dn'[e].ents[m] = IF m = name THEN NULL ELSE dn[e].ents[m]
      BY DEF Cleared
    <3> QED
      BY <3>1 DEF Entries
  <2> QED
    BY <2>1, <2>2
<1> QED
  BY <1>1, <1>2, <1>3 DEF Fewer

\* unlink() with both inodes locked.
LEMMA Unlink2Second ==
    ASSUME Base, Second, NEW p \in Procs, Unlink2(p)
    PROVE  Second' /\ Fewer
<1> DEFINE op == "unlink2"
<1>0. On(p, op) /\ op \in {"unlink2"}
  BY Zenon DEF Unlink2
<1> HIDE DEF op
<1>1. PICK ip : ip = k[p][1].s
  OBVIOUS
<1>2. PICK dp : dp = k[p][1].t
  OBVIOUS
<1>3. PICK name : name = k[p][1].path[1]
  OBVIOUS
<1>4. PICK g : g = k[p][1].arg
  OBVIOUS
<1>5. /\ Arg(p) = k[p][1] /\ Fine(ip) /\ Fine(dp) /\ ip \in Slots /\ dp \in Slots
      /\ ic[dp].lk = p /\ ic[dp].valid /\ name \in Names /\ dn[Num(dp)].ents[name] = Num(ip)
  BY <1>0, <1>1, <1>2, <1>3, Unlink2Doing
<1>6. PICK c : c = Load(ip, p)
  OBVIOUS
<1>7. c[ip].type = dn[Num(ip)].type /\ c[ip].nlink = dn[Num(ip)].nlink /\ ~ NoType(ip)
  <2>1. /\ Loaded(ip).type = dn[Num(ip)].type /\ Loaded(ip).nlink = dn[Num(ip)].nlink
        /\ ~ NoType(ip) /\ Live(ip)
    BY <1>5, FineFacts DEF Second, Fine
  <2>2. FilesTypes /\ p \in Procs \cup {NoProc}
    BY DEF Base
  <2>3. c[ip].type = Loaded(ip).type /\ c[ip].nlink = Loaded(ip).nlink
    BY <1>6, <2>1, <2>2, LoadFacts
  <2> QED
    BY <2>1, <2>3
<1>8. dn[Num(ip)].nlink >= 1 /\ dn[Num(ip)].nlink \in Int /\ Num(dp) \in Inums
  <2>1. Num(ip) \in Inums /\ Num(dp) \in Inums
    BY <1>5, FineFacts DEF Second
  <2>2. dn[Num(ip)].nlink >= 1
    BY <1>5, <2>1, NamedOnce, FilesAssumption DEF Second
  <2> QED
    BY <2>1, <2>2, BaseTypes DEF Dinode
<1>9. PICK n \in Int : n = IF c[ip].type = "DIR" THEN -1 ELSE 0
  OBVIOUS
<1>10. /\ Lockable(ip) /\ res' = res /\ halted' = (NoType(ip) \/ c[ip].nlink < 1)
       /\ \/ /\ ic' = Load(ip, NoProc) /\ dn' = dn /\ Then(p, <<Put(ip), Unlock(dp)>>)
          \/ /\ ic' = AddLinks([c EXCEPT ![dp].lk = NoProc], dp, n)
             /\ dn' = [Iupdate(ic', dp) EXCEPT ![c[dp].inum].ents[name] = NULL]
             /\ Then(p, <<Put(dp), Ins("unlink3", ip, NULL, <<>>, "")>>)
  BY Zenon, <1>1, <1>2, <1>3, <1>5, <1>6, <1>9 DEF Unlink2
<1>11. ~halted'
  <2>1. PICK x \in Int : x = dn[Num(ip)].nlink
    BY <1>8
  <2>2. PICK y : y = c[ip].nlink
    OBVIOUS
  <2>3. ~ (y < 1)
    <3>1. y = x /\ x >= 1
      BY <1>7, <1>8, <2>1, <2>2
    <3> QED
      BY <3>1
  <2>4. halted' = (NoType(ip) \/ y < 1)
    BY Zenon, <1>10, <2>2
  <2> QED
    BY Zenon, <1>7, <2>3, <2>4
<1>12. OnBoth(p, op, ip, dp, name, g)
  BY <1>0, <1>1, <1>2, <1>3, <1>4 DEF OnBoth
<1>13. ASSUME ic' = Load(ip, NoProc), dn' = dn, Then(p, <<Put(ip), Unlock(dp)>>)
       PROVE  Second' /\ Fewer
  <2>1. /\ Lockable(k[p][1].s) /\ ic' = Load(k[p][1].s, NoProc) /\ res' = res /\ ~halted'
        /\ Then(p, <<Put(k[p][1].s), Unlock(k[p][1].t)>>)
    BY Zenon, <1>1, <1>2, <1>10, <1>11, <1>13
  <2>2. Second'
    BY Zenon, <1>0, <1>13, <2>1, Unlink2FullSecond
  <2> QED
    BY Zenon, <1>13, <2>2 DEF Fewer
<1>14. ASSUME ic' = AddLinks([c EXCEPT ![dp].lk = NoProc], dp, n),
              dn' = [Iupdate(ic', dp) EXCEPT ![c[dp].inum].ents[name] = NULL],
              Then(p, <<Put(dp), Ins("unlink3", ip, NULL, <<>>, "")>>)
       PROVE  Second' /\ Fewer
  <2>1. ip # dp
    BY Zenon, <1>5, <1>10, FilesAssumption DEF Lockable
  <2>2. /\ ic' = AddLinks([Load(ip, p) EXCEPT ![dp].lk = NoProc], dp, n)
        /\ dn' = [Iupdate(ic', dp) EXCEPT ![Load(ip, p)[dp].inum].ents[name] = NULL]
    BY Zenon, <1>6, <1>14
  <2>3. Cleared(p, ip, dp, name, n)
    BY <1>5, <2>1, <2>2, ClearedFacts
  <2>4. Loses(ip, n)
    <3>1. n = IF dn[Num(ip)].type = "DIR" THEN -1 ELSE 0
      BY <1>7, <1>9
    <3> QED
      BY <3>1 DEF Loses
  <2>5. PICK b : OneIns(b, "unlink3", ip)
    BY DEF OneIns
  <2>6. Then(p, <<Put(dp), b>>)
    BY Zenon, <1>14, <2>5 DEF OneIns
  <2>7. Second'
    BY Zenon, <1>0, <1>10, <1>11, <1>12, <2>3, <2>4, <2>5, <2>6, Unlink2ClearSecond
  <2>8. Fewer
    BY <1>8, <2>3, ClearedFewer
  <2> QED
    BY <2>7, <2>8
<1> QED
  BY Zenon, <1>10, <1>13, <1>14

-----------------------------------------------------------------------------
(* Steps that free or allocate an inode.                                    *)

\* The slots that are fine, and what they say on disk, stay; entries may change under the
\* lock of p, or of nobody.
FineKept(p) ==
    \A x \in Slots : Fine(x) =>
       /\ ic'[x].inum = Num(x) /\ (ic[x].valid => ic'[x].valid)
       /\ dn'[Num(x)].type = dn[Num(x)].type
       /\ ic[x].lk \notin {p, NoProc} => dn'[Num(x)].ents = dn[Num(x)].ents

\* What instructions rely on is not disturbed by such a step.
LEMMA LifeRely ==
    ASSUME Base, Second, NEW p \in Procs, NEW m, NEW U, Turned(p, m, U), FineKept(p),
           Others(res, res', p), \A a \in U : RelyNew(a), TopNew(p)
    PROVE  Relying'
<1>0. Life /\ Locks /\ Relying
  BY DEF Second
<1>1. ASSUME NEW s, Fine(s)
      PROVE  /\ s \in Slots /\ ic'[s].inum = Num(s) /\ Num(s) \in Inums
             /\ dn'[Num(s)].type = dn[Num(s)].type /\ (ic[s].valid => ic'[s].valid)
  BY <1>1 DEF Fine, Live, FineKept, Num
<1>2. ASSUME NEW q \in Procs, NEW n \in Nat
      PROVE  RelyNew(View(k[q], n))
  <2>1. Relies(View(k[q], n))
    BY <1>0 DEF Relying
  <2>2. ASSUME View(k[q], n).op \in {"unlink3", "link2", "bad"}
        PROVE  Fine(View(k[q], n).s)
    <3>1. View(k[q], n).op \in SOps \ LifeOps
      BY <2>2 DEF SOps, LifeOps, PutOps
    <3> QED
      BY <1>0, <3>1, FineBelow
  <2> QED
    BY <2>1, <2>2, <1>1 DEF Relies, RelyNew
<1>3. \A n \in Nat : RelyNew(View(k'[p], n))
  <2>1. SUFFICES ASSUME NEW n \in Nat PROVE RelyNew(View(k'[p], n))
    OBVIOUS
  <2>2. m \in Nat /\ (n < m => View(k'[p], n) = View(k[p], n))
        /\ (~ (n < m) => View(k'[p], n) \in U \cup {None})
    BY DEF Turned
  <2>3. RelyNew(None)
    BY KeepsNone DEF RelyNew
  <2> QED
    BY <2>2, <2>3, <1>2
<1>4. ASSUME NEW q \in Procs, q # p
      PROVE  k'[q] = k[q] /\ res'[q] = res[q]
  BY <1>4 DEF Turned, Stay, Others
<1>5. \A q \in Procs, n \in Nat : RelyNew(View(k'[q], n))
  BY <1>2, <1>3, <1>4
<1>6. ASSUME NEW q \in Procs, q # p
      PROVE  TopNew(q)
  <2>1. TopRelies(q)
    BY <1>0 DEF Relying
  <2>2. Top(k'[q]) = Top(k[q]) /\ res'[q] = res[q]
    BY <1>4, <1>6
  <2>3. ASSUME Top(k[q]).op \in TOps
        PROVE  /\ Fine(Top(k[q]).t) /\ Top(k[q]).t \in Slots /\ ic[Top(k[q]).t].lk = q
               /\ Top(k[q]).op = "unlink2" => Fine(Top(k[q]).s)
    <3>1. Top(k[q]).op \in SOps /\ (Top(k[q]).op = "unlink2" => Top(k[q]).op \in SOps \ LifeOps)
      BY <2>3 DEF TOps, SOps, LifeOps, PutOps
    <3>2. k[q] # <<>> /\ Top(k[q]) = k[q][1]
      BY <3>1, TopHolds
    <3>3. Fine(Top(k[q]).t) /\ (Top(k[q]).op = "unlink2" => Fine(Top(k[q]).s))
      BY <1>0, <2>3, <3>1, <3>2, FineHeld
    <3>4. Keeps(Top(k[q])) = Top(k[q]).t
      BY <2>3 DEF Keeps, TOps, Keepers
    <3>5. Top(k[q]).t \in Slots /\ Top(k[q]).t # NULL
      BY <3>3, NullSlot DEF Live, Fine
    <3> QED
      BY <1>0, <3>3, <3>4, <3>5, LockFacts
  <2>4. ASSUME Top(k[q]).op \in TOps
        PROVE  dn'[Num(Top(k[q]).t)].ents = dn[Num(Top(k[q]).t)].ents
    <3>1. q \notin {p, NoProc}
      BY <1>6, FilesAssumption
    <3> QED
      BY <2>3, <2>4, <3>1 DEF FineKept
  <2>5. res[q] # NULL => Fine(res[q])
    BY <1>0, FineHeld
  <2>6. Top(k[q]).op = "unlink2" => Top(k[q]).op \in TOps
    BY DEF TOps
  <2> QED
    BY <2>1, <2>2, <2>3, <2>4, <2>5, <2>6, <1>1 DEF TopRelies, TopNew
<1>7. \A q \in Procs : TopNew(q)
  BY <1>6
<1>8. \A q \in Procs : TopRelies(q)'
  BY <1>7 DEF TopRelies, TopNew, Num
<1>9. \A q \in Procs, n \in Nat : Relies(View(k[q], n))'
  BY <1>5 DEF Relies, RelyNew, Num
<1> QED
  BY <1>8, <1>9 DEF Relying

\* How the first instructions change.
LEMMA LifeTops ==
    ASSUME NEW p \in Procs, Stay(p), NEW a, a = Top(k[p]), NEW b, b = Top(k'[p])
    PROVE  /\ \A q \in Procs : q # p => Top(k'[q]) = Top(k[q])
           /\ \A z : Freed(z)' => Freed(z) \/ (b.op = "freed" /\ b.s = z)
           /\ \A z : Freed(z) => Freed(z)' \/ (a.op = "freed" /\ a.s = z)
           /\ \A z : Filling(z)' => Filling(z) \/ (b.op = "new" /\ b.s = z)
           /\ \A z : Filling(z) => Filling(z)' \/ (a.op = "new" /\ a.s = z)
           /\ \A z : Leaving(z) => Leaving(z)' \/ (a.op \in {"freed", "dec"} /\ a.s = z)
           /\ b.op = "freed" => Freed(b.s)'
           /\ b.op = "new" => Filling(b.s)'
           /\ b.op \in {"freed", "dec"} => Leaving(b.s)'
<1>1. \A q \in Procs : q # p => k'[q] = k[q]
  BY DEF Stay
<1>2. \A q \in Procs : q # p => Top(k'[q]) = Top(k[q])
  BY <1>1
<1>3. \A z : Freed(z)' <=> \E q \in Procs : Top(k'[q]).op = "freed" /\ Top(k'[q]).s = z
  BY DEF Freed, Top
<1>4. \A z : Filling(z)' <=> \E q \in Procs : Top(k'[q]).op = "new" /\ Top(k'[q]).s = z
  BY DEF Filling, Top
<1>5. \A z : Leaving(z)' <=> \E q \in Procs : Top(k'[q]).op \in {"freed", "dec"} /\ Top(k'[q]).s = z
  BY DEF Leaving, Top
<1>6. /\ \A z : Freed(z)' => Freed(z) \/ (b.op = "freed" /\ b.s = z)
      /\ \A z : Freed(z) => Freed(z)' \/ (a.op = "freed" /\ a.s = z)
      /\ b.op = "freed" => Freed(b.s)'
  BY <1>2, <1>3 DEF Freed
<1>7. /\ \A z : Filling(z)' => Filling(z) \/ (b.op = "new" /\ b.s = z)
      /\ \A z : Filling(z) => Filling(z)' \/ (a.op = "new" /\ a.s = z)
      /\ b.op = "new" => Filling(b.s)'
  BY <1>2, <1>4 DEF Filling
<1>8. /\ \A z : Leaving(z) => Leaving(z)' \/ (a.op \in {"freed", "dec"} /\ a.s = z)
      /\ b.op \in {"freed", "dec"} => Leaving(b.s)'
  BY <1>2, <1>5 DEF Leaving
<1> QED
  BY <1>2, <1>6, <1>7, <1>8

\* The slot that another process frees or fills is left alone.
LeftAlone(q, s) ==
    /\ s = Top(k[q]).s
    /\ ic'[s].inum = Num(s) /\ ic'[s].ref = ic[s].ref /\ dn'[Num(s)] = dn[Num(s)]
    /\ Top(k[q]).op # "new" /\ ic[s].valid => ic'[s].valid
    /\ Filling(s) => Filling(s)'
    /\ Leaving(s) => Leaving(s)'

\* So what is known of it stays.
LEMMA FreeingKept ==
    ASSUME Second, NEW q \in Procs, Top(k'[q]) = Top(k[q]), NEW s, LeftAlone(q, s)
    PROVE  FreeingOf(q)'
<1>1. s = Top(k[q]).s
  BY DEF LeftAlone
<1>2. Top(k'[q]).s = s /\ Top(k'[q]).op = Top(k[q]).op /\ Top(k'[q]).arg = Top(k[q]).arg
  BY <1>1
<1>3. PICK a : a = Top(k[q])
  OBVIOUS
<1>4. /\ ic'[s].inum = Num(s) /\ ic'[s].ref = ic[s].ref /\ dn'[Num(s)] = dn[Num(s)]
      /\ (a.op # "new" /\ ic[s].valid => ic'[s].valid)
      /\ (Filling(s) => Filling(s)') /\ (Leaving(s) => Leaving(s)')
  BY <1>1, <1>3 DEF LeftAlone
<1>5. /\ a.op = "free" => ic[s].valid /\ ic[s].ref = 1 /\ dn[Num(s)].nlink = 0
      /\ a.op = "freed" => /\ ic[s].valid /\ dn[Num(s)].nlink = 0
                           /\ \/ ic[s].ref = 1 /\ dn[Num(s)].type = "FREE"
                              \/ ic[s].ref = 2 /\ Filling(s)
      /\ a.op = "new" => /\ dn[Num(s)].nlink = 0 /\ dn[Num(s)].type = a.arg
                         /\ dn[Num(s)].ents = NoEntries
                         /\ \/ ic[s].ref = 1
                            \/ ic[s].ref = 2 /\ Leaving(s)
  <2>1. FreeingOf(q)
    BY DEF Second, Life, Freeing
  <2> QED
    BY <1>1, <1>3, <2>1 DEF FreeingOf
<1>6. PICK i : i = Num(s)
  OBVIOUS
<1>7. /\ a.op = "free" => ic'[s].valid /\ ic'[s].ref = 1 /\ dn'[i].nlink = 0
      /\ a.op = "freed" => /\ ic'[s].valid /\ dn'[i].nlink = 0
                           /\ \/ ic'[s].ref = 1 /\ dn'[i].type = "FREE"
                              \/ ic'[s].ref = 2 /\ Filling(s)'
      /\ a.op = "new" => /\ dn'[i].nlink = 0 /\ dn'[i].type = a.arg
                         /\ dn'[i].ents = NoEntries
                         /\ \/ ic'[s].ref = 1
                            \/ ic'[s].ref = 2 /\ Leaving(s)'
  BY <1>4, <1>5, <1>6
<1>8. Num(s)' = i
  BY <1>4, <1>6 DEF Num
<1>9. Top(k[q])' = a /\ a.s = s
  BY <1>1, <1>3 DEF Top
<1> QED
  BY <1>7, <1>8, <1>9 DEF FreeingOf, Num

\* Two and three processes whose first instructions own the same slot.
LEMMA TwoTops ==
    ASSUME Base, NEW p \in Procs, NEW q \in Procs, p # q, NEW s, Top(k[p]).s = s, Top(k[q]).s = s,
           Top(k[p]).op \in SOps, Top(k[q]).op \in SOps
    PROVE  /\ s \in Slots /\ ic[s].ref \in Nat /\ ic[s].ref # 0 /\ ic[s].ref # 1
           /\ \A r \in Procs : r # p /\ r # q /\ Top(k[r]).op \in SOps /\ Top(k[r]).s = s => ic[s].ref # 2
<1>1. /\ TopPlace(p) \in Places /\ At(k, res, cwd, ft)[TopPlace(p)] = s
      /\ TopPlace(q) \in Places /\ At(k, res, cwd, ft)[TopPlace(q)] = s
      /\ s \in Slots
  BY TopHolds DEF Live
<1>2. \A r \in Procs : r # p => TopPlace(r) # TopPlace(p)
  BY DEF TopPlace
<1>3. \A r \in Procs : r # q => TopPlace(r) # TopPlace(q)
  BY DEF TopPlace
<1>4. \A r \in Procs : Top(k[r]).op \in SOps /\ Top(k[r]).s = s =>
         TopPlace(r) \in Places /\ At(k, res, cwd, ft)[TopPlace(r)] = s
  BY TopHolds
<1>5. TopPlace(p) # TopPlace(q)
  BY <1>2
<1>6. /\ ic[s].ref \in Nat /\ ic[s].ref # 0 /\ ic[s].ref # 1
      /\ \A z \in Places : z # TopPlace(p) /\ z # TopPlace(q) /\ At(k, res, cwd, ft)[z] = s
            => ic[s].ref # 2
  BY <1>1, <1>5, Shared
<1> QED
  BY <1>1, <1>2, <1>3, <1>4, <1>6

\* The rest of the second layer after a step that goes on with a ...
LEMMA LifeStep1 ==
    ASSUME Base, Second, NEW p \in Procs, k[p] # <<>>, NEW a, Fit1(a, k[p]), Then(p, <<a>>),
           Others(res, res', p), FineKept(p), RelyNew(a), TopNew(p),
           LockMove(p, Keeps(Top(k[p])), KeepsRes(k[p], res[p]), Keeps(a), KeepsRes(k'[p], res'[p])),
           Cached', FreeInodes', Freeing', Dirs', Links', ~halted'
    PROVE  Second'
<1>1. PICK m : m = Len(k[p]) - 1
  OBVIOUS
<1>2. Turned(p, m, {a}) /\ KeepsNew(p, m, Keeps(a))
  BY <1>1, Turn1
<1>3. Locks'
  <2>1. FilesTypes /\ Locks
    BY DEF Base, Second
  <2> QED
    BY <1>2, <2>1, LocksTurn
<1>4. Relying'
  BY <1>2, LifeRely
<1> QED
  BY <1>3, <1>4 DEF Second, Life

\* ... or is done.
LEMMA LifeStep0 ==
    ASSUME Base, Second, NEW p \in Procs, k[p] # <<>>, Then(p, <<>>),
           Others(res, res', p), FineKept(p), TopNew(p),
           LockMove(p, Keeps(Top(k[p])), KeepsRes(k[p], res[p]), NULL, KeepsRes(k'[p], res'[p])),
           Cached', FreeInodes', Freeing', Dirs', Links', ~halted'
    PROVE  Second'
<1>1. PICK m : m = Len(k[p]) - 1
  OBVIOUS
<1>2. Turned(p, m, {}) /\ KeepsNew(p, m, NULL)
  BY <1>1, Turn0
<1>3. Locks'
  <2>1. FilesTypes /\ Locks
    BY DEF Base, Second
  <2> QED
    BY <1>2, <2>1, LocksTurn
<1>4. Relying'
  BY <1>2, LifeRely
<1> QED
  BY <1>3, <1>4 DEF Second, Life

\* The directories stay if the disk does and the inodes that are being filled.
LEMMA LifeDirs ==
    ASSUME Second, dn' = dn,
           \A z \in Slots : ic[z].ref > 0 /\ Filling(z) =>
              ic'[z].ref > 0 /\ ic'[z].inum = ic[z].inum /\ Filling(z)'
    PROVE  Dirs'
<1>1. Dirs
  BY DEF Second
<1>2. ASSUME NEW i \in Inums, \E s \in Slots : ic[s].ref > 0 /\ Num(s) = i /\ Filling(s)
      PROVE  \E s \in Slots : ic'[s].ref > 0 /\ ic'[s].inum = i /\ Filling(s)'
  BY <1>2 DEF Num
<1> QED
  BY <1>1, <1>2 DEF Dirs, Num

\* What an instruction of iput() knows.
LEMMA PutDoing ==
    ASSUME Base, Second, NEW p \in Procs, NEW op \in PutOps, On(p, op)
    PROVE  /\ k[p] # <<>> /\ Top(k[p]) = k[p][1] /\ Arg(p) = k[p][1] /\ Top(k[p]).op = op
           /\ k[p][1].s \in Slots /\ Live(k[p][1].s) /\ ic[k[p][1].s].ref > 0 /\ op \in SOps
           /\ KeepsRes(k[p], res[p]) = res[p]
           /\ Keeps(Top(k[p])) = (IF op \in {"free", "freed"} THEN k[p][1].s ELSE NULL)
           /\ op \in {"free", "freed"} => ic[k[p][1].s].lk = p /\ k[p][1].s # res[p]
           /\ res[p] # NULL => res[p] \in Slots /\ ic[res[p]].lk = p
           /\ Others(res, res, p)
<1>1. op \in SOps /\ op \in PutOps \cup Ends
  BY DEF SOps
<1>2. /\ k[p] # <<>> /\ Top(k[p]) = k[p][1] /\ Arg(p) = k[p][1] /\ Top(k[p]).op = op
      /\ KeepsRes(k[p], res[p]) = res[p]
  BY <1>1, Doing
<1>3. Live(k[p][1].s)
  BY <1>1, OnFacts
<1>4. Keeps(Top(k[p])) = (IF op \in {"free", "freed"} THEN k[p][1].s ELSE NULL)
  BY <1>2 DEF Keeps, Keepers, TOps, PutOps
<1>5. k[p][1].s \in Slots /\ ic[k[p][1].s].ref > 0 /\ k[p][1].s # NULL
  BY <1>3, NullSlot DEF Live
<1>6. op \in {"free", "freed"} => ic[k[p][1].s].lk = p /\ k[p][1].s # res[p]
  BY <1>2, <1>4, <1>5, LockFacts DEF Second
<1>7. res[p] # NULL => res[p] \in Slots /\ ic[res[p]].lk = p
  BY <1>2, LockFacts DEF Second
<1> QED
  BY <1>1, <1>2, <1>3, <1>4, <1>5, <1>6, <1>7 DEF Others

\* The first instruction of p is op, on inode s.
OnOne(p, op, s) == On(p, op) /\ s = k[p][1].s

\* iput() finds the last reference to an inode without links, and keeps the lock.
LEMMA IputFrees ==
    ASSUME Base, Second, NEW p \in Procs, NEW op \in {"put"}, NEW s, OnOne(p, op, s), Lockable(s),
           ic[s].valid, ic[s].nlink = 0, ic[s].ref = 1, Locking(ic', s, p), dn' = dn, res' = res,
           halted' = halted, NEW a, OneIns(a, "free", s), Then(p, <<a>>)
    PROVE  Second'
<1>0. op \in PutOps /\ op \notin {"free", "freed"} /\ op \notin LifeOps
  BY DEF PutOps, LifeOps
<1>1. /\ k[p] # <<>> /\ Top(k[p]) = k[p][1] /\ Top(k[p]).op = op /\ Top(k[p]).s = s
      /\ s \in Slots /\ ic[s].ref > 0 /\ Keeps(Top(k[p])) = NULL
      /\ KeepsRes(k[p], res[p]) = res[p] /\ (res[p] # NULL => res[p] \in Slots /\ ic[res[p]].lk = p)
      /\ Others(res, res, p)
  <2>1. On(p, op) /\ s = k[p][1].s
    BY DEF OnOne
  <2> QED
    BY <1>0, <2>1, PutDoing
<1>2. /\ SameRefs(ic, ic') /\ ic'[s].lk = p /\ OnlyLk(ic')
      /\ \A z \in Slots : z # s => ic'[z].lk = ic[z].lk
  <2>1. p \in Procs \cup {NoProc} /\ ic[s] \in Inode
    BY <1>1, BaseTypes
  <2>2. /\ SameRefs(ic, ic') /\ ic'[s] = [ic[s] EXCEPT !.lk = p]
        /\ \A z \in Slots : z # s => ic'[z] = ic[z]
    BY <1>1, <2>1, LkSet
  <2>3. /\ ic'[s].lk = p /\ ic'[s].valid = ic[s].valid /\ ic'[s].type = ic[s].type
        /\ ic'[s].nlink = ic[s].nlink
    <3>1. PICK u : u = ic[s]
      OBVIOUS
    <3>2. PICK v : v = ic'[s]
      OBVIOUS
    <3>2a. v = [u EXCEPT !.lk = p]
      BY <2>2, <3>1, <3>2
    <3>3. u \in Inode
      BY <2>1, <3>1
    <3>4. v.lk = p /\ v.valid = u.valid /\ v.type = u.type /\ v.nlink = u.nlink
      BY <3>2a, <3>3 DEF Inode
    <3> QED
      BY <3>1, <3>2, <3>4
  <2> QED
    BY <2>2, <2>3 DEF OnlyLk, SameRefs
<1>3. a \in Instr /\ Well(a) /\ a.op = "free" /\ a.s = s
  <2> DEFINE o == "free"
  <2>1. o \in PutOps \cup {"unlockput", "bad", "unlink3"} /\ OneIns(a, o, s)
    BY DEF PutOps
  <2> HIDE DEF o
  <2>3. s \in Slots
    BY <1>1
  <2>2. a \in Instr /\ Well(a) /\ a.op = o /\ a.s = s
    BY <2>1, <2>3, OneWell
  <2> QED
    BY <2>2 DEF o
<1>4. Fit1(a, k[p])
  <2>1. "free" \in PutOps
    BY DEF PutOps
  <2> QED
    BY <1>1, <2>1, FitPut DEF OneIns
<1>5. /\ Top(k'[p]) = a /\ Stay(p)
      /\ View(k'[p], 0) = View(k[p], 0) \/ View(k'[p], 0) = a
  BY <1>1, <1>4, Turn1 DEF Turned
<1>6. Keeps(a) = s /\ RelyNew(a) /\ CountsOn(p, a) /\ TopNew(p) /\ KeepsRes(k'[p], res'[p]) = res[p]
  BY <1>3, <1>5 DEF Keeps, Keepers, RelyNew, CountsOn, Counting, TopNew, TOps, ToDir, KeepsRes, PutOps
<1>7. LockMove(p, NULL, res[p], s, res[p])
  <2>1. s # res[p] /\ ic[s].lk = NoProc
    BY <1>1, NullSlot, FilesAssumption DEF Lockable
  <2>2. ASSUME NEW z \in Slots, z = res[p] PROVE ic'[z].lk = p
    <3>1. res[p] # NULL
      BY <2>2, NullSlot
    <3> QED
      BY <1>1, <1>2, <2>1, <2>2, <3>1
  <2>3. \A z \in Slots : z # NULL
    BY NullSlot
  <2> QED
    BY <1>2, <2>1, <2>2, <2>3 DEF LockMove
<1>8. LockMove(p, Keeps(Top(k[p])), KeepsRes(k[p], res[p]), Keeps(a), KeepsRes(k'[p], res'[p]))
  BY <1>1, <1>6, <1>7
<1>9. /\ \A q \in Procs : q # p => Top(k'[q]) = Top(k[q])
      /\ \A z : Freed(z) => Freed(z)'
      /\ \A z : Filling(z) => Filling(z)'
      /\ \A z : Leaving(z) => Leaving(z)'
  <2>1. PICK b : b = Top(k[p])
    OBVIOUS
  <2>2. b.op \notin LifeOps
    BY <1>0, <1>1, <2>1
  <2>3. b.op # "freed" /\ b.op # "new" /\ b.op \notin {"freed", "dec"}
    BY <2>2 DEF LifeOps
  <2> QED
    BY <1>5, <2>1, <2>3, LifeTops
<1>10. FineKept(p)
  BY <1>2 DEF FineKept, OnlyLk, Num
<1>11. Cached'
  <2>1. Cached
    BY DEF Second, Life
  <2> QED
    BY <1>2, <1>9, <2>1 DEF Cached, OnlyLk, Num
<1>12. FreeInodes'
  <2>1. FreeInodes
    BY DEF Second, Life
  <2> QED
    BY <1>2, <1>9, <2>1 DEF FreeInodes, OnlyLk, Num
<1>13. Freeing'
  <2>1. ASSUME NEW q \in Procs, q # p
        PROVE  FreeingOf(q)'
    <3>1. ASSUME Top(k[q]).op \in {"free", "freed", "new"}
          PROVE  FreeingOf(q)'
      <4>1. Top(k[q]).s \in Slots
        <5>1. Top(k[q]).op \in SOps
          BY <3>1 DEF SOps, PutOps
        <5> QED
          BY <5>1, TopHolds DEF Live
      <4>2. PICK x \in Slots : LeftAlone(q, x)
        <5>1. PICK x \in Slots : x = Top(k[q]).s
          BY <4>1
        <5>2. /\ ic'[x].inum = ic[x].inum /\ ic'[x].ref = ic[x].ref /\ ic'[x].valid = ic[x].valid
              /\ (Filling(x) => Filling(x)') /\ (Leaving(x) => Leaving(x)')
          BY <1>2, <1>9 DEF OnlyLk
        <5> QED
          BY <5>1, <5>2 DEF LeftAlone, Num
      <4> QED
        BY <1>9, <2>1, <4>2, FreeingKept
    <3>2. Top(k'[q]).op = Top(k[q]).op
      BY <1>9, <2>1
    <3> QED
      BY <3>1, <3>2 DEF FreeingOf, Top
  <2>2. FreeingOf(p)'
    <3>1. ic[s].nlink = dn[Num(s)].nlink
      BY <1>1 DEF Second, Life, Cached
    <3>2. ic'[s].valid /\ ic'[s].ref = 1 /\ dn'[ic'[s].inum].nlink = 0
      BY <1>1, <1>2, <3>1 DEF OnlyLk, Num
    <3>3. Top(k[p])' = a
      BY <1>5 DEF Top
    <3> QED
      BY <1>3, <3>2, <3>3 DEF FreeingOf, Num
  <2> QED
    BY <2>1, <2>2 DEF Freeing
<1>14. Dirs'
  <2>1. \A z \in Slots : ic[z].ref > 0 /\ Filling(z) =>
              ic'[z].ref > 0 /\ ic'[z].inum = ic[z].inum /\ Filling(z)'
    BY <1>2, <1>9 DEF OnlyLk
  <2> QED
    BY <2>1, LifeDirs
<1>15. Links'
  <2>1. Life /\ Links /\ InumsKept
    BY <1>2 DEF Second, InumsKept, OnlyLk
  <2>2. \/ Pending(k'[p], ic') = Pending(k[p], ic)
        \/ Pending(k'[p], ic') = NULL
    BY <1>5, <1>6, <2>1, PendingTurn
  <2> QED
    BY <1>5, <2>1, <2>2, LinksRead
<1>16. Others(res, res', p) /\ ~halted'
  BY <1>1 DEF Second
<1> QED
  BY <1>1, <1>4, <1>6, <1>8, <1>10, <1>11, <1>12, <1>13, <1>14, <1>15, <1>16, LifeStep1

\* iput() decides whether the inode is to be freed.
LEMMA IputSecond ==
    ASSUME Base, Second, NEW p \in Procs, Iput(p)
    PROVE  Second'
<1> DEFINE op == "put"
           s == k[p][1].s
<1>0. On(p, op) /\ op \in {"put"}
  BY DEF Iput
<1> HIDE DEF op
<1>1. Arg(p) = k[p][1]
  BY <1>0, OnFacts
<1>2. /\ Lockable(s) /\ dn' = dn /\ res' = res /\ halted' = halted
      /\ \/ /\ ic[s].valid /\ ic[s].nlink = 0 /\ ic[s].ref = 1
            /\ ic' = [ic EXCEPT ![s].lk = p] /\ Then(p, <<Ins("free", s, NULL, <<>>, "")>>)
         \/ ic' = ic /\ Then(p, <<Ins("dec", s, NULL, <<>>, "")>>)
  BY <1>1 DEF Iput
<1>3. ASSUME ic' = ic, Then(p, <<Ins("dec", s, NULL, <<>>, "")>>)
      PROVE  Second'
  <2>1. On(p, "put")
    BY <1>0
  <2> QED
    BY <1>2, <1>3, <2>1, IputDecides
<1>4. ASSUME ic[s].valid, ic[s].nlink = 0, ic[s].ref = 1, ic' = [ic EXCEPT ![s].lk = p],
             Then(p, <<Ins("free", s, NULL, <<>>, "")>>)
      PROVE  Second'
  <2>1. PICK a : OneIns(a, "free", s)
    BY DEF OneIns
  <2>2. Then(p, <<a>>)
    BY <1>4, <2>1 DEF OneIns
  <2>3. PICK z : z = s
    OBVIOUS
  <2>4. /\ z = k[p][1].s /\ Lockable(z) /\ ic[z].valid /\ ic[z].nlink = 0 /\ ic[z].ref = 1
        /\ Locking(ic', z, p) /\ OneIns(a, "free", z)
    BY <1>2, <1>4, <2>1, <2>3 DEF Locking
  <2> HIDE DEF s
  <2>5. OnOne(p, op, z)
    BY <1>0, <2>4 DEF OnOne
  <2> QED
    BY <1>0, <1>2, <2>2, <2>4, <2>5, IputFrees
<1> QED
  BY <1>2, <1>3, <1>4

\* The instruction that follows in iput().
LEMMA PutNext ==
    ASSUME Base, Second, NEW p \in Procs, k[p] # <<>>, Top(k[p]).op \in PutOps, NEW s \in Slots,
           NEW op \in {"freed", "dec"}, NEW a, OneIns(a, op, s), Then(p, <<a>>), res' = res, InumsKept
    PROVE  /\ Fit1(a, k[p]) /\ a.op = op /\ a.s = s /\ Top(k'[p]) = a /\ Stay(p)
           /\ RelyNew(a) /\ TopNew(p) /\ KeepsRes(k'[p], res'[p]) = res[p]
           /\ Keeps(a) = (IF op = "freed" THEN s ELSE NULL)
           /\ Pending(k'[p], ic') = Pending(k[p], ic) \/ Pending(k'[p], ic') = NULL
<1>1. a.op = op /\ a.s = s /\ op \in PutOps
  <2>1. op \in PutOps \cup {"unlockput", "bad", "unlink3"} /\ op \in PutOps
    BY DEF PutOps
  <2> QED
    BY <2>1, OneWell
<1>2. Fit1(a, k[p])
  BY <1>1, FitPut DEF OneIns
<1>3. /\ Top(k'[p]) = a /\ Stay(p)
      /\ View(k'[p], 0) = View(k[p], 0) \/ View(k'[p], 0) = a
  BY <1>2, Turn1 DEF Turned
<1>4. /\ RelyNew(a) /\ CountsOn(p, a) /\ TopNew(p) /\ KeepsRes(k'[p], res'[p]) = res[p]
      /\ Keeps(a) = (IF op = "freed" THEN s ELSE NULL)
  BY <1>1, <1>3 DEF Keeps, Keepers, RelyNew, CountsOn, Counting, TopNew, TOps, ToDir, KeepsRes, PutOps
<1>5. Pending(k'[p], ic') = Pending(k[p], ic) \/ Pending(k'[p], ic') = NULL
  BY <1>3, <1>4, PendingTurn DEF Second
<1> QED
  BY <1>1, <1>2, <1>3, <1>4, <1>5

\* iput() frees the inode on disk.
LEMMA IputFreeDone ==
    ASSUME Base, Second, NEW p \in Procs, NEW op \in {"free"}, NEW s, OnOne(p, op, s),
           NEW i, i = Num(s), ic' = ic, res' = res, halted' = halted,
           dn'[i].type = "FREE", dn'[i].nlink = dn[i].nlink, dn'[i].ents = NoEntries,
           \A j \in Inums : j # i => dn'[j] = dn[j],
           NEW a, OneIns(a, "freed", s), Then(p, <<a>>)
    PROVE  Second' /\ Fewer
<1>0. op \in PutOps /\ op \in {"free", "freed"} /\ op = "free"
  BY DEF PutOps
<1>1. /\ k[p] # <<>> /\ Top(k[p]) = k[p][1] /\ Top(k[p]).op = op /\ Top(k[p]).s = s
      /\ s \in Slots /\ ic[s].ref > 0 /\ Keeps(Top(k[p])) = s /\ op \in SOps /\ Live(s)
      /\ KeepsRes(k[p], res[p]) = res[p] /\ (res[p] # NULL => res[p] \in Slots /\ ic[res[p]].lk = p)
      /\ Others(res, res, p) /\ ic[s].lk = p /\ s # res[p]
  <2>1. On(p, op) /\ s = k[p][1].s
    BY DEF OnOne
  <2> QED
    BY <1>0, <2>1, PutDoing
<1>2. InumsKept
  BY DEF InumsKept
<1>3. /\ Fit1(a, k[p]) /\ a.op = "freed" /\ a.s = s /\ Top(k'[p]) = a /\ Stay(p)
      /\ RelyNew(a) /\ TopNew(p) /\ KeepsRes(k'[p], res'[p]) = res[p] /\ Keeps(a) = s
      /\ Pending(k'[p], ic') = Pending(k[p], ic) \/ Pending(k'[p], ic') = NULL
  <2> DEFINE o == "freed"
  <2>1. o \in {"freed", "dec"} /\ OneIns(a, o, s) /\ Top(k[p]).op \in PutOps /\ o = "freed"
    BY <1>0, <1>1
  <2> HIDE DEF o
  <2> QED
    BY <1>1, <1>2, <2>1, PutNext
<1>4. LockMove(p, s, res[p], s, res[p])
  <2>1. \A z \in Slots : z = res[p] => ic[z].lk = p
    BY <1>1, NullSlot
  <2> QED
    BY <1>1, <2>1 DEF LockMove
<1>5. LockMove(p, Keeps(Top(k[p])), KeepsRes(k[p], res[p]), Keeps(a), KeepsRes(k'[p], res'[p]))
  BY <1>1, <1>3, <1>4
<1>6. ic[s].valid /\ ic[s].ref = 1 /\ dn[i].nlink = 0 /\ i \in Inums
  <2>1. FreeingOf(p)
    BY DEF Second, Life, Freeing
  <2> QED
    BY <1>0, <1>1, <2>1 DEF FreeingOf, Live, Num
<1>7. \A z \in Slots : ic[z].ref > 0 /\ z # s => Num(z) # i /\ Num(z) \in Inums
  BY <1>1 DEF Base, Unique, Num
<1>8. /\ \A q \in Procs : q # p => Top(k'[q]) = Top(k[q])
      /\ \A z : Freed(z) => Freed(z)'
      /\ \A z : Filling(z) => Filling(z)'
      /\ \A z : Leaving(z) => Leaving(z)'
      /\ Freed(s)' /\ Leaving(s)'
  <2>1. PICK b : b = Top(k[p])
    OBVIOUS
  <2>2. b.op = "free" /\ a.op = "freed" /\ a.op \in {"freed", "dec"} /\ a.s = s
    BY <1>0, <1>1, <1>3, <2>1
  <2>3. b.op # "freed" /\ b.op # "new" /\ b.op \notin {"freed", "dec"}
    BY <2>2
  <2> QED
    BY <1>3, <2>1, <2>2, <2>3, LifeTops
<1>9. Odd(s)
  BY <1>0, <1>1 DEF Odd, Freer
<1>10. FineKept(p)
  <2>1. ASSUME NEW x \in Slots, Fine(x)
        PROVE  x # s /\ Num(x) # i /\ Num(x) \in Inums
    <3>1. x # s /\ ic[x].ref > 0
      BY <1>9, <2>1, FineFacts DEF Fine, Second
    <3> QED
      BY <1>7, <3>1
  <2> QED
    BY <2>1 DEF FineKept, Num
<1>11. Cached'
  <2>1. SUFFICES ASSUME NEW z \in Slots, ic[z].ref > 0, ic[z].valid
                 PROVE  /\ ic[z].nlink = dn'[Num(z)].nlink
                        /\ Freed(z)' \/ (ic[z].type = dn'[Num(z)].type /\ ic[z].type # "FREE")
    BY DEF Cached, Num
  <2>2. /\ ic[z].nlink = dn[Num(z)].nlink
        /\ Freed(z) \/ (ic[z].type = dn[Num(z)].type /\ ic[z].type # "FREE")
    BY <2>1 DEF Second, Life, Cached
  <2>3. CASE z = s
    BY <1>8, <2>2, <2>3
  <2>4. CASE z # s
    BY <1>7, <1>8, <2>1, <2>2, <2>4
  <2> QED
    BY <2>3, <2>4
<1>12. FreeInodes'
  <2>0. FreeInodes
    BY DEF Second, Life
  <2>1. ASSUME NEW j \in Inums, dn'[j].type = "FREE"
        PROVE  dn'[j].nlink = 0 /\ dn'[j].ents = NoEntries
    BY <1>6, <2>0, <2>1 DEF FreeInodes
  <2>2. ASSUME NEW z \in Slots, ic[z].ref > 0, dn'[Num(z)].type = "FREE"
        PROVE  ic[z].ref = 1 /\ Leaving(z)'
    <3>1. CASE z = s
      BY <1>6, <1>8, <3>1
    <3>2. CASE z # s
      <4>1. dn[Num(z)].type = "FREE"
        BY <1>7, <2>2, <3>2
      <4> QED
        BY <1>8, <2>0, <2>2, <4>1 DEF FreeInodes
    <3> QED
      BY <3>1, <3>2
  <2> QED
    BY <2>1, <2>2 DEF FreeInodes, Num
<1>13. Freeing'
  <2>1. ASSUME NEW q \in Procs, q # p
        PROVE  FreeingOf(q)'
    <3>1. ASSUME Top(k[q]).op \in {"free", "freed", "new"}
          PROVE  FreeingOf(q)'
      <4>0. Top(k[q]).op \in SOps
        BY <3>1 DEF SOps, PutOps
      <4>1. PICK x \in Slots : x = Top(k[q]).s /\ ic[x].ref > 0
        BY <4>0, TopHolds DEF Live
      <4>2. x # s
        BY <1>1, <1>6, <2>1, <4>0, <4>1, TwoTops
      <4>3. dn'[Num(x)] = dn[Num(x)]
        BY <1>7, <4>1, <4>2
      <4>4. LeftAlone(q, x)
        BY <1>8, <4>1, <4>3 DEF LeftAlone, Num
      <4> QED
        BY <1>8, <2>1, <4>4, FreeingKept
    <3>2. Top(k'[q]).op = Top(k[q]).op
      BY <1>8, <2>1
    <3> QED
      BY <3>1, <3>2 DEF FreeingOf, Top
  <2>2. FreeingOf(p)'
    <3>1. ic'[s].valid /\ dn'[ic'[s].inum].nlink = 0 /\ ic'[s].ref = 1 /\ dn'[ic'[s].inum].type = "FREE"
      BY <1>6 DEF Num
    <3>3. Top(k[p])' = a
      BY <1>3 DEF Top
    <3> QED
      BY <1>3, <3>1, <3>3 DEF FreeingOf, Num
  <2> QED
    BY <2>1, <2>2 DEF Freeing
<1>14. Dirs'
  <2>0. Dirs
    BY DEF Second
  <2>1. i # ROOTINO
    <3>1. dn[ROOTINO].nlink >= 1
      BY NamedOnce DEF Second
    <3> QED
      BY <1>6, <3>1
  <2>2. dn'[ROOTINO].type = "DIR"
    BY <2>0, <2>1, FilesAssumption DEF Dirs
  <2>3. ASSUME NEW j \in Inums
        PROVE  /\ dn'[j].type # "DIR" => dn'[j].ents = NoEntries
               /\ \/ dn'[j].type # "DIR"
                  \/ dn'[j].ents["."] = j /\ dn'[j].ents[".."] # NULL
                  \/ \E x \in Slots : ic'[x].ref > 0 /\ ic'[x].inum = j /\ Filling(x)'
    <3>1. CASE j = i
      BY <3>1
    <3>2. CASE j # i
      BY <1>8, <2>0, <3>2 DEF Dirs, Num
    <3> QED
      BY <3>1, <3>2
  <2> QED
    BY <2>2, <2>3 DEF Dirs, Num
<1>15. Links'
  <2>0. Life /\ Links
    BY DEF Second
  <2> DEFINE G == Linked(dn, k, ic)
             H == Linked(dn', k', ic')
  <2>1. DOMAIN G = LinkPlaces /\ DOMAIN H = LinkPlaces
    BY LinkedAt
  <2>2. ASSUME NEW d \in Inums, NEW n \in Names
        PROVE  /\ H[<<d, "name", n>>] = G[<<d, "name", n>>] \/ H[<<d, "name", n>>] = NULL
               /\ H[<<d, "sub", n>>] = G[<<d, "sub", n>>] \/ H[<<d, "sub", n>>] = NULL
    <3>1. /\ G[<<d, "name", n>>] = dn[d].ents[n] /\ G[<<d, "sub", n>>] = Sub(dn, d, dn[d].ents[n])
          /\ H[<<d, "name", n>>] = dn'[d].ents[n] /\ H[<<d, "sub", n>>] = Sub(dn', d, dn'[d].ents[n])
      BY LinkedAt
    <3>2. n \in Entries
      BY DEF Entries
    <3>3. CASE d = i
      <4>1. dn'[d].ents[n] = NULL
        BY <3>2, <3>3 DEF NoEntries
      <4> QED
        BY <3>1, <4>1 DEF Sub
    <3>4. CASE d # i
      <4>1. dn'[d].ents[n] = dn[d].ents[n]
        BY <3>4
      <4>2. PICK j : j = dn[d].ents[n]
        OBVIOUS
      <4>3. j = NULL \/ j \in Inums
        BY <3>2, <4>2, BaseTypes DEF Dinode
      <4>4. Sub(dn', d, j) = Sub(dn, d, j) \/ Sub(dn', d, j) = NULL
        BY <4>3 DEF Sub
      <4> QED
        BY <3>1, <4>1, <4>2, <4>4
    <3> QED
      BY <3>3, <3>4
  <2>3. ASSUME NEW q \in Procs
        PROVE  H[<<q, "call", 0>>] = G[<<q, "call", 0>>] \/ H[<<q, "call", 0>>] = NULL
    <3>1. G[<<q, "call", 0>>] = Pending(k[q], ic) /\ H[<<q, "call", 0>>] = Pending(k'[q], ic')
      BY LinkedAt
    <3>2. q # p => Pending(k'[q], ic') = Pending(k[q], ic)
      BY <1>2, <1>3, <2>0, PendingKept
    <3> QED
      BY <1>3, <3>1, <3>2
  <2>4. G[<<ROOTINO, "root", 0>>] = ROOTINO /\ H[<<ROOTINO, "root", 0>>] = ROOTINO
    BY LinkedAt
  <2>5. \A z \in LinkPlaces :
                 \/ \E d \in Inums, n \in Names : z = <<d, "name", n>> \/ z = <<d, "sub", n>>
                 \/ \E q \in Procs : z = <<q, "call", 0>>
                 \/ z = <<ROOTINO, "root", 0>>
    BY LinkedAt
  <2> HIDE DEF G, H
  <2>6. \A z \in LinkPlaces : H[z] = G[z] \/ H[z] = NULL
    BY <2>2, <2>3, <2>4, <2>5
  <2>7. \A j \in Inums : dn[j].nlink = dn'[j].nlink /\ dn[j].nlink \in Int
    BY BaseTypes DEF Dinode
  <2>8. LinksCounted(G, dn)
    BY <2>0 DEF Links, G
  <2>9. LinksCounted(H, dn')
    BY <2>1, <2>6, <2>7, <2>8, LinksShrink
  <2> QED
    BY <2>9 DEF Links, H
<1>16. Others(res, res', p) /\ ~halted'
  BY <1>1 DEF Second
<1>17. Fewer
  BY <1>6, OneFewer
<1>18. Second'
  BY <1>1, <1>3, <1>5, <1>10, <1>11, <1>12, <1>13, <1>14, <1>15, <1>16, LifeStep1
<1> QED
  BY <1>17, <1>18

\* The second step of iput().
LEMMA IputFreeSecond ==
    ASSUME Base, Second, NEW p \in Procs, IputFree(p)
    PROVE  Second' /\ Fewer
<1> DEFINE op == "free"
<1>0. On(p, op) /\ op \in {"free"} /\ op \in PutOps
  BY DEF IputFree, PutOps
<1> HIDE DEF op
<1>1. PICK s : s = k[p][1].s
  OBVIOUS
<1>2. PICK i : i = Num(s)
  OBVIOUS
<1>3. Arg(p) = k[p][1] /\ Live(s)
  BY <1>0, <1>1, PutDoing
<1>4. i \in Inums
  BY <1>2, <1>3 DEF Live, Num
<1>5. PICK r : r = [dn[i] EXCEPT !.type = "FREE", !.ents = NoEntries]
  OBVIOUS
<1>6. PICK a : OneIns(a, "freed", s)
  BY DEF OneIns
<1>7. /\ ic' = ic /\ res' = res /\ halted' = halted /\ InodeSet(dn, dn', i, r) /\ Then(p, <<a>>)
  BY <1>1, <1>2, <1>3, <1>5, <1>6 DEF IputFree, InodeSet, OneIns, Num
<1>8. r \in Dinode /\ r.type = "FREE" /\ r.nlink = dn[i].nlink /\ r.ents = NoEntries
  <2>1. PICK u : u = dn[i]
    OBVIOUS
  <2>2. u \in Dinode
    BY <1>4, <2>1, BaseTypes
  <2>3. NoEntries \in [Entries -> Inums \cup {NULL}] /\ "FREE" \in Types
    BY DEF NoEntries, Types
  <2>4. PICK e : e = NoEntries
    OBVIOUS
  <2>5. r = [u EXCEPT !.type = "FREE", !.ents = e]
    BY <1>5, <2>1, <2>4
  <2>6. r \in Dinode /\ r.type = "FREE" /\ r.nlink = u.nlink /\ r.ents = e
    BY <2>2, <2>3, <2>4, <2>5 DEF Dinode
  <2> QED
    BY <2>1, <2>4, <2>6
<1>9. dn'[i] = r /\ \A j \in Inums : j # i => dn'[j] = dn[j]
  <2>1. PICK e : e = dn'
    OBVIOUS
  <2>2. dn \in [Inums -> Dinode] /\ i \in Inums /\ r \in Dinode /\ InodeSet(dn, e, i, r)
    BY <1>4, <1>7, <1>8, <2>1, BaseTypes
  <2>3. e[i] = r /\ \A j \in Inums : j # i => e[j] = dn[j]
    BY <2>2 DEF InodeSet
  <2> QED
    BY <2>1, <2>3
<1>10. OnOne(p, op, s)
  BY <1>0, <1>1 DEF OnOne
<1> QED
  BY <1>0, <1>2, <1>6, <1>7, <1>8, <1>9, <1>10, IputFreeDone

\* iput() gives the inode up in the cache.
LEMMA IputFreedDone ==
    ASSUME Base, Second, NEW p \in Procs, NEW op \in {"freed"}, NEW s, OnOne(p, op, s),
           dn' = dn, res' = res, halted' = halted,
           \A z \in Slots : z # s => ic'[z] = ic[z],
           ic'[s].inum = ic[s].inum, ic'[s].ref = ic[s].ref, ~ ic'[s].valid, ic'[s].lk = NoProc,
           NEW a, OneIns(a, "dec", s), Then(p, <<a>>)
    PROVE  Second'
<1>0. op \in PutOps /\ op \in {"free", "freed"} /\ op = "freed"
  BY DEF PutOps
<1>1. /\ k[p] # <<>> /\ Top(k[p]) = k[p][1] /\ Top(k[p]).op = op /\ Top(k[p]).s = s
      /\ s \in Slots /\ ic[s].ref > 0 /\ Keeps(Top(k[p])) = s /\ op \in SOps /\ Live(s)
      /\ KeepsRes(k[p], res[p]) = res[p] /\ (res[p] # NULL => res[p] \in Slots /\ ic[res[p]].lk = p)
      /\ Others(res, res, p) /\ ic[s].lk = p /\ s # res[p]
  <2>1. On(p, op) /\ s = k[p][1].s
    BY DEF OnOne
  <2> QED
    BY <1>0, <2>1, PutDoing
<1>2. InumsKept /\ \A z \in Slots : ic'[z].inum = ic[z].inum /\ ic'[z].ref = ic[z].ref
  BY DEF InumsKept
<1>3. /\ Fit1(a, k[p]) /\ a.op = "dec" /\ a.s = s /\ Top(k'[p]) = a /\ Stay(p)
      /\ RelyNew(a) /\ TopNew(p) /\ KeepsRes(k'[p], res'[p]) = res[p] /\ Keeps(a) = NULL
      /\ Pending(k'[p], ic') = Pending(k[p], ic) \/ Pending(k'[p], ic') = NULL
  <2> DEFINE o == "dec"
  <2>1. o \in {"freed", "dec"} /\ OneIns(a, o, s) /\ Top(k[p]).op \in PutOps /\ o = "dec" /\ o # "freed"
    BY <1>0, <1>1
  <2> HIDE DEF o
  <2> QED
    BY <1>1, <1>2, <2>1, PutNext
<1>4. LockMove(p, s, res[p], NULL, res[p])
  <2>1. \A z \in Slots : z # NULL /\ (z = res[p] => ic[z].lk = p)
    BY <1>1, NullSlot
  <2> QED
    BY <1>1, <2>1 DEF LockMove
<1>5. LockMove(p, Keeps(Top(k[p])), KeepsRes(k[p], res[p]), Keeps(a), KeepsRes(k'[p], res'[p]))
  BY <1>1, <1>3, <1>4
<1>8. /\ \A q \in Procs : q # p => Top(k'[q]) = Top(k[q])
      /\ \A z : Freed(z) => Freed(z)' \/ z = s
      /\ \A z : Filling(z) => Filling(z)'
      /\ \A z : Leaving(z) => Leaving(z)'
  <2>1. PICK b : b = Top(k[p])
    OBVIOUS
  <2>2. b.op = "freed" /\ b.s = s /\ a.op \in {"freed", "dec"} /\ a.s = s
    BY <1>0, <1>1, <1>3, <2>1
  <2>3. b.op # "new"
    BY <2>2
  <2> QED
    BY <1>3, <2>1, <2>2, <2>3, LifeTops
<1>9. Odd(s)
  BY <1>0, <1>1 DEF Odd, Freed
<1>10. FineKept(p)
  <2>1. ASSUME NEW x \in Slots, Fine(x)
        PROVE  x # s
    BY <1>9, <2>1 DEF Fine
  <2> QED
    BY <2>1 DEF FineKept, Num
<1>11. Cached'
  <2>1. SUFFICES ASSUME NEW z \in Slots, ic'[z].ref > 0, ic'[z].valid
                 PROVE  /\ ic'[z].nlink = dn[ic'[z].inum].nlink
                        /\ Freed(z)' \/ (ic'[z].type = dn[ic'[z].inum].type /\ ic'[z].type # "FREE")
    BY DEF Cached, Num
  <2>2. z # s /\ ic'[z] = ic[z]
    BY <2>1
  <2> QED
    BY <1>8, <2>1, <2>2 DEF Second, Life, Cached, Num
<1>12. FreeInodes'
  <2>0. FreeInodes
    BY DEF Second, Life
  <2> QED
    BY <1>2, <1>8, <2>0 DEF FreeInodes, Num
<1>13. Freeing'
  <2>1. ASSUME NEW q \in Procs, q # p
        PROVE  FreeingOf(q)'
    <3>1. ASSUME Top(k[q]).op \in {"free", "freed", "new"}
          PROVE  FreeingOf(q)'
      <4>0. Top(k[q]).op \in SOps
        BY <3>1 DEF SOps, PutOps
      <4>1. PICK x \in Slots : x = Top(k[q]).s
        BY <4>0, TopHolds DEF Live
      <4>2. Top(k[q]).op # "new" => x # s
        <5>1. Top(k[q]).op # "new" => Keeps(Top(k[q])) = x
          BY <3>1, <4>1 DEF Keeps, Keepers
        <5>2. x # NULL
          BY NullSlot
        <5> QED
          BY <1>1, <2>1, <5>1, <5>2, LockFacts DEF Second
      <4>4. LeftAlone(q, x)
        BY <1>2, <1>8, <4>1, <4>2 DEF LeftAlone, Num
      <4> QED
        BY <1>8, <2>1, <4>4, FreeingKept
    <3>2. Top(k'[q]).op = Top(k[q]).op
      BY <1>8, <2>1
    <3> QED
      BY <3>1, <3>2 DEF FreeingOf, Top
  <2>2. FreeingOf(p)'
    <3>3. Top(k[p])' = a
      BY <1>3 DEF Top
    <3> QED
      BY <1>3, <3>3 DEF FreeingOf
  <2> QED
    BY <2>1, <2>2 DEF Freeing
<1>14. Dirs'
  <2>1. \A z \in Slots : ic[z].ref > 0 /\ Filling(z) =>
              ic'[z].ref > 0 /\ ic'[z].inum = ic[z].inum /\ Filling(z)'
    BY <1>2, <1>8
  <2> QED
    BY <2>1, LifeDirs
<1>15. Links'
  <2>1. Life /\ Links
    BY DEF Second
  <2> QED
    BY <1>2, <1>3, <2>1, LinksRead
<1>16. Others(res, res', p) /\ ~halted'
  BY <1>1 DEF Second
<1> QED
  BY <1>1, <1>3, <1>5, <1>10, <1>11, <1>12, <1>13, <1>14, <1>15, <1>16, LifeStep1

\* The third step of iput().
LEMMA IputFreedSecond ==
    ASSUME Base, Second, NEW p \in Procs, IputFreed(p)
    PROVE  Second'
<1> DEFINE op == "freed"
<1>0. On(p, op) /\ op \in {"freed"} /\ op \in PutOps
  BY DEF IputFreed, PutOps
<1> HIDE DEF op
<1>1. PICK s : s = k[p][1].s
  OBVIOUS
<1>3. Arg(p) = k[p][1] /\ s \in Slots
  BY <1>0, <1>1, PutDoing
<1>5. PICK r : r = [ic[s] EXCEPT !.type = "FREE", !.valid = FALSE, !.lk = NoProc]
  OBVIOUS
<1>6. PICK a : OneIns(a, "dec", s)
  BY DEF OneIns
<1>7. /\ dn' = dn /\ res' = res /\ halted' = halted /\ Setting(ic', s, r) /\ Then(p, <<a>>)
  BY <1>1, <1>3, <1>5, <1>6 DEF IputFreed, Setting, OneIns
<1>8. /\ r \in Inode /\ r.ref = ic[s].ref /\ r.inum = ic[s].inum /\ r.valid = FALSE /\ r.lk = NoProc
  <2>1. PICK u : u = ic[s]
    OBVIOUS
  <2>2. u \in Inode
    BY <1>3, <2>1, BaseTypes
  <2>5. r = [u EXCEPT !.type = "FREE", !.valid = FALSE, !.lk = NoProc]
    BY <1>5, <2>1
  <2>6. /\ r \in Inode /\ r.ref = u.ref /\ r.inum = u.inum /\ r.valid = FALSE /\ r.lk = NoProc
    BY <2>2, <2>5 DEF Inode, Types
  <2> QED
    BY <2>1, <2>6
<1>9. ic'[s] = r /\ \A z \in Slots : z # s => ic'[z] = ic[z]
  BY <1>3, <1>7, <1>8, CacheSet
<1>10. OnOne(p, op, s)
  BY <1>0, <1>1 DEF OnOne
<1> QED
  BY <1>0, <1>6, <1>7, <1>8, <1>9, <1>10, IputFreedDone

\* What comes after iput() in a call.
LEMMA PutDone ==
    ASSUME Base, Second, NEW p \in Procs, k[p] # <<>>, Top(k[p]).op \in PutOps, Then(p, <<>>),
           res' = res, InumsKept
    PROVE  /\ Stay(p) /\ Top(k'[p]).op \notin {"free", "freed", "new"}
           /\ TopNew(p) /\ KeepsRes(k'[p], res'[p]) = res[p]
           /\ Pending(k'[p], ic') = Pending(k[p], ic) \/ Pending(k'[p], ic') = NULL
<1>1. /\ Stay(p)
      /\ Len(k[p]) > 1 => /\ View(k'[p], 0) = View(k[p], 0)
                          /\ Top(k'[p]) = k[p][2] /\ k[p][2].op \in Deep
      /\ ~ (Len(k[p]) > 1) => Top(k'[p]) = None /\ View(k'[p], 0) = None
  BY Turn0 DEF Turned
<1>2. Top(k'[p]).op \in Deep \cup {"none"}
  BY <1>1, KeepsNone
<1>3. res[p] # NULL => Len(k[p]) > 1 /\ Top(k'[p]).op \in Ends
  <2>1. ResShape(k[p], res[p]) /\ k[p][1].op \in PutOps
    BY DEF Base, Calling, Top
  <2> QED
    BY <1>1, <2>1 DEF ResShape, PutOps, ToDir, ToFile, Ends
<1>4. TopNew(p)
  <2>1. PICK b : b = Top(k'[p])
    OBVIOUS
  <2>2. b.op \notin TOps /\ b.op # "unlink2"
    BY <1>2, <2>1 DEF Deep, TOps, ToDir, ToFile, Ends
  <2>3. b.op \in ToDir => res[p] = NULL
    BY <1>3, <2>1 DEF ToDir, Ends
  <2> QED
    BY <2>1, <2>2, <2>3 DEF TopNew
<1>5. KeepsRes(k'[p], res'[p]) = res[p]
  BY <1>3 DEF KeepsRes
<1>6. Pending(k'[p], ic') = Pending(k[p], ic) \/ Pending(k'[p], ic') = NULL
  <2>1. PICK b : b = None
    OBVIOUS
  <2>2. CountsOn(p, b)
    BY <2>1, KeepsNone DEF CountsOn, Counting
  <2>3. Life
    BY DEF Second
  <2> QED
    BY <1>1, <2>1, <2>2, <2>3, PendingTurn
<1>7. Top(k'[p]).op \notin {"free", "freed", "new"}
  BY <1>2 DEF Deep, ToDir, ToFile, Ends
<1> QED
  BY <1>1, <1>4, <1>5, <1>6, <1>7

\* iput() gives its reference up.
LEMMA IputDecDone ==
    ASSUME Base, Second, NEW p \in Procs, NEW op \in {"dec"}, NEW s, OnOne(p, op, s),
           dn' = dn, res' = res, halted' = halted,
           \A z \in Slots : z # s => ic'[z] = ic[z],
           ic'[s].inum = ic[s].inum, ic'[s].ref = ic[s].ref - 1, ic'[s].valid = ic[s].valid,
           ic'[s].type = ic[s].type, ic'[s].nlink = ic[s].nlink, ic'[s].lk = ic[s].lk,
           Then(p, <<>>)
    PROVE  Second'
<1>0. op \in PutOps /\ op \notin {"free", "freed"} /\ op = "dec"
  BY DEF PutOps
<1>1. /\ k[p] # <<>> /\ Top(k[p]) = k[p][1] /\ Top(k[p]).op = op /\ Top(k[p]).s = s
      /\ s \in Slots /\ ic[s].ref > 0 /\ Keeps(Top(k[p])) = NULL /\ op \in SOps /\ Live(s)
      /\ KeepsRes(k[p], res[p]) = res[p] /\ Others(res, res, p)
  <2>1. On(p, op) /\ s = k[p][1].s
    BY DEF OnOne
  <2> QED
    BY <1>0, <2>1, PutDoing
<1>2. InumsKept /\ \A z \in Slots : ic'[z].inum = ic[z].inum
  BY DEF InumsKept
<1>3. /\ Stay(p) /\ Top(k'[p]).op \notin {"free", "freed", "new"}
      /\ TopNew(p) /\ KeepsRes(k'[p], res'[p]) = res[p]
      /\ Pending(k'[p], ic') = Pending(k[p], ic) \/ Pending(k'[p], ic') = NULL
  BY <1>0, <1>1, <1>2, PutDone
<1>5. LockMove(p, Keeps(Top(k[p])), KeepsRes(k[p], res[p]), NULL, KeepsRes(k'[p], res'[p]))
  <2>1. \A z \in Slots : ic'[z].lk = ic[z].lk
    OBVIOUS
  <2>2. Locks
    BY DEF Second
  <2> QED
    BY <1>1, <1>3, <2>1, <2>2, LocksSame
<1>6. ic[s].ref \in Nat /\ \A z \in Slots : ic[z].ref \in Nat
  BY <1>1, BaseTypes DEF Inode
<1>8. /\ \A q \in Procs : q # p => Top(k'[q]) = Top(k[q])
      /\ \A z : Freed(z) => Freed(z)'
      /\ \A z : Filling(z) => Filling(z)'
      /\ \A z : Leaving(z) => Leaving(z)' \/ z = s
  <2>1. PICK b : b = Top(k[p])
    OBVIOUS
  <2>2. b.op = "dec" /\ b.s = s
    BY <1>0, <1>1, <2>1
  <2>3. b.op # "new" /\ b.op # "freed"
    BY <2>2
  <2> QED
    BY <1>3, <2>1, <2>2, <2>3, LifeTops
<1>9. \A q \in Procs : q # p /\ Top(k[q]).op \in SOps /\ Top(k[q]).s = s =>
         /\ ic[s].ref # 0 /\ ic[s].ref # 1
         /\ \A r \in Procs : r # p /\ r # q /\ Top(k[r]).op \in SOps /\ Top(k[r]).s = s => ic[s].ref # 2
  BY <1>1, TwoTops
<1>10. FineKept(p)
  BY DEF FineKept, Num
<1>11. Cached'
  <2>1. SUFFICES ASSUME NEW z \in Slots, ic'[z].ref > 0, ic'[z].valid
                 PROVE  /\ ic'[z].nlink = dn[ic'[z].inum].nlink
                        /\ Freed(z)' \/ (ic'[z].type = dn[ic'[z].inum].type /\ ic'[z].type # "FREE")
    BY DEF Cached, Num
  <2>2. /\ ic[z].ref > 0 /\ ic'[z].valid = ic[z].valid /\ ic'[z].type = ic[z].type
        /\ ic'[z].nlink = ic[z].nlink
    BY <1>1, <2>1
  <2> QED
    BY <1>2, <1>8, <2>1, <2>2 DEF Second, Life, Cached, Num
<1>12. FreeInodes'
  <2>0. FreeInodes
    BY DEF Second, Life
  <2>1. ASSUME NEW z \in Slots, ic'[z].ref > 0, dn[ic'[z].inum].type = "FREE"
        PROVE  ic'[z].ref = 1 /\ Leaving(z)'
    <3>1. dn[ic[z].inum].type = "FREE"
      BY <1>2, <2>1
    <3>2. z # s
      <4>1. ic[s].ref = 1 => ic'[s].ref = 0
        OBVIOUS
      <4>2. z = s => ic[s].ref = 1
        BY <1>1, <2>0, <3>1 DEF FreeInodes, Num
      <4> QED
        BY <2>1, <4>1, <4>2
    <3>3. ic'[z] = ic[z]
      BY <3>2
    <3> QED
      BY <1>8, <2>0, <2>1, <3>1, <3>2, <3>3 DEF FreeInodes, Num
  <2> QED
    BY <2>0, <2>1 DEF FreeInodes, Num
<1>13. Freeing'
  <2>1. ASSUME NEW q \in Procs, q # p
        PROVE  FreeingOf(q)'
    <3>1. ASSUME Top(k[q]).op \in {"free", "freed", "new"}
          PROVE  FreeingOf(q)'
      <4>0. Top(k[q]).op \in SOps
        BY <3>1 DEF SOps, PutOps
      <4>1. PICK x \in Slots : x = Top(k[q]).s
        BY <4>0, TopHolds DEF Live
      <4>2. CASE x # s
        <5>4. LeftAlone(q, x)
          BY <1>2, <1>8, <4>1, <4>2 DEF LeftAlone, Num
        <5> QED
          BY <1>8, <2>1, <5>4, FreeingKept
      <4>3. CASE x = s
        <5>1. ic[s].ref # 1
          BY <1>9, <2>1, <4>0, <4>1, <4>3
        <5>2. PICK a : a = Top(k[q])
          OBVIOUS
        <5>2a. a.s = s /\ a.op \in {"free", "freed", "new"}
          BY <3>1, <4>1, <4>3, <5>2
        <5>3. /\ a.op = "free" => ic[s].ref = 1
              /\ a.op = "freed" => ic[s].ref = 1 \/ (ic[s].ref = 2 /\ Filling(s))
              /\ a.op = "new" => /\ dn[Num(s)].nlink = 0 /\ dn[Num(s)].type = a.arg
                                 /\ dn[Num(s)].ents = NoEntries
                                 /\ ic[s].ref = 1 \/ ic[s].ref = 2
          <6>1. FreeingOf(q)
            BY DEF Second, Life, Freeing
          <6> QED
            BY <5>2, <5>2a, <6>1 DEF FreeingOf
        <5>4. a.op # "freed"
          <6>1. SUFFICES ASSUME a.op = "freed", Filling(s), ic[s].ref = 2
                         PROVE  FALSE
            BY <5>1, <5>3
          <6>2. PICK r \in Procs : Top(k[r]).op = "new" /\ Top(k[r]).s = s
            BY <6>1 DEF Filling
          <6>3. r # p /\ r # q /\ Top(k[r]).op \in SOps
            BY <1>0, <1>1, <5>2, <6>1, <6>2 DEF SOps
          <6> QED
            BY <1>9, <2>1, <4>0, <4>1, <4>3, <6>1, <6>2, <6>3
        <5>5. a.op = "new" /\ ic[s].ref = 2
          BY <5>1, <5>2a, <5>3, <5>4
        <5>6. ic'[s].ref = 1 /\ dn'[ic'[s].inum] = dn[Num(s)]
          BY <5>5 DEF Num
        <5>7. Top(k[q])' = a
          BY <1>8, <2>1, <5>2 DEF Top
        <5> QED
          BY <5>2a, <5>3, <5>5, <5>6, <5>7 DEF FreeingOf, Num
      <4> QED
        BY <4>2, <4>3
    <3>2. Top(k'[q]).op = Top(k[q]).op
      BY <1>8, <2>1
    <3> QED
      BY <3>1, <3>2 DEF FreeingOf, Top
  <2>2. FreeingOf(p)'
    <3>1. PICK b : b = Top(k'[p])
      OBVIOUS
    <3>2. b.op \notin {"free", "freed", "new"} /\ Top(k[p])' = b
      BY <1>3, <3>1 DEF Top
    <3> QED
      BY <3>2 DEF FreeingOf
  <2> QED
    BY <2>1, <2>2 DEF Freeing
<1>14. Dirs'
  <2>1. ASSUME NEW z \in Slots, ic[z].ref > 0, Filling(z)
        PROVE  ic'[z].ref > 0 /\ ic'[z].inum = ic[z].inum /\ Filling(z)'
    <3>1. PICK r \in Procs : Top(k[r]).op = "new" /\ Top(k[r]).s = z
      BY <2>1 DEF Filling
    <3>2. r # p /\ Top(k[r]).op \in SOps
      BY <1>0, <1>1, <3>1 DEF SOps
    <3>3. z = s => ic[s].ref # 1
      BY <1>9, <3>1, <3>2
    <3>4. ic'[z].ref > 0
      BY <1>6, <2>1, <3>3
    <3> QED
      BY <1>2, <1>8, <2>1, <3>4
  <2> QED
    BY <2>1, LifeDirs
<1>15. Links'
  <2>1. Life /\ Links
    BY DEF Second
  <2> QED
    BY <1>2, <1>3, <2>1, LinksRead
<1>16. Others(res, res', p) /\ ~halted'
  BY <1>1 DEF Second
<1> QED
  BY <1>1, <1>3, <1>5, <1>10, <1>11, <1>12, <1>13, <1>14, <1>15, <1>16, LifeStep0

\* The last step of iput().
LEMMA IputDecSecond ==
    ASSUME Base, Second, NEW p \in Procs, IputDec(p)
    PROVE  Second'
<1> DEFINE op == "dec"
<1>0. On(p, op) /\ op \in {"dec"} /\ op \in PutOps
  BY DEF IputDec, PutOps
<1> HIDE DEF op
<1>1. PICK s : s = k[p][1].s
  OBVIOUS
<1>3. Arg(p) = k[p][1] /\ s \in Slots
  BY <1>0, <1>1, PutDoing
<1>7. /\ dn' = dn /\ res' = res /\ halted' = halted /\ Then(p, <<>>)
      /\ ic' = [ic EXCEPT ![s].ref = @ - 1]
  BY <1>1, <1>3 DEF IputDec
<1>8. /\ \A z \in Slots : z # s => ic'[z] = ic[z]
      /\ ic'[s].inum = ic[s].inum /\ ic'[s].ref = ic[s].ref - 1 /\ ic'[s].valid = ic[s].valid
      /\ ic'[s].type = ic[s].type /\ ic'[s].nlink = ic[s].nlink /\ ic'[s].lk = ic[s].lk
  BY <1>3, <1>7, BaseTypes DEF Inode
<1>10. OnOne(p, op, s)
  BY <1>0, <1>1 DEF OnOne
<1> QED
  BY <1>0, <1>7, <1>8, <1>10, IputDecDone

\* Directory dp is locked, and inode i, free up to now, is allocated in slot x.
Alloced(p, dp, i, x, g) ==
    /\ Finds(i, x) /\ x # dp
    /\ \A z \in Slots : z # x /\ z # dp => ic'[z] = ic[z]
    /\ ic'[dp].ref = ic[dp].ref /\ ic'[dp].inum = ic[dp].inum /\ ic'[dp].valid /\ ic'[dp].lk = p
    /\ ic'[dp].type = dn[Num(dp)].type /\ ic'[dp].nlink = dn[Num(dp)].nlink
    /\ ic'[x].inum = i /\ ic'[x].ref = ic[x].ref + 1 /\ ic'[x].lk = ic[x].lk
    /\ ic'[x].type = ic[x].type /\ ic'[x].nlink = ic[x].nlink
    /\ ic[x].ref > 0 => ic'[x].valid = ic[x].valid
    /\ ic[x].ref = 0 => ~ ic'[x].valid
    /\ dn'[i].type = g /\ dn'[i].nlink = 0 /\ dn'[i].ents = NoEntries
    /\ \A j \in Inums : j # i => dn'[j] = dn[j]

\* create() does this.
LEMMA AllocedFacts ==
    ASSUME Base, Second, NEW p \in Procs, NEW dp, Fine(dp), Lockable(dp), NEW i \in Inums,
           dn[i].type = "FREE", HasSlot(i), ic' = iget(Load(dp, p), i), NEW x, x = SlotOf(ic, i),
           NEW g \in Kinds, NEW r, r = [type |-> g, nlink |-> 0, ents |-> NoEntries],
           InodeSet(dn, dn', i, r)
    PROVE  Alloced(p, dp, i, x, g)
<1> DEFINE c == Load(dp, p)
<1>1. /\ SameRefs(ic, c) /\ c \in [Slots -> Inode]
      /\ c[dp].lk = p /\ c[dp].valid /\ c[dp].type = Loaded(dp).type /\ c[dp].nlink = Loaded(dp).nlink
      /\ \A z \in Slots : z # dp => c[z] = ic[z]
  BY LoadsLock
<1>2. ic' = iget(c, i)
  OBVIOUS
<1> HIDE DEF c
<1>3. /\ dp \in Slots /\ ic[dp].ref > 0 /\ Num(dp) \in Inums /\ dn[Num(dp)].type # "FREE"
      /\ Loaded(dp).type = dn[Num(dp)].type /\ Loaded(dp).nlink = dn[Num(dp)].nlink
  BY FineFacts DEF Second
<1>4. Got(c, ic', i, x) /\ Finds(i, x)
  BY <1>1, <1>2, IgetGot DEF Base
<1>5. x # dp /\ x \in Slots
  BY <1>3, <1>4 DEF Finds, Num
<1>6. /\ ic'[dp] = c[dp] /\ c[x] = ic[x] /\ \A z \in Slots : z # x /\ z # dp => ic'[z] = ic[z]
  BY <1>1, <1>3, <1>4, <1>5 DEF Got
<1>7. /\ ic'[dp].ref = ic[dp].ref /\ ic'[dp].inum = ic[dp].inum /\ ic'[dp].valid /\ ic'[dp].lk = p
      /\ ic'[dp].type = dn[Num(dp)].type /\ ic'[dp].nlink = dn[Num(dp)].nlink
  BY <1>1, <1>3, <1>6 DEF SameRefs
<1>8. /\ ic'[x].inum = i /\ ic'[x].ref = ic[x].ref + 1 /\ ic'[x].lk = ic[x].lk
      /\ ic'[x].type = ic[x].type /\ ic'[x].nlink = ic[x].nlink
      /\ ic[x].ref > 0 => ic'[x].valid = ic[x].valid
      /\ ic[x].ref = 0 => ~ ic'[x].valid
  BY <1>4, <1>6 DEF Got
<1>9. /\ r.type = g /\ r.nlink = 0 /\ r.ents = NoEntries
  OBVIOUS
<1>10. dn'[i] = r /\ \A j \in Inums : j # i => dn'[j] = dn[j]
  <2>1. PICK e : e = dn'
    OBVIOUS
  <2>2. dn \in [Inums -> Dinode] /\ i \in Inums /\ InodeSet(dn, e, i, r)
    BY <2>1, BaseTypes
  <2>3. e[i] = r /\ \A j \in Inums : j # i => e[j] = dn[j]
    BY <2>2 DEF InodeSet
  <2> QED
    BY <2>1, <2>3
<1>11. /\ dn'[i].type = g /\ dn'[i].nlink = 0 /\ dn'[i].ents = NoEntries
  BY <1>9, <1>10
<1> QED
  BY <1>4, <1>5, <1>6, <1>7, <1>8, <1>10, <1>11 DEF Alloced

\* The links are those that were there before an inode is allocated.
LEMMA AllocedLinks ==
    ASSUME Base, Second, NEW p \in Procs, Stay(p), InumsKept, View(k'[p], 0) = View(k[p], 0),
           NEW i \in Inums, dn[i].type = "FREE", dn'[i].nlink = 0, dn'[i].ents = NoEntries,
           \A j \in Inums : j # i => dn'[j] = dn[j]
    PROVE  Links'
<1>1. dn[i].nlink = 0 /\ dn[i].ents = NoEntries /\ Life /\ Links
  BY DEF Second, Life, FreeInodes
<1>2. \A d \in Inums, n \in Names :
         dn[d].ents[n] # NULL => dn[d].ents[n] \in Inums /\ dn[d].ents[n] # i
  BY <1>1, NamedOnce
<1>3. \A q \in Procs : Pending(k'[q], ic') = Pending(k[q], ic)
  BY <1>1, PendingKept
<1> DEFINE G == Linked(dn, k, ic)
           H == Linked(dn', k', ic')
<1>4. \A d \in Inums, n \in Names : dn'[d].ents[n] = dn[d].ents[n]
  BY <1>1
<1>5. \A d \in Inums, n \in Names : Sub(dn', d, dn'[d].ents[n]) = Sub(dn, d, dn[d].ents[n])
  BY <1>2, <1>4 DEF Sub
<1>6. \A x \in LinkPlaces : H[x] = G[x]
  <2>1. SUFFICES ASSUME NEW x \in LinkPlaces PROVE H[x] = G[x]
    OBVIOUS
  <2>2. /\ \A d \in Inums, n \in Names : /\ G[<<d, "name", n>>] = dn[d].ents[n]
                                          /\ G[<<d, "sub", n>>] = Sub(dn, d, dn[d].ents[n])
        /\ \A q \in Procs : G[<<q, "call", 0>>] = Pending(k[q], ic)
        /\ G[<<ROOTINO, "root", 0>>] = ROOTINO
    BY LinkedAt
  <2>3. /\ \A d \in Inums, n \in Names : /\ H[<<d, "name", n>>] = dn'[d].ents[n]
                                          /\ H[<<d, "sub", n>>] = Sub(dn', d, dn'[d].ents[n])
        /\ \A q \in Procs : H[<<q, "call", 0>>] = Pending(k'[q], ic')
        /\ H[<<ROOTINO, "root", 0>>] = ROOTINO
    BY LinkedAt
  <2>4. \/ \E d \in Inums, n \in Names : x = <<d, "name", n>> \/ x = <<d, "sub", n>>
        \/ \E q \in Procs : x = <<q, "call", 0>>
        \/ x = <<ROOTINO, "root", 0>>
    BY LinkedAt
  <2> HIDE DEF G, H
  <2>5. ASSUME NEW d \in Inums, NEW n \in Names, x = <<d, "name", n>> PROVE H[x] = G[x]
    BY <1>4, <2>2, <2>3, <2>5
  <2>6. ASSUME NEW d \in Inums, NEW n \in Names, x = <<d, "sub", n>> PROVE H[x] = G[x]
    <3>1. PICK v : v = Sub(dn, d, dn[d].ents[n])
      OBVIOUS
    <3>2. G[x] = v
      BY <2>2, <2>6, <3>1
    <3>3. v = Sub(dn', d, dn'[d].ents[n])
      BY <1>5, <3>1
    <3>4. H[x] = v
      BY <2>3, <2>6, <3>3
    <3> QED
      BY <3>2, <3>4
  <2>7. ASSUME NEW q \in Procs, x = <<q, "call", 0>> PROVE H[x] = G[x]
    BY <1>3, <2>2, <2>3, <2>7
  <2>8. ASSUME x = <<ROOTINO, "root", 0>> PROVE H[x] = G[x]
    BY <2>2, <2>3, <2>8
  <2> QED
    BY <2>4, <2>5, <2>6, <2>7, <2>8
<1>7. DOMAIN G = LinkPlaces /\ DOMAIN H = LinkPlaces /\ LinksCounted(G, dn)
  BY <1>1, LinkedAt DEF Links
<1>8. \A j \in Inums : dn[j].nlink = dn'[j].nlink /\ dn[j].nlink \in Int
  BY <1>1, BaseTypes DEF Dinode
<1>9. PICK e : e = dn'
  OBVIOUS
<1> HIDE DEF G, H
<1>10. LinksCounted(H, e)
  BY <1>6, <1>7, <1>8, <1>9, LinksShrink
<1> QED
  BY <1>9, <1>10 DEF Links, H

\* create() allocates the inode, with the directory locked.
LEMMA CreateAllocDone ==
    ASSUME Base, Second, NEW p \in Procs, NEW op \in {"create"}, On(p, op), NEW dp, dp = res[p], dp # NULL,
           Lockable(dp), NEW i \in Inums, dn[i].type = "FREE", NEW x, NEW g \in Kinds,
           Alloced(p, dp, i, x, g), NEW name \in Names, Others(res, res', p), res'[p] = NULL,
           ~halted', NEW a, TwoIns(a, "new", x, dp, name, g), Then(p, <<a>>)
    PROVE  Second'
<1>0. op \in ToDir \cup ToFile /\ op \in ToDir /\ op = "create"
  BY DEF ToDir
<1>1. /\ k[p] # <<>> /\ Top(k[p]) = k[p][1] /\ Top(k[p]).op = op
      /\ Fine(dp) /\ dp \in Slots /\ Unkept(p) /\ Top(k[p]).op \notin LifeOps
      /\ dn[Num(dp)].type = "DIR"
  BY <1>0, ResDoing
<1>2. Len(k[p]) > 1 /\ k[p][2].op \in Ends
  BY <1>0, ResFacts
<1>3. x \in Slots /\ Finds(i, x) /\ x # dp /\ ic[dp].ref > 0 /\ Num(dp) \in Inums /\ Num(dp) # i
  BY <1>1 DEF Alloced, Finds, Fine, Live, Num
<1>4. \A z \in Slots : ic[z].ref > 0 /\ z # x => Num(z) # i /\ Num(z) \in Inums
  BY <1>3 DEF Finds, Num, Base, Unique
<1>5. /\ dn[i].nlink = 0
      /\ ic[x].ref > 0 => ic[x].ref = 1 /\ Leaving(x) /\ Num(x) = i
  <2>1. ic[x].ref > 0 => Num(x) = i
    BY <1>3, BaseTypes DEF Finds, Num, Inode
  <2> QED
    BY <1>3, <2>1 DEF Second, Life, FreeInodes
<1>6. ic[x].ref \in Nat /\ (ic[x].ref = 0 \/ ic[x].ref > 0)
  <2>1. ic[x].ref \in Nat
    BY <1>3, BaseTypes DEF Inode
  <2> QED
    BY <2>1
<1>7. /\ \A z \in Slots : ic[z].ref > 0 => ic'[z].inum = Num(z) /\ ic'[z].ref > 0
      /\ \A z \in Slots : z # x => ic'[z].ref = ic[z].ref /\ ic'[z].inum = ic[z].inum
      /\ \A z \in Slots : ic[z].ref > 0 /\ ic[z].valid => ic'[z].valid
      /\ \A z \in Slots : z # dp => ic'[z].lk = ic[z].lk
  <2>1. \A z \in Slots : z = x \/ z = dp \/ ic'[z] = ic[z]
    BY DEF Alloced
  <2> QED
    BY <1>3, <1>5, <1>6, <2>1 DEF Alloced, Num
<1>8. InumsKept
  BY <1>7 DEF InumsKept, Num
<1>9. /\ a \in Instr /\ Well(a) /\ a.op = "new" /\ a.s = x /\ a.t = dp /\ a.path[1] = name /\ a.arg = g
  <2> DEFINE o == "new"
  <2>1. o \in TOps /\ TwoArg(o, g) /\ TwoIns(a, o, x, dp, name, g) /\ name \in Names \cup {".", ".."}
    BY DEF TOps, Args, TwoArg
  <2>2. o = "new"
    OBVIOUS
  <2> HIDE DEF o
  <2>3. a \in Instr /\ Well(a) /\ a.op = o /\ a.s = x /\ a.t = dp /\ a.path[1] = name /\ a.arg = g
    BY <1>1, <1>3, <2>1, TwoWell
  <2> QED
    BY <2>2, <2>3
<1>10. Fit1(a, k[p])
  <2>1. Above(a, k[p][2])
    BY <1>2, <1>9 DEF Above, Over, Deep, Ends
  <2> QED BY <1>2, <1>9, <2>1 DEF Fit1
<1>11. Top(k'[p]) = a /\ Stay(p) /\ View(k'[p], 0) = View(k[p], 0)
  BY <1>1, <1>2, <1>10, Turn1 DEF Turned
<1>12. Keeps(a) = dp /\ RelyNew(a) /\ KeepsRes(k'[p], res'[p]) = NULL
  BY <1>9 DEF Keeps, Keepers, TOps, RelyNew, KeepsRes
<1>13. TopNew(p)
  <2>1. ic'[dp].valid /\ dn'[ic'[dp].inum].type = "DIR"
    BY <1>1, <1>3 DEF Alloced, Num
  <2> QED
    BY <1>9, <1>11, <2>1 DEF TopNew, ToDir
<1>14. LockMove(p, Keeps(Top(k[p])), KeepsRes(k[p], res[p]), Keeps(a), KeepsRes(k'[p], res'[p]))
  <2>1. ic[dp].lk = NoProc /\ ic'[dp].lk = p
    BY DEF Lockable, Alloced
  <2>2. LockMove(p, NULL, NULL, dp, NULL)
    BY <1>1, <1>7, <2>1, LockTaken
  <2> QED
    BY <1>1, <1>12, <2>2 DEF Unkept
<1>15. /\ \A q \in Procs : q # p => Top(k'[q]) = Top(k[q])
       /\ \A z : Freed(z) => Freed(z)'
       /\ \A z : Filling(z) => Filling(z)'
       /\ \A z : Leaving(z) => Leaving(z)'
       /\ Filling(x)'
  <2>1. PICK b : b = Top(k[p])
    OBVIOUS
  <2>2. b.op = "create"
    BY <1>0, <1>1, <2>1
  <2>3. b.op # "new" /\ b.op # "freed" /\ b.op \notin {"freed", "dec"}
    BY <2>2
  <2>4. PICK e : e = Top(k'[p])
    OBVIOUS
  <2>5. e.op = "new" /\ e.s = x
    BY <1>9, <1>11, <2>4
  <2> QED
    BY <1>11, <2>1, <2>3, <2>4, <2>5, LifeTops
<1>16. FineKept(p)
  <2>1. SUFFICES ASSUME NEW z \in Slots, Fine(z)
                 PROVE  /\ ic'[z].inum = Num(z) /\ (ic[z].valid => ic'[z].valid)
                        /\ dn'[Num(z)].type = dn[Num(z)].type
                        /\ ic[z].lk \notin {p, NoProc} => dn'[Num(z)].ents = dn[Num(z)].ents
    BY DEF FineKept
  <2>2. ic[z].ref > 0 /\ Num(z) \in Inums /\ Num(z) # i
    BY <2>1 DEF Fine, Live, Odd, Num
  <2>3. dn'[Num(z)] = dn[Num(z)]
    BY <2>2 DEF Alloced
  <2> QED
    BY <1>7, <2>2, <2>3
<1>17. Cached'
  <2>1. SUFFICES ASSUME NEW z \in Slots, ic'[z].ref > 0, ic'[z].valid
                 PROVE  /\ ic'[z].nlink = dn'[ic'[z].inum].nlink
                        /\ Freed(z)' \/ (ic'[z].type = dn'[ic'[z].inum].type /\ ic'[z].type # "FREE")
    BY DEF Cached, Num
  <2>2. Cached
    BY DEF Second, Life
  <2>3. CASE z = x
    <3>1. ic[x].ref > 0 /\ ic[x].valid /\ Num(x) = i
      BY <1>5, <1>6, <2>1, <2>3 DEF Alloced
    <3>2. ic[x].nlink = 0 /\ Freed(x)
      BY <1>3, <1>5, <2>2, <3>1 DEF Cached
    <3> QED
      BY <1>15, <2>3, <3>2 DEF Alloced
  <2>4. CASE z = dp
    <3>1. ic'[dp].inum = Num(dp) /\ dn'[Num(dp)] = dn[Num(dp)]
      BY <1>3 DEF Alloced, Num
    <3> QED
      BY <1>1, <2>4, <3>1 DEF Alloced
  <2>5. CASE z # x /\ z # dp
    <3>1. ic'[z] = ic[z]
      BY <2>5 DEF Alloced
    <3>2. ic[z].ref > 0
      BY <2>1, <3>1
    <3>3. ic'[z].inum = Num(z) /\ dn'[Num(z)] = dn[Num(z)]
      BY <1>4, <2>5, <3>1, <3>2 DEF Alloced, Num
    <3> QED
      BY <1>15, <2>1, <2>2, <3>1, <3>2, <3>3 DEF Cached
  <2> QED
    BY <2>3, <2>4, <2>5
<1>18. FreeInodes'
  <2>0. FreeInodes
    BY DEF Second, Life
  <2>1. g # "FREE"
    BY DEF Kinds
  <2>2. \A j \in Inums : dn'[j].type = "FREE" => dn'[j].nlink = 0 /\ dn'[j].ents = NoEntries
    BY <2>0, <2>1 DEF FreeInodes, Alloced
  <2>3. ASSUME NEW z \in Slots, ic'[z].ref > 0, dn'[ic'[z].inum].type = "FREE"
        PROVE  ic'[z].ref = 1 /\ Leaving(z)'
    <3>1. z # x
      BY <2>1, <2>3 DEF Alloced
    <3>2. ic'[z].ref = ic[z].ref /\ ic'[z].inum = Num(z) /\ ic[z].ref > 0
      BY <1>7, <2>3, <3>1 DEF Num
    <3>3. dn'[Num(z)] = dn[Num(z)]
      BY <1>4, <3>1, <3>2 DEF Alloced
    <3> QED
      BY <1>15, <2>0, <2>3, <3>2, <3>3 DEF FreeInodes
  <2> QED
    BY <2>2, <2>3 DEF FreeInodes, Num
<1>19. Freeing'
  <2>1. ASSUME NEW q \in Procs, q # p
        PROVE  FreeingOf(q)'
    <3>1. ASSUME Top(k[q]).op \in {"free", "freed", "new"}
          PROVE  FreeingOf(q)'
      <4>0. Top(k[q]).op \in SOps
        BY <3>1 DEF SOps, PutOps
      <4>1. PICK y \in Slots : y = Top(k[q]).s
        BY <4>0, TopHolds DEF Live
      <4>1a. ic[y].ref > 0
        <5>1. Live(y)
          BY <4>0, <4>1, TopHolds
        <5> QED
          BY <5>1 DEF Live
      <4>2. CASE y # x
        <5>1. dn'[Num(y)] = dn[Num(y)]
          BY <1>4, <4>1a, <4>2 DEF Alloced
        <5>2. ic'[y].inum = Num(y) /\ ic'[y].ref = ic[y].ref /\ (ic[y].valid => ic'[y].valid)
          BY <1>7, <4>1a, <4>2
        <5>4. LeftAlone(q, y)
          BY <1>15, <4>1, <5>1, <5>2 DEF LeftAlone
        <5> QED
          BY <1>15, <2>1, <5>4, FreeingKept
      <4>3. CASE y = x
        <5>1. ic[x].ref = 1 /\ Leaving(x) /\ Num(x) = i
          BY <1>5, <4>1a, <4>3
        <5>2. PICK r \in Procs : Top(k[r]).op \in {"freed", "dec"} /\ Top(k[r]).s = x
          BY <5>1 DEF Leaving
        <5>3. Top(k[r]).op \in SOps
          BY <5>2 DEF SOps, PutOps
        <5>4. r = q
          <6>1. r # q => ic[x].ref # 1
            BY <4>0, <4>1, <4>3, <5>2, <5>3, TwoTops
          <6> QED
            BY <5>1, <6>1
        <5>5. PICK b : b = Top(k[q])
          OBVIOUS
        <5>6. b.op = "freed" /\ b.s = x
          BY <3>1, <4>1, <4>3, <5>2, <5>4, <5>5
        <5>7. ic[x].valid
          <6>1. FreeingOf(q)
            BY DEF Second, Life, Freeing
          <6> QED
            BY <5>5, <5>6, <6>1 DEF FreeingOf
        <5>8. ic'[x].valid /\ ic'[x].ref = 2 /\ dn'[ic'[x].inum].nlink = 0
          <6>1. ic'[x].valid = ic[x].valid /\ ic'[x].ref = ic[x].ref + 1 /\ ic'[x].inum = i
            BY <4>1a, <4>3 DEF Alloced
          <6>2. dn'[i].nlink = 0
            BY DEF Alloced
          <6> QED
            BY <5>1, <5>7, <6>1, <6>2
        <5>9. Top(k[q])' = b
          BY <1>15, <2>1, <5>5 DEF Top
        <5> QED
          BY <1>15, <5>6, <5>8, <5>9 DEF FreeingOf, Num
      <4> QED
        BY <4>2, <4>3
    <3>2. Top(k'[q]).op = Top(k[q]).op
      BY <1>15, <2>1
    <3> QED
      BY <3>1, <3>2 DEF FreeingOf, Top
  <2>2. FreeingOf(p)'
    <3>1. /\ dn'[ic'[x].inum].nlink = 0 /\ dn'[ic'[x].inum].type = g
          /\ dn'[ic'[x].inum].ents = NoEntries
      BY DEF Alloced
    <3>2. ic'[x].ref = 1 \/ (ic'[x].ref = 2 /\ Leaving(x)')
      <4>1. ic'[x].ref = ic[x].ref + 1
        BY DEF Alloced
      <4> QED
        BY <1>5, <1>6, <1>15, <4>1
    <3>3. Top(k[p])' = a
      BY <1>11 DEF Top
    <3> QED
      BY <1>9, <3>1, <3>2, <3>3 DEF FreeingOf, Num
  <2> QED
    BY <2>1, <2>2 DEF Freeing
<1>20. Dirs'
  <2>0. Dirs
    BY DEF Second
  <2>1. dn[ROOTINO].type = "DIR" /\ ROOTINO \in Inums
    BY <2>0, FilesAssumption DEF Dirs
  <2>2. dn'[ROOTINO].type = "DIR"
    BY <2>1 DEF Alloced
  <2>3. ASSUME NEW j \in Inums
        PROVE  /\ dn'[j].type # "DIR" => dn'[j].ents = NoEntries
               /\ \/ dn'[j].type # "DIR"
                  \/ dn'[j].ents["."] = j /\ dn'[j].ents[".."] # NULL
                  \/ \E z \in Slots : ic'[z].ref > 0 /\ ic'[z].inum = j /\ Filling(z)'
    <3>1. CASE j = i
      <4>1. ic'[x].ref > 0
        BY <1>6 DEF Alloced
      <4> QED
        BY <1>3, <1>15, <3>1, <4>1 DEF Alloced
    <3>2. CASE j # i
      <4>1. dn'[j] = dn[j]
        BY <3>2 DEF Alloced
      <4>2. ASSUME NEW z \in Slots, ic[z].ref > 0, Num(z) = j, Filling(z)
            PROVE  ic'[z].ref > 0 /\ ic'[z].inum = j /\ Filling(z)'
        BY <1>7, <1>15, <4>2
      <4> QED
        BY <2>0, <4>1, <4>2 DEF Dirs
    <3> QED
      BY <3>1, <3>2
  <2> QED
    BY <2>2, <2>3 DEF Dirs, Num
<1>21. Links'
  <2>1. dn'[i].nlink = 0 /\ dn'[i].ents = NoEntries /\ \A j \in Inums : j # i => dn'[j] = dn[j]
    BY DEF Alloced
  <2> QED
    BY <1>8, <1>11, <2>1, AllocedLinks
<1> QED
  BY <1>1, <1>10, <1>12, <1>13, <1>14, <1>16, <1>17, <1>18, <1>19, <1>20, <1>21, LifeStep1

\* What this does to the disk.
LEMMA AllocedDisk ==
    ASSUME NEW p, NEW s, NEW j, NEW x, NEW h, Alloced(p, s, j, x, h)
    PROVE  dn'[j].ents = NoEntries /\ \A m \in Inums : m # j => dn'[m] = dn[m]
BY DEF Alloced

\* create() without an entry of that name.
LEMMA CreateAllocSecond ==
    ASSUME Base, Second, NEW p \in Procs, CreateAlloc(p)
    PROVE  Second' /\ Fewer
<1> DEFINE op == "create"
           dp == res[p]
           name == Last(k[p][1].path)
           i == CHOOSE x \in FreeInums : \A y \in FreeInums : x <= y
           g == k[p][1].arg
           r == [type |-> g, nlink |-> 0, ents |-> NoEntries]
<1>0. On(p, op) /\ op \in ToDir \cup ToFile /\ op \in ToDir /\ dp # NULL /\ op \in {"create"}
  BY DEF CreateAlloc, ToDir
<1> HIDE DEF op
<1>1. /\ Arg(p) = k[p][1] /\ Fine(dp) /\ ~ NoType(dp) /\ dn[Num(dp)].type = "DIR"
  BY <1>0, ResDoing
<1>2. name \in Names \cup {".", ".."} /\ g \in Kinds
  <2>1. Well(k[p][1]) /\ k[p][1].op = "create" /\ name \in Names \cup {".", ".."}
    BY <1>0, ResFacts
  <2> QED
    BY <2>1 DEF Well
<1>3. /\ halted' = NoType(dp) /\ Return(p, NULL) /\ FreeInums # {} /\ Lockable(dp)
      /\ dirlookup(dp, name) = NULL /\ HasSlot(i) /\ ic' = iget(Load(dp, p), i)
      /\ Then(p, <<Ins("new", SlotOf(ic, i), dp, <<name>>, g)>>) /\ dn' = [dn EXCEPT ![i] = r]
  BY <1>1 DEF CreateAlloc
<1>4. Others(res, res', p) /\ res'[p] = NULL /\ ~halted'
  BY <1>1, <1>3, ReturnFacts, NullSlot
<1>5. PICK s : s = dp
  OBVIOUS
<1>6. PICK n : n = name
  OBVIOUS
<1>7. PICK j : j = i
  OBVIOUS
<1>8. PICK x : x = SlotOf(ic, j)
  OBVIOUS
<1>9. PICK h : h = g
  OBVIOUS
<1>10. PICK e : e = r
  OBVIOUS
<1>11. PICK a : TwoIns(a, "new", x, s, n, h)
  BY DEF TwoIns
<1>12. Then(p, <<a>>)
  BY <1>3, <1>5, <1>6, <1>7, <1>8, <1>9, <1>11 DEF TwoIns
<1>13. j \in Inums /\ dn[j].type = "FREE"
  <2>1. i \in FreeInums
    BY <1>3, FirstFree
  <2> HIDE DEF i
  <2> QED
    BY <1>7, <2>1 DEF FreeInums
<1>14. /\ Fine(s) /\ Lockable(s) /\ HasSlot(j) /\ ic' = iget(Load(s, p), j) /\ h \in Kinds
       /\ e = [type |-> h, nlink |-> 0, ents |-> NoEntries] /\ InodeSet(dn, dn', j, e)
       /\ s = res[p] /\ s # NULL /\ dn[Num(s)].type = "DIR" /\ dirlookup(s, n) = NULL
  BY <1>0, <1>1, <1>2, <1>3, <1>5, <1>6, <1>7, <1>9, <1>10 DEF InodeSet
<1>15. n \in Names
  <2>1. dn[Num(s)].ents["."] = Num(s) /\ Num(s) # NULL /\ dn[Num(s)].ents[".."] # NULL
    BY <1>14, DotThere
  <2>2. dn[Num(s)].ents[n] = NULL
    BY <1>14 DEF dirlookup, Num
  <2> QED
    BY <1>2, <1>6, <2>1, <2>2
<1> HIDE DEF dp, name, i, g, r
<1>16. Alloced(p, s, j, x, h)
  BY <1>8, <1>13, <1>14, AllocedFacts
<1>17. Second'
  BY <1>0, <1>4, <1>11, <1>12, <1>13, <1>14, <1>15, <1>16, CreateAllocDone
<1>18. Fewer
  <2>1. dn[j].nlink = 0
    BY <1>13 DEF Second, Life, FreeInodes
  <2>2. dn'[j].ents = NoEntries /\ \A m \in Inums : m # j => dn'[m] = dn[m]
    BY Zenon, <1>16, AllocedDisk
  <2> QED
    BY <1>13, <2>1, <2>2, OneFewer
<1> QED
  BY <1>17, <1>18

\* The inode of ip is filled with type g and entries e and entered under name in directory
\* dp, whose link count changes by n; dp is unlocked and ip stays locked.
Entered(p, ip, dp, name, n, g, e) ==
    /\ SameRefs(ic, ic')
    /\ \A z \in Slots : z # ip /\ z # dp => ic'[z] = ic[z]
    /\ ic'[ip].lk = p /\ ic'[ip].valid /\ ic'[ip].type = g /\ ic'[ip].nlink = 1
    /\ ic'[dp].lk = NoProc /\ ic'[dp].valid
    /\ ic'[dp].type = dn[Num(dp)].type /\ ic'[dp].nlink = dn[Num(dp)].nlink + n
    /\ \A j \in Inums : j # Num(ip) /\ j # Num(dp) => dn'[j] = dn[j]
    /\ dn'[Num(ip)].type = g /\ dn'[Num(ip)].nlink = 1 /\ dn'[Num(ip)].ents = e
    /\ dn'[Num(dp)].type = dn[Num(dp)].type
    /\ dn'[Num(dp)].nlink = dn[Num(dp)].nlink + n
    /\ \A m \in Entries :
          dn'[Num(dp)].ents[m] = IF m = name THEN Num(ip) ELSE dn[Num(dp)].ents[m]

\* create() does this.
LEMMA EnteredFacts ==
    ASSUME Base, Second, NEW p \in Procs, NEW ip, NEW dp, NEW name \in Names, NEW n \in Int,
           Live(ip), Fine(dp), ip # dp, ic[dp].valid, NEW g \in Types, Loaded(ip).type = g,
           NEW c0, c0 = [Load(ip, p) EXCEPT ![ip].nlink = 1, ![dp].lk = NoProc],
           ic' = AddLinks(c0, dp, n), NEW e \in [Entries -> Inums \cup {NULL}],
           NEW i, i = Num(ip), NEW d, d = Num(dp),
           NEW r, r = [type |-> g, nlink |-> 1, ents |-> e],
           dn' = [Iupdate(ic', dp) EXCEPT ![i] = r, ![d].ents[name] = i]
    PROVE  Entered(p, ip, dp, name, n, g, e)
<1>0. ip \in Slots /\ dp \in Slots /\ Live(dp) /\ FilesTypes /\ p \in Procs \cup {NoProc}
  BY DEF Fine, Live, Base
<1>1. /\ Loaded(dp).type = dn[d].type /\ Loaded(dp).nlink = dn[d].nlink
      /\ d \in Inums /\ i \in Inums /\ i # d
  <2>1. /\ Loaded(dp).type = dn[d].type /\ Loaded(dp).nlink = dn[d].nlink
        /\ d \in Inums /\ ic[dp].ref > 0
    BY FineFacts DEF Second
  <2>2. i \in Inums /\ ic[ip].ref > 0
    BY DEF Live, Num
  <2> QED
    BY <1>0, <2>1, <2>2 DEF Base, Unique, Num
<1>2. ic[dp].type = dn[d].type /\ ic[dp].nlink = dn[d].nlink
  BY <1>1 DEF Loaded
<1>3. PICK b : b = Load(ip, p)
  OBVIOUS
<1>4. /\ b \in [Slots -> Inode] /\ SameRefs(ic, b) /\ b[ip].lk = p /\ b[ip].valid
      /\ b[ip].type = g /\ \A z \in Slots : z # ip => b[z] = ic[z]
  <2>1. /\ b \in [Slots -> Inode] /\ SameRefs(ic, b) /\ b[ip].type = Loaded(ip).type
    BY <1>0, <1>3, LoadFacts
  <2>2. b[ip].lk = p /\ b[ip].valid /\ \A z \in Slots : z # ip => b[z] = ic[z]
    BY <1>0, <1>3, LoadLk
  <2> QED
    BY <2>1, <2>2
<1>5. PICK f : f = [b EXCEPT ![ip].nlink = 1]
  OBVIOUS
<1>6. /\ f \in [Slots -> Inode] /\ SameRefs(b, f) /\ f[ip].nlink = 1
      /\ f[ip].type = b[ip].type /\ f[ip].lk = b[ip].lk /\ f[ip].valid = b[ip].valid
      /\ \A z \in Slots : z # ip => f[z] = b[z]
  <2>1. PICK u : u = b[ip]
    OBVIOUS
  <2>2. PICK v : v = [u EXCEPT !.nlink = 1]
    OBVIOUS
  <2>3. u \in Inode
    BY <1>0, <1>4, <2>1
  <2>4. /\ v \in Inode /\ v.lk = u.lk /\ v.type = u.type /\ v.nlink = 1
        /\ v.valid = u.valid /\ v.ref = u.ref /\ v.inum = u.inum
    BY <2>2, <2>3 DEF Inode
  <2>5. SlotSet(b, f, ip, v)
    BY <1>5, <2>1, <2>2 DEF SlotSet
  <2>6. /\ f \in [Slots -> Inode] /\ f[ip] = v /\ (\A z \in Slots : z # ip => f[z] = b[z])
        /\ (v.ref = b[ip].ref /\ v.inum = b[ip].inum => SameRefs(b, f))
    BY <1>0, <1>4, <2>4, <2>5, SlotSetFacts
  <2> QED
    BY <2>1, <2>4, <2>6
<1>7. PICK c : c = [f EXCEPT ![dp].lk = NoProc]
  OBVIOUS
<1>8. /\ c \in [Slots -> Inode] /\ SameRefs(f, c) /\ c[dp].lk = NoProc
      /\ c[dp].type = f[dp].type /\ c[dp].nlink = f[dp].nlink /\ c[dp].valid = f[dp].valid
      /\ \A z \in Slots : z # dp => c[z] = f[z]
  <2>1. PICK u : u = f[dp]
    OBVIOUS
  <2>2. PICK v : v = [u EXCEPT !.lk = NoProc]
    OBVIOUS
  <2>3. u \in Inode
    BY <1>0, <1>6, <2>1
  <2>4. /\ v \in Inode /\ v.lk = NoProc /\ v.type = u.type /\ v.nlink = u.nlink
        /\ v.valid = u.valid /\ v.ref = u.ref /\ v.inum = u.inum
    BY <2>2, <2>3 DEF Inode
  <2>5. SlotSet(f, c, dp, v)
    BY <1>7, <2>1, <2>2 DEF SlotSet
  <2>6. /\ c \in [Slots -> Inode] /\ c[dp] = v /\ (\A z \in Slots : z # dp => c[z] = f[z])
        /\ (v.ref = f[dp].ref /\ v.inum = f[dp].inum => SameRefs(f, c))
    BY <1>0, <1>6, <2>4, <2>5, SlotSetFacts
  <2> QED
    BY <2>1, <2>4, <2>6
<1>9. PICK h : h = AddLinks(c, dp, n)
  OBVIOUS
<1>10. /\ h \in [Slots -> Inode] /\ SameRefs(c, h) /\ (\A z \in Slots : z # dp => h[z] = c[z])
       /\ h[dp].nlink = c[dp].nlink + n /\ h[dp].type = c[dp].type /\ h[dp].valid = c[dp].valid
       /\ h[dp].lk = c[dp].lk
  BY <1>0, <1>8, <1>9, AddLinksFacts
<1>11. ic' = h
  BY <1>3, <1>5, <1>7, <1>9
<1>12. SameRefs(ic, ic')
  BY <1>4, <1>6, <1>8, <1>10, <1>11 DEF SameRefs
<1>13. /\ (\A z \in Slots : z # ip /\ z # dp => ic'[z] = ic[z])
       /\ ic'[ip].lk = p /\ ic'[ip].valid /\ ic'[ip].type = g /\ ic'[ip].nlink = 1
  <2>1. h[ip] = f[ip]
    BY <1>0, <1>8, <1>10
  <2>2. \A z \in Slots : z # ip /\ z # dp => h[z] = ic[z]
    BY <1>4, <1>6, <1>8, <1>10
  <2> QED
    BY <1>4, <1>6, <1>11, <2>1, <2>2
<1>14. /\ ic'[dp].lk = NoProc /\ ic'[dp].valid
       /\ ic'[dp].type = dn[d].type /\ ic'[dp].nlink = dn[d].nlink + n
  <2>1. f[dp] = ic[dp]
    BY <1>0, <1>4, <1>6
  <2> QED
    BY <1>2, <1>8, <1>10, <1>11, <2>1
<1>15. /\ (\A j \in Inums : j # i /\ j # d => dn'[j] = dn[j])
       /\ dn'[i].type = g /\ dn'[i].nlink = 1 /\ dn'[i].ents = e
       /\ dn'[d].type = dn[d].type /\ dn'[d].nlink = dn[d].nlink + n
       /\ \A m \in Entries : dn'[d].ents[m] = IF m = name THEN i ELSE dn[d].ents[m]
  <2>1. h[dp].inum = d
    BY <1>0, <1>11, <1>12 DEF SameRefs, Num
  <2>2. PICK x : x = Iupdate(h, dp)
    OBVIOUS
  <2>3. /\ x \in [Inums -> Dinode] /\ (\A j \in Inums : j # h[dp].inum => x[j] = dn[j])
        /\ x[h[dp].inum].type = h[dp].type /\ x[h[dp].inum].nlink = h[dp].nlink
        /\ x[h[dp].inum].ents = dn[h[dp].inum].ents
    <3>1. h[dp].inum \in Inums
      BY <1>1, <2>1
    <3> QED
      BY <1>0, <1>10, <2>2, <3>1, IupdateFacts
  <2>4. r \in Dinode /\ r.type = g /\ r.nlink = 1 /\ r.ents = e
    BY DEF Dinode
  <2>5. PICK y : y = [x EXCEPT ![i] = r]
    OBVIOUS
  <2>6. y \in [Inums -> Dinode] /\ y[i] = r /\ \A j \in Inums : j # i => y[j] = x[j]
    BY <1>1, <2>3, <2>4, <2>5
  <2>7. PICK w : w = [y EXCEPT ![d].ents[name] = i]
    OBVIOUS
  <2>8. dn' = w
    BY <1>11, <2>2, <2>5, <2>7
  <2>9. EntSet(y, w, d, name, i) /\ d \in Inums /\ name \in Entries /\ i \in Inums \cup {NULL}
    BY <1>1, <2>7 DEF EntSet, Entries
  <2>10. /\ (\A j \in Inums : j # d => w[j] = y[j]) /\ w[d].type = y[d].type /\ w[d].nlink = y[d].nlink
         /\ \A m \in Entries : w[d].ents[m] = IF m = name THEN i ELSE y[d].ents[m]
    BY <2>6, <2>9, EntSetFacts
  <2>11. h[dp].type = dn[d].type /\ h[dp].nlink = dn[d].nlink + n
    BY <1>11, <1>14
  <2>12. /\ (\A j \in Inums : j # d => x[j] = dn[j]) /\ x[d].type = dn[d].type
         /\ x[d].nlink = dn[d].nlink + n /\ x[d].ents = dn[d].ents
    BY <2>1, <2>3, <2>11
  <2>13. y[d] = x[d] /\ w[i] = r /\ \A j \in Inums : j # i /\ j # d => w[j] = dn[j]
    BY <1>1, <2>6, <2>10, <2>12
  <2>14. /\ w[d].type = dn[d].type /\ w[d].nlink = dn[d].nlink + n
         /\ \A m \in Entries : w[d].ents[m] = IF m = name THEN i ELSE dn[d].ents[m]
    BY <2>10, <2>12, <2>13
  <2>15. w[i].type = g /\ w[i].nlink = 1 /\ w[i].ents = e
    BY <2>4, <2>13
  <2>16. PICK v : v = dn'
    OBVIOUS
  <2>17. v = w
    BY <2>8, <2>16
  <2>18. /\ (\A j \in Inums : j # i /\ j # d => v[j] = dn[j])
         /\ v[i].type = g /\ v[i].nlink = 1 /\ v[i].ents = e
         /\ v[d].type = dn[d].type /\ v[d].nlink = dn[d].nlink + n
    BY <2>13, <2>14, <2>15, <2>17
  <2>19. \A m \in Entries : v[d].ents[m] = IF m = name THEN i ELSE dn[d].ents[m]
    BY <2>14, <2>17
  <2> QED
    BY <2>16, <2>18, <2>19
<1> QED
  BY <1>12, <1>13, <1>14, <1>15 DEF Entered

\* What create() knows when it fills the inode.
LEMMA NewDoing ==
    ASSUME Base, Second, NEW p \in Procs, NEW op \in {"new"}, On(p, op), NEW ip, ip = k[p][1].s,
           NEW dp, dp = k[p][1].t, Lockable(ip)
    PROVE  /\ k[p] # <<>> /\ Arg(p) = k[p][1] /\ Top(k[p]) = k[p][1] /\ Top(k[p]).op = op
           /\ Len(k[p]) > 1 /\ k[p][2].op \in Ends /\ ip \in Slots /\ dp \in Slots /\ Live(ip) /\ Fine(dp)
           /\ ip # dp /\ res[p] = NULL /\ Keeps(Top(k[p])) = dp /\ KeepsRes(k[p], res[p]) = NULL
           /\ ic[dp].lk = p /\ ic[dp].valid /\ dn[Num(dp)].type = "DIR" /\ k[p][1].path[1] \in Names
           /\ Loaded(ip).type = k[p][1].arg /\ k[p][1].arg \in Kinds /\ ~ NoType(ip)
           /\ dn[Num(ip)].nlink = 0 /\ dn[Num(ip)].type = k[p][1].arg /\ dn[Num(ip)].ents = NoEntries
           /\ ic[ip].ref = 1 \/ (ic[ip].ref = 2 /\ Leaving(ip))
           /\ Odd(ip) /\ ~ Freed(ip) /\ Num(ip) \in Inums
<1>0. /\ op \in SOps /\ op \in TOps /\ op \notin Bottom /\ op \notin PutOps /\ op = "new"
      /\ op \notin PutOps \cup ToDir \cup ToFile \cup Ends /\ op \notin PutOps \cup Ends
  BY DEF SOps, TOps, Bottom, PutOps, ToDir, ToFile, Ends
<1>1. /\ k[p] # <<>> /\ k[p][1].op = op /\ Arg(p) = k[p][1] /\ Live(ip) /\ Live(dp)
      /\ res[p] = NULL /\ Len(k[p]) > 1 /\ Well(k[p][1]) /\ Above(k[p][1], k[p][2])
  BY <1>0, OnFacts
<1>2. Top(k[p]) = k[p][1] /\ Top(k[p]).op = op /\ KeepsRes(k[p], res[p]) = NULL
  BY <1>0, Doing
<1>3. k[p][2].op \in Ends /\ k[p][1].arg \in Kinds
  BY <1>0, <1>1 DEF Above, Well
<1>4. ip \in Slots /\ dp \in Slots /\ Num(ip) \in Inums
  BY <1>1 DEF Live, Num
<1>5. Fine(dp)
  BY <1>0, <1>1, FineHeld DEF Second
<1>6. Filling(ip) /\ Odd(ip) /\ ip # dp
  <2>1. Filling(ip)
    BY <1>0, <1>2 DEF Filling
  <2> QED
    BY <1>5, <2>1 DEF Odd, Fine
<1>7. Keeps(Top(k[p])) = dp
  BY <1>0, <1>2 DEF Keeps, Keepers
<1>8. ic[dp].lk = p
  BY <1>4, <1>7, NullSlot, LockFacts DEF Second
<1>9. PICK a : a = k[p][1]
  OBVIOUS
<1>10. a.op = "new" /\ a.s = ip /\ a.t = dp /\ Top(k[p]) = a
  BY <1>0, <1>1, <1>2, <1>9
<1>11. ic[dp].valid /\ dn[Num(dp)].type = "DIR" /\ a.path[1] \in Names
  <2>1. TopRelies(p)
    BY DEF Second, Relying
  <2> QED
    BY <1>10, <2>1 DEF TopRelies, TOps
<1>12. /\ dn[Num(ip)].nlink = 0 /\ dn[Num(ip)].type = a.arg /\ dn[Num(ip)].ents = NoEntries
       /\ ic[ip].ref = 1 \/ (ic[ip].ref = 2 /\ Leaving(ip))
  <2>1. FreeingOf(p)
    BY DEF Second, Life, Freeing
  <2> QED
    BY <1>10, <2>1 DEF FreeingOf
<1>13. ~ Freed(ip)
  <2>1. SUFFICES ASSUME NEW q \in Procs, Top(k[q]).op = "freed", Top(k[q]).s = ip
                 PROVE  FALSE
    BY DEF Freed
  <2>2. Keeps(Top(k[q])) = ip
    BY <2>1 DEF Keeps, Keepers
  <2>3. ic[ip].lk = q
    BY <1>4, <2>2, NullSlot, LockFacts DEF Second
  <2> QED
    BY <2>1, <2>3, FilesAssumption DEF Lockable
<1>14. Loaded(ip).type = dn[Num(ip)].type
  <2>1. ic[ip].valid => ic[ip].type = dn[Num(ip)].type
    <3>1. ic[ip].ref > 0
      BY <1>1 DEF Live
    <3> QED
      BY <1>4, <1>13, <3>1 DEF Second, Life, Cached
  <2>2. Loaded(ip).type = IF ic[ip].valid THEN ic[ip].type ELSE dn[ic[ip].inum].type
    <3>1. NoProc \in Procs \cup {NoProc} /\ FilesTypes
      BY DEF Base
    <3> QED
      BY <1>1, <3>1, LoadFacts
  <2> QED
    BY <2>1, <2>2 DEF Num
<1>15. ~ NoType(ip)
  <2>1. dn[Num(ip)].type # "FREE"
    BY <1>3, <1>9, <1>12 DEF Kinds
  <2>2. ic[ip].ref \in Nat /\ ic[ip].ref > 0
    BY <1>1 DEF Live
  <2>3. ~ (ic[ip].ref < 1)
    BY <2>2
  <2> QED
    BY <1>14, <2>1, <2>3 DEF NoType
<1> QED
  BY <1>1, <1>2, <1>3, <1>4, <1>5, <1>6, <1>7, <1>8, <1>9, <1>11, <1>12, <1>13, <1>14, <1>15

\* The parent of a new directory gains a link with it.
Gains(g, n) == n \in Int /\ n = (IF g = "DIR" THEN 1 ELSE 0)

\* The entries of a new inode.
NewEnts(e, g, i) ==
    /\ \A m \in Names : e[m] = NULL
    /\ g = "DIR" => e["."] = i /\ e[".."] # NULL
    /\ g # "DIR" => e = NoEntries

\* The links after an inode has been filled and entered.
LEMMA EnteredLinks ==
    ASSUME Base, Second, NEW p \in Procs, Stay(p), View(k'[p], 0) = View(k[p], 0),
           NEW ip \in Slots, NEW dp \in Slots, NEW i \in Inums, i = Num(ip),
           NEW d \in Inums, d = Num(dp), i # d,
           dn[i].nlink = 0, NEW g \in Kinds, dn[i].type = g, dn[i].ents = NoEntries,
           NEW name \in Names, NEW n, Gains(g, n), NEW e, NewEnts(e, g, i),
           Entered(p, ip, dp, name, n, g, e)
    PROVE  Links'
<1>1. TypesKept
  BY DEF TypesKept, Entered
<1>2. InumsKept
  BY DEF InumsKept, Entered, SameRefs
<1>3. /\ dn'[i].nlink = 1 /\ dn'[d].nlink = dn[d].nlink + n /\ n \in Int
      /\ \A j \in Inums : j # i /\ j # d => dn'[j].nlink = dn[j].nlink
  BY DEF Entered, Gains
<1>4. NlinkTypes
  <2>1. \A j \in Inums : dn[j].nlink \in Int
    BY BaseTypes DEF Dinode
  <2>2. dn[d].nlink + n \in Int
    BY <1>3, <2>1
  <2>3. \A j \in Inums : dn'[j].nlink \in Int
    BY <1>3, <2>1, <2>2
  <2> QED
    BY <2>1, <2>3 DEF NlinkTypes
<1>5. PICK old : old = dn[d].ents[name]
  OBVIOUS
<1>6. PICK b1 : b1 = Sub(dn, d, old)
  OBVIOUS
<1>7. PICK b2 : b2 = Sub(dn', d, i)
  OBVIOUS
<1>8. /\ g = "DIR" => b2 = d
      /\ g # "DIR" => b2 = NULL
  <2>1. i # NULL /\ dn'[i].type = g
    BY FilesAssumption DEF Entered
  <2> QED
    BY <1>7, <2>1 DEF Sub
<1>9. PICK c : c = Pending(k[p], ic)
  OBVIOUS
<1>10. c = Pending(k'[p], ic')
  BY <1>2, <1>9, PendingKept DEF Second
<1>11. i = dn'[d].ents[name]
  BY DEF Entered, Entries
<1>12. \A j \in Inums, m \in Names : j # d \/ m # name => dn'[j].ents[m] = dn[j].ents[m]
  <2>1. \A m \in Names : m \in Entries
    BY DEF Entries
  <2>2. \A m \in Names : dn'[i].ents[m] = dn[i].ents[m]
    BY <2>1 DEF Entered, NewEnts, NoEntries
  <2>3. \A m \in Names : m # name => dn'[d].ents[m] = dn[d].ents[m]
    BY <2>1 DEF Entered
  <2>4. \A j \in Inums : j # i /\ j # d => dn'[j] = dn[j]
    BY DEF Entered
  <2> QED
    BY <2>2, <2>3, <2>4
<1>13. ASSUME NEW j \in Inums
       PROVE  (Is(i, j) - Is(old, j)) + (Is(b2, j) - Is(b1, j)) + (Is(c, j) - Is(c, j))
                  <= dn'[j].nlink - dn[j].nlink
  <2>1. /\ Is(old, j) \in 0..1 /\ Is(b1, j) \in 0..1 /\ Is(c, j) \in 0..1
        /\ Is(i, j) \in 0..1 /\ Is(b2, j) \in 0..1
    BY DEF Is
  <2>2. dn[j].nlink \in Int
    BY <1>4 DEF NlinkTypes
  <2>3. CASE j = i
    <3>1. Is(i, j) = 1 /\ Is(b2, j) = 0
      BY <1>8, <2>3, FilesAssumption DEF Is
    <3>2. dn'[j].nlink - dn[j].nlink = 1
      BY <1>3, <2>3
    <3> QED
      BY <2>1, <3>1, <3>2
  <2>4. CASE j = d
    <3>1. Is(i, j) = 0
      BY <2>4 DEF Is
    <3>2. Is(b2, j) = n
      BY <1>8, <2>4, FilesAssumption DEF Is, Gains
    <3>3. dn'[j].nlink - dn[j].nlink = n
      BY <1>3, <2>2, <2>4
    <3> QED
      BY <1>3, <2>1, <3>1, <3>2, <3>3
  <2>5. CASE j # i /\ j # d
    <3>1. Is(i, j) = 0 /\ Is(b2, j) = 0
      BY <1>8, <2>5, FilesAssumption DEF Is
    <3>2. dn'[j].nlink - dn[j].nlink = 0
      BY <1>3, <2>2, <2>5
    <3> QED
      BY <2>1, <3>1, <3>2
  <2> QED
    BY <2>3, <2>4, <2>5
<1>14. EntryMove(p, d, name, old, i, b1, b2, c, c)
  BY <1>5, <1>6, <1>7, <1>9, <1>10, <1>11, <1>12, <1>13 DEF EntryMove
<1> QED
  BY <1>1, <1>2, <1>4, <1>14, LinksMoved

\* create() fills the inode and enters it in the directory.
LEMMA CreateNewDone ==
    ASSUME Base, Second, NEW p \in Procs, NEW op \in {"new"}, NEW ip, NEW dp, NEW name, NEW g,
           OnBoth(p, op, ip, dp, name, g), Lockable(ip), NEW n, Gains(g, n),
           NEW e, NewEnts(e, g, Num(ip)), Entered(p, ip, dp, name, n, g, e),
           Others(res, res', p), res'[p] = ip, ~halted', Then(p, <<Put(dp)>>)
    PROVE  Second'
<1>1. /\ k[p] # <<>> /\ Top(k[p]) = k[p][1] /\ Top(k[p]).op = op /\ op = "new"
      /\ Len(k[p]) > 1 /\ k[p][2].op \in Ends /\ ip \in Slots /\ dp \in Slots /\ Live(ip) /\ Fine(dp)
      /\ ip # dp /\ res[p] = NULL /\ Keeps(Top(k[p])) = dp /\ KeepsRes(k[p], res[p]) = NULL
      /\ ic[dp].lk = p /\ dn[Num(dp)].type = "DIR" /\ name \in Names
      /\ g \in Kinds /\ Top(k[p]).s = ip
      /\ dn[Num(ip)].nlink = 0 /\ dn[Num(ip)].type = g /\ dn[Num(ip)].ents = NoEntries
      /\ ic[ip].ref = 1 \/ (ic[ip].ref = 2 /\ Leaving(ip))
      /\ Odd(ip) /\ ~ Freed(ip) /\ Num(ip) \in Inums
  <2>1. On(p, op) /\ ip = k[p][1].s /\ dp = k[p][1].t
    BY DEF OnBoth
  <2>2. /\ k[p] # <<>> /\ Top(k[p]) = k[p][1] /\ Top(k[p]).op = op
        /\ Len(k[p]) > 1 /\ k[p][2].op \in Ends /\ ip \in Slots /\ dp \in Slots /\ Live(ip) /\ Fine(dp)
        /\ ip # dp /\ res[p] = NULL /\ Keeps(Top(k[p])) = dp /\ KeepsRes(k[p], res[p]) = NULL
        /\ ic[dp].lk = p /\ dn[Num(dp)].type = "DIR" /\ k[p][1].path[1] \in Names
        /\ k[p][1].arg \in Kinds
        /\ dn[Num(ip)].nlink = 0 /\ dn[Num(ip)].type = k[p][1].arg /\ dn[Num(ip)].ents = NoEntries
        /\ ic[ip].ref = 1 \/ (ic[ip].ref = 2 /\ Leaving(ip))
        /\ Odd(ip) /\ ~ Freed(ip) /\ Num(ip) \in Inums
    BY <2>1, NewDoing
  <2>3. ip = k[p][1].s /\ name = k[p][1].path[1] /\ g = k[p][1].arg /\ op = "new"
    BY DEF OnBoth
  <2> QED
    BY Zenon, <2>2, <2>3
<1>2. PICK i \in Inums : i = Num(ip)
  BY <1>1
<1>3. PICK d \in Inums : d = Num(dp)
  BY <1>1, FineFacts DEF Second
<1>4. ic[dp].ref > 0 /\ ic[ip].ref > 0
  BY <1>1 DEF Fine, Live
<1>5. /\ \A z \in Slots : ic[z].ref > 0 /\ z # ip => Num(z) # i
      /\ \A z \in Slots : ic[z].ref > 0 /\ z # dp => Num(z) # d
      /\ \A z \in Slots : ic[z].ref > 0 => Num(z) \in Inums
      /\ i # d
  BY <1>1, <1>2, <1>3, <1>4 DEF Base, Unique, Num
<1>6. /\ \A z \in Slots : ic'[z].ref = ic[z].ref /\ ic'[z].inum = Num(z)
      /\ \A z \in Slots : z # ip /\ z # dp => ic'[z] = ic[z]
      /\ ic'[ip].valid /\ ic'[dp].valid
  BY DEF Entered, SameRefs, Num
<1>7. /\ \A j \in Inums : j # i /\ j # d => dn'[j] = dn[j]
      /\ dn'[i].type = g /\ dn'[i].nlink = 1 /\ dn'[i].ents = e
      /\ dn'[d].type = "DIR" /\ dn'[d].nlink = dn[d].nlink + n
      /\ \A m \in Entries : m # name => dn'[d].ents[m] = dn[d].ents[m]
  <2>1. \A j \in Inums : j # i /\ j # d => dn'[j] = dn[j]
    BY <1>2, <1>3 DEF Entered
  <2>2. dn'[i].type = g /\ dn'[i].nlink = 1 /\ dn'[i].ents = e
    BY <1>2 DEF Entered
  <2>3. dn'[d].type = "DIR"
    BY <1>1, <1>3 DEF Entered
  <2>4. dn'[d].nlink = dn[d].nlink + n
    BY <1>3 DEF Entered
  <2>5. \A m \in Entries : m # name => dn'[d].ents[m] = dn[d].ents[m]
    BY <1>3 DEF Entered
  <2> QED
    BY <2>1, <2>2, <2>3, <2>4, <2>5
<1>8. PICK a : a = Put(dp)
  OBVIOUS
<1>9. Then(p, <<a>>) /\ a \in Instr /\ Well(a) /\ a.op = "put" /\ \A b : b.op \in Deep => Above(a, b)
  <2>1. a \in Instr /\ Well(a) /\ a.op = "put" /\ \A b : b.op \in Deep => Above(a, b)
    BY <1>1, <1>8, PutWell
  <2> QED
    BY <1>8, <2>1
<1>10. Fit1(a, k[p])
  <2>1. k[p][2].op \in Deep
    BY <1>1 DEF Deep
  <2> QED
    BY <1>1, <1>9, <2>1 DEF Fit1
<1>11. Top(k'[p]) = a /\ Stay(p) /\ View(k'[p], 0) = View(k[p], 0)
  BY <1>1, <1>9, <1>10, Turn1 DEF Turned
<1>12. Keeps(a) = NULL /\ RelyNew(a) /\ TopNew(p) /\ KeepsRes(k'[p], res'[p]) = ip
  <2>1. Light(a)
    BY <1>9 DEF Light, Keepers, TOps, Counting, ToDir
  <2>2. KeepsRes(k'[p], res'[p]) = ip
    BY <1>9, <1>11 DEF KeepsRes, PutOps
  <2> QED
    BY <1>11, <2>1, <2>2, LightFacts
<1>13. LockMove(p, Keeps(Top(k[p])), KeepsRes(k[p], res[p]), Keeps(a), KeepsRes(k'[p], res'[p]))
  <2>1. ic[ip].lk = NoProc /\ ic'[ip].lk = p /\ ic'[dp].lk = NoProc
    BY DEF Lockable, Entered
  <2>2. \A z \in Slots : z # NULL
    BY NullSlot
  <2>3. LockMove(p, dp, NULL, NULL, ip)
    BY <1>1, <1>6, <2>1, <2>2 DEF LockMove
  <2> QED
    BY <1>1, <1>12, <2>3
<1>14. /\ \A q \in Procs : q # p => Top(k'[q]) = Top(k[q])
       /\ \A z : Freed(z) => Freed(z)'
       /\ \A z : Filling(z) => Filling(z)' \/ z = ip
       /\ \A z : Leaving(z) => Leaving(z)'
  <2>1. PICK b : b = Top(k[p])
    OBVIOUS
  <2>2. b.op = "new" /\ b.s = ip
    BY <1>1, <2>1
  <2>3. b.op # "freed" /\ b.op \notin {"freed", "dec"}
    BY <2>2
  <2> QED
    BY <1>11, <2>1, <2>2, <2>3, LifeTops
<1>15. FineKept(p)
  <2>1. SUFFICES ASSUME NEW z \in Slots, Fine(z)
                 PROVE  /\ ic'[z].inum = Num(z) /\ (ic[z].valid => ic'[z].valid)
                        /\ dn'[Num(z)].type = dn[Num(z)].type
                        /\ ic[z].lk \notin {p, NoProc} => dn'[Num(z)].ents = dn[Num(z)].ents
    BY DEF FineKept
  <2>2. z # ip /\ ic[z].ref > 0
    BY <1>1, <2>1 DEF Fine, Live
  <2>3. CASE z = dp
    BY <1>1, <1>3, <1>6, <1>7, <2>3
  <2>4. CASE z # dp
    <3>1. ic'[z] = ic[z] /\ dn'[Num(z)] = dn[Num(z)]
      BY <1>5, <1>6, <1>7, <2>2, <2>4
    <3> QED
      BY <1>6, <3>1
  <2> QED
    BY <2>3, <2>4
<1>16. Cached'
  <2>1. SUFFICES ASSUME NEW z \in Slots, ic'[z].ref > 0, ic'[z].valid
                 PROVE  /\ ic'[z].nlink = dn'[Num(z)].nlink
                        /\ Freed(z)' \/ (ic'[z].type = dn'[Num(z)].type /\ ic'[z].type # "FREE")
    BY <1>6 DEF Cached, Num
  <2>2. CASE z = ip
    <3>1. ic'[ip].type = g /\ ic'[ip].nlink = 1 /\ g # "FREE"
      BY <1>1 DEF Entered, Kinds
    <3> QED
      BY <1>2, <1>7, <2>2, <3>1
  <2>3. CASE z = dp
    <3>1. ic'[dp].type = dn[d].type /\ ic'[dp].nlink = dn[d].nlink + n /\ dn[d].type = "DIR"
      BY <1>1, <1>3 DEF Entered
    <3> QED
      BY <1>3, <1>7, <2>3, <3>1
  <2>4. CASE z # ip /\ z # dp
    <3>1. ic'[z] = ic[z] /\ ic[z].ref > 0
      BY <1>6, <2>1, <2>4
    <3>2. dn'[Num(z)] = dn[Num(z)]
      BY <1>5, <1>7, <2>4, <3>1
    <3> QED
      BY <1>14, <2>1, <3>1, <3>2 DEF Second, Life, Cached
  <2> QED
    BY <2>2, <2>3, <2>4
<1>17. FreeInodes'
  <2>0. FreeInodes /\ g # "FREE"
    BY <1>1 DEF Second, Life, Kinds
  <2>2. \A j \in Inums : dn'[j].type = "FREE" => j # i /\ j # d /\ dn'[j] = dn[j]
    BY <1>7, <2>0
  <2>3. ASSUME NEW z \in Slots, ic'[z].ref > 0, dn'[Num(z)].type = "FREE"
        PROVE  ic'[z].ref = 1 /\ Leaving(z)'
    <3>1. ic'[z].ref = ic[z].ref /\ ic[z].ref > 0
      BY <1>6, <2>3
    <3>2. dn'[Num(z)] = dn[Num(z)]
      BY <1>5, <2>2, <2>3, <3>1
    <3> QED
      BY <1>14, <2>0, <2>3, <3>1, <3>2 DEF FreeInodes
  <2> QED
    BY <1>6, <2>0, <2>2, <2>3 DEF FreeInodes, Num
<1>18. Freeing'
  <2>1. ASSUME NEW q \in Procs, q # p
        PROVE  FreeingOf(q)'
    <3>1. ASSUME Top(k[q]).op \in {"free", "freed", "new"}
          PROVE  FreeingOf(q)'
      <4>0. Top(k[q]).op \in SOps
        BY <3>1 DEF SOps, PutOps
      <4>1. PICK y \in Slots : y = Top(k[q]).s
        BY <4>0, TopHolds DEF Live
      <4>2. ic[y].ref > 0
        <5>1. Live(y)
          BY <4>0, <4>1, TopHolds
        <5> QED
          BY <5>1 DEF Live
      <4>3. y # dp
        <5>1. Odd(y)
          BY <3>1, <4>1 DEF Odd, Freer, Freed, Filling
        <5> QED
          BY <1>1, <5>1 DEF Fine
      <4>4. y # ip
        <5>1. SUFFICES ASSUME y = ip PROVE FALSE
          OBVIOUS
        <5>2. Top(k[q]).op = "new"
          <6>1. Top(k[q]).op # "new" => Keeps(Top(k[q])) = y
            BY <3>1, <4>1 DEF Keeps, Keepers
          <6>2. Keeps(Top(k[q])) = y => ic[y].lk = q
            BY NullSlot, LockFacts DEF Second
          <6> QED
            BY <5>1, <6>1, <6>2, FilesAssumption DEF Lockable
        <5>3. "new" \in SOps
          BY DEF SOps
        <5>4. /\ ic[ip].ref # 1
              /\ \A r \in Procs : r # p /\ r # q /\ Top(k[r]).op \in SOps /\ Top(k[r]).s = ip =>
                     ic[ip].ref # 2
          <6>1. /\ p # q /\ Top(k[p]).op \in SOps /\ Top(k[p]).s = ip
                /\ Top(k[q]).op \in SOps /\ Top(k[q]).s = ip
            BY <1>1, <2>1, <4>0, <4>1, <5>1, <5>3
          <6> QED
            BY <6>1, TwoTops
        <5>5. Leaving(ip) /\ ic[ip].ref = 2
          BY <1>1, <5>4
        <5>6. PICK r \in Procs : Top(k[r]).op \in {"freed", "dec"} /\ Top(k[r]).s = ip
          BY <5>5 DEF Leaving
        <5>7. r # p /\ r # q /\ Top(k[r]).op \in SOps
          BY <1>1, <5>2, <5>6 DEF SOps, PutOps
        <5> QED
          BY <5>4, <5>5, <5>6, <5>7
      <4>5. dn'[Num(y)] = dn[Num(y)] /\ ic'[y] = ic[y]
        BY <1>5, <1>6, <1>7, <4>2, <4>3, <4>4
      <4>6. LeftAlone(q, y)
        BY <1>6, <1>14, <4>1, <4>4, <4>5 DEF LeftAlone
      <4> QED
        BY <1>14, <2>1, <4>6, FreeingKept
    <3>2. Top(k'[q]).op = Top(k[q]).op
      BY <1>14, <2>1
    <3> QED
      BY <3>1, <3>2 DEF FreeingOf, Top
  <2>2. FreeingOf(p)'
    <3>3. Top(k[p])' = a
      BY <1>11 DEF Top
    <3> QED
      BY <1>9, <3>3 DEF FreeingOf
  <2> QED
    BY <2>1, <2>2 DEF Freeing
<1>19. Dirs'
  <2>0. Dirs
    BY DEF Second
  <2>1. dn[ROOTINO].type = "DIR" /\ ROOTINO \in Inums
    BY <2>0, FilesAssumption DEF Dirs
  <2>2. dn'[ROOTINO].type = "DIR"
    BY <1>1, <1>2, <1>7, <2>1
  <2>3. ASSUME NEW j \in Inums
        PROVE  /\ dn'[j].type # "DIR" => dn'[j].ents = NoEntries
               /\ \/ dn'[j].type # "DIR"
                  \/ dn'[j].ents["."] = j /\ dn'[j].ents[".."] # NULL
                  \/ \E z \in Slots : ic'[z].ref > 0 /\ ic'[z].inum = j /\ Filling(z)'
    <3>1. CASE j = i
      BY <1>2, <1>7, <3>1 DEF NewEnts
    <3>2. CASE j = d
      <4>1. "." \in Entries /\ "." # name /\ ".." \in Entries /\ ".." # name
        BY <1>1, FilesAssumption DEF Entries
      <4>2. dn[d].ents["."] = d /\ dn[d].ents[".."] # NULL
        BY <1>1, <1>3, DotThere
      <4> QED
        BY <1>7, <3>2, <4>1, <4>2
    <3>3. CASE j # i /\ j # d
      <4>1. dn'[j] = dn[j]
        BY <1>7, <3>3
      <4>2. ASSUME NEW z \in Slots, ic[z].ref > 0, Num(z) = j, Filling(z)
            PROVE  ic'[z].ref > 0 /\ ic'[z].inum = j /\ Filling(z)'
        BY <1>2, <1>6, <1>14, <3>3, <4>2
      <4> QED
        BY <2>0, <4>1, <4>2 DEF Dirs
    <3> QED
      BY <3>1, <3>2, <3>3
  <2> QED
    BY <2>2, <2>3 DEF Dirs, Num
<1>20. Links'
  <2>1. dn[i].nlink = 0 /\ dn[i].type = g /\ dn[i].ents = NoEntries /\ NewEnts(e, g, i)
    BY <1>1, <1>2
  <2> QED
    BY <1>1, <1>2, <1>3, <1>5, <1>11, <2>1, EnteredLinks
<1> QED
  BY <1>1, <1>9, <1>10, <1>12, <1>13, <1>15, <1>16, <1>17, <1>18, <1>19, <1>20, LifeStep1

\* A new directory is named by one directory and names none.
LEMMA EnteredForest ==
    ASSUME Base, Second, Forest, NEW p \in Procs, NEW ip, NEW dp, NEW name \in Names, NEW n, NEW g,
           NEW i \in Inums, i = Num(ip), NEW d \in Inums, d = Num(dp), i # d,
           dn[i].nlink = 0, NEW e, NewEnts(e, g, i), Entered(p, ip, dp, name, n, g, e)
    PROVE  Forest'
<1>1. PICK r \in [Inums -> Nat] : RankedBy(r, dn)
  BY DEF Forest
<1>2. PICK s : s = [j \in Inums |-> IF j = i THEN 0 ELSE r[j] + 1]
  OBVIOUS
<1>3. s \in [Inums -> Nat] /\ s[i] = 0 /\ \A j \in Inums : j # i => s[j] = r[j] + 1
  BY <1>2
<1>4. /\ \A j \in Inums : j # i /\ j # d => dn'[j] = dn[j]
      /\ dn'[i].ents = e /\ dn'[d].type = dn[d].type
      /\ \A m \in Names : dn'[d].ents[m] = IF m = name THEN i ELSE dn[d].ents[m]
      /\ \A m \in Names : e[m] = NULL
  <2>1. \A j \in Inums : j # i /\ j # d => dn'[j] = dn[j]
    BY DEF Entered
  <2>2. dn'[i].ents = e
    BY DEF Entered
  <2>3. dn'[d].type = dn[d].type
    BY DEF Entered
  <2>4. \A m \in Entries : dn'[d].ents[m] = IF m = name THEN i ELSE dn[d].ents[m]
    BY DEF Entered
  <2> QED
    BY <2>1, <2>2, <2>3, <2>4 DEF NewEnts, Entries
<1>5. /\ \A j \in Inums, m \in Names :
            dn[j].ents[m] # NULL => dn[j].ents[m] \in Inums /\ dn[j].ents[m] # i
  BY NamedOnce DEF Second
<1>6. ASSUME NEW j \in Inums, NEW m \in Names,
             dn'[j].ents[m] # NULL, dn'[dn'[j].ents[m]].type = "DIR"
      PROVE  s[dn'[j].ents[m]] < s[j]
  <2>1. j # i
    BY <1>4, <1>6
  <2>2. CASE j = d /\ m = name
    BY <1>1, <1>3, <1>4, <2>1, <2>2
  <2>3. CASE ~ (j = d /\ m = name)
    <3>1. PICK c : c = dn[j].ents[m]
      OBVIOUS
    <3>2. dn'[j].ents[m] = c
      BY <1>4, <2>1, <2>3, <3>1
    <3>3. c # NULL /\ c \in Inums /\ c # i
      BY <1>5, <1>6, <3>1, <3>2
    <3>4. dn[c].type = "DIR"
      BY <1>4, <1>6, <3>2, <3>3
    <3>5. r[c] < r[j]
      BY <1>1, <3>1, <3>3, <3>4 DEF RankedBy
    <3> QED
      BY <1>1, <1>3, <2>1, <3>2, <3>3, <3>5
  <2> QED
    BY <2>2, <2>3
<1>7. RankedBy(s, dn')
  BY <1>6 DEF RankedBy
<1> QED
  BY <1>3, <1>7 DEF Forest

\* The entries of an empty inode and of an empty directory.
LEMMA NewEntsFacts ==
    ASSUME NEW i \in Inums, NEW d \in Inums, NEW g, NEW e,
           e = IF g = "DIR" THEN Dots(i, d) ELSE NoEntries
    PROVE  NewEnts(e, g, i) /\ e \in [Entries -> Inums \cup {NULL}]
<1>1. /\ NoEntries \in [Entries -> Inums \cup {NULL}] /\ \A m \in Entries : NoEntries[m] = NULL
  BY DEF NoEntries
<1>2. /\ "." \in Entries /\ ".." \in Entries /\ "." # ".."
      /\ \A m \in Names : m \in Entries /\ m # "." /\ m # ".."
  BY FilesAssumption DEF Entries
<1>3. /\ Dots(i, d) \in [Entries -> Inums \cup {NULL}] /\ Dots(i, d)["."] = i
      /\ Dots(i, d)[".."] = d /\ \A m \in Names : Dots(i, d)[m] = NULL
  BY <1>1, <1>2 DEF Dots
<1> QED
  BY <1>1, <1>2, <1>3, FilesAssumption DEF NewEnts

\* create() with both inodes locked.
LEMMA CreateNewSecond ==
    ASSUME Base, Second, NEW p \in Procs, CreateNew(p)
    PROVE  Second' /\ (Forest => Forest')
<1> DEFINE op == "new"
<1>0. On(p, op) /\ op \in {"new"}
  BY Zenon DEF CreateNew
<1> HIDE DEF op
<1>1. PICK ip : ip = k[p][1].s
  OBVIOUS
<1>2. PICK dp : dp = k[p][1].t
  OBVIOUS
<1>3. PICK g : g = k[p][1].arg
  OBVIOUS
<1>4. PICK name : name = k[p][1].path[1]
  OBVIOUS
<1>5. Arg(p) = k[p][1]
  BY Zenon, <1>0, OnFacts
<1>6. Lockable(ip)
  BY Zenon, <1>1, <1>5 DEF CreateNew
<1>7. /\ Live(ip) /\ Fine(dp) /\ ip # dp /\ ip \in Slots /\ ic[dp].valid /\ name \in Names
      /\ Loaded(ip).type = g /\ g \in Kinds /\ ~ NoType(ip) /\ Num(ip) \in Inums
  BY <1>0, <1>1, <1>2, <1>3, <1>4, <1>6, NewDoing
<1>8. PICK i : i = Num(ip)
  OBVIOUS
<1>9. PICK d : d = Num(dp)
  OBVIOUS
<1>10. i \in Inums /\ d \in Inums
  BY <1>7, <1>8, <1>9, FineFacts DEF Second
<1> DEFINE n0 == IF g = "DIR" THEN 1 ELSE 0
           e0 == IF g = "DIR" THEN Dots(i, d) ELSE NoEntries
           c1 == [Load(ip, p) EXCEPT ![ip].nlink = 1, ![dp].lk = NoProc]
<1>11. PICK n : n = n0
  BY Zenon
<1>12. PICK e : e = e0
  BY Zenon
<1>13. PICK c0 : c0 = c1
  BY Zenon
<1>14. /\ ic' = AddLinks(c0, dp, n)
       /\ dn' = [Iupdate(ic', dp) EXCEPT ![i] = [type |-> c0[ip].type, nlink |-> 1, ents |-> e],
                                         ![d].ents[name] = i]
       /\ Then(p, <<Put(dp)>>) /\ Return(p, ip) /\ halted' = NoType(ip)
  BY Zenon, <1>1, <1>2, <1>3, <1>4, <1>5, <1>8, <1>9, <1>11, <1>12, <1>13 DEF CreateNew, Num
<1>15. n \in Int /\ Gains(g, n)
  BY <1>11 DEF Gains
<1>16. NewEnts(e, g, i) /\ e \in [Entries -> Inums \cup {NULL}]
  BY <1>10, <1>12, NewEntsFacts
<1>17. c0[ip].type = g
  <2>1. PICK b : b = Load(ip, p)
    OBVIOUS
  <2>2. b \in [Slots -> Inode] /\ b[ip].type = g
    <3>1. p \in Procs \cup {NoProc} /\ FilesTypes
      BY DEF Base
    <3> QED
      BY <1>7, <2>1, <3>1, LoadFacts
  <2>3. c0 = [b EXCEPT ![ip].nlink = 1, ![dp].lk = NoProc]
    BY <1>13, <2>1
  <2>4. c0[ip] = [b[ip] EXCEPT !.nlink = 1]
    BY <1>7, <2>2, <2>3
  <2>5. PICK u : u = b[ip]
    OBVIOUS
  <2>6. u \in Inode /\ u.type = g
    BY <1>7, <2>2, <2>5
  <2>7. [u EXCEPT !.nlink = 1].type = g
    BY <2>6 DEF Inode
  <2> QED
    BY <2>4, <2>5, <2>7
<1>18. PICK r : r = [type |-> g, nlink |-> 1, ents |-> e]
  OBVIOUS
<1>19. dn' = [Iupdate(ic', dp) EXCEPT ![i] = r, ![d].ents[name] = i]
  BY <1>14, <1>17, <1>18
<1>20. /\ c0 = [Load(ip, p) EXCEPT ![ip].nlink = 1, ![dp].lk = NoProc]
       /\ ic' = AddLinks(c0, dp, n) /\ g \in Types
  BY <1>7, <1>13, <1>14 DEF Types
<1> HIDE DEF n0, e0, c1
<1>21. Entered(p, ip, dp, name, n, g, e)
  BY <1>7, <1>8, <1>9, <1>15, <1>16, <1>18, <1>19, <1>20, EnteredFacts
<1>22. Others(res, res', p) /\ res'[p] = ip /\ ~halted'
  <2>1. ip \in 0..NINODE
    BY <1>7, NullSlot
  <2> QED
    BY <1>7, <1>14, <2>1, ReturnFacts
<1>23. NewEnts(e, g, Num(ip)) /\ Then(p, <<Put(dp)>>)
  BY <1>8, <1>14, <1>16
<1>24. OnBoth(p, op, ip, dp, name, g)
  BY <1>0, <1>1, <1>2, <1>3, <1>4 DEF OnBoth
<1>25. Second'
  <2>1. /\ op \in {"new"} /\ OnBoth(p, op, ip, dp, name, g) /\ Lockable(ip) /\ Gains(g, n)
        /\ NewEnts(e, g, Num(ip)) /\ Entered(p, ip, dp, name, n, g, e)
        /\ Others(res, res', p) /\ res'[p] = ip /\ ~halted' /\ Then(p, <<Put(dp)>>)
    BY <1>0, <1>6, <1>15, <1>21, <1>22, <1>23, <1>24
  <2> QED
    BY <2>1, CreateNewDone
<1>26. ASSUME Forest PROVE Forest'
  <2>1. dn[Num(ip)].nlink = 0
    BY <1>0, <1>1, <1>2, <1>3, <1>4, <1>6, NewDoing
  <2>2. i # d
    <3>1. ic[ip].ref > 0 /\ ic[dp].ref > 0 /\ dp \in Slots
      BY <1>7 DEF Fine, Live
    <3> QED
      BY <1>7, <1>8, <1>9, <3>1 DEF Base, Unique, Num
  <2>3. dn[i].nlink = 0
    BY <1>8, <2>1
  <2> QED
    BY <1>7, <1>8, <1>9, <1>10, <1>16, <1>21, <1>26, <2>2, <2>3, EnteredForest
<1> QED
  BY Zenon, <1>25, <1>26

-----------------------------------------------------------------------------
(* The second layer is an invariant.                                        *)

\* The disk that mkfs has made: the root has the files of the image, and nothing else.
LEMMA InitDisk ==
    ASSUME Init
    PROVE  /\ dn[ROOTINO].type = "DIR" /\ dn[ROOTINO].nlink = 1 /\ dn[ROOTINO].ents["."] = ROOTINO
           /\ dn[ROOTINO].ents[".."] = ROOTINO
           /\ \A n \in Names : dn[ROOTINO].ents[n] = IF n \in Image THEN ImageInum[n] ELSE NULL
           /\ \A i \in Inums : i # ROOTINO => dn[i].ents = NoEntries /\ dn[i].type \in {"FILE", "FREE"}
           /\ \A i \in Inums : dn[i].type = "FREE" => dn[i].nlink = 0
           /\ \A i \in Inums : dn[i].nlink \in {0, 1}
           /\ \A n \in Image : /\ ImageInum[n] \in Inums \ {ROOTINO} /\ dn[ImageInum[n]].type = "FILE"
                               /\ dn[ImageInum[n]].nlink = 1
<1>1. ROOTINO \in Inums /\ Image \subseteq Names /\ "." \notin Names /\ ".." \notin Names
  BY FilesAssumption
<1> DEFINE d == Dots(ROOTINO, ROOTINO)
           e == [n \in Entries |-> IF n \in Image THEN ImageInum[n] ELSE d[n]]
<1>2. dn[ROOTINO] = [type |-> "DIR", nlink |-> 1, ents |-> e]
  BY <1>1 DEF Init
<1>3. d["."] = ROOTINO /\ d[".."] = ROOTINO /\ \A n \in Names : d[n] = NULL
  <2>1. "." \in Entries /\ ".." \in Entries /\ Names \subseteq Entries
    BY DEF Entries
  <2> QED
    BY <1>1, <2>1 DEF Dots, NoEntries
<1>4. \A n \in Names : e[n] = IF n \in Image THEN ImageInum[n] ELSE NULL
  BY <1>3 DEF Entries
<1>5. e["."] = ROOTINO /\ e[".."] = ROOTINO
  BY <1>1, <1>3 DEF Entries
<1> HIDE DEF e
<1>6. /\ dn[ROOTINO].type = "DIR" /\ dn[ROOTINO].nlink = 1 /\ dn[ROOTINO].ents = e
  BY <1>2
<1>7. ASSUME NEW i \in Inums, i # ROOTINO
      PROVE  /\ dn[i].ents = NoEntries
             /\ dn[i].type = (IF \E n \in Image : ImageInum[n] = i THEN "FILE" ELSE "FREE")
             /\ dn[i].nlink = (IF \E n \in Image : ImageInum[n] = i THEN 1 ELSE 0)
  BY <1>7 DEF Init
<1>8. \A n \in Image : ImageInum[n] \in Inums \ {ROOTINO}
  BY ImageFacts
<1>9. \A i \in Inums : dn[i].type = "FREE" => dn[i].nlink = 0
  BY <1>6, <1>7
<1>10. \A i \in Inums : dn[i].nlink \in {0, 1}
  BY <1>6, <1>7
<1>11. \A i \in Inums : i # ROOTINO => dn[i].ents = NoEntries /\ dn[i].type \in {"FILE", "FREE"}
  BY <1>7
<1>12. \A n \in Image : dn[ImageInum[n]].type = "FILE" /\ dn[ImageInum[n]].nlink = 1
  BY <1>7, <1>8
<1> QED
  BY <1>4, <1>5, <1>6, <1>8, <1>9, <1>10, <1>11, <1>12

\* A link of this disk is the root's or the one of a file of the image.
LEMMA InitLinked ==
    ASSUME Init, NEW x \in LinkPlaces, NEW i \in Inums, Linked(dn, k, ic)[x] = i
    PROVE  \/ i = ROOTINO /\ x = <<ROOTINO, "root", 0>>
           \/ i # ROOTINO /\ \E n \in Image : ImageInum[n] = i /\ x = <<ROOTINO, "name", n>>
<1> DEFINE L == Linked(dn, k, ic)
<1>0. i # NULL
  BY FilesAssumption
<1>1. ASSUME NEW d \in Inums, NEW n \in Names, dn[d].ents[n] # NULL
      PROVE  d = ROOTINO /\ n \in Image /\ dn[d].ents[n] = ImageInum[n]
  <2>1. d = ROOTINO
    BY <1>1, InitDisk DEF NoEntries, Entries
  <2> QED
    BY <1>1, <2>1, InitDisk
<1>2. CASE x \in Inums \X {"name", "sub"} \X Names
  <2>1. PICK d \in Inums, y \in {"name", "sub"}, n \in Names : x = <<d, y, n>>
    BY <1>2
  <2>2. CASE y = "name"
    <3>1. L[x] = dn[d].ents[n]
      BY <2>1, <2>2 DEF Linked
    <3> QED
      BY <1>0, <1>1, <2>1, <2>2, <3>1, InitDisk
  <2>3. CASE y = "sub"
    <3>1. PICK j : j = dn[d].ents[n]
      OBVIOUS
    <3>2. L[x] = Sub(dn, d, j)
      BY <2>1, <2>3, <3>1 DEF Linked
    <3>3. j # NULL /\ dn[j].type = "DIR"
      BY <1>0, <3>2 DEF Sub
    <3>4. n \in Image /\ j = ImageInum[n]
      BY <1>1, <3>1, <3>3
    <3> QED
      BY <3>3, <3>4, InitDisk
  <2> QED
    BY <2>2, <2>3
<1>3. CASE x \in Procs \X {"call"} \X {0}
  <2>1. PICK q \in Procs : x = <<q, "call", 0>>
    BY <1>3
  <2>2. L[x] = Pending(k[q], ic)
    BY <2>1 DEF Linked
  <2>3. k[q] = <<>>
    BY DEF Init
  <2>4. View(<<>>, 0).op = "none"
    BY DEF View, None, Ins
  <2>5. Pending(<<>>, ic) = NULL
    BY <2>4 DEF Pending
  <2> QED
    BY <1>0, <2>2, <2>3, <2>5
<1>4. CASE x = <<ROOTINO, "root", 0>>
  BY <1>4 DEF Linked
<1> QED
  BY <1>2, <1>3, <1>4 DEF LinkPlaces

\* So the links are counted.
LEMMA InitLinks ==
    ASSUME Init
    PROVE  Links
<1> SUFFICES ASSUME NEW i \in Inums
             PROVE  Cardinality(Fib(Linked(dn, k, ic), i)) <= dn[i].nlink
  BY DEF Links, LinksCounted
<1>1. PICK L : L = Linked(dn, k, ic)
  OBVIOUS
<1>2. DOMAIN L = LinkPlaces
  BY <1>1 DEF Linked
<1>3. ASSUME NEW x \in Fib(L, i), NEW y \in Fib(L, i)
      PROVE  x = y /\ dn[i].nlink = 1
  <2>1. x \in LinkPlaces /\ L[x] = i /\ y \in LinkPlaces /\ L[y] = i
    BY <1>2 DEF Fib
  <2>2. \/ i = ROOTINO /\ x = <<ROOTINO, "root", 0>>
        \/ i # ROOTINO /\ \E n \in Image : ImageInum[n] = i /\ x = <<ROOTINO, "name", n>>
    BY <1>1, <2>1, InitLinked
  <2>3. \/ i = ROOTINO /\ y = <<ROOTINO, "root", 0>>
        \/ i # ROOTINO /\ \E n \in Image : ImageInum[n] = i /\ y = <<ROOTINO, "name", n>>
    BY <1>1, <2>1, InitLinked
  <2> QED
    BY <2>2, <2>3, InitDisk, ImageFacts
<1>4. CASE Fib(L, i) = {}
  BY <1>1, <1>4, FS_EmptySet, InitDisk
<1>5. CASE Fib(L, i) # {}
  <2>1. PICK x : x \in Fib(L, i)
    BY <1>5
  <2>2. Fib(L, i) = {x} /\ dn[i].nlink = 1
    BY <1>3, <2>1
  <2>3. Cardinality({x}) = 1
    BY FS_Singleton
  <2> QED
    BY <1>1, <2>2, <2>3
<1> QED
  BY <1>4, <1>5

\* No call is under way and nothing has been read.
LEMMA InitSecond ==
    ASSUME Init
    PROVE  Second
<1>1. /\ \A s \in Slots : ~ ic[s].valid /\ ic[s].lk = NoProc
      /\ \A q \in Procs : k[q] = <<>> /\ res[q] = NULL
      /\ ~ halted
  BY DEF Init
<1>2. \A q \in Procs : Top(k[q]) = None
  BY <1>1 DEF Top
<1>3. None.op = "none" /\ None.s = NULL /\ None.t = NULL
  BY DEF None, Ins
<1>4. \A q \in Procs, n \in Nat : View(k[q], n) = None
  <2>1. \A n \in Nat : View(<<>>, n) = None
    BY DEF View
  <2> QED
    BY <1>1, <2>1
<1>5. Keeps(None) = NULL
  BY <1>3 DEF Keeps, Keepers, TOps
<1>6. Locks
  <2>1. ASSUME NEW q \in Procs, NEW n \in Where
        PROVE  Kept(k[q], res[q], n) = NULL
    <3>1. CASE n = -1
      BY <1>1, <3>1 DEF Kept, KeepsRes
    <3>2. CASE n # -1
      <4>1. n \in Nat
        BY <3>2 DEF Where
      <4> QED
        BY <1>4, <1>5, <3>2, <4>1 DEF Kept
    <3> QED
      BY <3>1, <3>2
  <2>2. ASSUME NEW q \in Procs
        PROVE  LocksOf(q)
    <3>1. \A s \in Slots : ic[s].lk # q
      BY <1>1, FilesAssumption
    <3> QED
      BY <2>1, <3>1, NullSlot DEF LocksOf
  <2> QED
    BY <2>2 DEF Locks
<1>7. Cached
  BY <1>1 DEF Cached
<1>8. FreeInodes
  <2>1. \A i \in Inums : dn[i].type = "FREE" => dn[i].nlink = 0 /\ dn[i].ents = NoEntries
    BY InitDisk
  <2>2. ASSUME NEW s \in Slots, ic[s].ref > 0
        PROVE  Num(s) = ROOTINO
    <3>1. s = 1
      BY <2>2 DEF Init
    <3> QED
      BY <3>1 DEF Init, Num
  <2> QED
    BY <2>1, <2>2, InitDisk DEF FreeInodes
<1>9. Freeing
  BY <1>2, <1>3 DEF Freeing, FreeingOf
<1>10. Relying
  <2>1. \A q \in Procs : TopRelies(q)
    BY <1>2, <1>3 DEF TopRelies, TOps, ToDir
  <2>2. Relies(None)
    BY <1>3 DEF Relies
  <2> QED
    BY <1>4, <2>1, <2>2 DEF Relying
<1>11. Dirs
  BY InitDisk, FilesAssumption DEF Dirs
<1> QED
  BY <1>1, <1>6, <1>7, <1>8, <1>9, <1>10, <1>11, InitLinks DEF Second, Life

\* Every instruction keeps the second layer.
LEMMA StepSecond ==
    ASSUME Base, Second, NEW p \in Procs, Step(p), Climbs(p)
    PROVE  Second'
<1>1. CASE Iput(p) \/ IputFree(p) \/ IputFreed(p) \/ IputDec(p) \/ Iunlockput(p)
  BY <1>1, IputSecond, IputFreeSecond, IputFreedSecond, IputDecSecond, IunlockputSecond
<1>2. CASE NamexStart(p) \/ NamexEnd(p) \/ NamexStep(p) \/ Failed(p)
  BY <1>2, NamexStartSecond, NamexEndSecond, NamexStepSecond, FailedSecond
<1>3. CASE Link1(p) \/ Link2Fail(p) \/ Link2(p) \/ LinkBad(p)
  BY <1>3, Link1Second, Link2FailSecond, Link2Second, LinkBadSecond
<1>4. CASE Unlink1(p) \/ Unlink2(p) \/ Unlink3(p)
  BY <1>4, Unlink1Second, Unlink2Second, Unlink3Second
<1>5. CASE CreateFound(p) \/ CreateExists(p) \/ CreateAlloc(p) \/ CreateNew(p) \/ Made(p)
  BY <1>5, CreateFoundSecond, CreateExistsSecond, CreateAllocSecond, CreateNewSecond, MadeSecond
<1>6. CASE OpenLock(p) \/ OpenFile(p) \/ OpenFail(p) \/ Chdir(p)
  BY <1>6, OpenLockSecond, OpenFileSecond, OpenFailSecond, ChdirSecond
<1>7. CASE ExitClose(p) \/ ExitCwd(p) \/ NoSuch(p)
  BY <1>7, ExitCloseSecond, ExitCwdSecond, NoSuchSecond
<1>8. CASE \E d \in 1..NOFILE : Dup(p, d) \/ Close(p, d)
  BY <1>8, DupSecond, CloseSecond
<1>9. CASE \E q \in Procs : Fork(p, q)
  BY <1>9, ForkSecond
<1> QED
  BY <1>1, <1>2, <1>3, <1>4, <1>5, <1>6, <1>7, <1>8, <1>9 DEF Step

\* Straight, for a step of p.
LEMMA StraightClimbs ==
    ASSUME NEW p \in Procs, Straight, Step(p)
    PROVE  Climbs(p)
BY DEF Straight, Climbs, Num

\* So does a step of the system.
LEMMA NextSecond ==
    ASSUME Base, Second, [Next]_vars, [Straight]_vars
    PROVE  Second'
<1>3. ASSUME UNCHANGED vars PROVE Second'
  <2>1. ic' = ic /\ dn' = dn /\ k' = k /\ res' = res /\ halted' = halted
    BY <1>3 DEF vars
  <2>2. Locks'
    BY <2>1 DEF Second, Locks, LocksOf
  <2>3. Life'
    BY <2>1 DEF Second, Life, Cached, FreeInodes, Freeing, FreeingOf, Freed, Filling, Leaving, Num
  <2>4. Relying'
    BY <2>1 DEF Second, Relying, TopRelies, Relies, Num
  <2>5. Dirs'
    BY <2>1 DEF Second, Dirs, Filling, Num
  <2>6. Links'
    BY <2>1 DEF Second, Links
  <2> QED
    BY <2>1, <2>2, <2>3, <2>4, <2>5, <2>6 DEF Second
<1>1. CASE Next
  <2>1. PICK p \in Procs : Step(p) \/ \E c \in Calls[p] : Call(p, c)
    BY <1>1 DEF Next
  <2>2. CASE Step(p)
    <3>1. CASE Straight
      BY <2>2, <3>1, StepSecond, StraightClimbs
    <3>2. CASE UNCHANGED vars
      BY <1>3, <3>2
    <3> QED
      BY <3>1, <3>2
  <2>3. CASE \E c \in Calls[p] : Call(p, c)
    BY <2>3, CallSecond
  <2> QED
    BY <2>1, <2>2, <2>3
<1> QED
  BY <1>1, <1>3

\* Locks, the life of inodes, what calls rely on, directories and links are as the
\* second layer says, and no call panics, as long as no call follows the ".." of a removed
\* directory to a parent without links.
THEOREM LayerTwo == Spec /\ [][Straight]_vars => [](Base /\ Second)
<1>1. Init => Base /\ Second
  BY InitBase, InitSecond
<1>2. Base /\ Second /\ [Next]_vars /\ [Straight]_vars => (Base /\ Second)'
  BY NextBase, NextSecond
<1> QED
  BY <1>1, <1>2, PTL DEF Spec

\* An inode is in the cache once, and an entry that is not locked is as the disk: only an
\* iput() that still has the lock has freed the inode on disk but not in the cache.
LEMMA SecondCache ==
    ASSUME Base, Second
    PROVE  CacheRight
<1> SUFFICES ASSUME NEW s \in Slots, ic[s].ref > 0
             PROVE  /\ \A t \in Slots \ {s} : ic[t].ref > 0 => ic[t].inum # ic[s].inum
                    /\ ic[s].valid /\ ic[s].lk = NoProc =>
                          /\ ic[s].nlink = dn[ic[s].inum].nlink
                          /\ ic[s].type = dn[ic[s].inum].type
  BY DEF CacheRight
<1>1. \A t \in Slots \ {s} : ic[t].ref > 0 => ic[t].inum # ic[s].inum
  BY DEF Base, Unique
<1>2. ASSUME Freed(s)
      PROVE  ic[s].lk # NoProc
  <2>1. PICK q \in Procs : Top(k[q]).op = "freed" /\ Top(k[q]).s = s
    BY <1>2 DEF Freed
  <2>2. Keeps(Top(k[q])) = s
    BY <2>1 DEF Keeps, Keepers
  <2>3. ic[s].lk = q
    BY <2>2, NullSlot, LockFacts DEF Second
  <2> QED
    BY <2>3, FilesAssumption
<1> QED
  BY <1>1, <1>2 DEF Second, Life, Cached, Num

\* The names of an inode are among its links.
LEMMA NamesCounted ==
    ASSUME Base, Second, NEW i \in Inums
    PROVE  LinksTo(i) \in Nat /\ LinksTo(i) <= dn[i].nlink /\ dn[i].nlink \in Int
<1> DEFINE S == {x \in Inums \X Names : /\ dn[x[1]].type = "DIR" /\ dn[x[1]].nlink > 0
                                        /\ dn[x[1]].ents[x[2]] = i}
           f == [x \in S |-> <<x[1], "name", x[2]>>]
<1>1. PICK L : L = Linked(dn, k, ic)
  OBVIOUS
<1>2. DOMAIN L = LinkPlaces
  BY <1>1 DEF Linked
<1>3. PICK F : F = Fib(L, i)
  OBVIOUS
<1>4. IsFiniteSet(F) /\ Cardinality(F) \in Nat
  BY <1>2, <1>3, LinkPlacesFinite
<1>5. Cardinality(F) <= dn[i].nlink
  BY <1>1, <1>3 DEF Second, Links, LinksCounted
<1>6. ASSUME NEW x \in S
      PROVE  f[x] \in F
  <2>1. PICK d \in Inums, n \in Names : x = <<d, n>> /\ dn[d].ents[n] = i
    OBVIOUS
  <2>2. f[x] = <<d, "name", n>>
    BY <2>1
  <2>3. <<d, "name", n>> \in LinkPlaces
    BY DEF LinkPlaces
  <2>4. L[<<d, "name", n>>] = i
    BY <1>1, <2>1, <2>3 DEF Linked
  <2> QED
    BY <1>2, <1>3, <2>2, <2>3, <2>4 DEF Fib
<1>7. ASSUME NEW x \in S, NEW y \in S, f[x] = f[y]
      PROVE  x = y
  <2>1. PICK d \in Inums, n \in Names : x = <<d, n>>
    OBVIOUS
  <2>2. PICK e \in Inums, m \in Names : y = <<e, m>>
    OBVIOUS
  <2> QED
    BY <1>7, <2>1, <2>2
<1>8. f \in Injection(S, F)
  <2>1. f = [x \in S |-> f[x]]
    OBVIOUS
  <2>2. f \in [S -> F]
    BY <1>6, <2>1
  <2> HIDE DEF f
  <2> QED
    BY <1>7, <2>2 DEF Injection, IsInjective
<1> HIDE DEF f
<1>9. IsFiniteSet(S) /\ Cardinality(S) <= Cardinality(F) /\ Cardinality(S) \in Nat
  <2>1. IsFiniteSet(S) /\ Cardinality(S) <= Cardinality(F)
    BY <1>4, <1>8, FS_Injection
  <2> QED
    BY <2>1, FS_CardinalityType
<1>10. LinksTo(i) = Cardinality(S)
  BY DEF LinksTo
<1>11. dn[i].nlink \in Int
  BY BaseTypes DEF Dinode
<1> HIDE DEF S
<1> QED
  BY <1>4, <1>5, <1>9, <1>10, <1>11

\* A named inode, the inode of an open file and a current directory are allocated.
LEMMA SecondKept ==
    ASSUME Base, Second
    PROVE  NamesAllocated /\ InUseKept /\ NoPanic
<1>0. Life
  BY DEF Second
<1>1. NamesAllocated
  <2>1. ASSUME NEW i \in Inums, LinksTo(i) > 0
        PROVE  dn[i].type # "FREE" /\ dn[i].nlink >= LinksTo(i)
    <3>1. LinksTo(i) \in Nat /\ LinksTo(i) <= dn[i].nlink /\ dn[i].nlink \in Int
      BY NamesCounted
    <3>2. dn[i].nlink # 0
      BY <2>1, <3>1
    <3>3. dn[i].type # "FREE"
      BY <1>0, <3>2 DEF Life, FreeInodes
    <3> QED
      BY <3>1, <3>3
  <2> QED
    BY <2>1 DEF NamesAllocated
<1>2. ASSUME NEW f \in 1..NFILE, ft[f].ref > 0
      PROVE  dn[ic[ft[f].ip].inum].type # "FREE"
  <2>1. PICK x : x = <<f, "file", 0>>
    OBVIOUS
  <2>2. Steady(x) /\ x \in Places
    BY <2>1, SteadyPlaces DEF Places
  <2>3. At(k, res, cwd, ft)[x] = ft[f].ip
    BY <1>2, <2>1, <2>2 DEF At, FileIp
  <2>4. ft[f].ip \in Slots
    <3>1. ft[f].ip \in 0..NINODE /\ ft[f].ip # NULL
      BY <1>2 DEF Base, Descriptors, FilesTypes
    <3> QED
      BY <3>1, FilesAssumption DEF Slots, NULL
  <2>5. ~ Odd(ft[f].ip)
    BY <1>0, <2>2, <2>3, <2>4, NotOdd DEF Life
  <2> QED
    BY <2>5 DEF Odd, Num
<1>3. ASSUME NEW q \in Procs, cwd[q] # NULL
      PROVE  dn[ic[cwd[q]].inum].type # "FREE"
  <2>1. Fine(cwd[q])
    BY <1>0, <1>3, FineHeld
  <2> QED
    BY <2>1 DEF Fine, Odd, Num
<1> QED
  BY <1>1, <1>2, <1>3 DEF InUseKept, NoPanic, Second

\* For any number of processes, inodes, slots, files and calls: ip->ref is the number of
\* owners that calls, current directories and open files are, an inode has one place in the
\* cache, and what an unlocked entry says of type and link count is what the disk says, as
\* long as no call follows the ".." of a removed directory to a parent without links.
THEOREM ReferencesAlwaysRight == Spec /\ [][Straight]_vars => []ReferencesRight
<1>1. Base /\ Second => ReferencesRight
  BY BaseRefs, SecondCache DEF ReferencesRight
<1> QED
  BY <1>1, LayerTwo, PTL

\* For any number of processes, inodes, slots, files and calls: no inode is freed that a
\* name, an open file or a current directory leads to, link counts are not below the number
\* of names, and no call panics in ilock(), iunlock() or unlink(), whatever its paths, as
\* long as no call looks up ".." in a directory that has been removed and whose parent has
\* no link left either.  In that case ilock() may panic: the condition cannot be dropped.
THEOREM InodesAlwaysKept == Spec /\ [][Straight]_vars => []InodesKept
<1>1. Base /\ Second => InodesKept
  BY SecondKept DEF InodesKept
<1> QED
  BY <1>1, LayerTwo, PTL

-----------------------------------------------------------------------------
(* Who waits for whom.  The third layer: directories form a forest.         *)

\* The instructions, other than that of iput(), that wait for a lock, and those that have
\* locks and have only instructions of iput() before them.
Waiters == {"bad", "exists", "new", "unlink2", "walk", "unlink", "create", "link1", "link2",
            "open", "chdir"}
Unders == PutOps \cup {"unlockput", "unlink3"}

\* A process whose call has one of these anywhere has one of them first.
LEMMA UnderFirst ==
    ASSUME Base, NEW q \in Procs, NEW j \in 1..Len(k[q]), k[q][j].op \in Unders
    PROVE  k[q][1].op \in Unders
<1> DEFINE T == {x \in 1..Len(k[q]) : k[q][x].op \in Unders}
<1>1. k[q] \in Seq(Instr) /\ Shape(k[q]) /\ Len(k[q]) \in Nat
  BY DEF Base, FilesTypes, Calling
<1>2. T \in SUBSET Nat /\ T # {}
  OBVIOUS
<1>3. PICK m \in T : \A x \in T : m <= x
  BY <1>2, Least
<1>4. m \in 1..Len(k[q]) /\ k[q][m].op \in Unders
  OBVIOUS
<1>5. CASE m # 1
  <2>1. m - 1 \in 1..(Len(k[q]) - 1) /\ m - 1 \in 1..Len(k[q]) /\ (m - 1) + 1 = m /\ m - 1 < m
    BY <1>1, <1>4, <1>5
  <2>2. Above(k[q][m - 1], k[q][m])
    BY <1>1, <2>1 DEF Shape
  <2>3. k[q][m - 1].op \in PutOps
    <3>1. PICK a : a = k[q][m - 1]
      OBVIOUS
    <3>2. PICK b : b = k[q][m]
      OBVIOUS
    <3>3. Above(a, b) /\ b.op \in Unders
      BY <1>4, <2>2, <3>1, <3>2
    <3>4. b.op \notin ToDir \cup ToFile \cup Ends \cup {"exit", "bad"}
      BY <3>3 DEF Unders, PutOps, ToDir, ToFile, Ends
    <3>5. a.op \in Over /\ a.op \notin {"namex", "walk", "create", "exists", "new", "close", "unlockput"}
      BY <3>3, <3>4 DEF Above
    <3> QED
      BY <3>1, <3>5 DEF Over
  <2>4. m - 1 \in T
    BY <2>1, <2>3 DEF Unders
  <2> HIDE DEF T
  <2> QED
    BY <1>3, <1>4, <2>1, <2>4
<1> QED
  BY <1>4, <1>5

\* A process that waits for a lock, not in iput(), has at most the lock of the directory
\* that unlink() or create() changes.
LEMMA WaiterHas ==
    ASSUME Base, Second, NEW q \in Procs, Top(k[q]).op \in Waiters, NEW w \in Slots, ic[w].lk = q
    PROVE  Top(k[q]).op \in TOps /\ Top(k[q]).t = w
<1>1. PICK n \in Where : Kept(k[q], res[q], n) = w
  BY DEF Second, Locks, LocksOf
<1>2. w # NULL
  BY NullSlot
<1>3. n # -1
  <2>1. Top(k[q]).op \notin PutOps \cup Ends
    BY DEF Waiters, PutOps, Ends
  <2> QED
    BY <1>1, <1>2, <2>1 DEF Kept, KeepsRes
<1>4. n \in Nat /\ Keeps(View(k[q], n)) = w
  BY <1>1, <1>3 DEF Where, Kept
<1>5. k[q] # <<>> /\ Top(k[q]) = k[q][1] /\ k[q] \in Seq(Instr) /\ Shape(k[q]) /\ Len(k[q]) \in Nat
  <2>1. k[q] # <<>>
    BY KeepsNone DEF Top, Waiters
  <2> QED
    BY <2>1 DEF Top, Base, FilesTypes, Calling
<1>6. n < Len(k[q]) /\ View(k[q], n) = k[q][Len(k[q]) - n]
  BY <1>2, <1>4, KeepsNone DEF View
<1>7. PICK j \in 1..Len(k[q]) : View(k[q], n) = k[q][j]
  <2>1. Len(k[q]) - n \in 1..Len(k[q])
    BY <1>4, <1>5, <1>6
  <2> QED
    BY <1>6, <2>1
<1>8. PICK a : a = k[q][j]
  OBVIOUS
<1>9. Keeps(a) = w
  BY <1>4, <1>7, <1>8
<1>10. a.op \notin Unders
  <2>1. k[q][1].op \notin Unders
    BY <1>5 DEF Waiters, Unders, PutOps
  <2> QED
    BY <1>7, <1>8, <2>1, UnderFirst
<1>11. a.op \in TOps /\ a.t = w
  BY <1>2, <1>9, <1>10 DEF Keeps, Keepers, Unders, PutOps
<1>12. j = 1
  <2>1. SUFFICES ASSUME j # 1 PROVE FALSE
    OBVIOUS
  <2>2. j - 1 \in 1..(Len(k[q]) - 1) /\ (j - 1) + 1 = j
    BY <1>5, <2>1
  <2>3. Above(k[q][j - 1], a)
    BY <1>5, <1>8, <2>2 DEF Shape
  <2> QED
    BY <1>11, <2>3 DEF Above, Deep, TOps, ToDir, ToFile, Ends
<1> QED
  BY <1>5, <1>8, <1>11, <1>12

\* What a process waits for.
LEMMA WaiterOn ==
    ASSUME Base, Second, NEW p \in Procs, ~ On(p, "put"), NEW w, w = WaitsFor(p), w # NULL
    PROVE  /\ Top(k[p]).op \in Waiters /\ w \in Slots
           /\ Top(k[p]).op \in TOps => w = Top(k[p]).s
<1>1. k[p] # <<>>
  BY DEF WaitsFor
<1>2. Arg(p) = k[p][1] /\ Top(k[p]) = k[p][1] /\ k[p][1] \in Instr /\ Well(k[p][1])
  BY <1>1, HeadFacts DEF Base, Top
<1>3. PICK a : a = k[p][1]
  OBVIOUS
<1>4. a.op # "put"
  BY <1>1, <1>2, <1>3 DEF On, Second, Arg
<1> DEFINE S1 == a.op \in {"put", "bad", "exists", "new", "unlink2"} \/ (a.op = "walk" /\ a.path # <<>>)
           S2 == a.op \in {"unlink", "create", "link1", "link2", "open", "chdir"}
           s0 == IF S1 THEN a.s ELSE IF S2 THEN res[p] ELSE NULL
<1>5. w = IF s0 # NULL /\ ic[s0].lk # NoProc THEN s0 ELSE NULL
  BY <1>1, <1>2, <1>3 DEF WaitsFor
<1> HIDE DEF s0
<1>6. w = s0
  BY <1>5
<1>7. (S1 /\ w = a.s) \/ (~ S1 /\ S2 /\ w = res[p])
  BY <1>6 DEF s0
<1>8. a.op \in Waiters
  BY <1>4, <1>7 DEF Waiters
<1>9. w \in 0..NINODE
  <2>1. a.s \in 0..NINODE
    BY <1>2, <1>3 DEF Instr
  <2>2. res[p] \in 0..NINODE
    BY DEF Base, FilesTypes
  <2> HIDE DEF S1, S2
  <2> QED
    BY <1>7, <2>1, <2>2
<1>10. w \in Slots
  BY <1>9, FilesAssumption DEF Slots, NULL
<1>11. a.op \in TOps => w = a.s
  BY <1>7 DEF TOps
<1> QED
  BY <1>2, <1>3, <1>8, <1>10, <1>11

\* A process of unlink() or create() with a directory locked waits for an inode that lies
\* below it, if another such process has that locked.
LEMMA WaitsBelow ==
    ASSUME Base, Second, NEW r \in [Inums -> Nat], RankedBy(r, dn),
           NEW p \in Procs, NEW q \in Procs, Top(k[p]).op \in TOps, Top(k[q]).op \in TOps,
           NEW w, w = Top(k[p]).s, w = Top(k[q]).t, NEW d, d = Top(k[p]).t
    PROVE  /\ Num(w) \in Inums /\ Num(d) \in Inums /\ r[Num(w)] < r[Num(d)]
<1>1. TopRelies(p) /\ TopRelies(q) /\ Life
  BY DEF Second, Relying
<1>2. /\ k[p] # <<>> /\ Top(k[p]) = k[p][1] /\ k[q] # <<>> /\ Top(k[q]) = k[q][1]
  <2>1. k[p] # <<>> /\ k[q] # <<>>
    BY KeepsNone DEF Top, TOps
  <2> QED
    BY <2>1 DEF Top
<1>3. Fine(w) /\ Fine(d)
  BY <1>1, <1>2, FineHeld
<1>4. Top(k[p]).op # "new"
  <2>1. Top(k[p]).op = "new" => Filling(w)
    BY DEF Filling
  <2> QED
    BY <1>3, <2>1 DEF Fine, Odd
<1>5. Top(k[p]).op = "unlink2"
  BY <1>4 DEF TOps
<1>6. PICK n : n = Top(k[p]).path[1]
  OBVIOUS
<1>7. n \in Names /\ dn[Num(d)].ents[n] = Num(w)
  BY <1>1, <1>5, <1>6 DEF TopRelies, TOps
<1>8. dn[Num(w)].type = "DIR"
  BY <1>1 DEF TopRelies
<1>9. Num(w) \in Inums /\ Num(d) \in Inums /\ Num(w) # NULL
  BY <1>1, <1>3, FineFacts, FilesAssumption
<1> QED
  BY <1>7, <1>8, <1>9 DEF RankedBy

\* So a circle of waiting processes has one in iput().
LEMMA ForestBlocks ==
    ASSUME Base, Second, Forest
    PROVE  OnlyIputBlocks
<1> SUFFICES ASSUME NEW S \in SUBSET Procs, Stuck(S), \A p \in S : ~ On(p, "put")
             PROVE  FALSE
  BY DEF OnlyIputBlocks
<1>1. PICK r \in [Inums -> Nat] : RankedBy(r, dn)
  BY DEF Forest
<1>2. ASSUME NEW p \in S
      PROVE  \E q \in S : /\ Top(k[q]).op \in TOps
                          /\ Top(k[p]).op \in TOps => Top(k[p]).s = Top(k[q]).t
  <2>1. PICK q \in S : Blocked(p, q)
    BY DEF Stuck
  <2>2. PICK w : w = WaitsFor(p)
    OBVIOUS
  <2>3. w # NULL /\ ic[w].lk = q
    BY <2>1, <2>2 DEF Blocked
  <2>4. w \in Slots /\ (Top(k[p]).op \in TOps => w = Top(k[p]).s)
    BY <2>2, <2>3, WaiterOn
  <2>5. Top(k[q]).op \in Waiters
    <3>1. PICK v \in S : Blocked(q, v)
      BY DEF Stuck
    <3>2. PICK x : x = WaitsFor(q)
      OBVIOUS
    <3>3. x # NULL
      BY <3>1, <3>2 DEF Blocked
    <3> QED
      BY <3>2, <3>3, WaiterOn
  <2>6. Top(k[q]).op \in TOps /\ Top(k[q]).t = w
    BY <2>3, <2>4, <2>5, WaiterHas
  <2> QED
    BY <2>4, <2>6
<1> DEFINE D == {p \in S : Top(k[p]).op \in TOps}
           T == {r[Num(Top(k[p]).t)] : p \in D}
<1>3. D # {}
  <2>1. PICK p : p \in S
    BY DEF Stuck
  <2> QED
    BY <1>2, <2>1
<1>4. ASSUME NEW p \in D
      PROVE  /\ r[Num(Top(k[p]).t)] \in Nat
             /\ \E q \in D : r[Num(Top(k[q]).t)] < r[Num(Top(k[p]).t)]
  <2>1. PICK q \in S : Top(k[q]).op \in TOps /\ Top(k[p]).s = Top(k[q]).t
    BY <1>2
  <2>2. PICK w : w = Top(k[q]).t
    OBVIOUS
  <2>3. PICK d : d = Top(k[p]).t
    OBVIOUS
  <2>4. /\ p \in Procs /\ q \in Procs /\ Top(k[p]).op \in TOps /\ Top(k[q]).op \in TOps
        /\ w = Top(k[p]).s /\ w = Top(k[q]).t /\ d = Top(k[p]).t
    BY <2>1, <2>2, <2>3
  <2>5. Num(w) \in Inums /\ Num(d) \in Inums /\ r[Num(w)] < r[Num(d)]
    BY <1>1, <2>4, WaitsBelow
  <2> QED
    BY <2>1, <2>2, <2>3, <2>5
<1> HIDE DEF D
<1>5. T \in SUBSET Nat /\ T # {}
  BY <1>3, <1>4
<1>6. PICK m \in T : \A x \in T : m <= x
  BY <1>5, Least
<1>7. PICK p \in D : m = r[Num(Top(k[p]).t)]
  OBVIOUS
<1>8. PICK q \in D : r[Num(Top(k[q]).t)] < m
  BY <1>4, <1>7
<1>9. PICK x : x = r[Num(Top(k[q]).t)]
  OBVIOUS
<1>10. x \in T /\ x \in Nat /\ m \in Nat /\ x < m
  BY <1>4, <1>7, <1>8, <1>9
<1> HIDE DEF T
<1> QED
  BY <1>6, <1>10

\* The image has files only.
LEMMA InitForest ==
    ASSUME Init
    PROVE  Forest
<1>1. PICK r : r = [i \in Inums |-> 0]
  OBVIOUS
<1>2. r \in [Inums -> Nat]
  BY <1>1
<1>3. ASSUME NEW d \in Inums, NEW n \in Names, dn[d].ents[n] # NULL
      PROVE  dn[dn[d].ents[n]].type # "DIR"
  <2>1. d = ROOTINO
    BY <1>3, InitDisk DEF NoEntries, Entries
  <2>2. n \in Image /\ dn[d].ents[n] = ImageInum[n]
    BY <1>3, <2>1, InitDisk
  <2> QED
    BY <2>2, InitDisk
<1> QED
  BY <1>2, <1>3 DEF Forest, RankedBy

\* Directories stay a forest while no name of a directory is new.
LEMMA FewerForest ==
    ASSUME Base, Forest, Fewer
    PROVE  Forest'
<1>1. PICK r \in [Inums -> Nat] : RankedBy(r, dn)
  BY DEF Forest
<1>2. RankedBy(r, dn')
  BY <1>1 DEF RankedBy, Fewer
<1> QED
  BY <1>1, <1>2 DEF Forest

\* The steps that leave the disk alone.
LEMMA DiskAlone ==
    ASSUME NEW p \in Procs,
           \/ Iput(p) \/ IputFreed(p) \/ IputDec(p) \/ Iunlockput(p)
           \/ NamexStart(p) \/ NamexEnd(p) \/ NamexStep(p) \/ Failed(p)
           \/ Link2Fail(p) \/ Unlink1(p)
           \/ CreateFound(p) \/ CreateExists(p) \/ Made(p)
           \/ OpenLock(p) \/ OpenFile(p) \/ OpenFail(p) \/ Chdir(p)
           \/ ExitClose(p) \/ ExitCwd(p) \/ NoSuch(p)
           \/ (\E d \in 1..NOFILE : Dup(p, d) \/ Close(p, d))
           \/ (\E q \in Procs : Fork(p, q)) \/ (\E c \in Calls[p] : Call(p, c))
    PROVE  dn' = dn
<1>1. CASE Iput(p) \/ IputFreed(p) \/ IputDec(p) \/ Iunlockput(p)
  BY Zenon, <1>1 DEF Iput, IputFreed, IputDec, Iunlockput
<1>2. CASE NamexStart(p) \/ NamexEnd(p) \/ NamexStep(p) \/ Failed(p)
  BY Zenon, <1>2 DEF NamexStart, NamexEnd, NamexStep, Failed
<1>3. CASE Link2Fail(p) \/ Unlink1(p)
  BY Zenon, <1>3 DEF Link2Fail, Unlink1
<1>4. CASE CreateFound(p) \/ CreateExists(p) \/ Made(p)
  BY Zenon, <1>4 DEF CreateFound, CreateExists, Made
<1>5. CASE OpenLock(p) \/ OpenFile(p) \/ OpenFail(p) \/ Chdir(p)
  BY Zenon, <1>5 DEF OpenLock, OpenFile, OpenFail, Chdir
<1>6. CASE ExitClose(p) \/ ExitCwd(p) \/ NoSuch(p)
  BY Zenon, <1>6 DEF ExitClose, ExitCwd, NoSuch
<1>7. CASE \E d \in 1..NOFILE : Dup(p, d) \/ Close(p, d)
  BY Zenon, <1>7 DEF Dup, Close
<1>8. CASE \E q \in Procs : Fork(p, q)
  BY Zenon, <1>8 DEF Fork
<1>9. CASE \E c \in Calls[p] : Call(p, c)
  BY Zenon, <1>9 DEF Call
<1> QED
  BY <1>1, <1>2, <1>3, <1>4, <1>5, <1>6, <1>7, <1>8, <1>9

\* Every step keeps the directories a forest.
LEMMA NextForest ==
    ASSUME Base, Second, Forest, [Next]_vars, [Straight]_vars
    PROVE  Forest'
<1>1. ASSUME dn' = dn PROVE Forest'
  BY <1>1 DEF Forest
<1>2. CASE Next /\ Straight
  <2>1. PICK p \in Procs : Step(p) \/ \E c \in Calls[p] : Call(p, c)
    BY <1>2 DEF Next
  <2>4. Step(p) => Climbs(p)
    BY <1>2, StraightClimbs
  <2>2. CASE IputFree(p) \/ Link1(p) \/ Link2(p) \/ LinkBad(p) \/ Unlink2(p) \/ Unlink3(p)
             \/ CreateAlloc(p)
    <3>1. Fewer
      <4>1. Climbs(p)
        BY <2>2, <2>4 DEF Step
      <4> QED
        BY <2>2, <4>1, IputFreeSecond, Link1Second, Link2Second, LinkBadSecond, Unlink2Second,
           Unlink3Second, CreateAllocSecond
    <3> QED
      BY <3>1, FewerForest
  <2>3. CASE CreateNew(p)
    BY <2>3, CreateNewSecond
  <2> QED
    BY <1>1, <2>1, <2>2, <2>3, DiskAlone DEF Step
<1>3. CASE UNCHANGED vars
  BY <1>1, <1>3 DEF vars
<1> QED
  BY <1>2, <1>3

\* No directory is below itself, whatever link(), unlink(), create() and iput() do and in
\* whichever order their steps come, as long as no call follows the ".." of a removed
\* directory to a parent without links.
THEOREM DirectoriesAForest == Spec /\ [][Straight]_vars => []Forest
<1>1. Init => Base /\ Second /\ Forest
  BY InitBase, InitSecond, InitForest
<1>2. Base /\ Second /\ Forest /\ [Next]_vars /\ [Straight]_vars => (Base /\ Second /\ Forest)'
  BY NextBase, NextSecond, NextForest
<1> QED
  BY <1>1, <1>2, PTL DEF Spec

\* Of processes that wait for each other in a circle one is in iput(): the locks that
\* namex(), create(), unlink(), link(), open() and chdir() take go down a forest (as long as
\* no call follows the ".." of a removed directory to a parent without links).
THEOREM OnlyIputCloses == Spec /\ [][Straight]_vars => []OnlyIputBlocks
<1>1. Base /\ Second /\ Forest => OnlyIputBlocks
  BY ForestBlocks
<1> QED
  BY <1>1, LayerTwo, DirectoriesAForest, PTL
=============================================================================
