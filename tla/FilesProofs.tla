---------------------------- MODULE FilesProofs -----------------------------
(***************************************************************************)
(* Proofs about Files, for any number of processes, inodes, slots and      *)
(* files and any sequence of calls: references are counted right.  The end *)
(* has the second layer of the argument, which InodeProofs goes on with.   *)
(***************************************************************************)
EXTENDS Files, FiniteSetTheorems, SequenceTheorems, TLAPS

Kinds  == {"FILE", "DIR", "DEV"}
Types  == Kinds \cup {"FREE"}
Elems  == Names \cup {".", "..", "/"}
Args   == Kinds \cup {"", "r", "w", "parent", "file"}

\* The instructions of iput(), those that may have others below them, those that own
\* inode s and those that own t as well.
PutOps == {"put", "free", "freed", "dec"}
SOps   == PutOps \cup {"unlockput", "walk", "link2", "bad", "unlink2", "unlink3",
                       "exists", "new"}
TOps   == {"unlink2", "new"}
ToDir  == {"create", "unlink", "link2"}     \* after nameiparent()
ToFile == {"open", "link1", "chdir"}        \* after namei()
Ends   == {"opened", "made"}
Ops    == SOps \cup ToDir \cup ToFile \cup Ends \cup {"namex"} \cup OtherCalls

\* Instructions that run after others, and that are the first of their call's.
Deep   == {"put", "walk", "exists", "unlockput", "unlink3", "bad", "exit"}
             \cup ToDir \cup ToFile \cup Ends
Over   == PutOps \cup {"namex", "walk", "create", "exists", "new", "close", "unlockput"}
Bottom == Ops \ {"namex", "walk", "create", "exists", "new"}

Instr == [op : Ops, s : 0..NINODE, t : 0..NINODE, path : Seq(Elems), arg : Args]

Well(a) ==
    /\ a.s # NULL <=> a.op \in SOps
    /\ a.t # NULL <=> a.op \in TOps
    /\ a.op \in ToDir \cup {"namex", "link1"} => IsPath(a.path)
    /\ a.op = "walk" => a.path \in Seq(Names \cup {".", ".."})
    /\ a.op \in {"namex", "walk"} => a.arg \in {"parent", "file"}
    /\ a.op \in {"create", "exists", "new"} => a.arg \in Kinds
    /\ a.op \in TOps => a.path \in Seq(Names \cup {".", ".."}) /\ a.path # <<>>

\* Instruction a runs before b, which is below it.
Above(a, b) ==
    /\ a.op \in Over /\ b.op \in Deep
    /\ a.op \in {"namex", "walk"} =>
          /\ b.op \in IF a.arg = "parent" THEN ToDir ELSE ToFile
          /\ a.arg = "parent" /\ a.op = "namex" => a.path = b.path
          /\ a.arg = "parent" /\ a.op = "walk" /\ a.path # <<>> => Last(b.path) # "/"
    /\ a.op \in {"create", "exists", "new"} => b.op \in Ends
    /\ a.op = "close" => b.op = "exit"
    /\ a.op = "unlockput" => b.op = "bad"

Shape(q) ==
    /\ q \in Seq(Instr)
    /\ \A j \in 1..Len(q) : Well(q[j])
    /\ \A j \in 1..(Len(q) - 1) : Above(q[j], q[j + 1])
    /\ q # <<>> => q[Len(q)].op \in Bottom

\* What namex() or create() has returned is used next, after dp has been put.
ResShape(q, r) ==
    r # NULL =>
      /\ q # <<>>
      /\ \/ q[1].op \in ToDir \cup ToFile \cup Ends
         \/ /\ Len(q) > 1 /\ ~ (Len(q) > 2)
            /\ q[1].op \in PutOps /\ q[2].op \in Ends
      /\ q[1].op \in ToDir => Last(q[1].path) # "/"

\* A process that has exited has closed its files, and at most puts its directory.
Gone(p) ==
    /\ k[p] = <<>> \/ (~ (Len(k[p]) > 1) /\ k[p][1].op \in PutOps)
    /\ \A d \in 1..NOFILE : ofile[p][d] = NULL

Inode  == [inum : Inums \cup {NULL}, ref : Nat, valid : BOOLEAN, type : Types,
           nlink : Int, lk : Procs \cup {NoProc}]
Dinode == [type : Types, nlink : Int, ents : [Entries -> Inums \cup {NULL}]]

FilesTypes ==
    /\ ic \in [Slots -> Inode] /\ dn \in [Inums -> Dinode]
    /\ ft \in [1..NFILE -> [ref : Nat, ip : 0..NINODE]]
    /\ ofile \in [Procs -> [1..NOFILE -> 0..NFILE]]
    /\ cwd \in [Procs -> 0..NINODE] /\ res \in [Procs -> 0..NINODE]
    /\ k \in [Procs -> Seq(Instr)] /\ todo \in [Procs -> Nat] /\ halted \in BOOLEAN

Calling ==
    \A p \in Procs : /\ Shape(k[p]) /\ ResShape(k[p], res[p])
                     /\ cwd[p] = NULL => Gone(p)

-----------------------------------------------------------------------------
(* References.                                                              *)

Fib(G, v) == {x \in DOMAIN G : G[x] = v}

\* Instruction n of a stack, from its last, and the places where a reference may be.
None == Ins("none", NULL, NULL, <<>>, "")
View(q, n) == IF n < Len(q) THEN q[Len(q) - n] ELSE None

Places == (Procs \X {"s", "t"} \X Nat) \cup (Procs \X {"res", "cwd"} \X {0})
             \cup ((1..NFILE) \X {"file"} \X {0})

At(kk, rr, cc, ff) ==
    [x \in Places |-> IF x[2] = "s" THEN View(kk[x[1]], x[3]).s
                      ELSE IF x[2] = "t" THEN View(kk[x[1]], x[3]).t
                      ELSE IF x[2] = "res" THEN rr[x[1]]
                      ELSE IF x[2] = "cwd" THEN cc[x[1]]
                      ELSE IF ff[x[1]].ref > 0 THEN ff[x[1]].ip ELSE NULL]

Finite(A)   == \A s \in Slots : IsFiniteSet(Fib(A, s))
Count(A, s) == Cardinality(Fib(A, s))

Refs ==
    /\ Finite(At(k, res, cwd, ft))
    /\ \A s \in Slots : Count(At(k, res, cwd, ft), s) = ic[s].ref

\* A slot in use has an inode, and no other slot has it.
Unique ==
    \A s \in Slots : ic[s].ref > 0 =>
       /\ ic[s].inum \in Inums
       /\ \A t \in Slots : ic[t].ref > 0 /\ ic[t].inum = ic[s].inum => t = s

\* f->ref counts descriptors, and an open file has an inode.
Descriptors ==
    \A f \in 1..NFILE :
       /\ ft[f].ref = Cardinality({x \in Procs \X (1..NOFILE) : ofile[x[1]][x[2]] = f})
       /\ ft[f].ref > 0 => ft[f].ip # NULL

-----------------------------------------------------------------------------
(* Stacks of instructions.                                                  *)

\* What is on a stack after its first instruction has been replaced by those of u.
LEMMA Replaced ==
    ASSUME NEW q \in Seq(Instr), q # <<>>, NEW u \in Seq(Instr)
    PROVE  LET r == u \o Tail(q) IN
           /\ r \in Seq(Instr) /\ Len(r) = Len(u) + Len(q) - 1
           /\ \A j \in 1..Len(u) : r[j] = u[j]
           /\ \A j \in 1..(Len(q) - 1) : r[Len(u) + j] = q[j + 1]
<1> DEFINE t == Tail(q)
<1>1. /\ t \in Seq(Instr) /\ Len(t) = Len(q) - 1
      /\ \A j \in 1..(Len(q) - 1) : t[j] = q[j + 1]
  OBVIOUS
<1> HIDE DEF t
<1>0. /\ u \o t \in Seq(Instr) /\ Len(u \o t) = Len(u) + Len(t)
      /\ \A i \in 1..(Len(u) + Len(t)) :
            (u \o t)[i] = IF i <= Len(u) THEN u[i] ELSE t[i - Len(u)]
  BY <1>1, ConcatProperties
<1>2. ASSUME NEW j \in 1..Len(u) PROVE (u \o t)[j] = u[j]
  <2>1. j \in 1..(Len(u) + Len(t)) /\ j <= Len(u)
    BY <1>1
  <2> QED BY <1>0, <2>1
<1>3. ASSUME NEW j \in 1..Len(t) PROVE (u \o t)[Len(u) + j] = t[j]
  <2>2. /\ Len(u) + j \in 1..(Len(u) + Len(t)) /\ ~ (Len(u) + j <= Len(u))
        /\ (Len(u) + j) - Len(u) = j
    BY <1>1
  <2>3. (u \o t)[Len(u) + j] = t[(Len(u) + j) - Len(u)]
    BY <1>0, <2>2
  <2> QED BY <2>2, <2>3
<1> QED BY <1>0, <1>1, <1>2, <1>3 DEF t

\* The same, counted from the last one.
LEMMA ReplacedView ==
    ASSUME NEW q \in Seq(Instr), q # <<>>, NEW u \in Seq(Instr), NEW n \in Nat
    PROVE  View(u \o Tail(q), n) =
             IF n < Len(q) - 1 THEN View(q, n)
             ELSE IF n < Len(q) - 1 + Len(u) THEN u[Len(u) - (n - (Len(q) - 1))]
             ELSE None
<1> DEFINE r == u \o Tail(q)
<1>1. /\ r \in Seq(Instr) /\ Len(r) = Len(u) + Len(q) - 1
      /\ \A j \in 1..Len(u) : r[j] = u[j]
      /\ \A j \in 1..(Len(q) - 1) : r[Len(u) + j] = q[j + 1]
  BY Replaced
<1>2. Len(q) \in Nat \ {0} /\ Len(u) \in Nat /\ Len(r) = Len(u) + Len(q) - 1
  BY <1>1
<1> SUFFICES View(r, n) =
             IF n < Len(q) - 1 THEN View(q, n)
             ELSE IF n < Len(q) - 1 + Len(u) THEN u[Len(u) - (n - (Len(q) - 1))]
             ELSE None
  BY DEF r
<1> HIDE DEF r
<1>3. CASE n < Len(q) - 1
  <2>1. PICK i \in 1..(Len(q) - 1) : i = Len(q) - 1 - n
    <3>1. Len(q) - 1 - n \in 1..(Len(q) - 1)
      BY <1>2, <1>3
    <3> QED BY <3>1
  <2>2. r[Len(u) + i] = q[i + 1]
    BY <1>1, <2>1
  <2>3. Len(u) + i = Len(r) - n /\ i + 1 = Len(q) - n /\ n < Len(r) /\ n < Len(q)
    BY <1>1, <1>2, <2>1
  <2>4. r[Len(r) - n] = q[Len(q) - n]
    BY <2>2, <2>3
  <2> QED BY <1>3, <2>3, <2>4 DEF View
<1>4. CASE ~ (n < Len(q) - 1) /\ n < Len(q) - 1 + Len(u)
  <2>1. Len(u) - (n - (Len(q) - 1)) \in 1..Len(u)
    BY <1>2, <1>4
  <2>2. Len(r) - n = Len(u) - (n - (Len(q) - 1))
    BY <1>1, <1>2
  <2>3. r[Len(r) - n] = u[Len(u) - (n - (Len(q) - 1))]
    BY <1>1, <2>1, <2>2
  <2>4. n < Len(r)
    BY <1>1, <1>2, <1>4
  <2> QED BY <1>4, <2>3, <2>4 DEF View
<1>5. CASE ~ (n < Len(q) - 1 + Len(u))
  <2>1. ~ (n < Len(r)) /\ ~ (n < Len(q) - 1)
    BY <1>1, <1>2, <1>5
  <2> QED BY <1>5, <2>1 DEF View, None
<1> QED BY <1>3, <1>4, <1>5

\* The instructions of u are well placed on what is below.
Placed(u, q) ==
    /\ \A j \in 1..Len(u) : Well(u[j])
    /\ \A j \in 1..(Len(u) - 1) : Above(u[j], u[j + 1])
    /\ u # <<>> => /\ ~ (Len(q) > 1) => u[Len(u)].op \in Bottom
                   /\ Len(q) > 1 => Above(u[Len(u)], q[2])

\* A stack keeps its shape.
LEMMA ReplacedShape ==
    ASSUME NEW q, Shape(q), q # <<>>, NEW u \in Seq(Instr), Placed(u, q)
    PROVE  Shape(u \o Tail(q))
<1> DEFINE r == u \o Tail(q)
<1>0. q \in Seq(Instr)
  BY DEF Shape
<1>1. /\ r \in Seq(Instr) /\ Len(r) = Len(u) + Len(q) - 1
      /\ \A j \in 1..Len(u) : r[j] = u[j]
      /\ \A j \in 1..(Len(q) - 1) : r[Len(u) + j] = q[j + 1]
  BY <1>0, Replaced
<1>2. Len(q) \in Nat \ {0} /\ Len(u) \in Nat /\ Len(r) = Len(u) + Len(q) - 1
  BY <1>0, <1>1
<1>2a. /\ \A j \in 1..Len(q) : Well(q[j])
       /\ \A j \in 1..(Len(q) - 1) : Above(q[j], q[j + 1])
       /\ q[Len(q)].op \in Bottom
  BY DEF Shape
<1>2b. /\ \A j \in 1..Len(u) : Well(u[j])
       /\ \A j \in 1..(Len(u) - 1) : Above(u[j], u[j + 1])
       /\ Len(u) > 0 => /\ ~ (Len(q) > 1) => u[Len(u)].op \in Bottom
                        /\ Len(q) > 1 => Above(u[Len(u)], q[2])
  BY <1>2 DEF Placed
<1> HIDE DEF r
<1>3. ASSUME NEW j \in 1..Len(r) PROVE Well(r[j])
  <2>1. CASE j <= Len(u)
    BY <1>1, <1>2, <1>2b, <2>1
  <2>2. CASE j > Len(u)
    <3>1. PICK i \in 1..(Len(q) - 1) : Len(u) + i = j
      <4>1. j - Len(u) \in 1..(Len(q) - 1) /\ Len(u) + (j - Len(u)) = j
        BY <1>1, <1>2, <2>2
      <4> QED BY <4>1
    <3>2. r[Len(u) + i] = q[i + 1] /\ i + 1 \in 1..Len(q)
      BY <1>1, <1>2
    <3> QED BY <1>2a, <3>1, <3>2
  <2> QED BY <1>1, <1>2, <2>1, <2>2
<1>4. ASSUME NEW j \in 1..(Len(r) - 1) PROVE Above(r[j], r[j + 1])
  <2>1. CASE j < Len(u)
    <3>1. j \in 1..(Len(u) - 1) /\ j \in 1..Len(u) /\ j + 1 \in 1..Len(u)
      BY <1>2, <2>1
    <3> QED BY <1>1, <1>2b, <3>1
  <2>2. CASE j = Len(u)
    <3>0. Len(q) - 1 >= 1 /\ Len(u) >= 1
      BY <1>2, <2>2
    <3>1. /\ 1 \in 1..(Len(q) - 1) /\ j + 1 = Len(u) + 1 /\ j \in 1..Len(u)
          /\ Len(u) > 0 /\ Len(q) > 1
      BY <1>2, <2>2, <3>0
    <3>2. r[Len(u) + 1] = q[1 + 1]
      BY <1>1, <3>1
    <3>3. r[j + 1] = q[2] /\ r[j] = u[Len(u)]
      BY <1>1, <2>2, <3>1, <3>2
    <3> QED BY <1>2b, <3>1, <3>3
  <2>3. CASE j > Len(u)
    <3>1. PICK i \in 1..(Len(q) - 1) : Len(u) + i = j
      <4>1. j - Len(u) \in 1..(Len(q) - 1) /\ Len(u) + (j - Len(u)) = j
        BY <1>1, <1>2, <2>3
      <4> QED BY <4>1
    <3>2. i + 1 \in 1..(Len(q) - 1) /\ Len(u) + (i + 1) = j + 1
      BY <1>2, <3>1
    <3>3. r[Len(u) + i] = q[i + 1] /\ r[Len(u) + (i + 1)] = q[(i + 1) + 1]
      BY <1>1, <3>2
    <3>4. Above(q[i + 1], q[(i + 1) + 1])
      BY <1>2a, <3>2
    <3> QED BY <3>1, <3>2, <3>3, <3>4
  <2> QED BY <1>1, <1>2, <2>1, <2>2, <2>3
<1>5. ASSUME r # <<>> PROVE r[Len(r)].op \in Bottom
  <2>0. Len(r) > 0
    BY <1>1, <1>5
  <2>1. CASE ~ (Len(q) > 1)
    <3>1. Len(r) = Len(u) /\ Len(u) \in 1..Len(u) /\ Len(u) > 0
      BY <1>1, <1>2, <2>0, <2>1
    <3> QED BY <1>1, <1>2b, <2>1, <3>1
  <2>2. CASE Len(q) > 1
    <3>0. Len(q) - 1 >= 1
      BY <1>2, <2>2
    <3>1. Len(q) - 1 \in 1..(Len(q) - 1) /\ Len(u) + (Len(q) - 1) = Len(r)
      BY <1>2, <3>0
    <3>2. r[Len(u) + (Len(q) - 1)] = q[(Len(q) - 1) + 1]
      BY <1>1, <3>1
    <3>3. (Len(q) - 1) + 1 = Len(q)
      BY <1>2
    <3> QED BY <1>2a, <3>1, <3>2, <3>3
  <2> QED BY <2>1, <2>2
<1>6. Shape(r)
  BY <1>1, <1>3, <1>4, <1>5 DEF Shape
<1> QED BY <1>6 DEF r

\* The first instruction of q is done.
LEMMA Push0 ==
    ASSUME NEW q, Shape(q), q # <<>>
    PROVE  LET r == <<>> \o Tail(q) IN
           /\ Shape(r) /\ Len(r) = Len(q) - 1
           /\ Len(q) > 1 => r # <<>> /\ r[1] = q[2]
           /\ ~ (Len(q) > 1) => r = <<>>
           /\ \A n \in Nat : View(r, n) = IF n = Len(q) - 1 THEN None ELSE View(q, n)
<1> DEFINE r == <<>> \o Tail(q)
<1>1. q \in Seq(Instr) /\ <<>> \in Seq(Instr) /\ Len(<<>>) = 0 /\ Len(q) \in Nat \ {0}
  BY DEF Shape
<1>0. Placed(<<>>, q)
  BY <1>1 DEF Placed
<1>2. Shape(r)
  BY <1>0, <1>1, ReplacedShape
<1>3. /\ r \in Seq(Instr) /\ Len(r) = Len(<<>>) + Len(q) - 1
      /\ \A j \in 1..(Len(q) - 1) : r[Len(<<>>) + j] = q[j + 1]
  BY <1>1, Replaced
<1>4. ASSUME NEW n \in Nat
      PROVE  View(r, n) = IF n < Len(q) - 1 THEN View(q, n)
                          ELSE IF n < Len(q) - 1 + Len(<<>>)
                          THEN <<>>[Len(<<>>) - (n - (Len(q) - 1))] ELSE None
  BY <1>1, ReplacedView
<1>5. ASSUME NEW n \in Nat
      PROVE  View(r, n) = IF n = Len(q) - 1 THEN None ELSE View(q, n)
  <2>1. View(r, n) = IF n < Len(q) - 1 THEN View(q, n) ELSE None
    BY <1>1, <1>4
  <2>2. n > Len(q) - 1 => View(q, n) = None
    BY <1>1 DEF View
  <2> QED BY <1>1, <2>1, <2>2
<1> HIDE DEF r
<1>6. ASSUME Len(q) > 1 PROVE r # <<>> /\ r[1] = q[2]
  <2>1. 1 \in 1..(Len(q) - 1) /\ Len(r) > 0
    BY <1>1, <1>3, <1>6
  <2>2. r[Len(<<>>) + 1] = q[1 + 1]
    BY <1>3, <2>1
  <2> QED BY <1>1, <1>3, <2>1, <2>2
<1>7. ASSUME ~ (Len(q) > 1) PROVE r = <<>>
  BY <1>1, <1>3, <1>7
<1>8. Len(r) = Len(q) - 1
  BY <1>1, <1>3
<1> QED BY <1>2, <1>5, <1>6, <1>7, <1>8 DEF r

\* It is replaced by a ...
LEMMA Push1 ==
    ASSUME NEW q, Shape(q), q # <<>>, NEW a \in Instr, Well(a),
           Len(q) > 1 => Above(a, q[2]), ~ (Len(q) > 1) => a.op \in Bottom
    PROVE  LET r == <<a>> \o Tail(q) IN
           /\ Shape(r) /\ Len(r) = Len(q) /\ r # <<>> /\ r[1] = a
           /\ Len(q) > 1 => r[2] = q[2]
           /\ \A n \in Nat : View(r, n) = IF n = Len(q) - 1 THEN a ELSE View(q, n)
<1> DEFINE u == <<a>>
<1> DEFINE r == u \o Tail(q)
<1>1. q \in Seq(Instr) /\ Len(q) \in Nat \ {0}
  BY DEF Shape
<1>0. u \in Seq(Instr) /\ Len(u) = 1 /\ u[1] = a /\ u # <<>>
  OBVIOUS
<1> HIDE DEF u
<1>9. Placed(u, q)
  BY <1>0 DEF Placed
<1>2. Shape(r)
  BY <1>0, <1>9, ReplacedShape
<1>3. /\ r \in Seq(Instr) /\ Len(r) = Len(u) + Len(q) - 1
      /\ \A j \in 1..Len(u) : r[j] = u[j]
      /\ \A j \in 1..(Len(q) - 1) : r[Len(u) + j] = q[j + 1]
  BY <1>0, <1>1, Replaced
<1>5. ASSUME NEW n \in Nat
      PROVE  View(r, n) = IF n = Len(q) - 1 THEN a ELSE View(q, n)
  <2>0. View(r, n) = IF n < Len(q) - 1 THEN View(q, n)
                     ELSE IF n < Len(q) - 1 + Len(u)
                     THEN u[Len(u) - (n - (Len(q) - 1))] ELSE None
    BY <1>0, <1>1, ReplacedView
  <2>1. CASE n < Len(q) - 1
    BY <1>1, <2>0, <2>1
  <2>2. CASE n = Len(q) - 1
    <3>1. Len(u) - (n - (Len(q) - 1)) = 1 /\ n < Len(q) - 1 + Len(u)
      BY <1>0, <1>1, <2>2
    <3> QED BY <1>0, <1>1, <2>0, <2>2, <3>1
  <2>3. CASE n > Len(q) - 1
    <3>1. ~ (n < Len(q) - 1 + Len(u)) /\ ~ (n < Len(q) - 1) /\ ~ (n < Len(q))
      BY <1>0, <1>1, <2>3
    <3>2. View(q, n) = None
      BY <3>1 DEF View
    <3> QED BY <1>1, <2>0, <2>3, <3>1, <3>2
  <2> QED BY <1>1, <2>1, <2>2, <2>3
<1> HIDE DEF r
<1>6. r # <<>> /\ r[1] = a /\ Len(r) = Len(q)
  <2>1. Len(r) = Len(q) /\ Len(r) > 0 /\ 1 \in 1..Len(u)
    BY <1>0, <1>1, <1>3
  <2> QED BY <1>0, <1>3, <2>1
<1>7. ASSUME Len(q) > 1 PROVE r[2] = q[2]
  <2>1. 1 \in 1..(Len(q) - 1) /\ Len(u) + 1 = 2
    BY <1>0, <1>1, <1>7
  <2>2. r[Len(u) + 1] = q[1 + 1]
    BY <1>3, <2>1
  <2> QED BY <2>1, <2>2
<1> QED BY <1>2, <1>5, <1>6, <1>7 DEF r, u

\* ... by a and b ...
LEMMA Push2 ==
    ASSUME NEW q, Shape(q), q # <<>>, NEW a \in Instr, Well(a), NEW b \in Instr, Well(b),
           Above(a, b), Len(q) > 1 => Above(b, q[2]), ~ (Len(q) > 1) => b.op \in Bottom
    PROVE  LET r == <<a, b>> \o Tail(q) IN
           /\ Shape(r) /\ Len(r) = Len(q) + 1 /\ r # <<>> /\ r[1] = a /\ r[2] = b
           /\ \A n \in Nat : View(r, n) = IF n = Len(q) THEN a
                                          ELSE IF n = Len(q) - 1 THEN b ELSE View(q, n)
<1> DEFINE u == <<a, b>>
<1> DEFINE r == u \o Tail(q)
<1>1. q \in Seq(Instr) /\ Len(q) \in Nat \ {0}
  BY DEF Shape
<1>0. u \in Seq(Instr) /\ Len(u) = 2 /\ u[1] = a /\ u[2] = b /\ u # <<>>
  OBVIOUS
<1> HIDE DEF u
<1>9. Placed(u, q)
  <2>1. ASSUME NEW j \in 1..Len(u) PROVE Well(u[j])
    <3>1. j = 1 \/ j = 2
      BY <1>0
    <3> QED BY <1>0, <3>1
  <2>2. ASSUME NEW j \in 1..(Len(u) - 1) PROVE Above(u[j], u[j + 1])
    <3>1. j = 1 /\ j + 1 = 2
      BY <1>0
    <3> QED BY <1>0, <3>1
  <2> QED BY <1>0, <2>1, <2>2 DEF Placed
<1>2. Shape(r)
  BY <1>0, <1>9, ReplacedShape
<1>3. /\ r \in Seq(Instr) /\ Len(r) = Len(u) + Len(q) - 1
      /\ \A j \in 1..Len(u) : r[j] = u[j]
  BY <1>0, <1>1, Replaced
<1>5. ASSUME NEW n \in Nat
      PROVE  View(r, n) = IF n = Len(q) THEN a
                          ELSE IF n = Len(q) - 1 THEN b ELSE View(q, n)
  <2>0. View(r, n) = IF n < Len(q) - 1 THEN View(q, n)
                     ELSE IF n < Len(q) - 1 + Len(u)
                     THEN u[Len(u) - (n - (Len(q) - 1))] ELSE None
    BY <1>0, <1>1, ReplacedView
  <2>1. CASE n < Len(q) - 1
    BY <1>1, <2>0, <2>1
  <2>2. CASE n = Len(q) - 1
    <3>1. /\ Len(u) - (n - (Len(q) - 1)) = 2 /\ n < Len(q) - 1 + Len(u)
          /\ n # Len(q) /\ ~ (n < Len(q) - 1)
      BY <1>0, <1>1, <2>2
    <3> QED BY <1>0, <2>0, <2>2, <3>1
  <2>3. CASE n = Len(q)
    <3>1. /\ Len(u) - (n - (Len(q) - 1)) = 1 /\ n < Len(q) - 1 + Len(u)
          /\ ~ (n < Len(q) - 1)
      BY <1>0, <1>1, <2>3
    <3> QED BY <1>0, <2>0, <2>3, <3>1
  <2>4. CASE n > Len(q)
    <3>1. /\ ~ (n < Len(q) - 1 + Len(u)) /\ ~ (n < Len(q) - 1) /\ ~ (n < Len(q))
          /\ n # Len(q) /\ n # Len(q) - 1
      BY <1>0, <1>1, <2>4
    <3>2. View(q, n) = None
      BY <3>1 DEF View
    <3> QED BY <2>0, <3>1, <3>2
  <2> QED BY <1>1, <2>1, <2>2, <2>3, <2>4
<1> HIDE DEF r
<1>6. r # <<>> /\ r[1] = a /\ r[2] = b /\ Len(r) = Len(q) + 1
  <2>1. Len(r) = Len(q) + 1 /\ Len(r) > 0 /\ 1 \in 1..Len(u) /\ 2 \in 1..Len(u)
    BY <1>0, <1>1, <1>3
  <2> QED BY <1>0, <1>3, <2>1
<1> QED BY <1>2, <1>5, <1>6 DEF r, u

\* ... by a, b and c.
LEMMA Push3 ==
    ASSUME NEW q, Shape(q), q # <<>>, NEW a \in Instr, Well(a), NEW b \in Instr, Well(b),
           NEW c \in Instr, Well(c), Above(a, b), Above(b, c),
           Len(q) > 1 => Above(c, q[2]), ~ (Len(q) > 1) => c.op \in Bottom
    PROVE  LET r == <<a, b, c>> \o Tail(q) IN
           /\ Shape(r) /\ Len(r) = Len(q) + 2 /\ r # <<>> /\ r[1] = a /\ r[2] = b
           /\ \A n \in Nat : View(r, n) = IF n = Len(q) + 1 THEN a
                                          ELSE IF n = Len(q) THEN b
                                          ELSE IF n = Len(q) - 1 THEN c ELSE View(q, n)
<1> DEFINE u == <<a, b, c>>
<1> DEFINE r == u \o Tail(q)
<1>1. q \in Seq(Instr) /\ Len(q) \in Nat \ {0}
  BY DEF Shape
<1>0. u \in Seq(Instr) /\ Len(u) = 3 /\ u[1] = a /\ u[2] = b /\ u[3] = c /\ u # <<>>
  OBVIOUS
<1> HIDE DEF u
<1>9. Placed(u, q)
  <2>1. ASSUME NEW j \in 1..Len(u) PROVE Well(u[j])
    <3>1. j = 1 \/ j = 2 \/ j = 3
      BY <1>0
    <3> QED BY <1>0, <3>1
  <2>2. ASSUME NEW j \in 1..(Len(u) - 1) PROVE Above(u[j], u[j + 1])
    <3>1. (j = 1 /\ j + 1 = 2) \/ (j = 2 /\ j + 1 = 3)
      BY <1>0
    <3> QED BY <1>0, <3>1
  <2> QED BY <1>0, <2>1, <2>2 DEF Placed
<1>2. Shape(r)
  BY <1>0, <1>9, ReplacedShape
<1>3. /\ r \in Seq(Instr) /\ Len(r) = Len(u) + Len(q) - 1
      /\ \A j \in 1..Len(u) : r[j] = u[j]
  BY <1>0, <1>1, Replaced
<1>5. ASSUME NEW n \in Nat
      PROVE  View(r, n) = IF n = Len(q) + 1 THEN a ELSE IF n = Len(q) THEN b
                          ELSE IF n = Len(q) - 1 THEN c ELSE View(q, n)
  <2>0. View(r, n) = IF n < Len(q) - 1 THEN View(q, n)
                     ELSE IF n < Len(q) - 1 + Len(u)
                     THEN u[Len(u) - (n - (Len(q) - 1))] ELSE None
    BY <1>0, <1>1, ReplacedView
  <2>1. CASE n < Len(q) - 1
    BY <1>1, <2>0, <2>1
  <2>2. CASE n = Len(q) - 1
    <3>1. /\ Len(u) - (n - (Len(q) - 1)) = 3 /\ n < Len(q) - 1 + Len(u)
          /\ n # Len(q) /\ n # Len(q) + 1 /\ ~ (n < Len(q) - 1)
      BY <1>0, <1>1, <2>2
    <3> QED BY <1>0, <2>0, <2>2, <3>1
  <2>3. CASE n = Len(q)
    <3>1. /\ Len(u) - (n - (Len(q) - 1)) = 2 /\ n < Len(q) - 1 + Len(u)
          /\ ~ (n < Len(q) - 1) /\ n # Len(q) + 1
      BY <1>0, <1>1, <2>3
    <3> QED BY <1>0, <2>0, <2>3, <3>1
  <2>5. CASE n = Len(q) + 1
    <3>1. /\ Len(u) - (n - (Len(q) - 1)) = 1 /\ n < Len(q) - 1 + Len(u)
          /\ ~ (n < Len(q) - 1)
      BY <1>0, <1>1, <2>5
    <3> QED BY <1>0, <2>0, <2>5, <3>1
  <2>4. CASE n > Len(q) + 1
    <3>1. /\ ~ (n < Len(q) - 1 + Len(u)) /\ ~ (n < Len(q) - 1) /\ ~ (n < Len(q))
          /\ n # Len(q) /\ n # Len(q) - 1 /\ n # Len(q) + 1
      BY <1>0, <1>1, <2>4
    <3>2. View(q, n) = None
      BY <3>1 DEF View
    <3> QED BY <2>0, <3>1, <3>2
  <2> QED BY <1>1, <2>1, <2>2, <2>3, <2>4, <2>5
<1> HIDE DEF r
<1>6. r # <<>> /\ r[1] = a /\ r[2] = b /\ Len(r) = Len(q) + 2
  <2>1. Len(r) = Len(q) + 2 /\ Len(r) > 0 /\ 1 \in 1..Len(u) /\ 2 \in 1..Len(u)
    BY <1>0, <1>1, <1>3
  <2> QED BY <1>0, <1>3, <2>1
<1> QED BY <1>2, <1>5, <1>6 DEF r, u

-----------------------------------------------------------------------------
(* Counting references.                                                     *)

Is(a, s)  == IF a = s THEN 1 ELSE 0
Own(a, s) == Is(a.s, s) + Is(a.t, s)

\* These are numbers, and nothing is owned by no instruction.
LEMMA OwnNumber ==
    ASSUME NEW s \in Slots
    PROVE  /\ \A a : Own(a, s) \in 0..2 /\ Is(a, s) \in 0..1
           /\ Own(None, s) = 0 /\ Is(NULL, s) = 0 /\ Is(s, s) = 1
  BY DEF Own, Is, None, Ins, Slots, NULL

\* One value of a function changes.
LEMMA FibSet ==
    ASSUME NEW G, NEW H, DOMAIN H = DOMAIN G, NEW x \in DOMAIN G,
           \A z \in DOMAIN G : z # x => H[z] = G[z], NEW v, IsFiniteSet(Fib(G, v))
    PROVE  /\ IsFiniteSet(Fib(H, v))
           /\ Cardinality(Fib(H, v)) = Cardinality(Fib(G, v)) - Is(G[x], v) + Is(H[x], v)
<1> DEFINE F == Fib(G, v)
<1>1. Fib(H, v) = IF H[x] = v THEN F \cup {x} ELSE F \ {x}
  BY DEF Fib
<1>2. x \in F <=> G[x] = v
  BY DEF Fib
<1>3. /\ IsFiniteSet(F \cup {x}) /\ Cardinality(F) \in Nat
      /\ Cardinality(F \cup {x}) = IF x \in F THEN Cardinality(F) ELSE Cardinality(F) + 1
  BY FS_AddElement, FS_CardinalityType
<1>4. /\ IsFiniteSet(F \ {x})
      /\ Cardinality(F \ {x}) = IF x \in F THEN Cardinality(F) - 1 ELSE Cardinality(F)
  BY FS_RemoveElement
<1> HIDE DEF F
<1> QED BY <1>1, <1>2, <1>3, <1>4 DEF Is, F

\* Instructions that can take the place of the first one of stack q.
Fit1(a, q) ==
    /\ a \in Instr /\ Well(a)
    /\ Len(q) > 1 => Above(a, q[2])
    /\ ~ (Len(q) > 1) => a.op \in Bottom
Fit2(a, b, q)    == a \in Instr /\ Well(a) /\ Above(a, b) /\ Fit1(b, q)
Fit3(a, b, c, q) == a \in Instr /\ Well(a) /\ Above(a, b) /\ Fit2(b, c, q)

Stacks == [Procs -> Seq(Instr)]
Regs   == [Procs -> 0..NINODE]
Table  == [1..NFILE -> [ref : Nat, ip : 0..NINODE]]

\* One place gets another reference.
LEMMA CountSet ==
    ASSUME NEW A, NEW B, DOMAIN A = Places, DOMAIN B = Places, NEW x \in Places,
           \A z \in Places : z # x => B[z] = A[z], Finite(A)
    PROVE  /\ Finite(B)
           /\ \A s \in Slots : Count(B, s) = Count(A, s) - Is(A[x], s) + Is(B[x], s)
  BY FibSet DEF Finite, Count

\* The places are told apart by their parts.
LEMMA PlaceParts ==
    ASSUME NEW z \in Places, NEW a, NEW t, NEW n
    PROVE  z = <<a, t, n>> <=> z[1] = a /\ z[2] = t /\ z[3] = n
  BY DEF Places

\* Where a reference may be.
LEMMA PlaceKinds ==
    ASSUME NEW z \in Places
    PROVE  /\ z[2] \in {"s", "t", "res", "cwd", "file"}
           /\ z[2] \in {"s", "t"} => z[1] \in Procs /\ z[3] \in Nat
           /\ z[2] \in {"res", "cwd"} => z[1] \in Procs /\ z[3] = 0
           /\ z[2] = "file" => z[1] \in 1..NFILE /\ z[3] = 0
  BY DEF Places

\* Two functions are the same except for process p, two families of stacks except for
\* its instruction n.
Others(g, h, p) == p \in Procs /\ \A z \in Procs : z # p => h[z] = g[z]
Alike(kk, k2, p, n) ==
    /\ Others(kk, k2, p) /\ n \in Nat
    /\ \A m \in Nat : m # n => View(k2[p], m) = View(kk[p], m)

\* The first instruction of process p is replaced by those of u.
Pushed(kk, k2, p, u) ==
    Others(kk, k2, p) /\ Shape(kk[p]) /\ kk[p] # <<>> /\ k2[p] = u \o Tail(kk[p])

\* Between places A and B one instruction has changed.
Exchange(A, B, old, new) ==
    Finite(B) /\ \A s \in Slots : Count(B, s) = Count(A, s) - Own(old, s) + Own(new, s)

\* The references that are counted after an instruction has changed, ...
LEMMA CountStack ==
    ASSUME NEW kk, NEW k2, NEW rr, NEW cc, NEW ff, NEW p, NEW n, Alike(kk, k2, p, n),
           Finite(At(kk, rr, cc, ff))
    PROVE  Exchange(At(kk, rr, cc, ff), At(k2, rr, cc, ff), View(kk[p], n), View(k2[p], n))
<1> DEFINE A == At(kk, rr, cc, ff)
<1> DEFINE C == At(k2, rr, cc, ff)
<1> DEFINE x == <<p, "s", n>>
<1> DEFINE y == <<p, "t", n>>
<1> DEFINE B == [z \in Places |-> IF z = x THEN C[x] ELSE A[z]]
<1>0. /\ p \in Procs /\ n \in Nat /\ \A z \in Procs : z # p => k2[z] = kk[z]
      /\ \A m \in Nat : m # n => View(k2[p], m) = View(kk[p], m)
  BY DEF Alike, Others
<1>1. /\ x \in Places /\ y \in Places /\ x # y
      /\ DOMAIN A = Places /\ DOMAIN B = Places /\ DOMAIN C = Places
  BY <1>0 DEF At, Places
<1>2. /\ A[x] = View(kk[p], n).s /\ A[y] = View(kk[p], n).t
      /\ C[x] = View(k2[p], n).s /\ C[y] = View(k2[p], n).t
  BY <1>1 DEF At
<1>3. ASSUME NEW z \in Places, z # x, z # y PROVE C[z] = A[z]
  <2>1. z[2] \in {"s", "t"} => z[1] \in Procs /\ z[3] \in Nat
    BY PlaceKinds
  <2>2. /\ ~ (z[1] = p /\ z[2] = "s" /\ z[3] = n)
        /\ ~ (z[1] = p /\ z[2] = "t" /\ z[3] = n)
    BY <1>3, PlaceParts
  <2>3. CASE z[2] \in {"s", "t"} /\ z[1] = p
    BY <1>0, <2>1, <2>2, <2>3 DEF At
  <2>4. CASE z[2] \in {"s", "t"} /\ z[1] # p
    <3>1. k2[z[1]] = kk[z[1]]
      BY <1>0, <2>1, <2>4
    <3> QED BY <2>4, <3>1 DEF At
  <2>5. CASE z[2] \notin {"s", "t"}
    BY <2>5 DEF At
  <2> QED BY <2>3, <2>4, <2>5
<1>4. B[x] = C[x] /\ B[y] = A[y] /\ \A z \in Places : z # x => B[z] = A[z]
  BY <1>1
<1>5. \A z \in Places : z # y => C[z] = B[z]
  BY <1>3
<1> HIDE DEF A, B, C, x, y
<1>6. /\ Finite(B)
      /\ \A s \in Slots : Count(B, s) = Count(A, s) - Is(A[x], s) + Is(B[x], s)
  BY <1>1, <1>4, CountSet DEF A
<1>7. /\ Finite(C)
      /\ \A s \in Slots : Count(C, s) = Count(B, s) - Is(B[y], s) + Is(C[y], s)
  BY <1>1, <1>5, <1>6, CountSet
<1>8. ASSUME NEW s \in Slots
      PROVE  Count(C, s) = Count(A, s) - Own(View(kk[p], n), s) + Own(View(k2[p], n), s)
  <2>1. Count(A, s) \in Int
    BY FS_CardinalityType DEF A, Finite, Count
  <2>2. /\ Is(A[x], s) \in Int /\ Is(A[y], s) \in Int
        /\ Is(C[x], s) \in Int /\ Is(C[y], s) \in Int
    BY OwnNumber
  <2>3. /\ Own(View(kk[p], n), s) = Is(A[x], s) + Is(A[y], s)
        /\ Own(View(k2[p], n), s) = Is(C[x], s) + Is(C[y], s)
    BY <1>2 DEF Own
  <2> QED BY <1>4, <1>6, <1>7, <2>1, <2>2, <2>3
<1> QED BY <1>7, <1>8 DEF A, C, Exchange

\* ... a result, ...
LEMMA CountRes ==
    ASSUME NEW kk, NEW rr, NEW r2, NEW cc, NEW ff, NEW p, Others(rr, r2, p),
           Finite(At(kk, rr, cc, ff))
    PROVE  /\ Finite(At(kk, r2, cc, ff))
           /\ \A s \in Slots : Count(At(kk, r2, cc, ff), s) =
                                 Count(At(kk, rr, cc, ff), s) - Is(rr[p], s) + Is(r2[p], s)
<1> DEFINE A == At(kk, rr, cc, ff)
<1> DEFINE B == At(kk, r2, cc, ff)
<1> DEFINE x == <<p, "res", 0>>
<1>1. x \in Places /\ DOMAIN A = Places /\ DOMAIN B = Places
  BY DEF At, Places, Others
<1>2. A[x] = rr[p] /\ B[x] = r2[p]
  BY <1>1 DEF At
<1>3. ASSUME NEW z \in Places, z # x PROVE B[z] = A[z]
  <2>1. /\ z[2] = "res" => z[1] \in Procs /\ z[3] = 0
        /\ ~ (z[1] = p /\ z[2] = "res" /\ z[3] = 0)
    BY <1>3, PlaceParts, PlaceKinds
  <2> QED BY <2>1 DEF At, Others
<1> HIDE DEF A, B, x
<1>4. /\ Finite(B)
      /\ \A s \in Slots : Count(B, s) = Count(A, s) - Is(A[x], s) + Is(B[x], s)
  BY <1>1, <1>3, CountSet DEF A
<1> QED BY <1>2, <1>4 DEF A, B

\* ... a current directory ...
LEMMA CountCwd ==
    ASSUME NEW kk, NEW rr, NEW cc, NEW c2, NEW ff, NEW p, Others(cc, c2, p),
           Finite(At(kk, rr, cc, ff))
    PROVE  /\ Finite(At(kk, rr, c2, ff))
           /\ \A s \in Slots : Count(At(kk, rr, c2, ff), s) =
                                 Count(At(kk, rr, cc, ff), s) - Is(cc[p], s) + Is(c2[p], s)
<1> DEFINE A == At(kk, rr, cc, ff)
<1> DEFINE B == At(kk, rr, c2, ff)
<1> DEFINE x == <<p, "cwd", 0>>
<1>1. x \in Places /\ DOMAIN A = Places /\ DOMAIN B = Places
  BY DEF At, Places, Others
<1>2. A[x] = cc[p] /\ B[x] = c2[p]
  BY <1>1 DEF At
<1>3. ASSUME NEW z \in Places, z # x PROVE B[z] = A[z]
  <2>1. /\ z[2] = "cwd" => z[1] \in Procs /\ z[3] = 0
        /\ ~ (z[1] = p /\ z[2] = "cwd" /\ z[3] = 0)
    BY <1>3, PlaceParts, PlaceKinds
  <2> QED BY <2>1 DEF At, Others
<1> HIDE DEF A, B, x
<1>4. /\ Finite(B)
      /\ \A s \in Slots : Count(B, s) = Count(A, s) - Is(A[x], s) + Is(B[x], s)
  BY <1>1, <1>3, CountSet DEF A
<1> QED BY <1>2, <1>4 DEF A, B

FileIp(e) == IF e.ref > 0 THEN e.ip ELSE NULL
OtherFiles(g, h, f) ==
    f \in 1..NFILE /\ \A z \in 1..NFILE : z # f => FileIp(h[z]) = FileIp(g[z])

\* ... or a file.
LEMMA CountFile ==
    ASSUME NEW kk, NEW rr, NEW cc, NEW ff, NEW f2, NEW f, OtherFiles(ff, f2, f),
           Finite(At(kk, rr, cc, ff))
    PROVE  /\ Finite(At(kk, rr, cc, f2))
           /\ \A s \in Slots :
                 Count(At(kk, rr, cc, f2), s) =
                   Count(At(kk, rr, cc, ff), s) - Is(FileIp(ff[f]), s) + Is(FileIp(f2[f]), s)
<1> DEFINE A == At(kk, rr, cc, ff)
<1> DEFINE B == At(kk, rr, cc, f2)
<1> DEFINE x == <<f, "file", 0>>
<1>1. x \in Places /\ DOMAIN A = Places /\ DOMAIN B = Places
  BY DEF At, Places, OtherFiles
<1>2. A[x] = FileIp(ff[f]) /\ B[x] = FileIp(f2[f])
  BY <1>1 DEF At, FileIp
<1>3. ASSUME NEW z \in Places, z # x PROVE B[z] = A[z]
  <2>1. /\ z[2] = "file" => z[1] \in 1..NFILE /\ z[3] = 0
        /\ ~ (z[1] = f /\ z[2] = "file" /\ z[3] = 0)
        /\ z[2] \in {"s", "t", "res", "cwd", "file"}
    BY <1>3, PlaceParts, PlaceKinds
  <2>2. CASE z[2] = "file"
    <3>1. FileIp(f2[z[1]]) = FileIp(ff[z[1]])
      BY <2>1, <2>2 DEF OtherFiles
    <3> QED BY <2>2, <3>1 DEF At, FileIp
  <2> QED BY <2>1, <2>2 DEF At
<1> HIDE DEF A, B, x
<1>4. /\ Finite(B)
      /\ \A s \in Slots : Count(B, s) = Count(A, s) - Is(A[x], s) + Is(B[x], s)
  BY <1>1, <1>3, CountSet DEF A
<1> QED BY <1>2, <1>4 DEF A, B

\* The first instruction of a process is done, ...
LEMMA Count0 ==
    ASSUME NEW kk, NEW k2, NEW rr, NEW cc, NEW ff, NEW p,
           Pushed(kk, k2, p, <<>>), Finite(At(kk, rr, cc, ff))
    PROVE  /\ Finite(At(k2, rr, cc, ff))
           /\ \A s \in Slots : Count(At(k2, rr, cc, ff), s) =
                                 Count(At(kk, rr, cc, ff), s) - Own(kk[p][1], s)
<1> DEFINE n0 == Len(kk[p])
<1>0. /\ Others(kk, k2, p) /\ Shape(kk[p]) /\ kk[p] # <<>>
      /\ k2[p] = <<>> \o Tail(kk[p])
  BY DEF Pushed
<1>1. kk[p] \in Seq(Instr) /\ n0 \in Nat \ {0}
  BY <1>0 DEF Shape
<1>2. View(kk[p], n0 - 1) = kk[p][1]
  BY <1>1 DEF View
<1>3. \A n \in Nat : View(k2[p], n) = IF n = n0 - 1 THEN None ELSE View(kk[p], n)
  BY <1>0, Push0
<1> HIDE DEF n0
<1>4. /\ \A m \in Nat : m # n0 - 1 => View(k2[p], m) = View(kk[p], m)
      /\ View(k2[p], n0 - 1) = None /\ n0 - 1 \in Nat
  BY <1>1, <1>3
<1>5. Alike(kk, k2, p, n0 - 1)
  BY <1>0, <1>4 DEF Alike
<1>6. Exchange(At(kk, rr, cc, ff), At(k2, rr, cc, ff), View(kk[p], n0 - 1), View(k2[p], n0 - 1))
  BY <1>5, CountStack, Zenon
<1>7. ASSUME NEW s \in Slots
      PROVE  Count(At(k2, rr, cc, ff), s) = Count(At(kk, rr, cc, ff), s) - Own(kk[p][1], s)
  <2>1. /\ Count(At(kk, rr, cc, ff), s) \in Int
        /\ Own(kk[p][1], s) \in Int /\ Own(None, s) = 0
    BY OwnNumber, FS_CardinalityType DEF Finite, Count
  <2>2. Count(At(k2, rr, cc, ff), s) = Count(At(kk, rr, cc, ff), s) - Own(kk[p][1], s) + Own(None, s)
    BY <1>2, <1>4, <1>6 DEF Exchange
  <2> QED BY <2>1, <2>2
<1> QED BY <1>6, <1>7 DEF Exchange

\* ... is replaced by a, ...
LEMMA Count1 ==
    ASSUME NEW kk, NEW k2, NEW rr, NEW cc, NEW ff, NEW p,
           NEW a, Fit1(a, kk[p]), Pushed(kk, k2, p, <<a>>), Finite(At(kk, rr, cc, ff))
    PROVE  /\ Finite(At(k2, rr, cc, ff))
           /\ \A s \in Slots : Count(At(k2, rr, cc, ff), s) =
                                 Count(At(kk, rr, cc, ff), s) - Own(kk[p][1], s)
                                   + Own(a, s)
<1> DEFINE n0 == Len(kk[p])
<1>0. /\ Others(kk, k2, p) /\ Shape(kk[p]) /\ kk[p] # <<>>
      /\ k2[p] = <<a>> \o Tail(kk[p])
  BY DEF Pushed
<1>1. kk[p] \in Seq(Instr) /\ n0 \in Nat \ {0}
  BY <1>0 DEF Shape
<1>2. View(kk[p], n0 - 1) = kk[p][1]
  BY <1>1 DEF View
<1>3. \A n \in Nat : View(k2[p], n) = IF n = n0 - 1 THEN a ELSE View(kk[p], n)
  BY <1>0, Push1 DEF Fit1
<1> HIDE DEF n0
<1>4. /\ \A m \in Nat : m # n0 - 1 => View(k2[p], m) = View(kk[p], m)
      /\ View(k2[p], n0 - 1) = a /\ n0 - 1 \in Nat
  BY <1>1, <1>3
<1>5. Alike(kk, k2, p, n0 - 1)
  BY <1>0, <1>4 DEF Alike
<1>6. Exchange(At(kk, rr, cc, ff), At(k2, rr, cc, ff), View(kk[p], n0 - 1), View(k2[p], n0 - 1))
  BY <1>5, CountStack, Zenon
<1> QED BY <1>2, <1>4, <1>6 DEF Exchange

\* ... by a and b, ...
LEMMA Count2 ==
    ASSUME NEW kk, NEW k2, NEW rr, NEW cc, NEW ff, NEW p,
           NEW a, NEW b, Fit2(a, b, kk[p]), Pushed(kk, k2, p, <<a, b>>), Finite(At(kk, rr, cc, ff))
    PROVE  /\ Finite(At(k2, rr, cc, ff))
           /\ \A s \in Slots : Count(At(k2, rr, cc, ff), s) =
                                 Count(At(kk, rr, cc, ff), s) - Own(kk[p][1], s)
                                   + Own(a, s) + Own(b, s)
<1> DEFINE n0 == Len(kk[p])
<1>0. /\ Others(kk, k2, p) /\ Shape(kk[p]) /\ kk[p] # <<>>
      /\ k2[p] = <<a, b>> \o Tail(kk[p])
  BY DEF Pushed
<1>1. kk[p] \in Seq(Instr) /\ n0 \in Nat \ {0}
  BY <1>0 DEF Shape
<1>2. View(kk[p], n0 - 1) = kk[p][1]
  BY <1>1 DEF View
<1>3. \A n \in Nat : View(k2[p], n) = IF n = n0 THEN a
              ELSE IF n = n0 - 1 THEN b ELSE View(kk[p], n)
  BY <1>0, Push2 DEF Fit1, Fit2
<1> HIDE DEF n0
<1> DEFINE q1 == <<b>> \o Tail(kk[p])
<1> DEFINE k1 == [z \in Procs |-> IF z = p THEN q1 ELSE kk[z]]
<1>4. /\ Shape(q1) /\ Len(q1) = n0
      /\ \A n \in Nat : View(q1, n) = IF n = n0 - 1 THEN b ELSE View(kk[p], n)
  BY <1>0, Push1 DEF n0, Fit1, Fit2
<1> HIDE DEF q1
<1>5. k1[p] = q1 /\ Others(kk, k1, p) /\ Others(k1, k2, p)
  BY <1>0 DEF Others
<1> HIDE DEF k1
<1>6. /\ \A m \in Nat : m # n0 => View(k2[p], m) = View(k1[p], m)
      /\ View(k2[p], n0) = a /\ n0 \in Nat
  <2>1. n0 \in Nat /\ n0 \in Nat
    BY <1>1
  <2>2. ASSUME NEW m \in Nat, m # n0 PROVE View(k2[p], m) = View(k1[p], m)
    BY <1>3, <1>4, <1>5, <2>1, <2>2
  <2>3. View(k2[p], n0) = a
    BY <1>3, <2>1
  <2> QED BY <2>1, <2>2, <2>3
<1>7. Alike(k1, k2, p, n0)
  BY <1>5, <1>6 DEF Alike
<1>8. View(k1[p], n0) = None
  BY <1>1, <1>4, <1>5 DEF View
<1>9. /\ Finite(At(k1, rr, cc, ff))
      /\ \A s \in Slots : Count(At(k1, rr, cc, ff), s) =
                            Count(At(kk, rr, cc, ff), s) - Own(kk[p][1], s) + Own(b, s)
  <2>1. Pushed(kk, k1, p, <<b>>)
    BY <1>0, <1>5 DEF q1, Pushed
  <2>2. Fit1(b, kk[p])
    BY DEF Fit2
  <2> QED BY <2>1, <2>2, Count1
<1>10. Exchange(At(k1, rr, cc, ff), At(k2, rr, cc, ff), View(k1[p], n0), View(k2[p], n0))
  BY <1>7, <1>9, CountStack, Zenon
<1>11. ASSUME NEW s \in Slots
       PROVE  Count(At(k2, rr, cc, ff), s) =
                Count(At(kk, rr, cc, ff), s) - Own(kk[p][1], s)
                  + Own(a, s) + Own(b, s)
  <2>1. /\ Count(At(kk, rr, cc, ff), s) \in Int /\ Own(kk[p][1], s) \in Int
        /\ Own(None, s) = 0 /\ Own(a, s) \in Int /\ Own(b, s) \in Int
    BY OwnNumber, FS_CardinalityType DEF Finite, Count
  <2>2. Count(At(k2, rr, cc, ff), s) = Count(At(k1, rr, cc, ff), s) - Own(None, s) + Own(a, s)
    BY <1>6, <1>8, <1>10 DEF Exchange
  <2>3. Count(At(k1, rr, cc, ff), s) = Count(At(kk, rr, cc, ff), s) - Own(kk[p][1], s) + Own(b, s)
    BY <1>9
  <2> QED BY <2>1, <2>2, <2>3
<1> QED BY <1>10, <1>11 DEF Exchange

\* ... by a, b and c.
LEMMA Count3 ==
    ASSUME NEW kk, NEW k2, NEW rr, NEW cc, NEW ff, NEW p,
           NEW a, NEW b, NEW c, Fit3(a, b, c, kk[p]), Pushed(kk, k2, p, <<a, b, c>>), Finite(At(kk, rr, cc, ff))
    PROVE  /\ Finite(At(k2, rr, cc, ff))
           /\ \A s \in Slots : Count(At(k2, rr, cc, ff), s) =
                                 Count(At(kk, rr, cc, ff), s) - Own(kk[p][1], s)
                                   + Own(a, s) + Own(b, s) + Own(c, s)
<1> DEFINE n0 == Len(kk[p])
<1>0. /\ Others(kk, k2, p) /\ Shape(kk[p]) /\ kk[p] # <<>>
      /\ k2[p] = <<a, b, c>> \o Tail(kk[p])
  BY DEF Pushed
<1>1. kk[p] \in Seq(Instr) /\ n0 \in Nat \ {0}
  BY <1>0 DEF Shape
<1>2. View(kk[p], n0 - 1) = kk[p][1]
  BY <1>1 DEF View
<1>3. \A n \in Nat : View(k2[p], n) = IF n = n0 + 1 THEN a ELSE IF n = n0 THEN b
              ELSE IF n = n0 - 1 THEN c ELSE View(kk[p], n)
  BY <1>0, Push3 DEF Fit1, Fit2, Fit3
<1> HIDE DEF n0
<1> DEFINE q1 == <<b, c>> \o Tail(kk[p])
<1> DEFINE k1 == [z \in Procs |-> IF z = p THEN q1 ELSE kk[z]]
<1>4. /\ Shape(q1) /\ Len(q1) = n0 + 1
      /\ \A n \in Nat : View(q1, n) = IF n = n0 THEN b
              ELSE IF n = n0 - 1 THEN c ELSE View(kk[p], n)
  BY <1>0, Push2 DEF n0, Fit1, Fit2, Fit3
<1> HIDE DEF q1
<1>5. k1[p] = q1 /\ Others(kk, k1, p) /\ Others(k1, k2, p)
  BY <1>0 DEF Others
<1> HIDE DEF k1
<1>6. /\ \A m \in Nat : m # n0 + 1 => View(k2[p], m) = View(k1[p], m)
      /\ View(k2[p], n0 + 1) = a /\ n0 + 1 \in Nat
  <2>1. n0 + 1 \in Nat /\ n0 \in Nat
    BY <1>1
  <2>2. ASSUME NEW m \in Nat, m # n0 + 1 PROVE View(k2[p], m) = View(k1[p], m)
    BY <1>3, <1>4, <1>5, <2>1, <2>2
  <2>3. View(k2[p], n0 + 1) = a
    BY <1>3, <2>1
  <2> QED BY <2>1, <2>2, <2>3
<1>7. Alike(k1, k2, p, n0 + 1)
  BY <1>5, <1>6 DEF Alike
<1>8. View(k1[p], n0 + 1) = None
  BY <1>1, <1>4, <1>5 DEF View
<1>9. /\ Finite(At(k1, rr, cc, ff))
      /\ \A s \in Slots : Count(At(k1, rr, cc, ff), s) =
                            Count(At(kk, rr, cc, ff), s) - Own(kk[p][1], s)
                              + Own(b, s) + Own(c, s)
  <2>1. Pushed(kk, k1, p, <<b, c>>)
    BY <1>0, <1>5 DEF q1, Pushed
  <2>2. Fit2(b, c, kk[p])
    BY DEF Fit3
  <2> QED BY <2>1, <2>2, Count2
<1>10. Exchange(At(k1, rr, cc, ff), At(k2, rr, cc, ff), View(k1[p], n0 + 1), View(k2[p], n0 + 1))
  BY <1>7, <1>9, CountStack, Zenon
<1>11. ASSUME NEW s \in Slots
       PROVE  Count(At(k2, rr, cc, ff), s) =
                Count(At(kk, rr, cc, ff), s) - Own(kk[p][1], s)
                  + Own(a, s) + Own(b, s) + Own(c, s)
  <2>1. /\ Count(At(kk, rr, cc, ff), s) \in Int /\ Own(kk[p][1], s) \in Int
        /\ Own(None, s) = 0 /\ Own(a, s) \in Int /\ Own(b, s) \in Int
        /\ Own(c, s) \in Int
    BY OwnNumber, FS_CardinalityType DEF Finite, Count
  <2>2. Count(At(k2, rr, cc, ff), s) = Count(At(k1, rr, cc, ff), s) - Own(None, s) + Own(a, s)
    BY <1>6, <1>8, <1>10 DEF Exchange
  <2>3. Count(At(k1, rr, cc, ff), s) = Count(At(kk, rr, cc, ff), s) - Own(kk[p][1], s)
                                         + Own(b, s) + Own(c, s)
    BY <1>9
  <2> QED BY <2>1, <2>2, <2>3
<1> QED BY <1>10, <1>11 DEF Exchange

-----------------------------------------------------------------------------
(* The invariant in layers.  The first one is about references.             *)

Base == FilesTypes /\ Calling /\ Refs /\ Unique /\ Descriptors

\* The first instruction of a process.
LEMMA HeadFacts ==
    ASSUME FilesTypes, Calling, NEW p \in Procs, k[p] # <<>>
    PROVE  /\ Arg(p) = k[p][1] /\ k[p][1] \in Instr /\ Well(k[p][1]) /\ Shape(k[p])
           /\ Len(k[p]) \in Nat \ {0} /\ k[p] \in Seq(Instr)
           /\ View(k[p], Len(k[p]) - 1) = k[p][1]
           /\ Len(k[p]) > 1 => /\ Above(k[p][1], k[p][2]) /\ Well(k[p][2])
                               /\ k[p][2] \in Instr
           /\ ~ (Len(k[p]) > 1) => k[p][1].op \in Bottom
<1>1. Shape(k[p])
  BY DEF Calling
<1>2. /\ k[p] \in Seq(Instr)
      /\ \A j \in 1..Len(k[p]) : Well(k[p][j])
      /\ \A j \in 1..(Len(k[p]) - 1) : Above(k[p][j], k[p][j + 1])
      /\ k[p][Len(k[p])].op \in Bottom
  BY <1>1 DEF Shape
<1>3. Len(k[p]) \in Nat \ {0} /\ 1 \in 1..Len(k[p]) /\ Head(k[p]) = k[p][1]
  BY <1>2
<1>4. k[p][1] \in Instr /\ Well(k[p][1])
  BY <1>2, <1>3
<1>5. View(k[p], Len(k[p]) - 1) = k[p][1]
  BY <1>3 DEF View
<1>6. ASSUME Len(k[p]) > 1
      PROVE  Above(k[p][1], k[p][2]) /\ Well(k[p][2]) /\ k[p][2] \in Instr
  <2>1. 1 \in 1..(Len(k[p]) - 1) /\ 2 \in 1..Len(k[p]) /\ 1 + 1 = 2
    BY <1>3, <1>6
  <2>2. Above(k[p][1], k[p][1 + 1])
    BY <1>2, <2>1
  <2> QED BY <1>2, <2>1, <2>2
<1>7. ASSUME ~ (Len(k[p]) > 1) PROVE k[p][1].op \in Bottom
  <2> DEFINE n == Len(k[p])
  <2>1. n \in Nat \ {0} /\ ~ (n > 1)
    BY <1>3, <1>7
  <2>2. k[p][n].op \in Bottom
    BY <1>2
  <2> HIDE DEF n
  <2>3. n = 1
    BY <2>1
  <2> QED BY <2>2, <2>3
<1> QED BY <1>1, <1>2, <1>3, <1>4, <1>5, <1>6, <1>7 DEF Arg

\* A slot that somebody refers to is in use.
Live(s) == s \in Slots /\ ic[s].ref \in Nat \ {0} /\ ic[s].inum \in Inums

\* A slot at some place is referred to.
LEMMA HeldAt ==
    ASSUME FilesTypes, Refs, Unique, NEW x \in Places, NEW s \in Slots,
           At(k, res, cwd, ft)[x] = s
    PROVE  Live(s)
<1> DEFINE A == At(k, res, cwd, ft)
<1>1. IsFiniteSet(Fib(A, s)) /\ Cardinality(Fib(A, s)) = ic[s].ref
  BY DEF Refs, Finite, Count
<1>2. x \in Fib(A, s)
  BY DEF At, Fib
<1>3. Cardinality(Fib(A, s)) \in Nat \ {0}
  BY <1>1, <1>2, FS_EmptySet, FS_CardinalityType
<1> QED BY <1>1, <1>3 DEF Unique, Live

\* The slots that the first instruction, the result or the directory of a process and a
\* file refer to.
LEMMA Held ==
    ASSUME FilesTypes, Calling, Refs, Unique, NEW p \in Procs
    PROVE  /\ k[p] # <<>> /\ k[p][1].op \in SOps => Live(k[p][1].s)
           /\ k[p] # <<>> /\ k[p][1].op \in TOps => Live(k[p][1].t)
           /\ res[p] # NULL => Live(res[p])
           /\ cwd[p] # NULL => Live(cwd[p])
<1> DEFINE A == At(k, res, cwd, ft)
<1>1. ASSUME k[p] # <<>>, k[p][1].op \in SOps PROVE Live(k[p][1].s)
  <2>1. /\ k[p][1] \in Instr /\ Well(k[p][1]) /\ View(k[p], Len(k[p]) - 1) = k[p][1]
        /\ Len(k[p]) \in Nat \ {0}
    BY <1>1, HeadFacts
  <2>2. k[p][1].s \in Slots
    BY <1>1, <2>1 DEF Well, Instr, Slots, NULL
  <2>3. /\ <<p, "s", Len(k[p]) - 1>> \in Places
        /\ A[<<p, "s", Len(k[p]) - 1>>] = View(k[p], Len(k[p]) - 1).s
    BY <2>1 DEF At, Places
  <2>4. A[<<p, "s", Len(k[p]) - 1>>] = k[p][1].s
    BY <2>1, <2>3
  <2> HIDE DEF A
  <2> QED BY <2>2, <2>3, <2>4, HeldAt DEF A
<1>2. ASSUME k[p] # <<>>, k[p][1].op \in TOps PROVE Live(k[p][1].t)
  <2>1. /\ k[p][1] \in Instr /\ Well(k[p][1]) /\ View(k[p], Len(k[p]) - 1) = k[p][1]
        /\ Len(k[p]) \in Nat \ {0}
    BY <1>2, HeadFacts
  <2>2. k[p][1].t \in Slots
    BY <1>2, <2>1 DEF Well, Instr, Slots, NULL
  <2>3. /\ <<p, "t", Len(k[p]) - 1>> \in Places
        /\ A[<<p, "t", Len(k[p]) - 1>>] = View(k[p], Len(k[p]) - 1).t
    BY <2>1 DEF At, Places
  <2>4. A[<<p, "t", Len(k[p]) - 1>>] = k[p][1].t
    BY <2>1, <2>3
  <2> HIDE DEF A
  <2> QED BY <2>2, <2>3, <2>4, HeldAt DEF A
<1>3. ASSUME res[p] # NULL PROVE Live(res[p])
  <2>1. res[p] \in Slots
    BY <1>3 DEF FilesTypes, Slots, NULL
  <2>2. <<p, "res", 0>> \in Places /\ A[<<p, "res", 0>>] = res[p]
    BY DEF At, Places
  <2> HIDE DEF A
  <2> QED BY <2>1, <2>2, HeldAt DEF A
<1>4. ASSUME cwd[p] # NULL PROVE Live(cwd[p])
  <2>1. cwd[p] \in Slots
    BY <1>4 DEF FilesTypes, Slots, NULL
  <2>2. <<p, "cwd", 0>> \in Places /\ A[<<p, "cwd", 0>>] = cwd[p]
    BY DEF At, Places
  <2> HIDE DEF A
  <2> QED BY <2>1, <2>2, HeldAt DEF A
<1> QED BY <1>1, <1>2, <1>3, <1>4

\* What an instruction that has only s owns.
LEMMA OwnOne ==
    ASSUME NEW a, a.t = NULL, NEW s \in Slots
    PROVE  Own(a, s) = Is(a.s, s)
  BY DEF Own, Is, Slots, NULL

Stay(p) == k' \in Stacks /\ \A z \in Procs : z # p => k'[z] = k[z]

\* The stacks and the references after the first instruction of p is done, ...
LEMMA Then0 ==
    ASSUME FilesTypes, Calling, Refs, NEW p \in Procs, k[p] # <<>>,
           Then(p, <<>>)
    PROVE  /\ Stay(p) /\ Shape(k'[p]) /\ Len(k'[p]) = Len(k[p]) - 1
           /\ Len(k[p]) > 1 => k'[p] # <<>> /\ k'[p][1] = k[p][2]
           /\ ~ (Len(k[p]) > 1) => k'[p] = <<>>
           /\ \A n \in Nat : View(k'[p], n) = IF n = Len(k[p]) - 1 THEN None ELSE View(k[p], n)
           /\ Finite(At(k', res, cwd, ft))
           /\ \A s \in Slots : Count(At(k', res, cwd, ft), s) = ic[s].ref - Own(k[p][1], s)
<1> DEFINE q == <<>> \o Tail(k[p])
<1>0. Shape(k[p]) /\ k \in Stacks /\ Finite(At(k, res, cwd, ft))
  BY HeadFacts DEF FilesTypes, Stacks, Refs
<1>1. k' = [k EXCEPT ![p] = q]
  BY DEF Then
<1>2. /\ Shape(q) /\ Len(q) = Len(k[p]) - 1
      /\ Len(k[p]) > 1 => q # <<>> /\ q[1] = k[p][2]
      /\ ~ (Len(k[p]) > 1) => q = <<>>
      /\ \A n \in Nat : View(q, n) = IF n = Len(k[p]) - 1 THEN None ELSE View(k[p], n)
  BY <1>0, Push0
<1> HIDE DEF q
<1>3. q \in Seq(Instr)
  BY <1>2 DEF Shape
<1>4. k'[p] = q /\ Stay(p)
  BY <1>0, <1>1, <1>3 DEF Stacks, Stay
<1>5. Pushed(k, k', p, <<>>)
  BY <1>0, <1>4 DEF Stay, Others, Pushed, q
<1>6. /\ Finite(At(k', res, cwd, ft))
      /\ \A s \in Slots : Count(At(k', res, cwd, ft), s) =
                            Count(At(k, res, cwd, ft), s) - Own(k[p][1], s)
  BY <1>0, <1>5, Count0
<1>7. \A s \in Slots : Count(At(k, res, cwd, ft), s) = ic[s].ref
  BY DEF Refs
<1> QED BY <1>2, <1>4, <1>6, <1>7

\* ... after it is replaced by a, ...
LEMMA Then1 ==
    ASSUME FilesTypes, Calling, Refs, NEW p \in Procs, k[p] # <<>>,
           NEW a, Fit1(a, k[p]), Then(p, <<a>>)
    PROVE  /\ Stay(p) /\ Shape(k'[p]) /\ Len(k'[p]) = Len(k[p]) /\ k'[p] # <<>> /\ k'[p][1] = a
           /\ Len(k[p]) > 1 => k'[p][2] = k[p][2]
           /\ \A n \in Nat : View(k'[p], n) = IF n = Len(k[p]) - 1 THEN a ELSE View(k[p], n)
           /\ Finite(At(k', res, cwd, ft))
           /\ \A s \in Slots : Count(At(k', res, cwd, ft), s) = ic[s].ref - Own(k[p][1], s)
                                 + Own(a, s)
<1> DEFINE q == <<a>> \o Tail(k[p])
<1>0. Shape(k[p]) /\ k \in Stacks /\ Finite(At(k, res, cwd, ft))
  BY HeadFacts DEF FilesTypes, Stacks, Refs
<1>1. k' = [k EXCEPT ![p] = q]
  BY DEF Then
<1>2. /\ Shape(q) /\ Len(q) = Len(k[p]) /\ q # <<>> /\ q[1] = a
      /\ Len(k[p]) > 1 => q[2] = k[p][2]
      /\ \A n \in Nat : View(q, n) = IF n = Len(k[p]) - 1 THEN a ELSE View(k[p], n)
  BY <1>0, Push1 DEF Fit1
<1> HIDE DEF q
<1>3. q \in Seq(Instr)
  BY <1>2 DEF Shape
<1>4. k'[p] = q /\ Stay(p)
  BY <1>0, <1>1, <1>3 DEF Stacks, Stay
<1>5. Pushed(k, k', p, <<a>>)
  BY <1>0, <1>4 DEF Stay, Others, Pushed, q
<1>6. /\ Finite(At(k', res, cwd, ft))
      /\ \A s \in Slots : Count(At(k', res, cwd, ft), s) =
                            Count(At(k, res, cwd, ft), s) - Own(k[p][1], s)
                              + Own(a, s)
  BY <1>0, <1>5, Count1
<1>7. \A s \in Slots : Count(At(k, res, cwd, ft), s) = ic[s].ref
  BY DEF Refs
<1> QED BY <1>2, <1>4, <1>6, <1>7

\* ... by a and b, ...
LEMMA Then2 ==
    ASSUME FilesTypes, Calling, Refs, NEW p \in Procs, k[p] # <<>>,
           NEW a, NEW b, Fit2(a, b, k[p]), Then(p, <<a, b>>)
    PROVE  /\ Stay(p) /\ Shape(k'[p]) /\ Len(k'[p]) = Len(k[p]) + 1 /\ k'[p] # <<>> /\ k'[p][1] = a
           /\ k'[p][2] = b
           /\ \A n \in Nat : View(k'[p], n) = IF n = Len(k[p]) THEN a
              ELSE IF n = Len(k[p]) - 1 THEN b ELSE View(k[p], n)
           /\ Finite(At(k', res, cwd, ft))
           /\ \A s \in Slots : Count(At(k', res, cwd, ft), s) = ic[s].ref - Own(k[p][1], s)
                                 + Own(a, s) + Own(b, s)
<1> DEFINE q == <<a, b>> \o Tail(k[p])
<1>0. Shape(k[p]) /\ k \in Stacks /\ Finite(At(k, res, cwd, ft))
  BY HeadFacts DEF FilesTypes, Stacks, Refs
<1>1. k' = [k EXCEPT ![p] = q]
  BY DEF Then
<1>2. /\ Shape(q) /\ Len(q) = Len(k[p]) + 1 /\ q # <<>> /\ q[1] = a
      /\ q[2] = b
      /\ \A n \in Nat : View(q, n) = IF n = Len(k[p]) THEN a
              ELSE IF n = Len(k[p]) - 1 THEN b ELSE View(k[p], n)
  BY <1>0, Push2 DEF Fit1, Fit2
<1> HIDE DEF q
<1>3. q \in Seq(Instr)
  BY <1>2 DEF Shape
<1>4. k'[p] = q /\ Stay(p)
  BY <1>0, <1>1, <1>3 DEF Stacks, Stay
<1>5. Pushed(k, k', p, <<a, b>>)
  BY <1>0, <1>4 DEF Stay, Others, Pushed, q
<1>6. /\ Finite(At(k', res, cwd, ft))
      /\ \A s \in Slots : Count(At(k', res, cwd, ft), s) =
                            Count(At(k, res, cwd, ft), s) - Own(k[p][1], s)
                              + Own(a, s) + Own(b, s)
  BY <1>0, <1>5, Count2
<1>7. \A s \in Slots : Count(At(k, res, cwd, ft), s) = ic[s].ref
  BY DEF Refs
<1> QED BY <1>2, <1>4, <1>6, <1>7

\* ... and by a, b and c.
LEMMA Then3 ==
    ASSUME FilesTypes, Calling, Refs, NEW p \in Procs, k[p] # <<>>,
           NEW a, NEW b, NEW c, Fit3(a, b, c, k[p]), Then(p, <<a, b, c>>)
    PROVE  /\ Stay(p) /\ Shape(k'[p]) /\ Len(k'[p]) = Len(k[p]) + 2 /\ k'[p] # <<>> /\ k'[p][1] = a
           /\ k'[p][2] = b
           /\ \A n \in Nat : View(k'[p], n) = IF n = Len(k[p]) + 1 THEN a ELSE IF n = Len(k[p]) THEN b
              ELSE IF n = Len(k[p]) - 1 THEN c ELSE View(k[p], n)
           /\ Finite(At(k', res, cwd, ft))
           /\ \A s \in Slots : Count(At(k', res, cwd, ft), s) = ic[s].ref - Own(k[p][1], s)
                                 + Own(a, s) + Own(b, s) + Own(c, s)
<1> DEFINE q == <<a, b, c>> \o Tail(k[p])
<1>0. Shape(k[p]) /\ k \in Stacks /\ Finite(At(k, res, cwd, ft))
  BY HeadFacts DEF FilesTypes, Stacks, Refs
<1>1. k' = [k EXCEPT ![p] = q]
  BY DEF Then
<1>2. /\ Shape(q) /\ Len(q) = Len(k[p]) + 2 /\ q # <<>> /\ q[1] = a
      /\ q[2] = b
      /\ \A n \in Nat : View(q, n) = IF n = Len(k[p]) + 1 THEN a ELSE IF n = Len(k[p]) THEN b
              ELSE IF n = Len(k[p]) - 1 THEN c ELSE View(k[p], n)
  BY <1>0, Push3 DEF Fit1, Fit2, Fit3
<1> HIDE DEF q
<1>3. q \in Seq(Instr)
  BY <1>2 DEF Shape
<1>4. k'[p] = q /\ Stay(p)
  BY <1>0, <1>1, <1>3 DEF Stacks, Stay
<1>5. Pushed(k, k', p, <<a, b, c>>)
  BY <1>0, <1>4 DEF Stay, Others, Pushed, q
<1>6. /\ Finite(At(k', res, cwd, ft))
      /\ \A s \in Slots : Count(At(k', res, cwd, ft), s) =
                            Count(At(k, res, cwd, ft), s) - Own(k[p][1], s)
                              + Own(a, s) + Own(b, s) + Own(c, s)
  BY <1>0, <1>5, Count3
<1>7. \A s \in Slots : Count(At(k, res, cwd, ft), s) = ic[s].ref
  BY DEF Refs
<1> QED BY <1>2, <1>4, <1>6, <1>7

-----------------------------------------------------------------------------
(* What the operators of the inode cache return.                            *)

\* A set of natural numbers has a first one.
LEMMA Least ==
    ASSUME NEW T \in SUBSET Nat, T # {}
    PROVE  \E n \in T : \A m \in T : n <= m
<1> DEFINE R == OpToRel(<, Nat)
<1>1. IsWellFoundedOn(R, Nat)
  BY NatLessThanWellFounded
<1>2. \A x, y \in Nat : x < y => <<x, y>> \in R
  BY DEF OpToRel
<1> HIDE DEF R
<1>3. PICK n \in T : \A m \in T : ~ (<<m, n>> \in R)
  BY <1>1, WFMin
<1>4. ASSUME NEW m \in T PROVE ~ (m < n)
  BY <1>2, <1>3
<1> QED BY <1>4

\* The slot that iget() finds.
Finds(i, s) ==
    /\ s \in Slots
    /\ \/ ic[s].ref > 0 /\ ic[s].inum = i
       \/ ic[s].ref = 0 /\ \A z \in Slots : ic[z].ref > 0 => ic[z].inum # i

\* The numbers and counts of the slots are the same in two caches.
SameRefs(c, d) == \A s \in Slots : d[s].ref = c[s].ref /\ d[s].inum = c[s].inum

\* Only the counts and numbers decide which slot iget() finds.
LEMMA SlotSame ==
    ASSUME NEW c, NEW d, SameRefs(c, d), NEW i
    PROVE  SlotOf(d, i) = SlotOf(c, i)
<1> DEFINE hit(e)  == {s \in Slots : e[s].ref > 0 /\ e[s].inum = i}
<1> DEFINE free(e) == {s \in Slots : e[s].ref = 0}
<1> DEFINE slot(h, f) == IF h # {} THEN CHOOSE s \in h : TRUE
                         ELSE IF f = {} THEN NULL
                         ELSE CHOOSE s \in f : \A t \in f : s <= t
<1>1. hit(d) = hit(c) /\ free(d) = free(c)
  BY DEF SameRefs
<1>2. SlotOf(d, i) = slot(hit(d), free(d)) /\ SlotOf(c, i) = slot(hit(c), free(c))
  BY DEF SlotOf
<1> HIDE DEF hit, free, slot
<1> QED BY <1>1, <1>2

\* iget() finds a slot with the inode, or a free one if no slot has it.
LEMMA SlotFound ==
    ASSUME FilesTypes, NEW i, HasSlot(i)
    PROVE  Finds(i, SlotOf(ic, i))
<1> DEFINE hit == {s \in Slots : ic[s].ref > 0 /\ ic[s].inum = i}
<1> DEFINE free == {s \in Slots : ic[s].ref = 0}
<1> DEFINE x == SlotOf(ic, i)
<1>1. /\ x # NULL
      /\ x = IF hit # {} THEN CHOOSE s \in hit : TRUE
             ELSE IF free = {} THEN NULL
             ELSE CHOOSE s \in free : \A t \in free : s <= t
  BY DEF SlotOf, HasSlot
<1>2. \A s \in Slots : ic[s].ref \in Nat
  BY DEF FilesTypes, Inode
<1>3. CASE hit # {}
  <2>1. x \in hit
    BY <1>1, <1>3
  <2> QED BY <2>1 DEF Finds
<1>4. CASE hit = {}
  <2>1. free # {} /\ free \in SUBSET Nat
    BY <1>1, <1>4 DEF Slots
  <2>2. \E s \in free : \A t \in free : s <= t
    BY <2>1, Least
  <2>3. x = CHOOSE s \in free : \A t \in free : s <= t
    BY <1>1, <1>4, <2>1
  <2>4. x \in free
    BY <2>2, <2>3
  <2>5. \A z \in Slots : ic[z].ref > 0 => ic[z].inum # i
    BY <1>4
  <2> QED BY <2>4, <2>5 DEF Finds
<1> QED BY <1>3, <1>4

\* A cache after iget(c, i).
Got(c, d, i, x) ==
    /\ d \in [Slots -> Inode]
    /\ d[x].ref = ic[x].ref + 1 /\ d[x].inum = i
    /\ d[x].type = c[x].type /\ d[x].nlink = c[x].nlink /\ d[x].lk = c[x].lk
    /\ ic[x].ref > 0 => d[x].valid = c[x].valid
    /\ ic[x].ref = 0 => d[x].valid = FALSE
    /\ \A z \in Slots : z # x => d[z] = c[z]

\* What iget() does to the cache.
LEMMA IgetGot ==
    ASSUME FilesTypes, NEW i \in Inums, HasSlot(i), NEW c \in [Slots -> Inode], SameRefs(ic, c)
    PROVE  /\ Got(c, iget(c, i), i, SlotOf(ic, i))
           /\ Finds(i, SlotOf(ic, i)) /\ SlotOf(c, i) = SlotOf(ic, i)
<1> DEFINE x == SlotOf(ic, i)
<1> DEFINE d == iget(c, i)
<1>1. Finds(i, x) /\ SlotOf(c, i) = x
  BY SlotFound, SlotSame
<1>2. d = IF c[x].ref > 0 THEN [c EXCEPT ![x].ref = @ + 1]
          ELSE [c EXCEPT ![x] = [@ EXCEPT !.inum = i, !.ref = 1, !.valid = FALSE]]
  BY <1>1 DEF iget
<1> HIDE DEF x, d
<1>3. /\ x \in Slots /\ c[x] \in Inode /\ c[x].ref = ic[x].ref /\ c[x].inum = ic[x].inum
      /\ ic[x].ref \in Nat
  BY <1>1 DEF Finds, SameRefs, FilesTypes, Inode
<1>4. ASSUME c[x].ref > 0 PROVE Got(c, d, i, x)
  <2>1. d[x] = [c[x] EXCEPT !.ref = @ + 1] /\ \A z \in Slots : z # x => d[z] = c[z]
    BY <1>2, <1>3, <1>4
  <2> DEFINE e == c[x]
  <2> DEFINE g == d[x]
  <2>2. /\ g = [e EXCEPT !.ref = @ + 1] /\ e \in Inode
    BY <1>3, <2>1
  <2> HIDE DEF e, g
  <2>3. /\ g \in Inode /\ g.ref = e.ref + 1 /\ g.inum = e.inum /\ g.type = e.type
        /\ g.nlink = e.nlink /\ g.lk = e.lk /\ g.valid = e.valid
    BY <2>2 DEF Inode
  <2>4. d \in [Slots -> Inode]
    BY <1>2, <1>3, <1>4, <2>1, <2>3 DEF g
  <2>5. c[x].inum = i
    BY <1>1, <1>3, <1>4 DEF Finds
  <2>6. /\ d[x].ref = ic[x].ref + 1 /\ d[x].inum = i
        /\ d[x].type = c[x].type /\ d[x].nlink = c[x].nlink /\ d[x].lk = c[x].lk
    BY <1>3, <2>3, <2>5 DEF e, g
  <2>7. d[x].valid = c[x].valid /\ ic[x].ref # 0
    BY <1>3, <1>4, <2>3 DEF e, g
  <2> QED BY <2>1, <2>4, <2>6, <2>7 DEF Got
<1>5. ASSUME ~ (c[x].ref > 0) PROVE Got(c, d, i, x)
  <2>1. /\ d[x] = [c[x] EXCEPT !.inum = i, !.ref = 1, !.valid = FALSE]
        /\ \A z \in Slots : z # x => d[z] = c[z]
    BY <1>2, <1>3, <1>5
  <2> DEFINE e == c[x]
  <2> DEFINE g == d[x]
  <2>2. /\ g = [e EXCEPT !.inum = i, !.ref = 1, !.valid = FALSE] /\ e \in Inode
    BY <1>3, <2>1
  <2> HIDE DEF e, g
  <2>3. /\ g \in Inode /\ g.ref = 1 /\ g.inum = i /\ g.type = e.type
        /\ g.nlink = e.nlink /\ g.lk = e.lk /\ g.valid = FALSE
    BY <2>2 DEF Inode
  <2>4. d \in [Slots -> Inode]
    BY <1>2, <1>3, <1>5, <2>1, <2>3 DEF g
  <2>5. ic[x].ref = 0
    BY <1>3, <1>5
  <2>6. /\ d[x].ref = ic[x].ref + 1 /\ d[x].inum = i
        /\ d[x].type = c[x].type /\ d[x].nlink = c[x].nlink /\ d[x].lk = c[x].lk
    BY <1>3, <2>3, <2>5 DEF e, g
  <2>7. d[x].valid = FALSE /\ ~ (ic[x].ref > 0)
    BY <2>3, <2>5 DEF e, g
  <2> QED BY <2>1, <2>4, <2>6, <2>7 DEF Got
<1> QED BY <1>1, <1>4, <1>5 DEF x, d

\* A cache after ilock() of slot s, which q holds then.
LEMMA LoadFacts ==
    ASSUME FilesTypes, NEW s, Live(s), NEW q \in Procs \cup {NoProc}
    PROVE  /\ Load(s, q) \in [Slots -> Inode] /\ SameRefs(ic, Load(s, q))
           /\ \A z \in Slots : z # s => Load(s, q)[z] = ic[z]
           /\ Load(s, q)[s] = [Loaded(s) EXCEPT !.lk = q]
           /\ Load(s, q)[s].lk = q /\ Load(s, q)[s].valid = TRUE
           /\ Load(s, q)[s].type = Loaded(s).type /\ Load(s, q)[s].nlink = Loaded(s).nlink
           /\ Loaded(s) \in Inode
           /\ Loaded(s).type = IF ic[s].valid THEN ic[s].type ELSE dn[ic[s].inum].type
           /\ Loaded(s).nlink = IF ic[s].valid THEN ic[s].nlink ELSE dn[ic[s].inum].nlink
<1>1. s \in Slots /\ ic[s] \in Inode /\ dn[ic[s].inum] \in Dinode
  BY DEF FilesTypes, Live
<1>2. /\ Loaded(s) \in Inode /\ Loaded(s).ref = ic[s].ref /\ Loaded(s).inum = ic[s].inum
      /\ Loaded(s).type = IF ic[s].valid THEN ic[s].type ELSE dn[ic[s].inum].type
      /\ Loaded(s).nlink = IF ic[s].valid THEN ic[s].nlink ELSE dn[ic[s].inum].nlink
      /\ Loaded(s).valid = TRUE
  BY <1>1 DEF Loaded, Inode, Dinode
<1> DEFINE e == [Loaded(s) EXCEPT !.lk = q]
<1> DEFINE l == Loaded(s)
<1>3. /\ e \in Inode /\ e.ref = ic[s].ref /\ e.inum = ic[s].inum /\ e.lk = q
      /\ e.valid = TRUE /\ e.type = Loaded(s).type /\ e.nlink = Loaded(s).nlink
  <2> HIDE DEF l
  <2> SUFFICES LET e1 == [l EXCEPT !.lk = q] IN
               /\ e1 \in Inode /\ e1.ref = ic[s].ref /\ e1.inum = ic[s].inum /\ e1.lk = q
               /\ e1.valid = TRUE /\ e1.type = l.type /\ e1.nlink = l.nlink
    BY DEF l
  <2>1. l \in Inode /\ l.ref = ic[s].ref /\ l.inum = ic[s].inum /\ l.valid = TRUE
    BY <1>2 DEF l
  <2> QED BY <2>1 DEF Inode
<1>4. Load(s, q) = [ic EXCEPT ![s] = e]
  BY DEF Load
<1> HIDE DEF e
<1>5. /\ Load(s, q)[s] = e /\ \A z \in Slots : z # s => Load(s, q)[z] = ic[z]
      /\ Load(s, q) \in [Slots -> Inode]
  BY <1>1, <1>3, <1>4 DEF FilesTypes
<1>6. SameRefs(ic, Load(s, q))
  BY <1>1, <1>3, <1>5 DEF SameRefs
<1> QED BY <1>2, <1>3, <1>5, <1>6 DEF e

\* Two changes that keep counts and numbers do so together.
LEMMA SameTwice ==
    ASSUME NEW b, NEW c, NEW d, SameRefs(b, c), SameRefs(c, d)
    PROVE  SameRefs(b, d)
  BY DEF SameRefs

\* One slot is replaced.
SlotSet(c, d, s, e) == d = [c EXCEPT ![s] = e]

\* The cache after that.
LEMMA SlotSetFacts ==
    ASSUME NEW c \in [Slots -> Inode], NEW d, NEW s \in Slots, NEW e \in Inode,
           SlotSet(c, d, s, e)
    PROVE  /\ d \in [Slots -> Inode] /\ d[s] = e /\ \A z \in Slots : z # s => d[z] = c[z]
           /\ e.ref = c[s].ref /\ e.inum = c[s].inum => SameRefs(c, d)
<1>1. d \in [Slots -> Inode] /\ d[s] = e /\ \A z \in Slots : z # s => d[z] = c[z]
  BY DEF SlotSet
<1> QED BY <1>1 DEF SameRefs

\* The link count of an inode changes in the cache ...
LEMMA AddLinksFacts ==
    ASSUME NEW c \in [Slots -> Inode], NEW s \in Slots, NEW n \in Int
    PROVE  /\ AddLinks(c, s, n) \in [Slots -> Inode] /\ SameRefs(c, AddLinks(c, s, n))
           /\ \A z \in Slots : z # s => AddLinks(c, s, n)[z] = c[z]
           /\ AddLinks(c, s, n)[s].nlink = c[s].nlink + n
           /\ AddLinks(c, s, n)[s].type = c[s].type
           /\ AddLinks(c, s, n)[s].valid = c[s].valid
           /\ AddLinks(c, s, n)[s].lk = c[s].lk
<1> DEFINE i == c[s]
<1> DEFINE e == [i EXCEPT !.nlink = @ + n]
<1> DEFINE d == AddLinks(c, s, n)
<1>1. i \in Inode /\ SlotSet(c, d, s, e)
  BY DEF AddLinks, SlotSet
<1> HIDE DEF i, d
<1>2. /\ e \in Inode /\ e.ref = i.ref /\ e.inum = i.inum /\ e.nlink = i.nlink + n
      /\ e.type = i.type /\ e.valid = i.valid /\ e.lk = i.lk
  BY <1>1 DEF Inode
<1> HIDE DEF e
<1>3. /\ d \in [Slots -> Inode] /\ d[s] = e /\ \A z \in Slots : z # s => d[z] = c[z]
      /\ e.ref = c[s].ref /\ e.inum = c[s].inum => SameRefs(c, d)
  BY <1>1, <1>2, SlotSetFacts
<1>4. /\ d \in [Slots -> Inode] /\ SameRefs(c, d)
      /\ \A z \in Slots : z # s => d[z] = c[z]
      /\ d[s].nlink = c[s].nlink + n
      /\ d[s].type = c[s].type
      /\ d[s].valid = c[s].valid
      /\ d[s].lk = c[s].lk
  BY <1>2, <1>3 DEF i
<1> QED BY <1>4 DEF d

\* ... and on disk.
LEMMA IupdateFacts ==
    ASSUME FilesTypes, NEW c \in [Slots -> Inode], NEW s \in Slots, c[s].inum \in Inums
    PROVE  /\ Iupdate(c, s) \in [Inums -> Dinode]
           /\ \A j \in Inums : j # c[s].inum => Iupdate(c, s)[j] = dn[j]
           /\ Iupdate(c, s)[c[s].inum].type = c[s].type
           /\ Iupdate(c, s)[c[s].inum].nlink = c[s].nlink
           /\ Iupdate(c, s)[c[s].inum].ents = dn[c[s].inum].ents
<1> DEFINE i == c[s].inum
<1> DEFINE o == dn[i]
<1> DEFINE e == [[o EXCEPT !.nlink = c[s].nlink] EXCEPT !.type = c[s].type]
<1> DEFINE d == Iupdate(c, s)
<1>1. /\ i \in Inums /\ o \in Dinode /\ c[s].nlink \in Int /\ c[s].type \in Types
      /\ dn \in [Inums -> Dinode]
  BY DEF FilesTypes, Inode
<1>2. d = [dn EXCEPT ![i] = e]
  BY <1>1 DEF Iupdate
<1> HIDE DEF i, o, d
<1>3. e \in Dinode /\ e.type = c[s].type /\ e.nlink = c[s].nlink /\ e.ents = o.ents
  BY <1>1 DEF Dinode
<1> HIDE DEF e
<1>4. d \in [Inums -> Dinode] /\ d[i] = e /\ \A j \in Inums : j # i => d[j] = dn[j]
  BY <1>1, <1>2, <1>3
<1> QED BY <1>3, <1>4 DEF d, i, o

\* An entry of a directory is set.
EntSet(d, e, i, name, v) == e = [d EXCEPT ![i].ents[name] = v]

\* The disk after that.
LEMMA EntSetFacts ==
    ASSUME NEW d \in [Inums -> Dinode], NEW e, NEW i \in Inums, NEW name \in Entries,
           NEW v \in Inums \cup {NULL}, EntSet(d, e, i, name, v)
    PROVE  /\ e \in [Inums -> Dinode] /\ \A j \in Inums : j # i => e[j] = d[j]
           /\ e[i].type = d[i].type /\ e[i].nlink = d[i].nlink
           /\ \A m \in Entries : e[i].ents[m] = IF m = name THEN v ELSE d[i].ents[m]
<1> DEFINE o == d[i]
<1> DEFINE n == [o.ents EXCEPT ![name] = v]
<1> DEFINE r == [o EXCEPT !.ents = n]
<1>1. o \in Dinode /\ e = [d EXCEPT ![i] = r]
  BY DEF EntSet
<1> HIDE DEF o
<1>2. /\ n \in [Entries -> Inums \cup {NULL}]
      /\ \A m \in Entries : n[m] = IF m = name THEN v ELSE o.ents[m]
  BY <1>1 DEF Dinode
<1> HIDE DEF n
<1>3. r \in Dinode /\ r.type = o.type /\ r.nlink = o.nlink /\ r.ents = n
  BY <1>1, <1>2 DEF Dinode
<1> HIDE DEF r
<1>4. e \in [Inums -> Dinode] /\ e[i] = r /\ \A j \in Inums : j # i => e[j] = d[j]
  BY <1>1, <1>3
<1> QED BY <1>2, <1>3, <1>4 DEF o

\* An inode is replaced on disk.
InodeSet(d, e, i, r) == e = [d EXCEPT ![i] = r]

\* The disk after that.
LEMMA InodeSetFacts ==
    ASSUME NEW d \in [Inums -> Dinode], NEW e, NEW i \in Inums, NEW r \in Dinode,
           InodeSet(d, e, i, r)
    PROVE  /\ e \in [Inums -> Dinode] /\ e[i] = r /\ \A j \in Inums : j # i => e[j] = d[j]
  BY DEF InodeSet

-----------------------------------------------------------------------------
(* What a step of p must do for the first layer of the invariant.           *)

\* A step that gives p one more reference to slot x (to none if x is NULL), and changes
\* no file.
Frame(p, x) ==
    /\ ic' \in [Slots -> Inode] /\ dn' \in [Inums -> Dinode] /\ halted' \in BOOLEAN
    /\ ft' = ft /\ ofile' = ofile /\ cwd' = cwd /\ todo' = todo
    /\ Others(res, res', p) /\ res' \in Regs /\ Unique'
    /\ \A s \in Slots : ic'[s].ref = ic[s].ref + Is(x, s)

\* A process whose first instruction is not of iput() has not exited.
LEMMA NotGone ==
    ASSUME Calling, NEW p \in Procs, k[p] # <<>>, k[p][1].op \notin PutOps
    PROVE  cwd[p] # NULL
  BY DEF Calling, Gone

\* The other processes go on as before.
LEMMA CallingKept ==
    ASSUME FilesTypes, Calling, NEW p \in Procs, Stay(p), Others(res, res', p),
           Others(cwd, cwd', p), Others(ofile, ofile', p), Shape(k'[p]),
           ResShape(k'[p], res'[p]), cwd'[p] = NULL => Gone(p)'
    PROVE  Calling'
<1>1. ASSUME NEW z \in Procs, z # p
      PROVE  Shape(k'[z]) /\ ResShape(k'[z], res'[z]) /\ (cwd'[z] = NULL => Gone(z)')
  <2>1. k'[z] = k[z] /\ res'[z] = res[z] /\ cwd'[z] = cwd[z] /\ ofile'[z] = ofile[z]
    BY <1>1 DEF Stay, Others
  <2>2. Shape(k[z]) /\ ResShape(k[z], res[z]) /\ (cwd[z] = NULL => Gone(z))
    BY DEF Calling
  <2> QED BY <2>1, <2>2 DEF Gone
<1> QED BY <1>1 DEF Calling

\* The slots that are in use keep their numbers ...
LEMMA UniqueKept ==
    ASSUME FilesTypes, Unique, NEW c, SameRefs(ic, c), ic' = c
    PROVE  Unique'
  BY DEF Unique, SameRefs

\* ... or there is one more.
LEMMA UniqueGot ==
    ASSUME FilesTypes, Unique, NEW i \in Inums, NEW x, Finds(i, x), NEW c, SameRefs(ic, c),
           Got(c, ic', i, x)
    PROVE  Unique' /\ \A s \in Slots : ic'[s].ref = ic[s].ref + Is(x, s)
<1>1. ASSUME NEW s \in Slots
      PROVE  /\ ic'[s].ref = ic[s].ref + Is(x, s) /\ ic[s].ref \in Nat
             /\ ic'[s].inum = IF s = x THEN i ELSE ic[s].inum
  <2>1. ic[s].ref \in Nat
    BY DEF FilesTypes, Inode
  <2>2. CASE s = x
    BY <2>1, <2>2 DEF Got, Is
  <2>3. CASE s # x
    <3>1. ic'[s] = c[s] /\ c[s].ref = ic[s].ref /\ c[s].inum = ic[s].inum
      BY <2>3 DEF Got, SameRefs
    <3> QED BY <2>1, <2>3, <3>1 DEF Is
  <2> QED BY <2>2, <2>3
<1>2. x \in Slots
  BY DEF Finds
<1>3. ASSUME NEW s \in Slots, ic'[s].ref > 0, NEW t \in Slots, ic'[t].ref > 0,
             ic'[t].inum = ic'[s].inum
      PROVE  t = s
  <2>1. CASE s = x /\ t # x
    BY <1>1, <1>2, <1>3, <2>1 DEF Finds, Unique, Is
  <2>2. CASE t = x /\ s # x
    BY <1>1, <1>2, <1>3, <2>2 DEF Finds, Unique, Is
  <2>3. CASE s # x /\ t # x
    BY <1>1, <1>3, <2>3 DEF Unique, Is
  <2> QED BY <2>1, <2>2, <2>3
<1>4. ASSUME NEW s \in Slots, ic'[s].ref > 0 PROVE ic'[s].inum \in Inums
  BY <1>1, <1>4 DEF Unique, Is
<1> QED BY <1>1, <1>3, <1>4 DEF Unique

\* What a step of frame x needs for Refs.
LEMMA RefsMoved ==
    ASSUME FilesTypes, NEW p \in Procs, NEW x, Frame(p, x), Finite(At(k', res, cwd, ft)),
           \A s \in Slots : Count(At(k', res, cwd, ft), s) - Is(res[p], s) + Is(res'[p], s)
                              = ic[s].ref + Is(x, s)
    PROVE  Refs'
<1>1. Others(res, res', p) /\ cwd' = cwd /\ ft' = ft
  BY DEF Frame
<1>2. /\ Finite(At(k', res', cwd, ft))
      /\ \A s \in Slots : Count(At(k', res', cwd, ft), s) =
                            Count(At(k', res, cwd, ft), s) - Is(res[p], s) + Is(res'[p], s)
  BY <1>1, CountRes
<1>3. \A s \in Slots : Count(At(k', res', cwd, ft), s) = ic'[s].ref
  BY <1>2 DEF Frame
<1> QED BY <1>1, <1>2, <1>3 DEF Refs

\* The rest of the layer.
LEMMA FrameKept ==
    ASSUME Base, NEW p \in Procs, NEW x, Frame(p, x), Stay(p), Shape(k'[p]),
           ResShape(k'[p], res'[p]), cwd[p] = NULL => Gone(p)', Refs'
    PROVE  Base'
<1>1. FilesTypes'
  BY DEF Base, FilesTypes, Frame, Stay, Stacks, Regs
<1>2. Others(res, res', p) /\ Others(cwd, cwd', p) /\ Others(ofile, ofile', p)
  BY DEF Frame, Others
<1>3. Calling'
  BY <1>2, CallingKept DEF Base, Frame
<1>4. Descriptors'
  BY DEF Base, Descriptors, Frame
<1> QED BY <1>1, <1>3, <1>4 DEF Base, Frame

\* The references that the first instruction of p and its result have owned are handed on,
\* with one to slot x, to the instructions that follow it and to the new result.
Gives0(p, x) ==
    \A s \in Slots : Is(res'[p], s) = Own(k[p][1], s) + Is(res[p], s) + Is(x, s)
Gives1(p, x, a) ==
    \A s \in Slots : Own(a, s) + Is(res'[p], s) = Own(k[p][1], s) + Is(res[p], s) + Is(x, s)
Gives2(p, x, a, b) ==
    \A s \in Slots : Own(a, s) + Own(b, s) = Own(k[p][1], s) + Is(res[p], s) + Is(x, s)
Gives3(p, x, a, b, c) ==
    \A s \in Slots : Own(a, s) + Own(b, s) + Own(c, s)
                        = Own(k[p][1], s) + Is(res[p], s) + Is(x, s)

\* No reference is lost, and none is counted twice.
LEMMA Balance0 ==
    ASSUME FilesTypes, NEW p \in Procs, NEW x, Gives0(p, x),
           \A s \in Slots : Count(At(k', res, cwd, ft), s) = ic[s].ref - Own(k[p][1], s)
    PROVE  \A s \in Slots : Count(At(k', res, cwd, ft), s) - Is(res[p], s) + Is(res'[p], s)
                              = ic[s].ref + Is(x, s)
<1> TAKE s \in Slots
<1>1. /\ Own(k[p][1], s) \in Int /\ Is(res[p], s) \in Int /\ Is(x, s) \in Int
      /\ ic[s].ref \in Int /\ Is(res'[p], s) \in Int
  BY OwnNumber DEF FilesTypes, Inode
<1>2. Count(At(k', res, cwd, ft), s) = ic[s].ref - Own(k[p][1], s)
  OBVIOUS
<1>3. Is(res'[p], s) = Own(k[p][1], s) + Is(res[p], s) + Is(x, s)
  BY DEF Gives0
<1> QED BY <1>1, <1>2, <1>3

\* The same with 1.
LEMMA Balance1 ==
    ASSUME FilesTypes, NEW p \in Procs, NEW x, NEW a, Gives1(p, x, a),
           \A s \in Slots : Count(At(k', res, cwd, ft), s) = ic[s].ref - Own(k[p][1], s) + Own(a, s)
    PROVE  \A s \in Slots : Count(At(k', res, cwd, ft), s) - Is(res[p], s) + Is(res'[p], s)
                              = ic[s].ref + Is(x, s)
<1> TAKE s \in Slots
<1>1. /\ Own(k[p][1], s) \in Int /\ Is(res[p], s) \in Int /\ Is(x, s) \in Int
      /\ ic[s].ref \in Int /\ Is(res'[p], s) \in Int /\ Own(a, s) \in Int
  BY OwnNumber DEF FilesTypes, Inode
<1>2. Count(At(k', res, cwd, ft), s) = ic[s].ref - Own(k[p][1], s) + Own(a, s)
  OBVIOUS
<1>3. Own(a, s) + Is(res'[p], s) = Own(k[p][1], s) + Is(res[p], s) + Is(x, s)
  BY DEF Gives1
<1> QED BY <1>1, <1>2, <1>3

\* The same with 2.
LEMMA Balance2 ==
    ASSUME FilesTypes, NEW p \in Procs, NEW x, NEW a, NEW b, Gives2(p, x, a, b),
           res'[p] = NULL,
           \A s \in Slots : Count(At(k', res, cwd, ft), s) = ic[s].ref - Own(k[p][1], s) + Own(a, s) + Own(b, s)
    PROVE  \A s \in Slots : Count(At(k', res, cwd, ft), s) - Is(res[p], s) + Is(res'[p], s)
                              = ic[s].ref + Is(x, s)
<1> TAKE s \in Slots
<1>1. /\ Own(k[p][1], s) \in Int /\ Is(res[p], s) \in Int /\ Is(x, s) \in Int
      /\ ic[s].ref \in Int /\ Is(res'[p], s) \in Int /\ Own(a, s) \in Int /\ Own(b, s) \in Int /\ Is(res'[p], s) = 0
  BY OwnNumber DEF FilesTypes, Inode
<1>2. Count(At(k', res, cwd, ft), s) = ic[s].ref - Own(k[p][1], s) + Own(a, s) + Own(b, s)
  OBVIOUS
<1>3. Own(a, s) + Own(b, s) = Own(k[p][1], s) + Is(res[p], s) + Is(x, s)
  BY DEF Gives2
<1> DEFINE w == Own(a, s) + Own(b, s)
<1>4. w \in Int /\ Count(At(k', res, cwd, ft), s) = ic[s].ref - Own(k[p][1], s) + w
  BY <1>1, <1>2
<1>5. w = Own(k[p][1], s) + Is(res[p], s) + Is(x, s)
  BY <1>3
<1> HIDE DEF w
<1>6. Count(At(k', res, cwd, ft), s) = ic[s].ref + Is(res[p], s) + Is(x, s)
  BY <1>1, <1>4, <1>5
<1> QED BY <1>1, <1>6

\* The same with 3.
LEMMA Balance3 ==
    ASSUME FilesTypes, NEW p \in Procs, NEW x, NEW a, NEW b, NEW c, Gives3(p, x, a, b, c),
           res'[p] = NULL,
           \A s \in Slots : Count(At(k', res, cwd, ft), s) = ic[s].ref - Own(k[p][1], s) + Own(a, s) + Own(b, s) + Own(c, s)
    PROVE  \A s \in Slots : Count(At(k', res, cwd, ft), s) - Is(res[p], s) + Is(res'[p], s)
                              = ic[s].ref + Is(x, s)
<1> TAKE s \in Slots
<1>1. /\ Own(k[p][1], s) \in Int /\ Is(res[p], s) \in Int /\ Is(x, s) \in Int
      /\ ic[s].ref \in Int /\ Is(res'[p], s) \in Int /\ Own(a, s) \in Int /\ Own(b, s) \in Int /\ Own(c, s) \in Int /\ Is(res'[p], s) = 0
  BY OwnNumber DEF FilesTypes, Inode
<1>2. Count(At(k', res, cwd, ft), s) = ic[s].ref - Own(k[p][1], s) + Own(a, s) + Own(b, s) + Own(c, s)
  OBVIOUS
<1>3. Own(a, s) + Own(b, s) + Own(c, s) = Own(k[p][1], s) + Is(res[p], s) + Is(x, s)
  BY DEF Gives3
<1> DEFINE w == Own(a, s) + Own(b, s) + Own(c, s)
<1>4. w \in Int /\ Count(At(k', res, cwd, ft), s) = ic[s].ref - Own(k[p][1], s) + w
  BY <1>1, <1>2
<1>5. w = Own(k[p][1], s) + Is(res[p], s) + Is(x, s)
  BY <1>3
<1> HIDE DEF w
<1>6. Count(At(k', res, cwd, ft), s) = ic[s].ref + Is(res[p], s) + Is(x, s)
  BY <1>1, <1>4, <1>5
<1> QED BY <1>1, <1>6

\* The first instruction is replaced by none, ...
LEMMA Step0 ==
    ASSUME Base, NEW p \in Procs, k[p] # <<>>, NEW x, Frame(p, x), Then(p, <<>>),
           res'[p] # NULL => /\ Len(k[p]) > 1
                             /\ k[p][2].op \in ToDir \cup ToFile \cup Ends
                             /\ k[p][2].op \in ToDir => Last(k[p][2].path) # "/",
           Gives0(p, x)
    PROVE  Base'
<1>0. FilesTypes /\ Calling /\ Refs
  BY DEF Base
<1>1. /\ Stay(p) /\ Shape(k'[p]) /\ Len(k'[p]) = Len(k[p]) - 1
      /\ Len(k[p]) > 1 => k'[p] # <<>> /\ k'[p][1] = k[p][2]
      /\ ~ (Len(k[p]) > 1) => k'[p] = <<>>
      /\ Finite(At(k', res, cwd, ft))
      /\ \A s \in Slots : Count(At(k', res, cwd, ft), s) = ic[s].ref - Own(k[p][1], s)
  BY <1>0, Then0
<1>2. \A s \in Slots : Count(At(k', res, cwd, ft), s) - Is(res[p], s) + Is(res'[p], s)
                          = ic[s].ref + Is(x, s)
  BY <1>0, <1>1, Balance0
<1>3. Refs'
  BY <1>0, <1>1, <1>2, RefsMoved
<1>4. ResShape(k'[p], res'[p])
  BY <1>1 DEF ResShape
<1>5. cwd[p] = NULL => Gone(p)'
  BY <1>0, <1>1 DEF Calling, Gone, Frame
<1> QED BY <1>1, <1>3, <1>4, <1>5, FrameKept

\* ... by a, ...
LEMMA Step1 ==
    ASSUME Base, NEW p \in Procs, k[p] # <<>>, NEW x, Frame(p, x), NEW a, Fit1(a, k[p]),
           Then(p, <<a>>),
           res'[p] # NULL =>
              \/ a.op \in Ends
              \/ a.op \in PutOps /\ Len(k[p]) > 1 /\ ~ (Len(k[p]) > 2) /\ k[p][2].op \in Ends,
           cwd[p] = NULL => a.op \in PutOps,
           Gives1(p, x, a)
    PROVE  Base'
<1>0. FilesTypes /\ Calling /\ Refs
  BY DEF Base
<1>1. /\ Stay(p) /\ Shape(k'[p]) /\ Len(k'[p]) = Len(k[p]) /\ k'[p] # <<>>
      /\ k'[p][1] = a /\ (Len(k[p]) > 1 => k'[p][2] = k[p][2])
      /\ Finite(At(k', res, cwd, ft))
      /\ \A s \in Slots : Count(At(k', res, cwd, ft), s)
                            = ic[s].ref - Own(k[p][1], s) + Own(a, s)
  BY <1>0, Then1
<1>2. \A s \in Slots : Count(At(k', res, cwd, ft), s) - Is(res[p], s) + Is(res'[p], s)
                          = ic[s].ref + Is(x, s)
  BY <1>0, <1>1, Balance1
<1>3. Refs'
  BY <1>0, <1>1, <1>2, RefsMoved
<1>4. ResShape(k'[p], res'[p])
  <2>1. a.op \in Ends \cup PutOps => a.op \notin ToDir
    BY DEF Ends, PutOps, ToDir
  <2> QED BY <1>1, <2>1 DEF ResShape
<1>5. cwd[p] = NULL => Gone(p)'
  BY <1>0, <1>1 DEF Calling, Gone, Frame
<1> QED BY <1>1, <1>3, <1>4, <1>5, FrameKept

\* ... by a and b, ...
LEMMA Step2 ==
    ASSUME Base, NEW p \in Procs, k[p] # <<>>, NEW x, Frame(p, x), NEW a, NEW b,
           Fit2(a, b, k[p]), Then(p, <<a, b>>), res'[p] = NULL, cwd[p] # NULL,
           Gives2(p, x, a, b)
    PROVE  Base'
<1>0. FilesTypes /\ Calling /\ Refs
  BY DEF Base
<1>1. /\ Stay(p) /\ Shape(k'[p]) /\ Finite(At(k', res, cwd, ft))
      /\ \A s \in Slots : Count(At(k', res, cwd, ft), s)
                            = ic[s].ref - Own(k[p][1], s) + Own(a, s) + Own(b, s)
  BY <1>0, Then2
<1>2. \A s \in Slots : Count(At(k', res, cwd, ft), s) - Is(res[p], s) + Is(res'[p], s)
                          = ic[s].ref + Is(x, s)
  BY <1>0, <1>1, Balance2
<1>3. Refs'
  BY <1>0, <1>1, <1>2, RefsMoved
<1>4. ResShape(k'[p], res'[p])
  BY DEF ResShape
<1> QED BY <1>1, <1>3, <1>4, FrameKept

\* ... or by a, b and c.
LEMMA Step3 ==
    ASSUME Base, NEW p \in Procs, k[p] # <<>>, NEW x, Frame(p, x), NEW a, NEW b, NEW c,
           Fit3(a, b, c, k[p]), Then(p, <<a, b, c>>), res'[p] = NULL, cwd[p] # NULL,
           Gives3(p, x, a, b, c)
    PROVE  Base'
<1>0. FilesTypes /\ Calling /\ Refs
  BY DEF Base
<1>1. /\ Stay(p) /\ Shape(k'[p]) /\ Finite(At(k', res, cwd, ft))
      /\ \A s \in Slots : Count(At(k', res, cwd, ft), s)
                            = ic[s].ref - Own(k[p][1], s) + Own(a, s) + Own(b, s) + Own(c, s)
  BY <1>0, Then3
<1>2. \A s \in Slots : Count(At(k', res, cwd, ft), s) - Is(res[p], s) + Is(res'[p], s)
                          = ic[s].ref + Is(x, s)
  BY <1>0, <1>1, Balance3
<1>3. Refs'
  BY <1>0, <1>1, <1>2, RefsMoved
<1>4. ResShape(k'[p], res'[p])
  BY DEF ResShape
<1> QED BY <1>1, <1>3, <1>4, FrameKept

-----------------------------------------------------------------------------
(* The first layer: every action preserves it.                              *)

\* The instruction that is run.
LEMMA OnFacts ==
    ASSUME Base, NEW p \in Procs, NEW op, On(p, op)
    PROVE  /\ k[p] # <<>> /\ k[p][1].op = op /\ Arg(p) = k[p][1] /\ k[p][1] \in Instr
           /\ Well(k[p][1]) /\ ~halted
           /\ op \in SOps => Live(k[p][1].s)
           /\ op \notin SOps => k[p][1].s = NULL
           /\ op \in TOps => Live(k[p][1].t)
           /\ op \notin TOps => k[p][1].t = NULL
           /\ op \notin PutOps => cwd[p] # NULL
           /\ res[p] # NULL => Live(res[p])
           /\ cwd[p] # NULL => Live(cwd[p])
           /\ op \notin Over => ~ (Len(k[p]) > 1)
           /\ op \notin Bottom => Len(k[p]) > 1
           /\ Len(k[p]) > 1 => /\ Above(k[p][1], k[p][2]) /\ Well(k[p][2])
                               /\ k[p][2] \in Instr /\ k[p][2].op \in Deep
           /\ op \notin PutOps \cup ToDir \cup ToFile \cup Ends => res[p] = NULL
<1>0. FilesTypes /\ Calling /\ Refs /\ Unique
  BY DEF Base
<1>1. k[p] # <<>> /\ ~halted /\ Head(k[p]).op = op
  BY DEF On
<1>2. /\ Arg(p) = k[p][1] /\ k[p][1] \in Instr /\ Well(k[p][1])
      /\ Len(k[p]) > 1 => /\ Above(k[p][1], k[p][2]) /\ Well(k[p][2])
                          /\ k[p][2] \in Instr
      /\ ~ (Len(k[p]) > 1) => k[p][1].op \in Bottom
  BY <1>0, <1>1, HeadFacts
<1>3. k[p][1].op = op
  BY <1>1, <1>2 DEF Arg
<1>4. /\ op \notin SOps => k[p][1].s = NULL
      /\ op \notin TOps => k[p][1].t = NULL
  BY <1>2, <1>3 DEF Well
<1>5. /\ op \in SOps => Live(k[p][1].s)
      /\ op \in TOps => Live(k[p][1].t)
      /\ res[p] # NULL => Live(res[p])
      /\ cwd[p] # NULL => Live(cwd[p])
  BY <1>0, <1>1, <1>3, Held
<1>6. op \notin PutOps => cwd[p] # NULL
  BY <1>0, <1>1, <1>3, NotGone
<1>7. /\ op \notin Over => ~ (Len(k[p]) > 1)
      /\ op \notin Bottom => Len(k[p]) > 1
      /\ Len(k[p]) > 1 => k[p][2].op \in Deep
  BY <1>2, <1>3 DEF Above
<1>8. op \notin PutOps \cup ToDir \cup ToFile \cup Ends => res[p] = NULL
  BY <1>0, <1>3 DEF Calling, ResShape
<1> QED BY <1>1, <1>2, <1>3, <1>4, <1>5, <1>6, <1>7, <1>8

\* An instruction of iput() can follow any one ...
LEMMA FitPut ==
    ASSUME Base, NEW p \in Procs, k[p] # <<>>, NEW op \in PutOps, NEW s \in Slots
    PROVE  Fit1(Ins(op, s, NULL, <<>>, ""), k[p])
<1> DEFINE a == Ins(op, s, NULL, <<>>, "")
<1>1. FilesTypes /\ Calling
  BY DEF Base
<1>2. /\ a \in Instr /\ a.op = op /\ a.s = s /\ a.t = NULL
  <2>1. op \in Ops /\ s \in 0..NINODE /\ NULL \in 0..NINODE
    BY FilesAssumption DEF Ops, SOps, Slots, NULL
  <2>2. <<>> \in Seq(Elems) /\ "" \in Args
    BY DEF Args
  <2> QED BY <2>1, <2>2 DEF Ins, Instr
<1>3. op \in {"put", "free", "freed", "dec"}
  BY DEF PutOps
<1> HIDE DEF a
<1>4. Well(a)
  BY <1>2, <1>3 DEF Well, SOps, PutOps, TOps, ToDir, Slots, NULL
<1>5. Len(k[p]) > 1 => k[p][2].op \in Deep
  BY <1>1, HeadFacts DEF Above
<1>6. Len(k[p]) > 1 => Above(a, k[p][2])
  BY <1>2, <1>3, <1>5 DEF Above, Over, PutOps
<1>7. a.op \in Bottom
  BY <1>2, <1>3 DEF Bottom, Ops, SOps, PutOps
<1>8. Fit1(a, k[p])
  BY <1>2, <1>4, <1>6, <1>7 DEF Fit1
<1> QED BY <1>8 DEF a

\* ... and the last instruction of a call can be followed by any that can be the last.
LEMMA FitLast ==
    ASSUME NEW p, ~ (Len(k[p]) > 1), NEW a \in Instr, Well(a), a.op \in Bottom
    PROVE  Fit1(a, k[p])
  BY DEF Fit1

\* The frame of a step that leaves counts, files and results as they are.
LEMMA FrameSame ==
    ASSUME Base, NEW p \in Procs, ic' \in [Slots -> Inode], dn' \in [Inums -> Dinode],
           SameRefs(ic, ic'), halted' \in BOOLEAN, UNCHANGED files,
           Others(res, res', p), res' \in Regs
    PROVE  Frame(p, NULL)
<1>1. Unique'
  BY UniqueKept DEF Base
<1>2. ASSUME NEW s \in Slots PROVE ic'[s].ref = ic[s].ref + Is(NULL, s)
  <2>1. ic'[s].ref = ic[s].ref /\ ic[s].ref \in Nat /\ Is(NULL, s) = 0
    BY OwnNumber DEF SameRefs, Base, FilesTypes, Inode
  <2> QED BY <2>1
<1> QED BY <1>1, <1>2 DEF Frame, files

\* What is in the tables.
LEMMA BaseTypes ==
    ASSUME Base
    PROVE  /\ ic \in [Slots -> Inode] /\ dn \in [Inums -> Dinode] /\ halted \in BOOLEAN
           /\ k \in Stacks /\ res \in Regs /\ cwd \in Regs /\ ft \in Table
           /\ ofile \in [Procs -> [1..NOFILE -> 0..NFILE]] /\ todo \in [Procs -> Nat]
           /\ SameRefs(ic, ic) /\ \A p \in Procs : Others(res, res, p)
  BY DEF Base, FilesTypes, Stacks, Regs, Table, SameRefs, Others

\* One slot changes, or its lock.
Setting(c, s, e) == c = [ic EXCEPT ![s] = e]
Locking(c, s, q) == c = [ic EXCEPT ![s].lk = q]

\* The cache after a slot in use has changed.
LEMMA CacheSet ==
    ASSUME Base, NEW s \in Slots, NEW e \in Inode, e.ref = ic[s].ref, e.inum = ic[s].inum,
           NEW c, Setting(c, s, e)
    PROVE  /\ c \in [Slots -> Inode] /\ SameRefs(ic, c) /\ c[s] = e
           /\ \A z \in Slots : z # s => c[z] = ic[z]
<1>1. ic \in [Slots -> Inode]
  BY BaseTypes
<1>2. c \in [Slots -> Inode] /\ c[s] = e /\ \A z \in Slots : z # s => c[z] = ic[z]
  BY <1>1 DEF Setting
<1> QED BY <1>2 DEF SameRefs

\* The lock of a slot changes.
LEMMA LkSet ==
    ASSUME Base, NEW s \in Slots, NEW q \in Procs \cup {NoProc}, NEW c, Locking(c, s, q)
    PROVE  /\ c \in [Slots -> Inode] /\ SameRefs(ic, c) /\ c[s] = [ic[s] EXCEPT !.lk = q]
           /\ \A z \in Slots : z # s => c[z] = ic[z]
<1> DEFINE i == ic[s]
<1> DEFINE e == [ic[s] EXCEPT !.lk = q]
<1>1. i \in Inode /\ Setting(c, s, e)
  BY BaseTypes DEF Setting, Locking
<1>2. e \in Inode /\ e.ref = ic[s].ref /\ e.inum = ic[s].inum
  <2> HIDE DEF i
  <2>1. /\ [i EXCEPT !.lk = q] \in Inode /\ [i EXCEPT !.lk = q].ref = i.ref
        /\ [i EXCEPT !.lk = q].inum = i.inum
    BY <1>1 DEF Inode
  <2> QED BY <2>1 DEF i
<1> HIDE DEF e
<1>3. /\ c \in [Slots -> Inode] /\ SameRefs(ic, c) /\ c[s] = e
      /\ \A z \in Slots : z # s => c[z] = ic[z]
  BY <1>1, <1>2, CacheSet
<1> QED BY <1>3 DEF e

\* iput() gives its reference on to the rest of it.
LEMMA IputBase ==
    ASSUME Base, NEW p \in Procs, Iput(p)
    PROVE  Base'
<1> DEFINE s == k[p][1].s
<1>0. On(p, "put") /\ "put" \in SOps /\ "put" \notin TOps
  BY DEF Iput, SOps, PutOps, TOps
<1>1. /\ k[p] # <<>> /\ k[p][1].op = "put" /\ Arg(p) = k[p][1] /\ Live(s)
      /\ k[p][1].t = NULL
  BY <1>0, OnFacts
<1>2. PICK op \in PutOps : Then(p, <<Ins(op, s, NULL, <<>>, "")>>)
  BY <1>1 DEF Iput, PutOps
<1>3. Frame(p, NULL)
  <2>1. ic' \in [Slots -> Inode] /\ SameRefs(ic, ic')
    <3>1. ic' = ic \/ Locking(ic', s, p)
      BY <1>1 DEF Iput, Locking
    <3> QED BY <1>1, <3>1, BaseTypes, LkSet DEF Live
  <2>2. dn' = dn /\ UNCHANGED files /\ res' = res /\ halted' = halted
    BY DEF Iput
  <2> QED BY <2>1, <2>2, BaseTypes, FrameSame
<1> DEFINE a == Ins(op, s, NULL, <<>>, "")
<1>4. a.op \in PutOps /\ \A z \in Slots : Own(a, z) = Is(s, z) + Is(NULL, z)
  <2>1. a.op = op
    BY DEF Ins
  <2>2. \A z \in Slots : Own(a, z) = Is(s, z) + Is(NULL, z)
    BY DEF Ins, Own
  <2> QED BY <2>1, <2>2
<1>5. Fit1(a, k[p])
  BY <1>1, FitPut DEF Live
<1> HIDE DEF a
<1>6. Gives1(p, NULL, a)
  <2>1. res' = res
    BY DEF Iput
  <2> QED BY <1>1, <1>4, <2>1, OwnNumber DEF Gives1, Own
<1>7. res'[p] # NULL => /\ Len(k[p]) > 1 /\ ~ (Len(k[p]) > 2) /\ k[p][2].op \in Ends
  BY <1>1 DEF Base, Calling, ResShape, Iput, ToDir, ToFile, Ends
<1> QED BY <1>1, <1>2, <1>3, <1>4, <1>5, <1>6, <1>7, Step1 DEF a

\* The result of p becomes r.
LEMMA ReturnFacts ==
    ASSUME Base, NEW p \in Procs, NEW r \in 0..NINODE, Return(p, r)
    PROVE  Others(res, res', p) /\ res' \in Regs /\ res'[p] = r
  BY DEF Base, FilesTypes, Return, Others, Regs

\* Slot 0 is none.
LEMMA NullSlot ==
    NULL \in 0..NINODE /\ NULL \notin Slots /\ \A s \in Slots : s \in 0..NINODE
  BY FilesAssumption DEF NULL, Slots

\* The first instruction of p and its result own just slot s.
Holds(p, s) == \A z \in Slots : Own(k[p][1], z) + Is(res[p], z) = Is(s, z)

\* They do if one of them has it and the other nothing.
LEMMA HoldsOne ==
    ASSUME Base, NEW p \in Procs, NEW s \in Slots, k[p][1].t = NULL,
           \/ k[p][1].s = s /\ res[p] = NULL
           \/ k[p][1].s = NULL /\ res[p] = s
    PROVE  Holds(p, s)
  BY OwnNumber DEF Holds, Own

\* An instruction is replaced by one that owns the same.
LEMMA GivesSame ==
    ASSUME NEW p, NEW a, \A z \in Slots : Own(a, z) = Own(k[p][1], z), res' = res
    PROVE  Gives1(p, NULL, a)
  BY OwnNumber DEF Gives1

\* The reference of p is put, ...
LEMMA PutStep ==
    ASSUME Base, NEW p \in Procs, k[p] # <<>>, NEW s \in Slots, Holds(p, s), Frame(p, NULL),
           res'[p] = NULL, Then(p, <<Put(s)>>)
    PROVE  Base'
<1> DEFINE a == Put(s)
<1>1. a.op \in PutOps /\ \A z \in Slots : Own(a, z) = Is(s, z) + Is(NULL, z)
  BY DEF Put, Ins, Own, PutOps
<1>2. Fit1(a, k[p])
  <2>1. "put" \in PutOps
    BY DEF PutOps
  <2> QED BY <2>1, FitPut DEF Put
<1>3. Then(p, <<a>>)
  OBVIOUS
<1> HIDE DEF a
<1>4. Gives1(p, NULL, a)
  <2> SUFFICES ASSUME NEW z \in Slots
               PROVE  Own(a, z) + Is(res'[p], z) = Own(k[p][1], z) + Is(res[p], z) + Is(NULL, z)
    BY DEF Gives1
  <2>1. Own(k[p][1], z) + Is(res[p], z) = Is(s, z) /\ Own(a, z) = Is(s, z) + Is(NULL, z)
    BY <1>1 DEF Holds
  <2>2. Is(NULL, z) = 0 /\ Is(s, z) \in Int /\ Is(res'[p], z) = 0
    BY OwnNumber
  <2> QED BY <2>1, <2>2
<1> QED BY <1>1, <1>2, <1>3, <1>4, Step1

\* ... or kept by the next instruction of iput().
LEMMA PutOn ==
    ASSUME Base, NEW p \in Procs, k[p] # <<>>, k[p][1].op \in PutOps, Frame(p, NULL), res' = res,
           NEW op \in PutOps, Then(p, <<Ins(op, k[p][1].s, NULL, <<>>, "")>>)
    PROVE  Base'
<1> DEFINE s == k[p][1].s
<1> DEFINE a == Ins(op, s, NULL, <<>>, "")
<1>1. k[p][1].t = NULL /\ Live(s)
  <2>1. FilesTypes /\ Calling /\ Refs /\ Unique
    BY DEF Base
  <2>2. k[p][1].op \in SOps /\ k[p][1].op \notin TOps
    BY DEF SOps, TOps, PutOps
  <2>3. Well(k[p][1])
    BY <2>1, HeadFacts
  <2> QED BY <2>1, <2>2, <2>3, Held DEF Well
<1>2. a.op \in PutOps /\ \A z \in Slots : Own(a, z) = Is(s, z) + Is(NULL, z)
  BY DEF Ins, Own
<1>3. Fit1(a, k[p])
  BY <1>1, FitPut DEF Live
<1>4. Then(p, <<a>>)
  OBVIOUS
<1> HIDE DEF a
<1>5. Gives1(p, NULL, a)
  <2>1. k[p][1].s = s
    OBVIOUS
  <2>2. \A z \in Slots : Own(a, z) = Own(k[p][1], z)
    BY <1>1, <1>2, <2>1 DEF Own
  <2> QED BY <2>2, GivesSame
<1>6. res'[p] # NULL => /\ Len(k[p]) > 1 /\ ~ (Len(k[p]) > 2) /\ k[p][2].op \in Ends
  BY DEF Base, Calling, ResShape, PutOps, ToDir, ToFile, Ends
<1> QED BY <1>2, <1>3, <1>4, <1>5, <1>6, Step1

\* It is unlocked first.
LEMMA UnlockStep ==
    ASSUME Base, NEW p \in Procs, k[p] # <<>>, NEW s \in Slots, Holds(p, s), Frame(p, NULL),
           res'[p] = NULL, cwd[p] # NULL, Then(p, <<Unlock(s)>>),
           Len(k[p]) > 1 => k[p][2].op = "bad"
    PROVE  Base'
<1> DEFINE a == Unlock(s)
<1>1. /\ a.op = "unlockput" /\ a.s = s /\ a.t = NULL /\ a \in Instr
  <2>1. /\ "unlockput" \in Ops /\ s \in 0..NINODE /\ NULL \in 0..NINODE
    BY NullSlot DEF Ops, SOps
  <2>2. <<>> \in Seq(Elems) /\ "" \in Args
    BY DEF Args
  <2> QED BY <2>1, <2>2 DEF Unlock, Ins, Instr
<1>2. Then(p, <<a>>)
  OBVIOUS
<1> HIDE DEF a
<1>3. Well(a) /\ a.op \in Bottom
  BY <1>1, NullSlot DEF Well, Bottom, Ops, SOps, PutOps, TOps, ToDir
<1>4. Fit1(a, k[p])
  BY <1>1, <1>3 DEF Fit1, Above, Over, Deep
<1>5. Gives1(p, NULL, a)
  <2> SUFFICES ASSUME NEW z \in Slots
               PROVE  Own(a, z) + Is(res'[p], z) = Own(k[p][1], z) + Is(res[p], z) + Is(NULL, z)
    BY DEF Gives1
  <2>1. Own(k[p][1], z) + Is(res[p], z) = Is(s, z) /\ Own(a, z) = Is(s, z) + Is(NULL, z)
    BY <1>1 DEF Holds, Own
  <2>2. Is(NULL, z) = 0 /\ Is(s, z) \in Int /\ Is(res'[p], z) = 0
    BY OwnNumber
  <2> QED BY <2>1, <2>2
<1> QED BY <1>2, <1>4, <1>5, Step1

\* The frame of a step with one iget().
LEMMA FrameGot ==
    ASSUME Base, NEW p \in Procs, NEW i \in Inums, HasSlot(i), NEW c \in [Slots -> Inode],
           SameRefs(ic, c), ic' = iget(c, i), dn' \in [Inums -> Dinode],
           halted' \in BOOLEAN, UNCHANGED files, Others(res, res', p), res' \in Regs
    PROVE  /\ Frame(p, SlotOf(ic, i)) /\ SlotOf(c, i) = SlotOf(ic, i)
           /\ SlotOf(ic, i) \in Slots
<1>1. FilesTypes /\ Unique
  BY DEF Base
<1>2. /\ Got(c, iget(c, i), i, SlotOf(ic, i))
      /\ Finds(i, SlotOf(ic, i)) /\ SlotOf(c, i) = SlotOf(ic, i)
  BY <1>1, IgetGot
<1>3. Got(c, ic', i, SlotOf(ic, i))
  BY <1>2
<1>4. Unique' /\ \A s \in Slots : ic'[s].ref = ic[s].ref + Is(SlotOf(ic, i), s)
  BY <1>1, <1>2, <1>3, UniqueGot
<1>5. ic' \in [Slots -> Inode] /\ SlotOf(ic, i) \in Slots
  BY <1>2, <1>3 DEF Got, Finds
<1> QED BY <1>2, <1>4, <1>5 DEF Frame, files

\* The inode is freed on disk, ...
LEMMA IputFreeBase ==
    ASSUME Base, NEW p \in Procs, IputFree(p)
    PROVE  Base'
<1> DEFINE s == k[p][1].s
<1>0. On(p, "free") /\ "free" \in SOps /\ "free" \in PutOps /\ "freed" \in PutOps
  BY DEF IputFree, SOps, PutOps
<1>1. k[p] # <<>> /\ k[p][1].op = "free" /\ Arg(p) = k[p][1] /\ Live(s)
  BY <1>0, OnFacts
<1>2. /\ Then(p, <<Ins("freed", s, NULL, <<>>, "")>>) /\ res' = res /\ ic' = ic
      /\ UNCHANGED files /\ halted' = halted
  BY <1>1 DEF IputFree
<1>3. dn' \in [Inums -> Dinode]
  <2> DEFINE i == ic[s].inum
  <2> DEFINE o == dn[i]
  <2> DEFINE r == [o EXCEPT !.type = "FREE", !.ents = NoEntries]
  <2>1. dn \in [Inums -> Dinode] /\ i \in Inums /\ o \in Dinode
    BY <1>1, BaseTypes DEF Live
  <2>2. InodeSet(dn, dn', i, r)
    BY <1>1 DEF IputFree, InodeSet
  <2> HIDE DEF o
  <2>3. r \in Dinode
    <3>1. NoEntries \in [Entries -> Inums \cup {NULL}] /\ "FREE" \in Types
      BY DEF NoEntries, Types
    <3> QED BY <2>1, <3>1 DEF Dinode
  <2> HIDE DEF i, r
  <2> QED BY <2>1, <2>2, <2>3, InodeSetFacts
<1>4. Frame(p, NULL)
  BY <1>2, <1>3, BaseTypes, FrameSame
<1> QED BY <1>0, <1>1, <1>2, <1>4, PutOn

\* ... and in the cache.
LEMMA IputFreedBase ==
    ASSUME Base, NEW p \in Procs, IputFreed(p)
    PROVE  Base'
<1> DEFINE s == k[p][1].s
<1>0. On(p, "freed") /\ "freed" \in SOps /\ "freed" \in PutOps /\ "dec" \in PutOps
  BY DEF IputFreed, SOps, PutOps
<1>1. k[p] # <<>> /\ k[p][1].op = "freed" /\ Arg(p) = k[p][1] /\ Live(s)
  BY <1>0, OnFacts
<1>2. /\ Then(p, <<Ins("dec", s, NULL, <<>>, "")>>) /\ res' = res /\ dn' = dn
      /\ UNCHANGED files /\ halted' = halted
  BY <1>1 DEF IputFreed
<1>3. ic' \in [Slots -> Inode] /\ SameRefs(ic, ic')
  <2> DEFINE i == ic[s]
  <2> DEFINE e == [i EXCEPT !.type = "FREE", !.valid = FALSE, !.lk = NoProc]
  <2>1. s \in Slots /\ i \in Inode /\ Setting(ic', s, e)
    BY <1>1, BaseTypes DEF IputFreed, Setting, Live
  <2> HIDE DEF i
  <2>2. e \in Inode /\ e.ref = i.ref /\ e.inum = i.inum
    BY <2>1 DEF Inode, Types
  <2> HIDE DEF e
  <2> QED BY <2>1, <2>2, CacheSet DEF i
<1>4. Frame(p, NULL)
  BY <1>2, <1>3, BaseTypes, FrameSame
<1> QED BY <1>0, <1>1, <1>2, <1>4, PutOn

\* iunlockput() gives its reference to iput().
LEMMA IunlockputBase ==
    ASSUME Base, NEW p \in Procs, Iunlockput(p)
    PROVE  Base'
<1> DEFINE s == k[p][1].s
<1>0. /\ On(p, "unlockput") /\ "unlockput" \in SOps /\ "unlockput" \notin TOps
      /\ "unlockput" \notin PutOps \cup ToDir \cup ToFile \cup Ends
  BY DEF Iunlockput, SOps, PutOps, ToDir, ToFile, Ends, TOps
<1>1. /\ k[p] # <<>> /\ Arg(p) = k[p][1] /\ Live(s) /\ res[p] = NULL
      /\ k[p][1].t = NULL
  BY <1>0, OnFacts
<1>2. /\ Then(p, <<Put(s)>>) /\ res' = res /\ dn' = dn /\ Locking(ic', s, NoProc)
      /\ UNCHANGED files /\ halted' = halted
  BY <1>1 DEF Iunlockput, Locking
<1>3. ic' \in [Slots -> Inode] /\ SameRefs(ic, ic')
  BY <1>1, <1>2, LkSet DEF Live
<1>4. Frame(p, NULL)
  BY <1>2, <1>3, BaseTypes, FrameSame
<1>5. Holds(p, s)
  BY <1>1, HoldsOne DEF Live
<1> QED BY <1>1, <1>2, <1>4, <1>5, PutStep DEF Live

\* A reference is given up.
LEMMA IputDecBase ==
    ASSUME Base, NEW p \in Procs, IputDec(p)
    PROVE  Base'
<1> DEFINE s == k[p][1].s
<1>0. On(p, "dec") /\ "dec" \in SOps /\ "dec" \notin TOps /\ "dec" \in PutOps
  BY DEF IputDec, SOps, PutOps, TOps
<1>1. /\ k[p] # <<>> /\ Arg(p) = k[p][1] /\ Live(s) /\ k[p][1].t = NULL
      /\ k[p][1].op \in PutOps
  BY <1>0, OnFacts
<1>2. /\ Then(p, <<>>) /\ res' = res /\ dn' = dn
      /\ ft' = ft /\ ofile' = ofile /\ cwd' = cwd /\ todo' = todo /\ halted' = halted
  BY <1>1 DEF IputDec, files
<1>b. FilesTypes /\ Calling /\ Refs /\ Unique /\ Descriptors
  BY DEF Base
<1>3. /\ ic' \in [Slots -> Inode]
      /\ \A z \in Slots : ic'[z].inum = ic[z].inum /\ ic'[z].ref = ic[z].ref - Is(s, z)
  <2> DEFINE i == ic[s]
  <2> DEFINE e == [i EXCEPT !.ref = @ - 1]
  <2>1. s \in Slots /\ i \in Inode /\ SlotSet(ic, ic', s, e) /\ i.ref \in Nat \ {0}
        /\ ic \in [Slots -> Inode]
    <3>1. ic' = [ic EXCEPT ![s].ref = @ - 1]
      BY <1>1 DEF IputDec
    <3>2. SlotSet(ic, ic', s, e)
      BY <3>1 DEF SlotSet
    <3>3. s \in Slots /\ i \in Inode /\ i.ref \in Nat \ {0} /\ ic \in [Slots -> Inode]
      BY <1>1, BaseTypes DEF Live
    <3> QED BY <3>2, <3>3
  <2> HIDE DEF i
  <2>2. e \in Inode /\ e.ref = i.ref - 1 /\ e.inum = i.inum
    BY <2>1 DEF Inode
  <2> HIDE DEF e, s
  <2>3. ic' \in [Slots -> Inode] /\ ic'[s] = e /\ \A z \in Slots : z # s => ic'[z] = ic[z]
    BY <2>1, <2>2, SlotSetFacts
  <2>4. ASSUME NEW z \in Slots
        PROVE  ic'[z].inum = ic[z].inum /\ ic'[z].ref = ic[z].ref - Is(s, z)
    <3>1. ic[z].ref \in Nat
      BY <2>1 DEF Inode
    <3>2. CASE z = s
      BY <2>2, <2>3, <3>1, <3>2 DEF Is, i
    <3>3. CASE z # s
      BY <2>3, <3>1, <3>3 DEF Is
    <3> QED BY <3>2, <3>3
  <2> QED BY <2>3, <2>4
<1>4. /\ Stay(p) /\ Shape(k'[p]) /\ Len(k'[p]) = Len(k[p]) - 1
      /\ Len(k[p]) > 1 => k'[p] # <<>> /\ k'[p][1] = k[p][2]
      /\ ~ (Len(k[p]) > 1) => k'[p] = <<>>
      /\ Finite(At(k', res, cwd, ft))
      /\ \A z \in Slots : Count(At(k', res, cwd, ft), z) = ic[z].ref - Own(k[p][1], z)
  BY <1>1, <1>2, <1>b, Then0
<1>5. Refs'
  <2> HIDE DEF s
  <2>1. ASSUME NEW z \in Slots PROVE Count(At(k', res, cwd, ft), z) = ic'[z].ref
    <3>1. Own(k[p][1], z) = Is(s, z)
      BY <1>1, OwnNumber DEF Own, s
    <3> QED BY <1>3, <1>4, <3>1
  <2> QED BY <1>2, <1>4, <2>1 DEF Refs
<1>6. Unique'
  <2>1. \A z \in Slots : ic'[z].inum = ic[z].inum /\ (ic'[z].ref > 0 => ic[z].ref > 0)
    <3> TAKE z \in Slots
    <3>1. ic[z].ref \in Nat /\ Is(s, z) \in 0..1 /\ ic'[z].ref = ic[z].ref - Is(s, z)
      BY <1>3, <1>b, OwnNumber DEF FilesTypes, Inode
    <3> QED BY <1>3, <3>1
  <2> QED BY <1>b, <2>1 DEF Unique
<1>7. FilesTypes'
  BY <1>2, <1>3, <1>4, <1>b DEF FilesTypes, Stay, Stacks
<1>8. Calling'
  <2>1. Others(res, res', p) /\ Others(cwd, cwd', p) /\ Others(ofile, ofile', p)
    BY <1>2 DEF Others
  <2>2. ResShape(k'[p], res'[p])
    <3>1. res[p] # NULL => /\ Len(k[p]) > 1 /\ ~ (Len(k[p]) > 2) /\ k[p][2].op \in Ends
      BY <1>1, <1>b DEF Calling, ResShape, PutOps, ToDir, ToFile, Ends
    <3>2. \A o \in Ends : o \notin ToDir
      BY DEF Ends, ToDir
    <3> QED BY <1>2, <1>4, <3>1, <3>2 DEF ResShape
  <2>3. cwd'[p] = NULL => Gone(p)'
    BY <1>2, <1>4, <1>b DEF Calling, Gone
  <2> QED BY <1>4, <1>b, <2>1, <2>2, <2>3, CallingKept
<1>9. Descriptors'
  BY <1>2, <1>b DEF Descriptors
<1> QED BY <1>5, <1>6, <1>7, <1>8, <1>9 DEF Base

\* A sequence whose elements are all in T.
LEMMA SeqRetyped ==
    ASSUME NEW S, NEW T, NEW q \in Seq(S), \A j \in 1..Len(q) : q[j] \in T
    PROVE  q \in Seq(T)
  OBVIOUS

\* The elements of a path after its "/", if it has one.
LEMMA PathRest ==
    ASSUME NEW q, IsPath(q)
    PROVE  /\ q \in Seq(Elems) /\ q # <<>>
           /\ q[1] = "/" => /\ Tail(q) \in Seq(Names \cup {".", ".."})
                            /\ Tail(q) # <<>> => Last(q) # "/"
           /\ q[1] # "/" => q \in Seq(Names \cup {".", ".."}) /\ Last(q) # "/"
<1>1. /\ q \in Seq(Names \cup {".", "..", "/"}) /\ q # <<>> /\ \A j \in 2..Len(q) : q[j] # "/"
      /\ Len(q) \in Nat \ {0} /\ q \in Seq(Elems)
  BY DEF IsPath, Elems
<1>2. \A j \in 1..Len(q) : q[j] \in Names \cup {".", "..", "/"}
  BY <1>1
<1>3. Last(q) = q[Len(q)]
  BY DEF Last
<1>4. ASSUME q[1] = "/"
      PROVE  /\ Tail(q) \in Seq(Names \cup {".", ".."})
             /\ Tail(q) # <<>> => Last(q) # "/"
  <2>1. /\ Tail(q) \in Seq(Names \cup {".", "..", "/"}) /\ Len(Tail(q)) = Len(q) - 1
        /\ \A j \in 1..(Len(q) - 1) : Tail(q)[j] = q[j + 1]
    BY <1>1
  <2>2. ASSUME NEW j \in 1..(Len(q) - 1) PROVE Tail(q)[j] \in Names \cup {".", ".."}
    <3>1. j + 1 \in 2..Len(q) /\ j + 1 \in 1..Len(q)
      BY <1>1
    <3> QED BY <1>1, <1>2, <2>1, <3>1
  <2>3. Tail(q) \in Seq(Names \cup {".", ".."})
    <3> DEFINE t == Tail(q)
    <3>1. t \in Seq(Names \cup {".", "..", "/"}) /\ \A j \in 1..Len(t) : t[j] \in Names \cup {".", ".."}
      BY <2>1, <2>2
    <3> HIDE DEF t
    <3>2. t \in Seq(Names \cup {".", ".."})
      BY <3>1, SeqRetyped
    <3> QED BY <3>2 DEF t
  <2>4. ASSUME Tail(q) # <<>> PROVE Last(q) # "/"
    <3>1. Len(q) - 1 # 0
      <4> DEFINE t == Tail(q)
      <4>1. t \in Seq(Names \cup {".", "..", "/"}) /\ Len(t) = Len(q) - 1 /\ t # <<>>
        BY <2>1, <2>4
      <4> HIDE DEF t
      <4>2. Len(t) # 0
        BY <4>1
      <4> QED BY <4>1, <4>2
    <3>2. Len(q) \in 2..Len(q)
      <4>1. Len(q) \in Nat \ {0}
        BY <1>1
      <4>2. \A n \in Nat \ {0} : n - 1 # 0 => n \in 2..n
        OBVIOUS
      <4> QED BY <3>1, <4>1, <4>2
    <3> QED BY <1>1, <1>3, <3>2
  <2> QED BY <2>3, <2>4
<1>5. ASSUME q[1] # "/" PROVE q \in Seq(Names \cup {".", ".."}) /\ Last(q) # "/"
  <2>1. ASSUME NEW j \in 1..Len(q) PROVE q[j] \in Names \cup {".", ".."} /\ q[j] # "/"
    <3>1. j = 1 \/ j \in 2..Len(q)
      BY <1>1
    <3> QED BY <1>1, <1>2, <1>5, <3>1
  <2>2. q \in Seq(Names \cup {".", ".."})
    BY <1>1, <2>1, SeqRetyped
  <2>3. Len(q) \in 1..Len(q)
    BY <1>1
  <2> QED BY <1>3, <2>1, <2>2, <2>3
<1> QED BY <1>1, <1>4, <1>5

\* One more reference to a slot that is in use.
LEMMA DupFacts ==
    ASSUME Base, NEW s, Live(s), ic' = idup(ic, s)
    PROVE  /\ ic' \in [Slots -> Inode] /\ Unique'
           /\ \A z \in Slots : ic'[z].inum = ic[z].inum /\ ic'[z].ref = ic[z].ref + Is(s, z)
<1>1. /\ ic' \in [Slots -> Inode]
      /\ \A z \in Slots : ic'[z].inum = ic[z].inum /\ ic'[z].ref = ic[z].ref + Is(s, z)
  <2> DEFINE i == ic[s]
  <2> DEFINE e == [i EXCEPT !.ref = @ + 1]
  <2>1. SlotSet(ic, ic', s, e)
    BY DEF SlotSet, idup
  <2>2. s \in Slots /\ i \in Inode /\ ic \in [Slots -> Inode]
    BY BaseTypes DEF Live
  <2> HIDE DEF i
  <2>3. e \in Inode /\ e.ref = i.ref + 1 /\ e.inum = i.inum
    BY <2>2 DEF Inode
  <2> HIDE DEF e
  <2>4. ic' \in [Slots -> Inode] /\ ic'[s] = e /\ \A z \in Slots : z # s => ic'[z] = ic[z]
    <3>1. e \in Inode
      BY <2>3
    <3> QED BY <2>1, <2>2, <3>1, SlotSetFacts
  <2>5. ASSUME NEW z \in Slots
        PROVE  ic'[z].inum = ic[z].inum /\ ic'[z].ref = ic[z].ref + Is(s, z)
    <3>1. ic[z].ref \in Nat
      BY <2>2 DEF Inode
    <3>2. CASE z = s
      BY <2>3, <2>4, <3>1, <3>2 DEF Is, i
    <3>3. CASE z # s
      BY <2>4, <3>1, <3>3 DEF Is
    <3> QED BY <3>2, <3>3
  <2> QED BY <2>4, <2>5
<1>2. Unique'
  <2>1. \A z \in Slots : ic'[z].inum = ic[z].inum /\ (ic'[z].ref > 0 => ic[z].ref > 0)
    <3> TAKE z \in Slots
    <3>1. ic[z].ref \in Nat
      BY BaseTypes DEF Inode
    <3>2. CASE z = s
      BY <1>1, <3>1, <3>2 DEF Live
    <3>3. CASE z # s
      BY <1>1, <3>1, <3>3 DEF Is
    <3> QED BY <3>2, <3>3
  <2> QED BY <2>1 DEF Unique, Base
<1> QED BY <1>1, <1>2

\* The frame of such a step.
LEMMA FrameDup ==
    ASSUME Base, NEW p \in Procs, NEW s, Live(s), ic' = idup(ic, s), dn' = dn, halted' = halted,
           UNCHANGED files, res' = res
    PROVE  Frame(p, s)
<1>1. /\ ic' \in [Slots -> Inode] /\ Unique'
      /\ \A z \in Slots : ic'[z].inum = ic[z].inum /\ ic'[z].ref = ic[z].ref + Is(s, z)
  BY DupFacts
<1> QED BY <1>1, BaseTypes DEF Frame, files

\* A walk over a path below the call that needs it.
LEMMA WalkWell ==
    ASSUME NEW s \in Slots, NEW path \in Seq(Names \cup {".", ".."}), NEW arg \in {"parent", "file"},
           NEW a, a = Ins("walk", s, NULL, path, arg)
    PROVE  /\ a \in Instr /\ Well(a) /\ a.op = "walk" /\ a.s = s /\ a.t = NULL
           /\ a.path = path /\ a.arg = arg /\ \A z \in Slots : Own(a, z) = Is(s, z)
<1>1. /\ a.op = "walk" /\ a.s = s /\ a.t = NULL /\ a.path = path /\ a.arg = arg
  BY DEF Ins
<1>2. a \in Instr
  <2>1. "walk" \in Ops /\ s \in 0..NINODE /\ NULL \in 0..NINODE
    BY NullSlot DEF Ops, SOps
  <2>2. path \in Seq(Elems)
    BY DEF Elems
  <2>3. arg \in Args
    BY DEF Args
  <2> QED BY <2>1, <2>2, <2>3 DEF Ins, Instr
<1>3. Well(a)
  BY <1>1, NullSlot DEF Well, SOps, TOps, ToDir
<1>4. \A z \in Slots : Own(a, z) = Is(s, z)
  BY <1>1, OwnNumber DEF Own
<1> QED BY <1>1, <1>2, <1>3, <1>4

\* An instruction of iput() before others.
LEMMA PutWell ==
    ASSUME NEW s \in Slots, NEW a, a = Put(s)
    PROVE  /\ a \in Instr /\ Well(a) /\ a.op = "put" /\ a.s = s /\ a.t = NULL
           /\ a.op \in Bottom /\ \A z \in Slots : Own(a, z) = Is(s, z)
           /\ \A b : b.op \in Deep => Above(a, b)
<1>1. a.op = "put" /\ a.s = s /\ a.t = NULL
  BY DEF Put, Ins
<1>2. a \in Instr
  <2>1. "put" \in Ops /\ s \in 0..NINODE /\ NULL \in 0..NINODE
    BY NullSlot DEF Ops, SOps, PutOps
  <2>2. <<>> \in Seq(Elems) /\ "" \in Args
    BY DEF Args
  <2> QED BY <2>1, <2>2 DEF Put, Ins, Instr
<1>3. Well(a) /\ a.op \in Bottom
  BY <1>1, NullSlot DEF Well, SOps, PutOps, TOps, ToDir, Bottom, Ops
<1>4. \A z \in Slots : Own(a, z) = Is(s, z)
  BY <1>1, OwnNumber DEF Own
<1>5. \A b : b.op \in Deep => Above(a, b)
  BY <1>1 DEF Above, Over, PutOps
<1> QED BY <1>1, <1>2, <1>3, <1>4, <1>5

\* A process that owns nothing gets slot x.
LEMMA GivesNew ==
    ASSUME NEW p, k[p][1].s = NULL, k[p][1].t = NULL, res[p] = NULL, res'[p] = NULL,
           NEW x, NEW a, \A z \in Slots : Own(a, z) = Is(x, z)
    PROVE  Gives1(p, x, a)
<1> SUFFICES ASSUME NEW z \in Slots
             PROVE  Own(a, z) + Is(res'[p], z) = Own(k[p][1], z) + Is(res[p], z) + Is(x, z)
  BY DEF Gives1
<1>1. Own(a, z) = Is(x, z) /\ Own(k[p][1], z) = Is(NULL, z) + Is(NULL, z)
  BY DEF Own
<1>2. Is(NULL, z) = 0 /\ Is(x, z) \in Int
  BY OwnNumber
<1> QED BY <1>1, <1>2

\* namex() takes the root or the current directory.
LEMMA NamexStartBase ==
    ASSUME Base, NEW p \in Procs, NamexStart(p)
    PROVE  Base'
<1> DEFINE i == k[p][1]
<1> DEFINE path == i.path
<1> DEFINE abs == path[1] = "/"
<1> DEFINE s == IF abs THEN SlotOf(ic, ROOTINO) ELSE cwd[p]
<1> DEFINE w == IF abs THEN Tail(path) ELSE path
<1> DEFINE a == Ins("walk", s, NULL, w, i.arg)
<1>0. /\ On(p, "namex") /\ "namex" \notin SOps /\ "namex" \notin TOps /\ "namex" \notin Bottom
      /\ "namex" \notin PutOps /\ "namex" \notin PutOps \cup ToDir \cup ToFile \cup Ends
  BY DEF NamexStart, SOps, TOps, Bottom, PutOps, ToDir, ToFile, Ends
<1>1. /\ k[p] # <<>> /\ i.op = "namex" /\ Arg(p) = i /\ Well(i) /\ i.s = NULL /\ i.t = NULL
      /\ cwd[p] # NULL /\ Live(cwd[p]) /\ Len(k[p]) > 1 /\ Above(i, k[p][2]) /\ res[p] = NULL
      /\ k[p][2].op \in Deep
  BY <1>0, OnFacts
<1>2. /\ Then(p, <<a>>) /\ dn' = dn /\ UNCHANGED files /\ res' = res /\ halted' = halted
      /\ abs => HasSlot(ROOTINO) /\ ic' = iget(ic, ROOTINO)
      /\ ~abs => ic' = idup(ic, cwd[p])
  BY <1>1 DEF NamexStart
<1>3. IsPath(path) /\ i.arg \in {"parent", "file"}
  BY <1>1 DEF Well
<1>4. Frame(p, s) /\ s \in Slots
  <2>1. CASE abs
    <3>1. ROOTINO \in Inums
      BY FilesAssumption
    <3>2. Frame(p, SlotOf(ic, ROOTINO)) /\ SlotOf(ic, ROOTINO) \in Slots
      BY <1>2, <2>1, <3>1, BaseTypes, FrameGot
    <3> QED BY <2>1, <3>2
  <2>2. CASE ~abs
    <3>1. Frame(p, cwd[p])
      BY <1>1, <1>2, <2>2, FrameDup
    <3> QED BY <1>1, <2>2, <3>1 DEF Live
  <2> QED BY <2>1, <2>2
<1>5. /\ w \in Seq(Names \cup {".", ".."})
      /\ w # <<>> => Last(path) # "/"
  BY <1>3, PathRest
<1> HIDE DEF s, w
<1>6. /\ a \in Instr /\ Well(a) /\ a.op = "walk" /\ a.s = s /\ a.t = NULL
      /\ a.path = w /\ a.arg = i.arg /\ \A z \in Slots : Own(a, z) = Is(s, z)
  BY <1>3, <1>4, <1>5, WalkWell
<1> HIDE DEF a
<1>7. Above(a, k[p][2])
  <2>1. a.op \in Over /\ k[p][2].op \in IF a.arg = "parent" THEN ToDir ELSE ToFile
    BY <1>1, <1>6 DEF Above, Over
  <2>2. a.arg = "parent" /\ a.path # <<>> => Last(k[p][2].path) # "/"
    BY <1>1, <1>5, <1>6 DEF Above
  <2> QED BY <1>1, <1>6, <2>1, <2>2 DEF Above
<1>8. Fit1(a, k[p])
  BY <1>1, <1>6, <1>7 DEF Fit1
<1>9. Gives1(p, s, a)
  BY <1>1, <1>2, <1>6, GivesNew
<1> QED BY <1>1, <1>2, <1>4, <1>8, <1>9, Step1

\* An empty path.
LEMMA NamexEndBase ==
    ASSUME Base, NEW p \in Procs, NamexEnd(p)
    PROVE  Base'
<1> DEFINE i == k[p][1]
<1> DEFINE s == i.s
<1>0. /\ On(p, "walk") /\ "walk" \in SOps /\ "walk" \notin TOps /\ "walk" \notin Bottom
      /\ "walk" \notin PutOps /\ "walk" \notin PutOps \cup ToDir \cup ToFile \cup Ends
  BY DEF NamexEnd, SOps, TOps, Bottom, PutOps, ToDir, ToFile, Ends
<1>1. /\ k[p] # <<>> /\ i.op = "walk" /\ Arg(p) = i /\ Well(i) /\ i.t = NULL
      /\ Live(s) /\ Len(k[p]) > 1 /\ Above(i, k[p][2]) /\ res[p] = NULL
      /\ i \in Instr
  BY <1>0, OnFacts
<1>2. /\ ic' = ic /\ dn' = dn /\ UNCHANGED files /\ halted' = halted
      /\ i.arg = "parent" => Return(p, NULL) /\ Then(p, <<Put(s)>>)
      /\ i.arg # "parent" => Return(p, s) /\ Then(p, <<>>)
  BY <1>1 DEF NamexEnd
<1>3. ASSUME NEW r \in 0..NINODE, Return(p, r)
      PROVE  Frame(p, NULL) /\ res'[p] = r
  BY <1>2, <1>3, ReturnFacts, BaseTypes, FrameSame
<1>4. Holds(p, s) /\ s \in Slots
  BY <1>1, HoldsOne DEF Live
<1>5. CASE i.arg = "parent"
  BY <1>1, <1>2, <1>3, <1>4, <1>5, PutStep, NullSlot
<1>6. CASE i.arg # "parent"
  <2>1. Frame(p, NULL) /\ res'[p] = s /\ Then(p, <<>>)
    BY <1>2, <1>3, <1>4, <1>6, NullSlot
  <2>2. k[p][2].op \in ToFile
    BY <1>1, <1>6 DEF Above
  <2>3. k[p][2].op \notin ToDir
    BY <2>2 DEF ToFile, ToDir
  <2>4. Gives0(p, NULL)
    <3> SUFFICES ASSUME NEW z \in Slots
                 PROVE  Is(res'[p], z) = Own(k[p][1], z) + Is(res[p], z) + Is(NULL, z)
      BY DEF Gives0
    <3>1. Own(k[p][1], z) + Is(res[p], z) = Is(s, z) /\ Is(res'[p], z) = Is(s, z)
      BY <1>4, <2>1 DEF Holds
    <3>2. Is(NULL, z) = 0 /\ Is(s, z) \in Int
      BY OwnNumber
    <3> HIDE DEF s
    <3> QED BY <3>1, <3>2
  <2> QED BY <1>1, <2>1, <2>2, <2>3, <2>4, Step0
<1> QED BY <1>5, <1>6

\* A call that has failed, or has nothing to do, owns nothing.
LEMMA DoneStep ==
    ASSUME Base, NEW p \in Procs, k[p] # <<>>, k[p][1].s = NULL, k[p][1].t = NULL,
           res[p] = NULL, Frame(p, NULL), res' = res, Then(p, <<>>)
    PROVE  Base'
<1>1. Gives0(p, NULL)
  <2> SUFFICES ASSUME NEW z \in Slots
               PROVE  Is(res'[p], z) = Own(k[p][1], z) + Is(res[p], z) + Is(NULL, z)
    BY DEF Gives0
  <2>1. Own(k[p][1], z) = Is(NULL, z) + Is(NULL, z) /\ Is(res'[p], z) = Is(NULL, z)
    BY DEF Own
  <2> QED BY <2>1, OwnNumber
<1> QED BY <1>1, Step0

\* A call that has failed ends, ...
LEMMA FailedBase ==
    ASSUME Base, NEW p \in Procs, Failed(p)
    PROVE  Base'
<1>1. PICK op \in {"unlink", "link1", "open", "made", "create", "opened", "chdir"} : On(p, op)
  BY DEF Failed
<1>2. op \notin SOps /\ op \notin TOps
  BY DEF SOps, PutOps, TOps
<1>3. k[p] # <<>> /\ k[p][1].s = NULL /\ k[p][1].t = NULL
  BY <1>1, <1>2, OnFacts
<1>4. /\ res[p] = NULL /\ Then(p, <<>>) /\ ic' = ic /\ dn' = dn /\ UNCHANGED files
      /\ res' = res /\ halted' = halted
  BY DEF Failed
<1>5. Frame(p, NULL)
  BY <1>4, BaseTypes, FrameSame
<1> QED BY <1>3, <1>4, <1>5, DoneStep

\* ... and so does one on descriptors that are not there.
LEMMA NoSuchBase ==
    ASSUME Base, NEW p \in Procs, NoSuch(p)
    PROVE  Base'
<1>1. PICK op \in {"close", "dup", "fork"} : On(p, op)
  BY DEF NoSuch
<1>2. op \notin SOps /\ op \notin TOps /\ op \notin PutOps \cup ToDir \cup ToFile \cup Ends
  BY DEF SOps, PutOps, TOps, ToDir, ToFile, Ends
<1>3. k[p] # <<>> /\ k[p][1].s = NULL /\ k[p][1].t = NULL /\ res[p] = NULL
  BY <1>1, <1>2, OnFacts
<1>4. /\ Then(p, <<>>) /\ ic' = ic /\ dn' = dn /\ UNCHANGED files
      /\ res' = res /\ halted' = halted
  BY DEF NoSuch
<1>5. Frame(p, NULL)
  BY <1>4, BaseTypes, FrameSame
<1> QED BY <1>3, <1>4, <1>5, DoneStep

\* mkdir() and mknod() put what create() has returned.
LEMMA MadeBase ==
    ASSUME Base, NEW p \in Procs, Made(p)
    PROVE  Base'
<1>0. /\ On(p, "made") /\ "made" \notin SOps /\ "made" \notin TOps /\ "made" \notin Over
      /\ "made" \notin PutOps
  BY DEF Made, SOps, PutOps, TOps, Over
<1>1. /\ k[p] # <<>> /\ k[p][1].s = NULL /\ k[p][1].t = NULL /\ Live(res[p])
      /\ ~ (Len(k[p]) > 1) /\ cwd[p] # NULL
  BY <1>0, OnFacts DEF Made
<1>2. /\ ic' = ic /\ dn' = dn /\ UNCHANGED files /\ halted' = halted
      /\ Return(p, NULL) /\ Then(p, <<Unlock(res[p])>>)
  BY DEF Made
<1>3. Frame(p, NULL) /\ res'[p] = NULL
  BY <1>2, ReturnFacts, BaseTypes, FrameSame, NullSlot
<1>4. Holds(p, res[p]) /\ res[p] \in Slots
  BY <1>1, HoldsOne DEF Live
<1> QED BY <1>1, <1>2, <1>3, <1>4, UnlockStep

\* open() puts the inode if there is no file or descriptor for it.
LEMMA OpenFailBase ==
    ASSUME Base, NEW p \in Procs, OpenFail(p)
    PROVE  Base'
<1>0. /\ On(p, "opened") /\ "opened" \notin SOps /\ "opened" \notin TOps
      /\ "opened" \notin Over /\ "opened" \notin PutOps
  BY DEF OpenFail, SOps, PutOps, TOps, Over
<1>1. /\ k[p] # <<>> /\ k[p][1].s = NULL /\ k[p][1].t = NULL /\ Live(res[p])
      /\ ~ (Len(k[p]) > 1) /\ cwd[p] # NULL
  BY <1>0, OnFacts DEF OpenFail
<1>2. /\ ic' = ic /\ dn' = dn /\ UNCHANGED files /\ halted' = halted
      /\ Return(p, NULL) /\ Then(p, <<Unlock(res[p])>>)
  BY DEF OpenFail
<1>3. Frame(p, NULL) /\ res'[p] = NULL
  BY <1>2, ReturnFacts, BaseTypes, FrameSame, NullSlot
<1>4. Holds(p, res[p]) /\ res[p] \in Slots
  BY <1>1, HoldsOne DEF Live
<1> QED BY <1>1, <1>2, <1>3, <1>4, UnlockStep

\* The inode of a name in a directory.
LEMMA LookupType ==
    ASSUME Base, NEW s, Live(s), NEW name \in Entries
    PROVE  dirlookup(s, name) \in Inums \cup {NULL}
<1>1. dn[ic[s].inum] \in Dinode
  BY BaseTypes DEF Live
<1> DEFINE o == dn[ic[s].inum]
<1>2. o \in Dinode
  BY <1>1
<1> HIDE DEF o
<1>3. o.ents[name] \in Inums \cup {NULL}
  BY <1>2 DEF Dinode
<1> QED BY <1>3 DEF o, dirlookup

\* Two instructions own what p has owned, and slot x.
LEMMA GivesTwo ==
    ASSUME NEW p, NEW s, Holds(p, s), NEW x, NEW a, NEW b,
           \/ /\ \A z \in Slots : Own(a, z) = Is(s, z)
              /\ \A z \in Slots : Own(b, z) = Is(x, z)
           \/ /\ \A z \in Slots : Own(a, z) = Is(x, z)
              /\ \A z \in Slots : Own(b, z) = Is(s, z)
    PROVE  Gives2(p, x, a, b)
<1> SUFFICES ASSUME NEW z \in Slots
             PROVE  Own(a, z) + Own(b, z) = Own(k[p][1], z) + Is(res[p], z) + Is(x, z)
  BY DEF Gives2
<1>1. /\ Own(k[p][1], z) + Is(res[p], z) = Is(s, z)
      /\ \/ Own(a, z) = Is(s, z) /\ Own(b, z) = Is(x, z)
         \/ Own(a, z) = Is(x, z) /\ Own(b, z) = Is(s, z)
  BY DEF Holds
<1>2. Is(s, z) \in Int /\ Is(x, z) \in Int
  BY OwnNumber
<1> QED BY <1>1, <1>2

\* One turn of the loop of namex().
LEMMA NamexStepBase ==
    ASSUME Base, NEW p \in Procs, NamexStep(p)
    PROVE  Base'
<1> DEFINE i == k[p][1]
<1> DEFINE s == i.s
<1> DEFINE path == i.path
<1> DEFINE next == dirlookup(s, Head(path))
<1> DEFINE c == Load(s, NoProc)
<1>0. /\ On(p, "walk") /\ "walk" \in SOps /\ "walk" \notin TOps /\ "walk" \notin Bottom
      /\ "walk" \notin PutOps /\ "walk" \notin PutOps \cup ToDir \cup ToFile \cup Ends
  BY DEF NamexStep, SOps, TOps, Bottom, PutOps, ToDir, ToFile, Ends
<1>1. /\ k[p] # <<>> /\ i.op = "walk" /\ Arg(p) = i /\ Well(i) /\ i.t = NULL
      /\ Live(s) /\ Len(k[p]) > 1 /\ Above(i, k[p][2]) /\ res[p] = NULL /\ cwd[p] # NULL
      /\ k[p][2].op \in Deep
  BY <1>0, OnFacts
<1>2. /\ dn' = dn /\ UNCHANGED files /\ path # <<>> /\ halted' = NoType(s)
      /\ \/ ic' = c /\ Return(p, NULL) /\ Then(p, <<Put(s)>>)
         \/ ic' = c /\ Return(p, s) /\ Then(p, <<>>) /\ i.arg = "parent"
         \/ /\ next # NULL /\ HasSlot(next) /\ ic' = iget(c, next) /\ res' = res
            /\ Then(p, <<Put(s), Ins("walk", SlotOf(c, next), NULL, Tail(path), i.arg)>>)
  BY <1>1 DEF NamexStep
<1>3. halted' \in BOOLEAN
  BY <1>2 DEF NoType
<1>4. c \in [Slots -> Inode] /\ SameRefs(ic, c)
  <2>1. FilesTypes /\ NoProc \in Procs \cup {NoProc}
    BY DEF Base
  <2> QED BY <1>1, <2>1, LoadFacts
<1>5. Holds(p, s) /\ s \in Slots
  BY <1>1, HoldsOne DEF Live
<1>6. path \in Seq(Names \cup {".", ".."}) /\ i.arg \in {"parent", "file"}
  BY <1>1 DEF Well
<1>7. ASSUME ic' = c, NEW r \in 0..NINODE, Return(p, r)
      PROVE  Frame(p, NULL) /\ res'[p] = r
  BY <1>2, <1>3, <1>4, <1>7, ReturnFacts, BaseTypes, FrameSame
<1>8. CASE ic' = c /\ Return(p, NULL) /\ Then(p, <<Put(s)>>)
  BY <1>1, <1>5, <1>7, <1>8, PutStep, NullSlot
<1>9. CASE ic' = c /\ Return(p, s) /\ Then(p, <<>>) /\ i.arg = "parent"
  <2>1. Frame(p, NULL) /\ res'[p] = s
    BY <1>5, <1>7, <1>9, NullSlot
  <2>2. k[p][2].op \in ToDir /\ Last(k[p][2].path) # "/"
    BY <1>1, <1>2, <1>9 DEF Above
  <2>3. Gives0(p, NULL)
    <3> SUFFICES ASSUME NEW z \in Slots
                 PROVE  Is(res'[p], z) = Own(k[p][1], z) + Is(res[p], z) + Is(NULL, z)
      BY DEF Gives0
    <3>1. Own(k[p][1], z) + Is(res[p], z) = Is(s, z) /\ Is(res'[p], z) = Is(s, z)
      BY <1>5, <2>1 DEF Holds
    <3>2. Is(NULL, z) = 0 /\ Is(s, z) \in Int
      BY OwnNumber
    <3> HIDE DEF s
    <3> QED BY <3>1, <3>2
  <2> QED BY <1>1, <1>9, <2>1, <2>2, <2>3, Step0
<1>10. ASSUME next # NULL, HasSlot(next), ic' = iget(c, next), res' = res,
              Then(p, <<Put(s), Ins("walk", SlotOf(c, next), NULL, Tail(path), i.arg)>>)
       PROVE  Base'
  <2> DEFINE x == SlotOf(ic, next)
  <2> DEFINE a == Put(s)
  <2> DEFINE b == Ins("walk", x, NULL, Tail(path), i.arg)
  <2>1. Head(path) \in Entries /\ Tail(path) \in Seq(Names \cup {".", ".."})
    BY <1>2, <1>6 DEF Entries
  <2>2. next \in Inums
    BY <1>1, <1>10, <2>1, LookupType
  <2>3. Frame(p, x) /\ SlotOf(c, next) = x /\ x \in Slots
    <3> HIDE DEF next, c
    <3>1. Others(res, res', p) /\ res' \in Regs /\ dn' \in [Inums -> Dinode]
      BY <1>2, <1>10, BaseTypes
    <3> QED BY <1>2, <1>3, <1>4, <1>10, <2>2, <3>1, FrameGot
  <2>4. Then(p, <<a, b>>)
    BY <1>10, <2>3
  <2> HIDE DEF x
  <2>5. /\ a \in Instr /\ Well(a) /\ \A z \in Slots : Own(a, z) = Is(s, z)
        /\ \A d : d.op \in Deep => Above(a, d)
    BY <1>5, PutWell
  <2>6. /\ b \in Instr /\ Well(b) /\ b.op = "walk" /\ b.arg = i.arg
        /\ \A z \in Slots : Own(b, z) = Is(x, z)
    <3> DEFINE w == Tail(path)
    <3> DEFINE g == i.arg
    <3>1. w \in Seq(Names \cup {".", ".."}) /\ g \in {"parent", "file"} /\ b = Ins("walk", x, NULL, w, g)
      BY <1>6, <2>1
    <3> HIDE DEF w, g, b
    <3>2. /\ b \in Instr /\ Well(b) /\ b.op = "walk" /\ b.arg = g
          /\ \A z \in Slots : Own(b, z) = Is(x, z)
      BY <2>3, <3>1, WalkWell
    <3> QED BY <3>2 DEF g
  <2> HIDE DEF a, b
  <2>7. Above(b, k[p][2])
    <3>1. b.op \in Over /\ k[p][2].op \in IF b.arg = "parent" THEN ToDir ELSE ToFile
      BY <1>1, <2>6 DEF Above, Over
    <3>2. b.arg = "parent" => Last(k[p][2].path) # "/"
      BY <1>1, <1>2, <2>6 DEF Above
    <3> QED BY <1>1, <2>6, <3>1, <3>2 DEF Above
  <2>8. Fit2(a, b, k[p])
    <3>1. Above(a, b)
      BY <2>5, <2>6 DEF Deep
    <3> QED BY <1>1, <2>5, <2>6, <2>7, <3>1 DEF Fit2, Fit1
  <2>9. Gives2(p, x, a, b)
    BY <1>5, <2>5, <2>6, GivesTwo
  <2>10. res'[p] = NULL
    BY <1>1, <1>10
  <2> QED BY <1>1, <2>3, <2>4, <2>8, <2>9, <2>10, Step2
<1> QED BY <1>2, <1>8, <1>9, <1>10

\* create() looks at the inode that it has found.
LEMMA CreateExistsBase ==
    ASSUME Base, NEW p \in Procs, CreateExists(p)
    PROVE  Base'
<1> DEFINE i == k[p][1]
<1> DEFINE s == i.s
<1>0. /\ On(p, "exists") /\ "exists" \in SOps /\ "exists" \notin TOps
      /\ "exists" \notin Bottom
      /\ "exists" \notin PutOps \cup ToDir \cup ToFile \cup Ends
  BY DEF CreateExists, SOps, TOps, Bottom, PutOps, ToDir, ToFile, Ends
<1>1. /\ k[p] # <<>> /\ i.op = "exists" /\ Arg(p) = i /\ i.t = NULL
      /\ Live(s) /\ Len(k[p]) > 1 /\ Above(i, k[p][2]) /\ res[p] = NULL
  BY <1>0, OnFacts
<1>2. /\ dn' = dn /\ UNCHANGED files /\ halted' = NoType(s)
      /\ \/ ic' = Load(s, p) /\ Return(p, s) /\ Then(p, <<>>)
         \/ ic' = Load(s, NoProc) /\ Return(p, NULL) /\ Then(p, <<Put(s)>>)
  BY <1>1 DEF CreateExists
<1>3. halted' \in BOOLEAN
  BY <1>2 DEF NoType
<1>4. \A q \in Procs \cup {NoProc} : Load(s, q) \in [Slots -> Inode] /\ SameRefs(ic, Load(s, q))
  <2>1. FilesTypes
    BY DEF Base
  <2> QED BY <1>1, <2>1, LoadFacts
<1>5. Holds(p, s) /\ s \in Slots
  BY <1>1, HoldsOne DEF Live
<1>6. ic' \in [Slots -> Inode] /\ SameRefs(ic, ic')
  BY <1>2, <1>4
<1>7. ASSUME NEW r \in 0..NINODE, Return(p, r)
      PROVE  Frame(p, NULL) /\ res'[p] = r
  BY <1>2, <1>3, <1>6, <1>7, ReturnFacts, BaseTypes, FrameSame
<1>8. CASE Return(p, NULL) /\ Then(p, <<Put(s)>>)
  BY <1>1, <1>5, <1>7, <1>8, PutStep, NullSlot
<1>9. CASE Return(p, s) /\ Then(p, <<>>)
  <2>1. Frame(p, NULL) /\ res'[p] = s
    BY <1>5, <1>7, <1>9, NullSlot
  <2>2. k[p][2].op \in Ends /\ k[p][2].op \notin ToDir
    BY <1>1 DEF Above, Ends, ToDir
  <2>3. Gives0(p, NULL)
    <3> SUFFICES ASSUME NEW z \in Slots
                 PROVE  Is(res'[p], z) = Own(k[p][1], z) + Is(res[p], z) + Is(NULL, z)
      BY DEF Gives0
    <3>1. Own(k[p][1], z) + Is(res[p], z) = Is(s, z) /\ Is(res'[p], z) = Is(s, z)
      BY <1>5, <2>1 DEF Holds
    <3>2. Is(NULL, z) = 0 /\ Is(s, z) \in Int
      BY OwnNumber
    <3> HIDE DEF s
    <3> QED BY <3>1, <3>2
  <2> QED BY <1>1, <1>9, <2>1, <2>2, <2>3, Step0
<1> QED BY <1>2, <1>8, <1>9

\* The lock of a slot of a cache changes.
Relock(c, d, s, q) == d = [c EXCEPT ![s].lk = q]

\* The cache after that.
LEMMA LkSetOf ==
    ASSUME NEW c \in [Slots -> Inode], NEW s \in Slots, NEW q \in Procs \cup {NoProc},
           NEW d, Relock(c, d, s, q)
    PROVE  /\ d \in [Slots -> Inode] /\ SameRefs(c, d) /\ d[s].lk = q
           /\ d[s].type = c[s].type /\ d[s].nlink = c[s].nlink /\ d[s].valid = c[s].valid
           /\ \A z \in Slots : z # s => d[z] = c[z]
<1> DEFINE i == c[s]
<1> DEFINE e == [i EXCEPT !.lk = q]
<1>1. i \in Inode /\ SlotSet(c, d, s, e)
  BY DEF SlotSet, Relock
<1> HIDE DEF i
<1>2. /\ e \in Inode /\ e.ref = i.ref /\ e.inum = i.inum /\ e.lk = q
      /\ e.type = i.type /\ e.nlink = i.nlink /\ e.valid = i.valid
  BY <1>1 DEF Inode
<1> HIDE DEF e
<1>3. /\ d \in [Slots -> Inode] /\ d[s] = e /\ \A z \in Slots : z # s => d[z] = c[z]
      /\ e.ref = c[s].ref /\ e.inum = c[s].inum => SameRefs(c, d)
  BY <1>1, <1>2, SlotSetFacts
<1> QED BY <1>2, <1>3 DEF i

\* What an instruction without a path has.
LEMMA NoPath == <<>> \in Seq(Elems) /\ "" \in Args /\ \A g \in Kinds : g \in Args
<1>1. <<>> \in Seq(Elems)
  OBVIOUS
<1>2. "" \in Args /\ \A g \in Kinds : g \in Args
  BY DEF Args
<1> QED BY <1>1, <1>2

\* The instructions that are not named in the model.
OneIns(a, op, s)       == a = Ins(op, s, NULL, <<>>, "")
ExistsIns(a, s, arg)   == a = Ins("exists", s, NULL, <<>>, arg)
Link2Ins(a, s, path)   == a = Ins("link2", s, NULL, path, "")
TwoIns(a, op, s, t, name, arg) == a = Ins(op, s, t, <<name>>, arg)
NoneIns(a, op)         == a = Ins(op, NULL, NULL, <<>>, "")

\* Those with one inode, ...
LEMMA OneWell ==
    ASSUME NEW s \in Slots, NEW op \in PutOps \cup {"unlockput", "bad", "unlink3"},
           NEW a, OneIns(a, op, s)
    PROVE  /\ a \in Instr /\ Well(a) /\ a.op = op /\ a.s = s /\ a.t = NULL
           /\ a.op \in Bottom /\ \A z \in Slots : Own(a, z) = Is(s, z)
<1>1. a.op = op /\ a.s = s /\ a.t = NULL
  BY DEF OneIns, Ins
<1>2. a \in Instr
  <2>1. op \in Ops /\ s \in 0..NINODE /\ NULL \in 0..NINODE
    BY NullSlot DEF Ops, SOps
  <2>2. <<>> \in Seq(Elems) /\ "" \in Args
    BY NoPath
  <2> QED BY <2>1, <2>2 DEF OneIns, Ins, Instr
<1>3. Well(a) /\ a.op \in Bottom
  BY <1>1, NullSlot DEF Well, SOps, PutOps, TOps, ToDir, Bottom, Ops
<1>4. \A z \in Slots : Own(a, z) = Is(s, z)
  BY <1>1, OwnOne, OwnNumber
<1> QED BY <1>1, <1>2, <1>3, <1>4

\* ... of create() for a name that exists, ...
LEMMA ExistsWell ==
    ASSUME NEW s \in Slots, NEW arg \in Kinds, NEW a, ExistsIns(a, s, arg)
    PROVE  /\ a \in Instr /\ Well(a) /\ a.op = "exists" /\ a.s = s /\ a.t = NULL
           /\ a.arg = arg /\ \A z \in Slots : Own(a, z) = Is(s, z)
<1>1. a.op = "exists" /\ a.s = s /\ a.t = NULL /\ a.arg = arg
  BY DEF ExistsIns, Ins
<1>2. a \in Instr
  <2>1. "exists" \in Ops /\ s \in 0..NINODE /\ NULL \in 0..NINODE
    BY NullSlot DEF Ops, SOps
  <2>2. <<>> \in Seq(Elems) /\ arg \in Args
    BY NoPath
  <2> QED BY <2>1, <2>2 DEF ExistsIns, Ins, Instr
<1>3. Well(a)
  BY <1>1, NullSlot DEF Well, SOps, PutOps, TOps, ToDir
<1>4. \A z \in Slots : Own(a, z) = Is(s, z)
  BY <1>1, OwnOne, OwnNumber
<1> QED BY <1>1, <1>2, <1>3, <1>4

\* ... of link() with the path of the new name, ...
LEMMA Link2Well ==
    ASSUME NEW s \in Slots, NEW path, IsPath(path), NEW a, Link2Ins(a, s, path)
    PROVE  /\ a \in Instr /\ Well(a) /\ a.op = "link2" /\ a.s = s /\ a.t = NULL
           /\ a.path = path /\ a.op \in Bottom /\ \A z \in Slots : Own(a, z) = Is(s, z)
<1>1. a.op = "link2" /\ a.s = s /\ a.t = NULL /\ a.path = path
  BY DEF Link2Ins, Ins
<1>2. a \in Instr
  <2>1. "link2" \in Ops /\ s \in 0..NINODE /\ NULL \in 0..NINODE
    BY NullSlot DEF Ops, SOps
  <2>2. path \in Seq(Elems) /\ "" \in Args
    BY DEF Args, IsPath, Elems
  <2> QED BY <2>1, <2>2 DEF Link2Ins, Ins, Instr
<1>3. Well(a) /\ a.op \in Bottom
  BY <1>1, NullSlot DEF Well, SOps, PutOps, TOps, ToDir, Bottom, Ops
<1>4. \A z \in Slots : Own(a, z) = Is(s, z)
  BY <1>1, OwnOne, OwnNumber
<1> QED BY <1>1, <1>2, <1>3, <1>4

\* ... with two, ...
OwnsTwo(a, s, t) == \A z \in Slots : Own(a, z) = Is(s, z) + Is(t, z)
TwoArg(op, arg) == arg \in Args /\ (op = "new" => arg \in Kinds)

\* unlink() and create() own a directory and an inode.
LEMMA TwoWell ==
    ASSUME NEW op \in TOps, NEW s \in Slots, NEW t \in Slots, NEW name \in Names \cup {".", ".."},
           NEW arg, TwoArg(op, arg),
           NEW a, TwoIns(a, op, s, t, name, arg)
    PROVE  /\ a \in Instr /\ Well(a) /\ a.op = op /\ a.s = s /\ a.t = t /\ a.arg = arg
           /\ a.path[1] = name /\ OwnsTwo(a, s, t)
<1>1. /\ a.op = op /\ a.s = s /\ a.t = t /\ a.arg = arg /\ a.path = <<name>>
      /\ a.path[1] = name
  BY DEF TwoIns, Ins
<1>2. a \in Instr
  <2>1. op \in Ops /\ s \in 0..NINODE /\ t \in 0..NINODE
    BY NullSlot DEF Ops, SOps, TOps
  <2>2. <<name>> \in Seq(Elems) /\ arg \in Args
    BY DEF Elems, TwoArg
  <2> QED BY <2>1, <2>2 DEF TwoIns, Ins, Instr
<1>3. op \in {"unlink2", "new"}
  BY DEF TOps
<1>4. <<name>> \in Seq(Names \cup {".", ".."}) /\ <<name>> # <<>>
  OBVIOUS
<1>5. op \in SOps /\ op \notin ToDir \cup {"namex", "link1"} /\ op # "walk"
      /\ op \notin {"namex", "walk"} /\ op \notin {"create", "exists"}
  BY <1>3 DEF SOps, ToDir
<1>6. Well(a)
  BY <1>1, <1>4, <1>5, NullSlot DEF Well, TwoArg
<1>7. OwnsTwo(a, s, t)
  BY <1>1 DEF Own, OwnsTwo
<1> QED BY <1>1, <1>2, <1>6, <1>7

\* ... and with none.
LEMMA NoneWell ==
    ASSUME NEW op \in {"opened", "close", "exit"}, NEW a, NoneIns(a, op)
    PROVE  /\ a \in Instr /\ Well(a) /\ a.op = op /\ a.op \in Bottom
           /\ a.s = NULL /\ a.t = NULL /\ \A z \in Slots : Own(a, z) = 0
<1>1. a.op = op /\ a.s = NULL /\ a.t = NULL
  BY DEF NoneIns, Ins
<1>2. a \in Instr
  <2>1. op \in Ops /\ NULL \in 0..NINODE
    BY NullSlot DEF Ops, Ends, OtherCalls
  <2>2. <<>> \in Seq(Elems) /\ "" \in Args
    BY NoPath
  <2> QED BY <2>1, <2>2 DEF NoneIns, Ins, Instr
<1>3. Well(a) /\ a.op \in Bottom
  BY <1>1 DEF Well, SOps, PutOps, TOps, ToDir, Bottom, Ops, Ends, OtherCalls
<1>4. \A z \in Slots : Own(a, z) = 0
  BY <1>1, OwnOne, OwnNumber
<1> QED BY <1>1, <1>2, <1>3, <1>4

\* A walk to the parent of a new name.
LEMMA NamexWell ==
    ASSUME NEW path, IsPath(path), NEW mode \in {"parent", "file"}, NEW a, a = Namex(path, mode)
    PROVE  /\ a \in Instr /\ Well(a) /\ a.op = "namex" /\ a.path = path /\ a.arg = mode
           /\ a.s = NULL /\ a.t = NULL /\ \A z \in Slots : Own(a, z) = 0
<1>1. a.op = "namex" /\ a.s = NULL /\ a.t = NULL /\ a.path = path /\ a.arg = mode
  BY DEF Namex, Ins
<1>2. a \in Instr
  <2>1. "namex" \in Ops /\ NULL \in 0..NINODE
    BY NullSlot DEF Ops
  <2>2. path \in Seq(Elems) /\ mode \in Args
    BY DEF Args, IsPath, Elems
  <2> QED BY <2>1, <2>2 DEF Namex, Ins, Instr
<1>3. Well(a)
  BY <1>1 DEF Well, SOps, PutOps, TOps, ToDir
<1>4. \A z \in Slots : Own(a, z) = 0
  BY <1>1, OwnOne, OwnNumber
<1> QED BY <1>1, <1>2, <1>3, <1>4

\* link() goes back on its link count ...
LEMMA LinkBadBase ==
    ASSUME Base, NEW p \in Procs, LinkBad(p)
    PROVE  Base'
<1> DEFINE i == k[p][1]
<1> DEFINE s == i.s
<1> DEFINE c == Load(s, NoProc)
<1>0. /\ On(p, "bad") /\ "bad" \in SOps /\ "bad" \notin TOps
      /\ "bad" \notin PutOps \cup ToDir \cup ToFile \cup Ends
  BY DEF LinkBad, SOps, TOps, PutOps, ToDir, ToFile, Ends
<1>1. k[p] # <<>> /\ Arg(p) = i /\ i.t = NULL /\ Live(s) /\ res[p] = NULL
  BY <1>0, OnFacts
<1>2. /\ ic' = AddLinks(c, s, -1) /\ dn' = Iupdate(ic', s) /\ UNCHANGED files
      /\ halted' = NoType(s) /\ res' = res /\ Then(p, <<Put(s)>>)
  BY <1>1 DEF LinkBad
<1>3. c \in [Slots -> Inode] /\ SameRefs(ic, c) /\ FilesTypes
  BY <1>1, LoadFacts DEF Base
<1>4. ic' \in [Slots -> Inode] /\ SameRefs(c, ic') /\ -1 \in Int
  <2> HIDE DEF c, s
  <2>1. s \in Slots
    BY <1>1 DEF Live
  <2> QED BY <1>2, <1>3, <2>1, AddLinksFacts
<1>5. SameRefs(ic, ic') /\ halted' \in BOOLEAN
  BY <1>2, <1>3, <1>4, SameTwice DEF NoType
<1>6. dn' \in [Inums -> Dinode]
  <2>1. s \in Slots /\ ic'[s].inum \in Inums
    BY <1>1, <1>5 DEF SameRefs, Live
  <2> DEFINE d == ic'
  <2>2. d \in [Slots -> Inode] /\ d[s].inum \in Inums /\ dn' = Iupdate(d, s)
    BY <1>2, <1>4, <2>1
  <2> HIDE DEF d, s
  <2> QED BY <1>3, <2>1, <2>2, IupdateFacts
<1>7. Frame(p, NULL)
  BY <1>2, <1>4, <1>5, <1>6, BaseTypes, FrameSame
<1>8. Holds(p, s) /\ s \in Slots
  BY <1>1, HoldsOne DEF Live
<1>9. res'[p] = NULL
  BY <1>1, <1>2
<1> QED BY <1>1, <1>2, <1>7, <1>8, <1>9, PutStep

\* ... which its first part may have to do without the parent.
LEMMA Link2FailBase ==
    ASSUME Base, NEW p \in Procs, Link2Fail(p)
    PROVE  Base'
<1> DEFINE i == k[p][1]
<1> DEFINE s == i.s
<1> DEFINE a == Ins("bad", s, NULL, <<>>, "")
<1>0. /\ On(p, "link2") /\ "link2" \in SOps /\ "link2" \notin TOps /\ "link2" \notin Over
      /\ "link2" \notin PutOps
  BY DEF Link2Fail, SOps, TOps, Over, PutOps
<1>1. /\ k[p] # <<>> /\ Arg(p) = i /\ i.t = NULL /\ Live(s) /\ ~ (Len(k[p]) > 1)
      /\ cwd[p] # NULL
  BY <1>0, OnFacts
<1>2. /\ ic' = ic /\ dn' = dn /\ UNCHANGED files /\ halted' = halted /\ res' = res
      /\ res[p] = NULL /\ Then(p, <<a>>)
  BY <1>1 DEF Link2Fail
<1>3. /\ a \in Instr /\ Well(a) /\ a.op \in Bottom /\ \A z \in Slots : Own(a, z) = Is(s, z)
  <2>1. s \in Slots /\ "bad" \in PutOps \cup {"unlockput", "bad", "unlink3"}
    BY <1>1 DEF Live
  <2>2. OneIns(a, "bad", s)
    BY DEF OneIns
  <2> HIDE DEF s, a
  <2> QED BY <2>1, <2>2, OneWell
<1> HIDE DEF a
<1>4. Fit1(a, k[p])
  BY <1>1, <1>3, FitLast
<1>5. Frame(p, NULL)
  BY <1>2, BaseTypes, FrameSame
<1>6. Gives1(p, NULL, a)
  <2>1. \A z \in Slots : Own(a, z) = Own(k[p][1], z)
    <3> SUFFICES ASSUME NEW z \in Slots PROVE Own(a, z) = Own(k[p][1], z)
      OBVIOUS
    <3>1. Own(k[p][1], z) = Is(s, z) + Is(NULL, z) /\ Is(NULL, z) = 0 /\ Is(s, z) \in Int
      BY <1>1, OwnNumber DEF Own
    <3> QED BY <1>3, <3>1
  <2> QED BY <1>2, <2>1, GivesSame
<1>7. res'[p] = NULL
  BY <1>2
<1> QED BY <1>1, <1>2, <1>4, <1>5, <1>6, <1>7, Step1

\* unlink() counts one link less.
LEMMA Unlink3Base ==
    ASSUME Base, NEW p \in Procs, Unlink3(p)
    PROVE  Base'
<1> DEFINE i == k[p][1]
<1> DEFINE s == i.s
<1> DEFINE c == AddLinks(ic, s, -1)
<1>0. /\ On(p, "unlink3") /\ "unlink3" \in SOps /\ "unlink3" \notin TOps
      /\ "unlink3" \notin PutOps \cup ToDir \cup ToFile \cup Ends
  BY DEF Unlink3, SOps, TOps, PutOps, ToDir, ToFile, Ends
<1>1. k[p] # <<>> /\ Arg(p) = i /\ i.t = NULL /\ Live(s) /\ res[p] = NULL
  BY <1>0, OnFacts
<1>2. /\ ic' = [c EXCEPT ![s].lk = NoProc] /\ dn' = Iupdate(ic', s) /\ UNCHANGED files
      /\ halted' = halted /\ res' = res /\ Then(p, <<Put(s)>>)
  BY <1>1 DEF Unlink3
<1>3. c \in [Slots -> Inode] /\ SameRefs(ic, c) /\ FilesTypes
  <2>1. ic \in [Slots -> Inode] /\ s \in Slots /\ -1 \in Int
    BY <1>1, BaseTypes DEF Live
  <2> HIDE DEF s
  <2> QED BY <2>1, AddLinksFacts DEF Base
<1>4. ic' \in [Slots -> Inode] /\ SameRefs(c, ic')
  <2>1. s \in Slots /\ NoProc \in Procs \cup {NoProc}
    BY <1>1 DEF Live
  <2>2. Relock(c, ic', s, NoProc)
    BY <1>2 DEF Relock
  <2> HIDE DEF c, s
  <2> QED BY <1>3, <2>1, <2>2, LkSetOf
<1>5. SameRefs(ic, ic')
  BY <1>3, <1>4, SameTwice
<1>6. dn' \in [Inums -> Dinode]
  <2>1. s \in Slots /\ ic'[s].inum \in Inums
    BY <1>1, <1>5 DEF SameRefs, Live
  <2> DEFINE d == ic'
  <2>2. d \in [Slots -> Inode] /\ d[s].inum \in Inums /\ dn' = Iupdate(d, s)
    BY <1>2, <1>4, <2>1
  <2> HIDE DEF d, s
  <2> QED BY <1>3, <2>1, <2>2, IupdateFacts
<1>7. Frame(p, NULL)
  BY <1>2, <1>4, <1>5, <1>6, BaseTypes, FrameSame
<1>8. Holds(p, s) /\ s \in Slots
  BY <1>1, HoldsOne DEF Live
<1>9. res'[p] = NULL
  BY <1>1, <1>2
<1> QED BY <1>1, <1>2, <1>7, <1>8, <1>9, PutStep

\* A call that goes on with the inode that namex() has found.
LEMMA ResFacts ==
    ASSUME Base, NEW p \in Procs, NEW op, On(p, op), op \in ToDir \cup ToFile, res[p] # NULL
    PROVE  /\ k[p] # <<>> /\ k[p][1].op = op /\ Arg(p) = k[p][1] /\ Live(res[p])
           /\ k[p][1].t = NULL /\ (op # "link2" => k[p][1].s = NULL /\ Holds(p, res[p]))
           /\ res[p] \in Slots /\ cwd[p] # NULL /\ Well(k[p][1]) /\ k[p][1] \in Instr
           /\ op # "create" => ~ (Len(k[p]) > 1)
           /\ op = "create" => Len(k[p]) > 1 /\ k[p][2].op \in Ends
           /\ op \in ToDir => Last(k[p][1].path) \in Names \cup {".", ".."}
<1>1. /\ op \notin TOps /\ op \notin PutOps /\ (op # "link2" => op \notin SOps)
      /\ (op # "create" => op \notin Over) /\ "create" \notin Bottom
  BY DEF ToDir, ToFile, TOps, PutOps, SOps, Over, Bottom
<1>2. /\ k[p] # <<>> /\ k[p][1].op = op /\ Arg(p) = k[p][1] /\ Live(res[p])
      /\ k[p][1].t = NULL /\ (op # "link2" => k[p][1].s = NULL)
      /\ cwd[p] # NULL /\ Well(k[p][1]) /\ k[p][1] \in Instr
      /\ op # "create" => ~ (Len(k[p]) > 1)
      /\ op = "create" => Len(k[p]) > 1
      /\ Len(k[p]) > 1 => Above(k[p][1], k[p][2])
  BY <1>1, OnFacts
<1>3. op # "link2" => Holds(p, res[p])
  BY <1>2, HoldsOne DEF Live
<1>4. op = "create" => k[p][2].op \in Ends
  BY <1>2 DEF Above
<1>5. ASSUME op \in ToDir PROVE Last(k[p][1].path) \in Names \cup {".", ".."}
  <2> DEFINE q == k[p][1].path
  <2>1. IsPath(q)
    BY <1>2, <1>5 DEF Well
  <2>2. Last(q) # "/"
    BY <1>2, <1>5 DEF Base, Calling, ResShape
  <2> HIDE DEF q
  <2>3. q \in Seq(Names \cup {".", "..", "/"}) /\ q # <<>>
    BY <2>1 DEF IsPath
  <2>4. Last(q) \in Names \cup {".", "..", "/"}
    BY <2>3 DEF Last
  <2> QED BY <2>2, <2>4 DEF q
<1> QED BY <1>2, <1>3, <1>4, <1>5 DEF Live

\* ilock() leaves the counts as they are.
LEMMA LoadSame ==
    ASSUME Base, NEW s, Live(s)
    PROVE  \A q \in Procs \cup {NoProc} : Load(s, q) \in [Slots -> Inode] /\ SameRefs(ic, Load(s, q))
<1>1. FilesTypes
  BY DEF Base
<1> QED BY <1>1, LoadFacts

\* open() locks the inode, or puts it if it may not be opened.
LEMMA OpenLockBase ==
    ASSUME Base, NEW p \in Procs, OpenLock(p)
    PROVE  Base'
<1> DEFINE s == res[p]
<1>0. On(p, "open") /\ "open" \in ToDir \cup ToFile /\ s # NULL
  BY DEF OpenLock, ToFile
<1>1. /\ k[p] # <<>> /\ Arg(p) = k[p][1] /\ Live(s) /\ k[p][1].t = NULL /\ k[p][1].s = NULL
      /\ Holds(p, s) /\ s \in Slots /\ cwd[p] # NULL /\ ~ (Len(k[p]) > 1)
  BY <1>0, ResFacts
<1>2. /\ dn' = dn /\ UNCHANGED files /\ halted' = NoType(s)
      /\ \/ ic' = Load(s, NoProc) /\ Then(p, <<Put(s)>>) /\ Return(p, NULL)
         \/ ic' = Load(s, p) /\ Then(p, <<Ins("opened", NULL, NULL, <<>>, "")>>) /\ res' = res
  BY <1>1 DEF OpenLock
<1>3. halted' \in BOOLEAN /\ ic' \in [Slots -> Inode] /\ SameRefs(ic, ic')
  BY <1>1, <1>2, LoadSame DEF NoType
<1>4. CASE Then(p, <<Put(s)>>) /\ Return(p, NULL)
  <2>1. Frame(p, NULL) /\ res'[p] = NULL
    BY <1>2, <1>3, <1>4, ReturnFacts, BaseTypes, FrameSame, NullSlot
  <2> QED BY <1>1, <1>4, <2>1, PutStep
<1>5. ASSUME Then(p, <<Ins("opened", NULL, NULL, <<>>, "")>>), res' = res
      PROVE  Base'
  <2> DEFINE a == Ins("opened", NULL, NULL, <<>>, "")
  <2>1. Frame(p, NULL)
    BY <1>2, <1>3, <1>5, BaseTypes, FrameSame
  <2>2. NoneIns(a, "opened") /\ Then(p, <<a>>)
    BY <1>5 DEF NoneIns
  <2> HIDE DEF a
  <2>3. a \in Instr /\ Well(a) /\ a.op = "opened" /\ a.op \in Bottom /\ \A z \in Slots : Own(a, z) = 0
    BY <2>2, NoneWell
  <2>4. Fit1(a, k[p])
    BY <1>1, <2>3, FitLast
  <2>5. Gives1(p, NULL, a)
    <3>1. \A z \in Slots : Own(a, z) = Own(k[p][1], z)
      <4> SUFFICES ASSUME NEW z \in Slots PROVE Own(a, z) = Own(k[p][1], z)
        OBVIOUS
      <4>1. Own(k[p][1], z) = Is(NULL, z) + Is(NULL, z) /\ Is(NULL, z) = 0
        BY <1>1, OwnNumber DEF Own
      <4> QED BY <2>3, <4>1
    <3> QED BY <1>5, <3>1, GivesSame
  <2>6. a.op \in Ends
    BY <2>3 DEF Ends
  <2> QED BY <1>1, <2>1, <2>2, <2>4, <2>5, <2>6, Step1
<1> QED BY <1>2, <1>4, <1>5

\* link() keeps the inode while it walks to the new name.
LEMMA Link1Base ==
    ASSUME Base, NEW p \in Procs, Link1(p)
    PROVE  Base'
<1> DEFINE s == res[p]
<1> DEFINE c == Load(s, NoProc)
<1> DEFINE path == k[p][1].path
<1>0. On(p, "link1") /\ "link1" \in ToDir \cup ToFile /\ s # NULL
  BY DEF Link1, ToFile
<1>1. /\ k[p] # <<>> /\ Arg(p) = k[p][1] /\ Live(s) /\ k[p][1].t = NULL /\ k[p][1].s = NULL
      /\ Holds(p, s) /\ s \in Slots /\ cwd[p] # NULL /\ ~ (Len(k[p]) > 1) /\ Well(k[p][1])
      /\ k[p][1].op = "link1"
  BY <1>0, ResFacts
<1>2. /\ UNCHANGED files /\ halted' = NoType(s) /\ Return(p, NULL)
      /\ \/ ic' = c /\ dn' = dn /\ Then(p, <<Put(s)>>)
         \/ /\ ic' = AddLinks(c, s, 1) /\ dn' = Iupdate(ic', s)
            /\ Then(p, <<Namex(path, "parent"), Ins("link2", s, NULL, path, "")>>)
  BY <1>1 DEF Link1
<1>3. c \in [Slots -> Inode] /\ SameRefs(ic, c) /\ halted' \in BOOLEAN /\ FilesTypes
  BY <1>1, <1>2, LoadSame DEF NoType, Base
<1>4. Others(res, res', p) /\ res' \in Regs /\ res'[p] = NULL
  BY <1>2, ReturnFacts, NullSlot
<1>5. CASE ic' = c /\ dn' = dn /\ Then(p, <<Put(s)>>)
  <2>1. Frame(p, NULL)
    BY <1>2, <1>3, <1>4, <1>5, BaseTypes, FrameSame
  <2> QED BY <1>1, <1>4, <1>5, <2>1, PutStep
<1>6. ASSUME ic' = AddLinks(c, s, 1), dn' = Iupdate(ic', s),
             Then(p, <<Namex(path, "parent"), Ins("link2", s, NULL, path, "")>>)
      PROVE  Base'
  <2> DEFINE a == Namex(path, "parent")
  <2> DEFINE b == Ins("link2", s, NULL, path, "")
  <2>1. ic' \in [Slots -> Inode] /\ SameRefs(c, ic')
    <3> HIDE DEF c, s
    <3>1. 1 \in Int
      OBVIOUS
    <3> QED BY <1>1, <1>3, <1>6, <3>1, AddLinksFacts
  <2>2. SameRefs(ic, ic')
    BY <1>3, <2>1, SameTwice
  <2>3. dn' \in [Inums -> Dinode]
    <3>1. ic'[s].inum \in Inums
      BY <1>1, <2>2 DEF SameRefs, Live
    <3> DEFINE d == ic'
    <3>2. d \in [Slots -> Inode] /\ d[s].inum \in Inums /\ dn' = Iupdate(d, s)
      BY <1>6, <2>1, <3>1
    <3> HIDE DEF d, s
    <3> QED BY <1>1, <1>3, <3>2, IupdateFacts
  <2>4. Frame(p, NULL)
    BY <1>2, <1>3, <1>4, <2>1, <2>2, <2>3, FrameSame
  <2>5. IsPath(path)
    BY <1>1 DEF Well
  <2>6. a = Namex(path, "parent") /\ Link2Ins(b, s, path) /\ Then(p, <<a, b>>)
    BY <1>6 DEF Link2Ins
  <2> HIDE DEF a, b, path
  <2>7. /\ a \in Instr /\ Well(a) /\ a.op = "namex" /\ a.path = path /\ a.arg = "parent"
        /\ \A z \in Slots : Own(a, z) = 0
    BY <2>5, <2>6, NamexWell
  <2>8. /\ b \in Instr /\ Well(b) /\ b.op = "link2" /\ b.path = path /\ b.op \in Bottom
        /\ \A z \in Slots : Own(b, z) = Is(s, z)
    BY <1>1, <2>5, <2>6, Link2Well
  <2>9. Fit2(a, b, k[p])
    <3>1. Above(a, b)
      BY <2>7, <2>8 DEF Above, Over, Deep, ToDir
    <3> QED BY <1>1, <2>7, <2>8, <3>1 DEF Fit2, Fit1
  <2>10. Gives2(p, NULL, a, b)
    <3>1. \A z \in Slots : Own(a, z) = Is(NULL, z)
      BY <2>7, OwnNumber
    <3> QED BY <1>1, <2>8, <3>1, GivesTwo
  <2> QED BY <1>1, <1>4, <2>4, <2>6, <2>9, <2>10, Step2
<1> QED BY <1>2, <1>5, <1>6

\* exit() closes a file before it goes on.
LEMMA ExitCloseBase ==
    ASSUME Base, NEW p \in Procs, ExitClose(p)
    PROVE  Base'
<1> DEFINE a == Ins("close", NULL, NULL, <<>>, "")
<1> DEFINE b == Ins("exit", NULL, NULL, <<>>, "")
<1>0. /\ On(p, "exit") /\ "exit" \notin SOps /\ "exit" \notin TOps /\ "exit" \notin Over
      /\ "exit" \notin PutOps /\ "exit" \notin PutOps \cup ToDir \cup ToFile \cup Ends
  BY DEF ExitClose, SOps, PutOps, TOps, Over, ToDir, ToFile, Ends
<1>1. /\ k[p] # <<>> /\ k[p][1].s = NULL /\ k[p][1].t = NULL /\ res[p] = NULL
      /\ ~ (Len(k[p]) > 1) /\ cwd[p] # NULL
  BY <1>0, OnFacts
<1>2. /\ ic' = ic /\ dn' = dn /\ UNCHANGED files /\ halted' = halted /\ res' = res
      /\ Then(p, <<a, b>>) /\ NoneIns(a, "close") /\ NoneIns(b, "exit")
  BY DEF ExitClose, NoneIns
<1>3. Frame(p, NULL) /\ res'[p] = NULL
  BY <1>1, <1>2, BaseTypes, FrameSame
<1> HIDE DEF a, b
<1>4. a \in Instr /\ Well(a) /\ a.op = "close" /\ \A z \in Slots : Own(a, z) = 0
  BY <1>2, NoneWell
<1>5. b \in Instr /\ Well(b) /\ b.op = "exit" /\ b.op \in Bottom /\ \A z \in Slots : Own(b, z) = 0
  BY <1>2, NoneWell
<1>6. Fit2(a, b, k[p])
  <2>1. Above(a, b)
    BY <1>4, <1>5 DEF Above, Over, Deep
  <2> QED BY <1>1, <1>4, <1>5, <2>1 DEF Fit2, Fit1
<1>7. Gives2(p, NULL, a, b)
  <2> SUFFICES ASSUME NEW z \in Slots
               PROVE  Own(a, z) + Own(b, z) = Own(k[p][1], z) + Is(res[p], z) + Is(NULL, z)
    BY DEF Gives2
  <2>1. /\ Own(k[p][1], z) = Is(NULL, z) + Is(NULL, z) /\ Is(NULL, z) = 0
        /\ Own(a, z) = 0 /\ Own(b, z) = 0 /\ Is(res[p], z) = Is(NULL, z)
    BY <1>1, <1>4, <1>5, OwnNumber DEF Own
  <2> QED BY <2>1
<1> QED BY <1>1, <1>2, <1>3, <1>6, <1>7, Step2

\* unlockput as an instruction.
LEMMA UnlockWell ==
    ASSUME NEW s \in Slots, NEW a, a = Unlock(s)
    PROVE  /\ a \in Instr /\ Well(a) /\ a.op = "unlockput" /\ a.s = s /\ a.t = NULL
           /\ a.op \in Bottom /\ \A z \in Slots : Own(a, z) = Is(s, z)
<1>1. OneIns(a, "unlockput", s) /\ "unlockput" \in PutOps \cup {"unlockput", "bad", "unlink3"}
  BY DEF OneIns, Unlock
<1> QED BY <1>1, OneWell

\* link() enters the new name, or finds it there.
LEMMA Link2Base ==
    ASSUME Base, NEW p \in Procs, Link2(p)
    PROVE  Base'
<1> DEFINE dp == res[p]
<1> DEFINE ip == k[p][1].s
<1> DEFINE name == Last(k[p][1].path)
<1> DEFINE old == dirlookup(dp, name)
<1>0. On(p, "link2") /\ "link2" \in ToDir \cup ToFile /\ "link2" \in ToDir /\ dp # NULL
      /\ "link2" \in SOps
  BY DEF Link2, ToDir, SOps
<1>1. /\ k[p] # <<>> /\ Arg(p) = k[p][1] /\ Live(dp) /\ k[p][1].t = NULL
      /\ dp \in Slots /\ cwd[p] # NULL /\ ~ (Len(k[p]) > 1) /\ name \in Names \cup {".", ".."}
  BY <1>0, ResFacts
<1>1a. Live(ip) /\ ip \in Slots
  BY <1>0, OnFacts DEF Live
<1>2. /\ UNCHANGED files /\ halted' = NoType(dp) /\ Return(p, NULL)
      /\ \/ /\ old # NULL /\ HasSlot(old) /\ ic' = iget(Load(dp, p), old) /\ dn' = dn
            /\ Then(p, <<Put(SlotOf(ic, old)), Unlock(dp), Ins("bad", ip, NULL, <<>>, "")>>)
         \/ /\ ic' = Load(dp, NoProc)
            /\ dn' = [dn EXCEPT ![ic[dp].inum].ents[name] = ic[ip].inum]
            /\ Then(p, <<Put(dp), Put(ip)>>)
  BY <1>1 DEF Link2
<1>3. \A q \in Procs \cup {NoProc} : Load(dp, q) \in [Slots -> Inode] /\ SameRefs(ic, Load(dp, q))
  BY <1>1, LoadSame
<1>3a. halted' \in BOOLEAN
  BY <1>2 DEF NoType
<1>4. Others(res, res', p) /\ res' \in Regs /\ res'[p] = NULL
  BY <1>2, ReturnFacts, NullSlot
<1>5. \A z \in Slots : Own(k[p][1], z) = Is(ip, z)
  <2>1. k[p][1].s = ip
    OBVIOUS
  <2> HIDE DEF ip
  <2> QED BY <1>1, <2>1, OwnOne
<1>6. ASSUME old # NULL, HasSlot(old), ic' = iget(Load(dp, p), old), dn' = dn,
             Then(p, <<Put(SlotOf(ic, old)), Unlock(dp), Ins("bad", ip, NULL, <<>>, "")>>)
      PROVE  Base'
  <2> DEFINE x == SlotOf(ic, old)
  <2> DEFINE a == Put(x)
  <2> DEFINE b == Unlock(dp)
  <2> DEFINE c == Ins("bad", ip, NULL, <<>>, "")
  <2>1. old \in Inums
    <3>1. name \in Entries
      BY <1>1 DEF Entries
    <3> QED BY <1>1, <1>6, <3>1, LookupType
  <2>2. Frame(p, x) /\ x \in Slots
    <3> DEFINE d == Load(dp, p)
    <3>1. d \in [Slots -> Inode] /\ SameRefs(ic, d) /\ ic' = iget(d, old)
      BY <1>3, <1>6
    <3>2. dn' \in [Inums -> Dinode]
      BY <1>6, BaseTypes
    <3> HIDE DEF d, old
    <3> QED BY <1>2, <1>3a, <1>4, <1>6, <2>1, <3>1, <3>2, FrameGot
  <2>3. Then(p, <<a, b, c>>) /\ OneIns(c, "bad", ip)
    BY <1>6 DEF OneIns
  <2> HIDE DEF x, ip
  <2>4. /\ a \in Instr /\ Well(a) /\ (\A z \in Slots : Own(a, z) = Is(x, z))
        /\ \A d : d.op \in Deep => Above(a, d)
    BY <2>2, PutWell
  <2>5. b \in Instr /\ Well(b) /\ b.op = "unlockput" /\ \A z \in Slots : Own(b, z) = Is(dp, z)
    BY <1>1, UnlockWell
  <2> HIDE DEF a, b, c
  <2>6. /\ c \in Instr /\ Well(c) /\ c.op = "bad" /\ c.op \in Bottom
        /\ \A z \in Slots : Own(c, z) = Is(ip, z)
    <3>1. "bad" \in PutOps \cup {"unlockput", "bad", "unlink3"}
      OBVIOUS
    <3> QED BY <1>1a, <2>3, <3>1, OneWell
  <2>7. Fit3(a, b, c, k[p])
    <3>1. Above(a, b)
      BY <2>4, <2>5 DEF Deep
    <3>2. Above(b, c)
      BY <2>5, <2>6 DEF Above, Over, Deep
    <3> QED BY <1>1, <2>4, <2>5, <2>6, <3>1, <3>2 DEF Fit3, Fit2, Fit1
  <2>8. Gives3(p, x, a, b, c)
    <3> HIDE DEF dp
    <3> SUFFICES ASSUME NEW z \in Slots
                 PROVE  Own(a, z) + Own(b, z) + Own(c, z)
                          = Own(k[p][1], z) + Is(res[p], z) + Is(x, z)
      BY DEF Gives3
    <3>1. /\ Own(a, z) = Is(x, z) /\ Own(b, z) = Is(dp, z) /\ Own(c, z) = Is(ip, z)
          /\ Own(k[p][1], z) = Is(ip, z) /\ Is(res[p], z) = Is(dp, z)
      BY <1>5, <2>4, <2>5, <2>6 DEF dp
    <3>2. Is(x, z) \in Int /\ Is(dp, z) \in Int /\ Is(ip, z) \in Int
      BY OwnNumber
    <3> QED BY <3>1, <3>2
  <2> QED BY <1>1, <1>4, <2>2, <2>3, <2>7, <2>8, Step3
<1>7. ASSUME ic' = Load(dp, NoProc),
             dn' = [dn EXCEPT ![ic[dp].inum].ents[name] = ic[ip].inum],
             Then(p, <<Put(dp), Put(ip)>>)
      PROVE  Base'
  <2> DEFINE a == Put(dp)
  <2> DEFINE b == Put(ip)
  <2>1. dn' \in [Inums -> Dinode]
    <3> DEFINE i == ic[dp].inum
    <3> DEFINE v == ic[ip].inum
    <3>1. /\ i \in Inums /\ v \in Inums \cup {NULL} /\ name \in Entries
          /\ EntSet(dn, dn', i, name, v) /\ dn \in [Inums -> Dinode]
      BY <1>1, <1>1a, <1>7, BaseTypes DEF Live, Entries, EntSet
    <3> HIDE DEF i, v, name
    <3> QED BY <3>1, EntSetFacts
  <2>2. ic' \in [Slots -> Inode] /\ SameRefs(ic, ic')
    BY <1>3, <1>7
  <2>3. Frame(p, NULL)
    BY <1>2, <1>3a, <1>4, <2>1, <2>2, FrameSame
  <2>4. Then(p, <<a, b>>)
    BY <1>7
  <2> HIDE DEF ip
  <2>5. /\ a \in Instr /\ Well(a) /\ (\A z \in Slots : Own(a, z) = Is(dp, z))
        /\ \A d : d.op \in Deep => Above(a, d)
    BY <1>1, PutWell
  <2>6. /\ b \in Instr /\ Well(b) /\ b.op = "put" /\ b.op \in Bottom
        /\ \A z \in Slots : Own(b, z) = Is(ip, z)
    BY <1>1a, PutWell
  <2> HIDE DEF a, b
  <2>7. Fit2(a, b, k[p])
    <3>1. Above(a, b)
      BY <2>5, <2>6 DEF Deep
    <3> QED BY <1>1, <2>5, <2>6, <3>1 DEF Fit2, Fit1
  <2>8. Gives2(p, NULL, a, b)
    <3> HIDE DEF dp
    <3> SUFFICES ASSUME NEW z \in Slots
                 PROVE  Own(a, z) + Own(b, z) = Own(k[p][1], z) + Is(res[p], z) + Is(NULL, z)
      BY DEF Gives2
    <3>1. /\ Own(a, z) = Is(dp, z) /\ Own(b, z) = Is(ip, z)
          /\ Own(k[p][1], z) = Is(ip, z) /\ Is(res[p], z) = Is(dp, z)
      BY <1>5, <2>5, <2>6 DEF dp
    <3>2. Is(NULL, z) = 0 /\ Is(dp, z) \in Int /\ Is(ip, z) \in Int
      BY OwnNumber
    <3> QED BY <3>1, <3>2
  <2> QED BY <1>1, <1>4, <2>3, <2>4, <2>7, <2>8, Step2
<1> QED BY <1>2, <1>6, <1>7

\* unlink() looks the name up.
LEMMA Unlink1Base ==
    ASSUME Base, NEW p \in Procs, Unlink1(p)
    PROVE  Base'
<1> DEFINE dp == res[p]
<1> DEFINE name == Last(k[p][1].path)
<1> DEFINE i == dirlookup(dp, name)
<1>0. On(p, "unlink") /\ "unlink" \in ToDir \cup ToFile /\ "unlink" \in ToDir /\ dp # NULL
  BY DEF Unlink1, ToDir
<1>1. /\ k[p] # <<>> /\ Arg(p) = k[p][1] /\ Live(dp) /\ Holds(p, dp)
      /\ dp \in Slots /\ cwd[p] # NULL /\ ~ (Len(k[p]) > 1) /\ name \in Names \cup {".", ".."}
  BY <1>0, ResFacts
<1>2. /\ UNCHANGED files /\ halted' = NoType(dp) /\ Return(p, NULL) /\ dn' = dn
      /\ \/ ic' = Load(dp, NoProc) /\ Then(p, <<Put(dp)>>)
         \/ /\ i # NULL /\ HasSlot(i) /\ ic' = iget(Load(dp, p), i)
            /\ Then(p, <<Ins("unlink2", SlotOf(ic, i), dp, <<name>>, "")>>)
  BY <1>1 DEF Unlink1
<1>3. \A q \in Procs \cup {NoProc} : Load(dp, q) \in [Slots -> Inode] /\ SameRefs(ic, Load(dp, q))
  BY <1>1, LoadSame
<1>3a. halted' \in BOOLEAN
  BY <1>2 DEF NoType
<1>4. Others(res, res', p) /\ res' \in Regs /\ res'[p] = NULL
  BY <1>2, ReturnFacts, NullSlot
<1>5. CASE ic' = Load(dp, NoProc) /\ Then(p, <<Put(dp)>>)
  <2>1. Frame(p, NULL)
    BY <1>2, <1>3, <1>3a, <1>4, <1>5, BaseTypes, FrameSame
  <2> QED BY <1>1, <1>4, <1>5, <2>1, PutStep
<1>6. ASSUME i # NULL, HasSlot(i), ic' = iget(Load(dp, p), i),
             Then(p, <<Ins("unlink2", SlotOf(ic, i), dp, <<name>>, "")>>)
      PROVE  Base'
  <2> DEFINE x == SlotOf(ic, i)
  <2> DEFINE a == Ins("unlink2", x, dp, <<name>>, "")
  <2>1. i \in Inums
    <3>1. name \in Entries
      BY <1>1 DEF Entries
    <3> QED BY <1>1, <1>6, <3>1, LookupType
  <2>2. Frame(p, x) /\ x \in Slots
    <3> DEFINE d == Load(dp, p)
    <3>1. d \in [Slots -> Inode] /\ SameRefs(ic, d) /\ ic' = iget(d, i)
      BY <1>3, <1>6
    <3>2. dn' \in [Inums -> Dinode]
      BY <1>2, BaseTypes
    <3> HIDE DEF d, i
    <3> QED BY <1>2, <1>3a, <1>4, <1>6, <2>1, <3>1, <3>2, FrameGot
  <2>3. Then(p, <<a>>) /\ TwoIns(a, "unlink2", x, dp, name, "")
    BY <1>6 DEF TwoIns
  <2> HIDE DEF x, name, a
  <2>4. /\ a \in Instr /\ Well(a) /\ a.op = "unlink2" /\ OwnsTwo(a, x, dp)
    <3> DEFINE o == "unlink2"
    <3> DEFINE g == ""
    <3>1. o \in TOps /\ TwoArg(o, g)
      BY DEF TOps, Args, TwoArg
    <3>2. TwoIns(a, o, x, dp, name, g) /\ x \in Slots /\ dp \in Slots /\ name \in Names \cup {".", ".."}
      BY <1>1, <2>2, <2>3
    <3> HIDE DEF dp, o, g
    <3>3. a \in Instr /\ Well(a) /\ a.op = o /\ OwnsTwo(a, x, dp)
      BY <3>1, <3>2, TwoWell
    <3> QED BY <3>3 DEF o
  <2>5. Fit1(a, k[p])
    <3>1. a.op \in Bottom
      BY <2>4 DEF Bottom, Ops, SOps
    <3> QED BY <1>1, <2>4, <3>1, FitLast
  <2>6. Gives1(p, x, a)
    <3> HIDE DEF dp
    <3> SUFFICES ASSUME NEW z \in Slots
                 PROVE  Own(a, z) + Is(res'[p], z) = Own(k[p][1], z) + Is(res[p], z) + Is(x, z)
      BY DEF Gives1
    <3>1. /\ Own(a, z) = Is(x, z) + Is(dp, z) /\ Own(k[p][1], z) + Is(res[p], z) = Is(dp, z)
          /\ Is(res'[p], z) = 0
      BY <1>1, <1>4, <2>4, OwnNumber DEF Holds, OwnsTwo
    <3>2. Is(dp, z) \in Int /\ Is(x, z) \in Int
      BY OwnNumber
    <3> QED BY <3>1, <3>2
  <2> QED BY <1>1, <1>4, <2>2, <2>3, <2>5, <2>6, Step1
<1> QED BY <1>2, <1>5, <1>6

\* An instruction that owns both s and t hands them on to two.
LEMMA GivesBoth ==
    ASSUME NEW p, res[p] = NULL, NEW s, NEW t, OwnsTwo(k[p][1], s, t), NEW a, NEW b,
           \A z \in Slots : Own(a, z) = Is(s, z), \A z \in Slots : Own(b, z) = Is(t, z)
    PROVE  Gives2(p, NULL, a, b) /\ Gives2(p, NULL, b, a)
<1>1. ASSUME NEW z \in Slots
      PROVE  /\ Own(a, z) + Own(b, z) = Own(k[p][1], z) + Is(res[p], z) + Is(NULL, z)
             /\ Own(b, z) + Own(a, z) = Own(k[p][1], z) + Is(res[p], z) + Is(NULL, z)
  <2>1. /\ Own(a, z) = Is(s, z) /\ Own(b, z) = Is(t, z)
        /\ Own(k[p][1], z) = Is(s, z) + Is(t, z) /\ Is(res[p], z) = 0 /\ Is(NULL, z) = 0
    BY OwnNumber DEF OwnsTwo
  <2>2. Is(s, z) \in Int /\ Is(t, z) \in Int
    BY OwnNumber
  <2> QED BY <2>1, <2>2
<1> QED BY <1>1 DEF Gives2

\* unlink() with both locks.
LEMMA Unlink2Base ==
    ASSUME Base, NEW p \in Procs, Unlink2(p)
    PROVE  Base'
<1> DEFINE ip == k[p][1].s
<1> DEFINE dp == k[p][1].t
<1> DEFINE name == k[p][1].path[1]
<1> DEFINE c == Load(ip, p)
<1> DEFINE dir == c[ip].type = "DIR"
<1> DEFINE n == IF dir THEN -1 ELSE 0
<1>0. /\ On(p, "unlink2") /\ "unlink2" \in SOps /\ "unlink2" \in TOps /\ "unlink2" \notin Over
      /\ "unlink2" \notin PutOps /\ "unlink2" \notin PutOps \cup ToDir \cup ToFile \cup Ends
  BY DEF Unlink2, SOps, TOps, Over, PutOps, ToDir, ToFile, Ends
<1>1. /\ k[p] # <<>> /\ k[p][1].op = "unlink2" /\ Arg(p) = k[p][1] /\ Live(ip) /\ Live(dp)
      /\ res[p] = NULL /\ cwd[p] # NULL /\ ~ (Len(k[p]) > 1) /\ Well(k[p][1])
  BY <1>0, OnFacts
<1>2. /\ UNCHANGED files /\ res' = res
      /\ halted' = (NoType(ip) \/ c[ip].nlink < 1)
      /\ \/ /\ ic' = Load(ip, NoProc) /\ dn' = dn /\ Then(p, <<Put(ip), Unlock(dp)>>)
         \/ /\ ic' = AddLinks([c EXCEPT ![dp].lk = NoProc], dp, n)
            /\ dn' = [Iupdate(ic', dp) EXCEPT ![c[dp].inum].ents[name] = NULL]
            /\ Then(p, <<Put(dp), Ins("unlink3", ip, NULL, <<>>, "")>>)
  BY <1>1 DEF Unlink2
<1>3. \A q \in Procs \cup {NoProc} : Load(ip, q) \in [Slots -> Inode] /\ SameRefs(ic, Load(ip, q))
  BY <1>1, LoadSame
<1>4. halted' \in BOOLEAN /\ Others(res, res', p) /\ res' \in Regs /\ res'[p] = NULL
  <2>1. halted' \in BOOLEAN
    BY <1>2 DEF NoType
  <2> QED BY <1>1, <1>2, <2>1, BaseTypes
<1>5. OwnsTwo(k[p][1], ip, dp)
  BY DEF OwnsTwo, Own
<1>6. ip \in Slots /\ dp \in Slots
  BY <1>1 DEF Live
<1>7. ASSUME ic' = Load(ip, NoProc), dn' = dn, Then(p, <<Put(ip), Unlock(dp)>>)
      PROVE  Base'
  <2> DEFINE a == Put(ip)
  <2> DEFINE b == Unlock(dp)
  <2>1. Frame(p, NULL)
    BY <1>2, <1>3, <1>4, <1>7, BaseTypes, FrameSame
  <2>2. Then(p, <<a, b>>)
    BY <1>7
  <2> HIDE DEF ip, dp
  <2>3. /\ a \in Instr /\ Well(a) /\ (\A z \in Slots : Own(a, z) = Is(ip, z))
        /\ \A d : d.op \in Deep => Above(a, d)
    BY <1>6, PutWell
  <2>4. /\ b \in Instr /\ Well(b) /\ b.op = "unlockput" /\ b.op \in Bottom
        /\ \A z \in Slots : Own(b, z) = Is(dp, z)
    BY <1>6, UnlockWell
  <2> HIDE DEF a, b
  <2>5. Fit2(a, b, k[p])
    <3>1. Above(a, b)
      BY <2>3, <2>4 DEF Deep
    <3> QED BY <1>1, <2>3, <2>4, <3>1 DEF Fit2, Fit1
  <2>6. Gives2(p, NULL, a, b)
    BY <1>1, <1>5, <2>3, <2>4, GivesBoth
  <2> QED BY <1>1, <1>4, <2>1, <2>2, <2>5, <2>6, Step2
<1>8. ASSUME ic' = AddLinks([c EXCEPT ![dp].lk = NoProc], dp, n),
             dn' = [Iupdate(ic', dp) EXCEPT ![c[dp].inum].ents[name] = NULL],
             Then(p, <<Put(dp), Ins("unlink3", ip, NULL, <<>>, "")>>)
      PROVE  Base'
  <2> DEFINE a == Put(dp)
  <2> DEFINE b == Ins("unlink3", ip, NULL, <<>>, "")
  <2> DEFINE c1 == [c EXCEPT ![dp].lk = NoProc]
  <2>1. c \in [Slots -> Inode] /\ SameRefs(ic, c) /\ FilesTypes /\ n \in Int
    BY <1>3 DEF Base
  <2>2. c1 \in [Slots -> Inode] /\ SameRefs(c, c1)
    <3>1. Relock(c, c1, dp, NoProc) /\ NoProc \in Procs \cup {NoProc}
      BY DEF Relock
    <3> HIDE DEF c, c1, dp
    <3> QED BY <1>6, <2>1, <3>1, LkSetOf
  <2>3. ic' \in [Slots -> Inode] /\ SameRefs(c1, ic')
    <3>1. ic' = AddLinks(c1, dp, n)
      BY <1>8
    <3> HIDE DEF c1, dp, n
    <3> QED BY <1>6, <2>1, <2>2, <3>1, AddLinksFacts
  <2>4. SameRefs(ic, ic')
    <3> HIDE DEF c, c1
    <3>1. SameRefs(ic, c1)
      BY <2>1, <2>2, SameTwice
    <3> QED BY <2>3, <3>1, SameTwice
  <2>5. dn' \in [Inums -> Dinode]
    <3> DEFINE d == ic'
    <3> DEFINE e == Iupdate(d, dp)
    <3> DEFINE i == c[dp].inum
    <3>1. d \in [Slots -> Inode] /\ d[dp].inum = ic[dp].inum /\ ic[dp].inum \in Inums
      BY <1>1, <1>6, <2>3, <2>4 DEF SameRefs, Live
    <3>2. EntSet(e, dn', i, name, NULL)
      BY <1>8 DEF EntSet
    <3>3. i \in Inums
      BY <1>6, <2>1, <3>1 DEF SameRefs
    <3>4. name \in Entries
      <4> DEFINE q == k[p][1].path
      <4>1. q \in Seq(Names \cup {".", ".."}) /\ q # <<>>
        BY <1>0, <1>1 DEF Well
      <4> HIDE DEF q
      <4>2. q[1] \in Names \cup {".", ".."}
        BY <4>1
      <4> QED BY <4>2 DEF q, Entries
    <3> HIDE DEF d, dp
    <3>5. e \in [Inums -> Dinode]
      BY <1>6, <2>1, <3>1, IupdateFacts
    <3> HIDE DEF e, i, name
    <3> QED BY <3>2, <3>3, <3>4, <3>5, EntSetFacts
  <2>6. Frame(p, NULL)
    BY <1>2, <1>4, <2>3, <2>4, <2>5, FrameSame
  <2>7. Then(p, <<a, b>>) /\ OneIns(b, "unlink3", ip)
    BY <1>8 DEF OneIns
  <2> HIDE DEF ip, dp
  <2>8. /\ a \in Instr /\ Well(a) /\ (\A z \in Slots : Own(a, z) = Is(dp, z))
        /\ \A d : d.op \in Deep => Above(a, d)
    BY <1>6, PutWell
  <2> HIDE DEF a, b
  <2>9. /\ b \in Instr /\ Well(b) /\ b.op = "unlink3" /\ b.op \in Bottom
        /\ \A z \in Slots : Own(b, z) = Is(ip, z)
    <3>1. "unlink3" \in PutOps \cup {"unlockput", "bad", "unlink3"}
      OBVIOUS
    <3> QED BY <1>6, <2>7, <3>1, OneWell
  <2>10. Fit2(a, b, k[p])
    <3>1. Above(a, b)
      BY <2>8, <2>9 DEF Deep
    <3> QED BY <1>1, <2>8, <2>9, <3>1 DEF Fit2, Fit1
  <2>11. Gives2(p, NULL, a, b)
    BY <1>1, <1>5, <2>8, <2>9, GivesBoth
  <2> QED BY <1>1, <1>4, <2>6, <2>7, <2>10, <2>11, Step2
<1> QED BY <1>2, <1>7, <1>8

\* create() finds the name ...
LEMMA CreateFoundBase ==
    ASSUME Base, NEW p \in Procs, CreateFound(p)
    PROVE  Base'
<1> DEFINE dp == res[p]
<1> DEFINE i == dirlookup(dp, Last(k[p][1].path))
<1> DEFINE x == SlotOf(ic, i)
<1> DEFINE c == Load(dp, NoProc)
<1> DEFINE a == Put(dp)
<1> DEFINE b == Ins("exists", x, NULL, <<>>, k[p][1].arg)
<1>0. On(p, "create") /\ "create" \in ToDir \cup ToFile /\ "create" \in ToDir /\ dp # NULL
  BY DEF CreateFound, ToDir
<1>1. /\ k[p] # <<>> /\ Arg(p) = k[p][1] /\ Live(dp) /\ Holds(p, dp) /\ Well(k[p][1])
      /\ dp \in Slots /\ cwd[p] # NULL /\ Len(k[p]) > 1 /\ k[p][2].op \in Ends
      /\ k[p][1].op = "create" /\ Last(k[p][1].path) \in Names \cup {".", ".."}
  BY <1>0, ResFacts
<1>2. /\ UNCHANGED files /\ halted' = NoType(dp) /\ Return(p, NULL) /\ dn' = dn
      /\ i # NULL /\ HasSlot(i) /\ ic' = iget(c, i) /\ Then(p, <<a, b>>)
  BY <1>1 DEF CreateFound
<1>3. c \in [Slots -> Inode] /\ SameRefs(ic, c)
  BY <1>1, LoadSame
<1>4. halted' \in BOOLEAN /\ Others(res, res', p) /\ res' \in Regs /\ res'[p] = NULL
  <2>1. halted' \in BOOLEAN
    BY <1>2 DEF NoType
  <2> QED BY <1>2, <2>1, ReturnFacts, NullSlot
<1>5. i \in Inums
  <2>1. Last(k[p][1].path) \in Entries
    BY <1>1 DEF Entries
  <2> QED BY <1>1, <1>2, <2>1, LookupType
<1>6. Frame(p, x) /\ x \in Slots
  <2>1. dn' \in [Inums -> Dinode]
    BY <1>2, BaseTypes
  <2> HIDE DEF c, i
  <2> QED BY <1>2, <1>3, <1>4, <1>5, <2>1, FrameGot
<1>7. /\ a \in Instr /\ Well(a) /\ (\A z \in Slots : Own(a, z) = Is(dp, z))
      /\ \A d : d.op \in Deep => Above(a, d)
  BY <1>1, PutWell
<1>8. /\ b \in Instr /\ Well(b) /\ b.op = "exists"
      /\ \A z \in Slots : Own(b, z) = Is(x, z)
  <2> DEFINE g == k[p][1].arg
  <2>1. g \in Kinds
    BY <1>1 DEF Well
  <2>2. ExistsIns(b, x, g)
    BY DEF ExistsIns
  <2> HIDE DEF b, x, g
  <2> QED BY <1>6, <2>1, <2>2, ExistsWell
<1> HIDE DEF a, b
<1>9. Fit2(a, b, k[p])
  <2>1. Above(a, b)
    BY <1>7, <1>8 DEF Deep
  <2>2. Above(b, k[p][2])
    BY <1>1, <1>8 DEF Above, Over, Deep, Ends
  <2> QED BY <1>1, <1>7, <1>8, <2>1, <2>2 DEF Fit2, Fit1
<1>10. Gives2(p, x, a, b)
  BY <1>1, <1>7, <1>8, GivesTwo
<1> QED BY <1>1, <1>2, <1>4, <1>6, <1>9, <1>10, Step2

\* The inode that ialloc() takes is free.
LEMMA FirstFree ==
    ASSUME FreeInums # {}
    PROVE  /\ (CHOOSE x \in FreeInums : \A y \in FreeInums : x <= y) \in FreeInums
           /\ (CHOOSE x \in FreeInums : \A y \in FreeInums : x <= y) \in Inums
<1>1. FreeInums \in SUBSET Nat
  BY FilesAssumption DEF FreeInums
<1>2. \E n \in FreeInums : \A m \in FreeInums : n <= m
  BY <1>1, Least
<1>3. FreeInums \subseteq Inums
  BY DEF FreeInums
<1> QED BY <1>2, <1>3

\* ... or makes a new inode.
LEMMA CreateAllocBase ==
    ASSUME Base, NEW p \in Procs, CreateAlloc(p)
    PROVE  Base'
<1> DEFINE dp == res[p]
<1> DEFINE name == Last(k[p][1].path)
<1> DEFINE i == CHOOSE x \in FreeInums : \A y \in FreeInums : x <= y
<1> DEFINE x == SlotOf(ic, i)
<1> DEFINE c == Load(dp, p)
<1> DEFINE g == k[p][1].arg
<1> DEFINE r == [type |-> g, nlink |-> 0, ents |-> NoEntries]
<1> DEFINE a == Ins("new", x, dp, <<name>>, g)
<1>0. On(p, "create") /\ "create" \in ToDir \cup ToFile /\ "create" \in ToDir /\ dp # NULL
  BY DEF CreateAlloc, ToDir
<1>1. /\ k[p] # <<>> /\ Arg(p) = k[p][1] /\ Live(dp) /\ Holds(p, dp) /\ Well(k[p][1])
      /\ dp \in Slots /\ cwd[p] # NULL /\ Len(k[p]) > 1 /\ k[p][2].op \in Ends
      /\ k[p][1].op = "create" /\ name \in Names \cup {".", ".."}
  BY <1>0, ResFacts
<1>2. /\ UNCHANGED files /\ halted' = NoType(dp) /\ Return(p, NULL) /\ FreeInums # {}
      /\ HasSlot(i) /\ ic' = iget(c, i) /\ Then(p, <<a>>) /\ dn' = [dn EXCEPT ![i] = r]
  BY <1>1 DEF CreateAlloc
<1>3. c \in [Slots -> Inode] /\ SameRefs(ic, c) /\ g \in Kinds
  BY <1>1, LoadSame DEF Well
<1>4. halted' \in BOOLEAN /\ Others(res, res', p) /\ res' \in Regs /\ res'[p] = NULL
  <2>1. halted' \in BOOLEAN
    BY <1>2 DEF NoType
  <2> QED BY <1>2, <2>1, ReturnFacts, NullSlot
<1>5. i \in Inums
  BY <1>2, FirstFree
<1>6. dn' \in [Inums -> Dinode]
  <2>1. r \in Dinode
    <3>1. NoEntries \in [Entries -> Inums \cup {NULL}] /\ g \in Types
      BY <1>3 DEF NoEntries, Types
    <3> HIDE DEF g
    <3> QED BY <3>1 DEF Dinode
  <2>2. InodeSet(dn, dn', i, r) /\ dn \in [Inums -> Dinode]
    BY <1>2, BaseTypes DEF InodeSet
  <2> HIDE DEF i, r
  <2> QED BY <1>5, <2>1, <2>2, InodeSetFacts
<1>7. Frame(p, x) /\ x \in Slots
  <2> HIDE DEF c, i
  <2> QED BY <1>2, <1>3, <1>4, <1>5, <1>6, FrameGot
<1>8. a \in Instr /\ Well(a) /\ a.op = "new" /\ OwnsTwo(a, x, dp)
  <2> DEFINE o == "new"
  <2>1. o \in TOps /\ TwoArg(o, g)
    BY <1>3 DEF TOps, Args, TwoArg
  <2>2. TwoIns(a, o, x, dp, name, g) /\ x \in Slots /\ dp \in Slots /\ name \in Names \cup {".", ".."}
    BY <1>1, <1>7 DEF TwoIns
  <2> HIDE DEF dp, o, g, x, name, a
  <2>3. a \in Instr /\ Well(a) /\ a.op = o /\ OwnsTwo(a, x, dp)
    BY <2>1, <2>2, TwoWell
  <2> QED BY <2>3 DEF o
<1> HIDE DEF a
<1>9. Fit1(a, k[p])
  <2>1. Above(a, k[p][2])
    BY <1>1, <1>8 DEF Above, Over, Deep, Ends
  <2> QED BY <1>1, <1>8, <2>1 DEF Fit1
<1>10. Gives1(p, x, a)
  <2> HIDE DEF dp, x
  <2> SUFFICES ASSUME NEW z \in Slots
               PROVE  Own(a, z) + Is(res'[p], z) = Own(k[p][1], z) + Is(res[p], z) + Is(x, z)
    BY DEF Gives1
  <2>1. /\ Own(a, z) = Is(x, z) + Is(dp, z) /\ Own(k[p][1], z) + Is(res[p], z) = Is(dp, z)
        /\ Is(res'[p], z) = 0
    BY <1>1, <1>4, <1>8, OwnNumber DEF Holds, OwnsTwo
  <2>2. Is(dp, z) \in Int /\ Is(x, z) \in Int
    BY OwnNumber
  <2> QED BY <2>1, <2>2
<1> QED BY <1>1, <1>2, <1>4, <1>7, <1>9, <1>10, Step1

\* Below an instruction there is another one only if the one above it runs first.
LEMMA ThirdAbove ==
    ASSUME Base, NEW p \in Procs, Len(k[p]) > 1, k[p][2].op \in Ends
    PROVE  ~ (Len(k[p]) > 2)
<1>1. Shape(k[p])
  BY DEF Base, Calling
<1>2. SUFFICES ASSUME Len(k[p]) > 2 PROVE FALSE
  OBVIOUS
<1>3. k[p] \in Seq(Instr) /\ \A j \in 1..(Len(k[p]) - 1) : Above(k[p][j], k[p][j + 1])
  BY <1>1 DEF Shape
<1>4. 2 \in 1..(Len(k[p]) - 1)
  <2>1. Len(k[p]) \in Nat
    BY <1>3
  <2> QED BY <1>2, <2>1
<1>5. Above(k[p][2], k[p][2 + 1])
  BY <1>3, <1>4
<1> QED BY <1>5 DEF Above, Over, Ends, PutOps

\* create() fills the inode and enters it.
LEMMA CreateNewBase ==
    ASSUME Base, NEW p \in Procs, CreateNew(p)
    PROVE  Base'
<1> DEFINE ip == k[p][1].s
<1> DEFINE dp == k[p][1].t
<1> DEFINE i == ic[ip].inum
<1> DEFINE j == ic[dp].inum
<1> DEFINE dir == k[p][1].arg = "DIR"
<1> DEFINE c0 == Load(ip, p)
<1> DEFINE c00 == [c0 EXCEPT ![ip].nlink = 1]
<1> DEFINE c == [Load(ip, p) EXCEPT ![ip].nlink = 1, ![dp].lk = NoProc]
<1> DEFINE n == IF dir THEN 1 ELSE 0
<1> DEFINE name == k[p][1].path[1]
<1> DEFINE r == [type |-> c[ip].type, nlink |-> 1, ents |-> IF dir THEN Dots(i, j) ELSE NoEntries]
<1> DEFINE a == Put(dp)
<1>0. /\ On(p, "new") /\ "new" \in SOps /\ "new" \in TOps /\ "new" \notin Bottom
      /\ "new" \notin PutOps /\ "new" \notin PutOps \cup ToDir \cup ToFile \cup Ends
  BY DEF CreateNew, SOps, TOps, Bottom, PutOps, ToDir, ToFile, Ends
<1>1. /\ k[p] # <<>> /\ k[p][1].op = "new" /\ Arg(p) = k[p][1] /\ Live(ip) /\ Live(dp)
      /\ res[p] = NULL /\ cwd[p] # NULL /\ Len(k[p]) > 1 /\ Well(k[p][1])
      /\ Above(k[p][1], k[p][2])
  BY <1>0, OnFacts
<1>2. /\ UNCHANGED files /\ halted' = NoType(ip) /\ Return(p, ip) /\ Then(p, <<a>>)
      /\ ic' = AddLinks(c, dp, n)
      /\ dn' = [Iupdate(ic', dp) EXCEPT ![i] = r, ![j].ents[name] = i]
  BY <1>1 DEF CreateNew
<1>3. ip \in Slots /\ dp \in Slots /\ i \in Inums /\ j \in Inums /\ FilesTypes
  BY <1>1 DEF Live, Base
<1>4. c0 \in [Slots -> Inode] /\ SameRefs(ic, c0)
  BY <1>1, LoadSame
<1>5. c00 \in [Slots -> Inode] /\ SameRefs(c0, c00)
  <2> DEFINE u == c0[ip]
  <2> DEFINE e == [u EXCEPT !.nlink = 1]
  <2>1. SlotSet(c0, c00, ip, e) /\ u \in Inode
    BY <1>3, <1>4 DEF SlotSet
  <2> HIDE DEF u
  <2>2. e \in Inode /\ e.ref = u.ref /\ e.inum = u.inum
    BY <2>1 DEF Inode
  <2> HIDE DEF e, c0, c00, ip
  <2> QED BY <1>3, <1>4, <2>1, <2>2, SlotSetFacts DEF u
<1>6. c \in [Slots -> Inode] /\ SameRefs(c00, c)
  <2>1. Relock(c00, c, dp, NoProc) /\ NoProc \in Procs \cup {NoProc}
    BY DEF Relock
  <2> HIDE DEF c00, c, dp
  <2> QED BY <1>3, <1>5, <2>1, LkSetOf
<1>7. ic' \in [Slots -> Inode] /\ SameRefs(c, ic') /\ n \in Int
  <2>1. n \in Int
    OBVIOUS
  <2> HIDE DEF c, dp, n
  <2> QED BY <1>2, <1>3, <1>6, <2>1, AddLinksFacts
<1>8. SameRefs(ic, ic')
  <2> HIDE DEF c0, c00, c
  <2>1. SameRefs(ic, c00)
    BY <1>4, <1>5, SameTwice
  <2>2. SameRefs(ic, c)
    BY <1>6, <2>1, SameTwice
  <2> QED BY <1>7, <2>2, SameTwice
<1>9. dn' \in [Inums -> Dinode]
  <2> DEFINE d == ic'
  <2> DEFINE d1 == Iupdate(d, dp)
  <2> DEFINE d2 == [d1 EXCEPT ![i] = r]
  <2>1. d \in [Slots -> Inode] /\ d[dp].inum = j
    BY <1>3, <1>7, <1>8 DEF SameRefs
  <2>2. InodeSet(d1, d2, i, r) /\ EntSet(d2, dn', j, name, i)
    BY <1>2 DEF InodeSet, EntSet
  <2>3. name \in Entries
    <3> DEFINE q == k[p][1].path
    <3>1. q \in Seq(Names \cup {".", ".."}) /\ q # <<>>
      BY <1>0, <1>1 DEF Well
    <3> HIDE DEF q
    <3>2. q[1] \in Names \cup {".", ".."}
      BY <3>1
    <3> QED BY <3>2 DEF q, Entries
  <2>4. r \in Dinode
    <3> DEFINE e == IF dir THEN Dots(i, j) ELSE NoEntries
    <3> DEFINE y == c[ip].type
    <3>1. y \in Types
      <4> HIDE DEF c, ip
      <4> QED BY <1>3, <1>6 DEF Inode
    <3>2. NoEntries \in [Entries -> Inums \cup {NULL}]
      BY DEF NoEntries
    <3>3. Dots(i, j) \in [Entries -> Inums \cup {NULL}]
      <4> HIDE DEF i, j
      <4> QED BY <1>3, <3>2 DEF Dots
    <3>4. e \in [Entries -> Inums \cup {NULL}] /\ r = [type |-> y, nlink |-> 1, ents |-> e]
      BY <3>2, <3>3
    <3> HIDE DEF e, y, r
    <3> QED BY <3>1, <3>4 DEF Dinode
  <2> HIDE DEF d, dp
  <2>5. d1 \in [Inums -> Dinode]
    BY <1>3, <2>1, IupdateFacts
  <2> HIDE DEF d1, d2, i, r
  <2>6. d2 \in [Inums -> Dinode]
    BY <1>3, <2>2, <2>4, <2>5, InodeSetFacts
  <2> HIDE DEF j, name
  <2>7. i \in Inums \cup {NULL}
    BY <1>3
  <2> QED BY <1>3, <2>2, <2>3, <2>6, <2>7, EntSetFacts
<1>10. Frame(p, NULL) /\ res'[p] = ip
  <2>1. halted' \in BOOLEAN
    BY <1>2 DEF NoType
  <2>2. Others(res, res', p) /\ res' \in Regs /\ res'[p] = ip
    BY <1>2, <1>3, ReturnFacts, NullSlot
  <2> QED BY <1>2, <1>7, <1>8, <1>9, <2>1, <2>2, FrameSame
<1>11. a.op \in PutOps /\ Fit1(a, k[p]) /\ \A z \in Slots : Own(a, z) = Is(dp, z)
  <2> HIDE DEF dp
  <2>1. /\ a \in Instr /\ Well(a) /\ a.op = "put" /\ (\A z \in Slots : Own(a, z) = Is(dp, z))
        /\ \A d : d.op \in Deep => Above(a, d)
    BY <1>3, PutWell
  <2> HIDE DEF a
  <2>2. k[p][2].op \in Deep
    BY <1>1 DEF Above
  <2> QED BY <1>1, <2>1, <2>2 DEF Fit1, PutOps
<1> HIDE DEF a
<1>12. k[p][2].op \in Ends
  BY <1>1 DEF Above
<1>13. ~ (Len(k[p]) > 2)
  BY <1>1, <1>12, ThirdAbove
<1>14. Gives1(p, NULL, a)
  <2> SUFFICES ASSUME NEW z \in Slots
               PROVE  Own(a, z) + Is(res'[p], z) = Own(k[p][1], z) + Is(res[p], z) + Is(NULL, z)
    BY DEF Gives1
  <2>1. /\ Own(a, z) = Is(dp, z) /\ Is(res'[p], z) = Is(ip, z)
        /\ Own(k[p][1], z) = Is(ip, z) + Is(dp, z) /\ Is(res[p], z) = 0 /\ Is(NULL, z) = 0
    BY <1>1, <1>10, <1>11, OwnNumber DEF Own
  <2>2. Is(ip, z) \in Int /\ Is(dp, z) \in Int
    BY OwnNumber
  <2> HIDE DEF ip, dp
  <2> QED BY <2>1, <2>2
<1> QED BY <1>1, <1>2, <1>10, <1>11, <1>12, <1>13, <1>14, Step1

-----------------------------------------------------------------------------
(* The file table and the current directories.                              *)

\* The descriptors of a file.
Fds(o, f) == {x \in Procs \X (1..NOFILE) : o[x[1]][x[2]] = f}
Ofiles == [Procs -> [1..NOFILE -> 0..NFILE]]
FdSet(o, o2, p, d, v) == o2 = [o EXCEPT ![p][d] = v]

\* They are finitely many, ...
LEMMA FdsFinite ==
    ASSUME NEW o, NEW f
    PROVE  IsFiniteSet(Fds(o, f)) /\ Cardinality(Fds(o, f)) \in Nat
<1>1. IsFiniteSet(Procs) /\ IsFiniteSet(1..NOFILE)
  BY FilesAssumption, FS_Interval
<1>2. IsFiniteSet(Procs \X (1..NOFILE)) /\ Fds(o, f) \subseteq Procs \X (1..NOFILE)
  BY <1>1, FS_Product DEF Fds
<1>3. IsFiniteSet(Fds(o, f))
  BY <1>2, FS_Subset
<1> QED BY <1>3, FS_CardinalityType

\* ... and change with a descriptor.
LEMMA FdSetFacts ==
    ASSUME NEW o \in Ofiles, NEW o2, NEW p \in Procs, NEW d \in 1..NOFILE, NEW v \in 0..NFILE,
           FdSet(o, o2, p, d, v)
    PROVE  /\ o2 \in Ofiles /\ Others(o, o2, p) /\ o2[p][d] = v
           /\ \A e \in 1..NOFILE : e # d => o2[p][e] = o[p][e]
           /\ \A f : Cardinality(Fds(o2, f)) = Cardinality(Fds(o, f)) - Is(o[p][d], f) + Is(v, f)
<1> DEFINE r == o[p]
<1> DEFINE e == [r EXCEPT ![d] = v]
<1>1. o2 = [o EXCEPT ![p] = e] /\ r \in [1..NOFILE -> 0..NFILE]
  BY DEF FdSet, Ofiles
<1> HIDE DEF r
<1>2. e \in [1..NOFILE -> 0..NFILE] /\ e[d] = v /\ \A z \in 1..NOFILE : z # d => e[z] = r[z]
  BY <1>1
<1> HIDE DEF e
<1>3. o2 \in Ofiles /\ Others(o, o2, p) /\ o2[p] = e
  BY <1>1, <1>2 DEF Ofiles, Others
<1>4. o2[p][d] = v /\ \A z \in 1..NOFILE : z # d => o2[p][z] = o[p][z]
  BY <1>2, <1>3 DEF r
<1>5. ASSUME NEW f
      PROVE  Cardinality(Fds(o2, f)) = Cardinality(Fds(o, f)) - Is(o[p][d], f) + Is(v, f)
  <2> DEFINE G == [x \in Procs \X (1..NOFILE) |-> o[x[1]][x[2]]]
  <2> DEFINE H == [x \in Procs \X (1..NOFILE) |-> o2[x[1]][x[2]]]
  <2> DEFINE x == <<p, d>>
  <2>1. DOMAIN H = DOMAIN G /\ x \in DOMAIN G /\ G[x] = o[p][d] /\ H[x] = v
    BY <1>4
  <2>2. Fib(G, f) = Fds(o, f) /\ Fib(H, f) = Fds(o2, f)
    BY DEF Fib, Fds
  <2>3. ASSUME NEW z \in DOMAIN G, z # x PROVE H[z] = G[z]
    <3>1. z \in Procs \X (1..NOFILE) /\ z = <<z[1], z[2]>>
      OBVIOUS
    <3>2. z[1] # p \/ z[2] # d
      BY <2>3, <3>1
    <3>3. o2[z[1]][z[2]] = o[z[1]][z[2]]
      BY <1>3, <1>4, <3>1, <3>2 DEF Others
    <3> QED BY <3>1, <3>3
  <2>4. IsFiniteSet(Fib(G, f))
    BY <2>2, FdsFinite
  <2> HIDE DEF G, H, x
  <2>5. Cardinality(Fib(H, f)) = Cardinality(Fib(G, f)) - Is(G[x], f) + Is(H[x], f)
    BY <2>1, <2>3, <2>4, FibSet
  <2> QED BY <2>1, <2>2, <2>5
<1> QED BY <1>3, <1>4, <1>5

\* A descriptor refers to an open file, and this to an inode.
LEMMA FileHeld ==
    ASSUME Base, NEW p \in Procs, NEW d \in 1..NOFILE, ofile[p][d] # NULL
    PROVE  /\ ofile[p][d] \in 1..NFILE /\ ft[ofile[p][d]].ref \in Nat \ {0}
           /\ Live(ft[ofile[p][d]].ip)
<1> DEFINE f == ofile[p][d]
<1>1. f \in 1..NFILE
  <2>1. ofile[p][d] \in 0..NFILE
    BY BaseTypes
  <2> QED BY <2>1, FilesAssumption DEF NULL
<1>2. <<p, d>> \in Fds(ofile, f)
  BY DEF Fds
<1>3. Cardinality(Fds(ofile, f)) # 0
  BY <1>2, FdsFinite, FS_EmptySet
<1>4. ft[f].ref = Cardinality(Fds(ofile, f)) /\ (ft[f].ref > 0 => ft[f].ip # NULL)
  BY <1>1 DEF Base, Descriptors, Fds
<1>5. ft[f].ref \in Nat \ {0} /\ ft[f].ref > 0
  BY <1>3, <1>4, FdsFinite
<1>6. ft[f].ip \in Slots
  <2>1. ft[f].ip \in 0..NINODE
    BY <1>1, BaseTypes DEF Table
  <2> QED BY <1>4, <1>5, <2>1, FilesAssumption DEF NULL, Slots
<1>7. Live(ft[f].ip)
  <2> DEFINE x == <<f, "file", 0>>
  <2>1. x \in Places
    BY <1>1 DEF Places
  <2>2. At(k, res, cwd, ft)[x] = ft[f].ip
    BY <1>5, <2>1 DEF At
  <2>3. FilesTypes /\ Refs /\ Unique
    BY DEF Base
  <2> HIDE DEF x, f
  <2> QED BY <1>6, <2>1, <2>2, <2>3, HeldAt
<1> QED BY <1>1, <1>5, <1>7

\* Only the inode of an open file counts.
LEMMA AtFiles ==
    ASSUME NEW kk, NEW rr, NEW cc, NEW ff, NEW f2,
           \A f \in 1..NFILE : FileIp(f2[f]) = FileIp(ff[f])
    PROVE  At(kk, rr, cc, f2) = At(kk, rr, cc, ff)
<1> DEFINE A == At(kk, rr, cc, ff)
<1> DEFINE B == At(kk, rr, cc, f2)
<1>1. ASSUME NEW z \in Places PROVE B[z] = A[z]
  <2>1. /\ z[2] = "file" => z[1] \in 1..NFILE
        /\ z[2] \in {"s", "t", "res", "cwd", "file"}
    BY PlaceKinds
  <2>2. CASE z[2] = "file"
    <3>1. FileIp(f2[z[1]]) = FileIp(ff[z[1]])
      BY <2>1, <2>2
    <3> QED BY <2>2, <3>1 DEF At, FileIp
  <2> QED BY <2>1, <2>2 DEF At
<1>2. A = [z \in Places |-> A[z]] /\ B = [z \in Places |-> B[z]]
  BY DEF At
<1> HIDE DEF A, B
<1>3. B = A
  BY <1>1, <1>2
<1> QED BY <1>3 DEF A, B

\* A step of p that changes files.
LEMMA TableStep ==
    ASSUME Base, NEW p \in Procs, Stay(p), Shape(k'[p]), ResShape(k'[p], res'[p]),
           ic' \in [Slots -> Inode], SameRefs(ic, ic'), dn' = dn, ft' \in Table,
           ofile' \in Ofiles, Others(ofile, ofile', p), cwd' = cwd, cwd[p] # NULL,
           Others(res, res', p), res' \in Regs, todo' = todo, halted' = halted,
           Refs', Descriptors'
    PROVE  Base'
<1>0. FilesTypes /\ Calling /\ Unique
  BY DEF Base
<1>1. FilesTypes'
  BY <1>0 DEF FilesTypes, Stay, Stacks, Table, Ofiles, Regs
<1>2. Unique'
  BY <1>0, UniqueKept
<1>3. Calling'
  <2>1. Others(cwd, cwd', p)
    BY DEF Others
  <2>2. cwd'[p] # NULL
    OBVIOUS
  <2> QED BY <1>0, <2>1, <2>2, CallingKept
<1> QED BY <1>1, <1>2, <1>3 DEF Base

\* A set of descriptors or files has a first one.
LEMMA FirstFacts ==
    ASSUME NEW n \in Nat, NEW S, S \subseteq 1..n, S # {}
    PROVE  First(S) \in S
<1>1. S \in SUBSET Nat
  OBVIOUS
<1>2. \E x \in S : \A y \in S : x <= y
  BY <1>1, Least
<1> QED BY <1>2 DEF First

\* The table after the count of an open file has changed, or a file is opened or closed.
FileSet(g, h, f, e) == h = [g EXCEPT ![f] = e]
RefSet(g, h, f, n)  == h = [g EXCEPT ![f].ref = @ + n]

\* The table after a file has been replaced, ...
LEMMA FileSetFacts ==
    ASSUME NEW g \in Table, NEW h, NEW f \in 1..NFILE, NEW e \in [ref : Nat, ip : 0..NINODE],
           FileSet(g, h, f, e)
    PROVE  h \in Table /\ h[f] = e /\ \A z \in 1..NFILE : z # f => h[z] = g[z]
  BY DEF FileSet, Table

\* ... or its count has changed.
LEMMA RefSetFacts ==
    ASSUME NEW g \in Table, NEW h, NEW f \in 1..NFILE, NEW n \in Int, g[f].ref + n \in Nat,
           RefSet(g, h, f, n)
    PROVE  /\ h \in Table /\ h[f].ref = g[f].ref + n /\ h[f].ip = g[f].ip
           /\ \A z \in 1..NFILE : z # f => h[z] = g[z]
<1> DEFINE i == g[f]
<1> DEFINE e == [i EXCEPT !.ref = @ + n]
<1>1. i \in [ref : Nat, ip : 0..NINODE] /\ i.ref + n \in Nat /\ FileSet(g, h, f, e)
  BY DEF Table, RefSet, FileSet
<1> HIDE DEF i
<1>2. e \in [ref : Nat, ip : 0..NINODE] /\ e.ref = i.ref + n /\ e.ip = i.ip
  BY <1>1
<1> HIDE DEF e
<1>3. h \in Table /\ h[f] = e /\ \A z \in 1..NFILE : z # f => h[z] = g[z]
  BY <1>1, <1>2, FileSetFacts
<1> QED BY <1>2, <1>3 DEF i

\* A descriptor call owns no inode.
LEMMA FdCall ==
    ASSUME Base, NEW p \in Procs, NEW op \in {"dup", "close", "fork", "exit"}, On(p, op)
    PROVE  /\ k[p] # <<>> /\ k[p][1].s = NULL /\ k[p][1].t = NULL /\ res[p] = NULL
           /\ cwd[p] # NULL /\ Live(cwd[p]) /\ (op # "close" => ~ (Len(k[p]) > 1))
           /\ \A z \in Slots : Own(k[p][1], z) = 0
<1>1. /\ op \notin SOps /\ op \notin TOps /\ op \notin PutOps
      /\ op \notin PutOps \cup ToDir \cup ToFile \cup Ends /\ (op # "close" => op \notin Over)
  BY DEF SOps, TOps, PutOps, ToDir, ToFile, Ends, Over
<1>2. /\ k[p] # <<>> /\ k[p][1].s = NULL /\ k[p][1].t = NULL /\ res[p] = NULL
      /\ cwd[p] # NULL /\ Live(cwd[p]) /\ (op # "close" => ~ (Len(k[p]) > 1))
  BY <1>1, OnFacts
<1>3. \A z \in Slots : Own(k[p][1], z) = 0
  BY <1>2, OwnNumber, OwnOne
<1> QED BY <1>2, <1>3

\* The references after such a call is done, if the files have the inodes that they had.
LEMMA DoneRefs ==
    ASSUME Base, NEW p \in Procs, k[p] # <<>>, \A z \in Slots : Own(k[p][1], z) = 0,
           Then(p, <<>>), res' = res, cwd' = cwd, ic' = ic,
           \A f \in 1..NFILE : FileIp(ft'[f]) = FileIp(ft[f]), res[p] = NULL
    PROVE  Stay(p) /\ Shape(k'[p]) /\ ResShape(k'[p], res'[p]) /\ Refs'
<1>0. FilesTypes /\ Calling /\ Refs
  BY DEF Base
<1>1. /\ Stay(p) /\ Shape(k'[p]) /\ Finite(At(k', res, cwd, ft))
      /\ \A s \in Slots : Count(At(k', res, cwd, ft), s) = ic[s].ref - Own(k[p][1], s)
  BY <1>0, Then0
<1>2. At(k', res', cwd', ft') = At(k', res, cwd, ft)
  <2> DEFINE g == ft'
  <2>1. \A f \in 1..NFILE : FileIp(g[f]) = FileIp(ft[f])
    OBVIOUS
  <2> HIDE DEF g
  <2>2. At(k', res, cwd, g) = At(k', res, cwd, ft)
    BY <2>1, AtFiles
  <2> QED BY <2>2 DEF g
<1>3. ASSUME NEW s \in Slots PROVE Count(At(k', res, cwd, ft), s) = ic'[s].ref
  <2>1. Own(k[p][1], s) = 0 /\ ic[s].ref \in Nat
    BY <1>0 DEF FilesTypes, Inode
  <2> QED BY <1>1, <2>1
<1>4. Refs'
  BY <1>1, <1>2, <1>3 DEF Refs
<1>5. ResShape(k'[p], res'[p])
  BY DEF ResShape
<1> QED BY <1>1, <1>4, <1>5

\* dup() counts one more descriptor.
LEMMA DupBase ==
    ASSUME Base, NEW p \in Procs, NEW d \in 1..NOFILE, Dup(p, d)
    PROVE  Base'
<1> DEFINE v == ofile[p][d]
<1> DEFINE e == First(FreeFds(p))
<1>0. On(p, "dup") /\ v # NULL /\ FreeFds(p) # {}
  BY DEF Dup
<1>1. /\ k[p] # <<>> /\ res[p] = NULL /\ cwd[p] # NULL
      /\ \A z \in Slots : Own(k[p][1], z) = 0
  BY <1>0, FdCall
<1>2. /\ FdSet(ofile, ofile', p, e, v) /\ RefSet(ft, ft', v, 1) /\ Then(p, <<>>) /\ ic' = ic
      /\ dn' = dn /\ cwd' = cwd /\ todo' = todo /\ res' = res /\ halted' = halted
  BY DEF Dup, FdSet, RefSet
<1>3. v \in 1..NFILE /\ ft[v].ref \in Nat \ {0}
  BY <1>0, FileHeld
<1>4. e \in 1..NOFILE /\ ofile[p][e] = NULL
  <2>1. NOFILE \in Nat /\ FreeFds(p) \subseteq 1..NOFILE
    BY FilesAssumption DEF FreeFds
  <2>2. e \in FreeFds(p)
    BY <1>0, <2>1, FirstFacts
  <2> QED BY <2>2 DEF FreeFds
<1>5. ft \in Table /\ ofile \in Ofiles /\ v \in 0..NFILE
  BY <1>3, BaseTypes DEF Ofiles
<1> HIDE DEF v, e
<1>6. /\ ft' \in Table /\ ft'[v].ref = ft[v].ref + 1 /\ ft'[v].ip = ft[v].ip
      /\ \A z \in 1..NFILE : z # v => ft'[z] = ft[z]
  <2>1. 1 \in Int /\ ft[v].ref + 1 \in Nat
    BY <1>3
  <2>2. ft \in Table /\ v \in 1..NFILE /\ RefSet(ft, ft', v, 1)
    BY <1>2, <1>3, <1>5
  <2> QED BY <2>1, <2>2, RefSetFacts
<1>7. /\ ofile' \in Ofiles /\ Others(ofile, ofile', p)
      /\ \A f : Cardinality(Fds(ofile', f)) = Cardinality(Fds(ofile, f)) - Is(ofile[p][e], f) + Is(v, f)
  BY <1>2, <1>4, <1>5, FdSetFacts
<1>8. \A f \in 1..NFILE : FileIp(ft'[f]) = FileIp(ft[f])
  <2> TAKE f \in 1..NFILE
  <2>1. CASE f = v
    BY <1>3, <1>6, <2>1 DEF FileIp
  <2>2. CASE f # v
    BY <1>6, <2>2
  <2> QED BY <2>1, <2>2
<1>9. Stay(p) /\ Shape(k'[p]) /\ ResShape(k'[p], res'[p]) /\ Refs'
  BY <1>1, <1>2, <1>8, DoneRefs
<1>10. Descriptors'
  <2>1. ASSUME NEW f \in 1..NFILE
        PROVE  ft'[f].ref = Cardinality(Fds(ofile', f)) /\ (ft'[f].ref > 0 => ft'[f].ip # NULL)
    <3>1. ft[f].ref = Cardinality(Fds(ofile, f)) /\ (ft[f].ref > 0 => ft[f].ip # NULL)
      BY DEF Base, Descriptors, Fds
    <3>2. Is(ofile[p][e], f) = 0 /\ Cardinality(Fds(ofile, f)) \in Nat
      BY <1>4, FdsFinite DEF Is, NULL
    <3>3. CASE f = v
      BY <1>3, <1>6, <1>7, <3>1, <3>2, <3>3 DEF Is
    <3>4. CASE f # v
      <4>1. Is(v, f) = 0
        BY <3>4 DEF Is
      <4> QED BY <1>6, <1>7, <3>1, <3>2, <3>4, <4>1
    <3> QED BY <3>3, <3>4
  <2> QED BY <2>1 DEF Descriptors, Fds
<1>11. Others(res, res', p) /\ res' \in Regs /\ ic' \in [Slots -> Inode] /\ SameRefs(ic, ic')
  BY <1>2, BaseTypes
<1> QED BY <1>1, <1>2, <1>6, <1>7, <1>9, <1>10, <1>11, TableStep

\* close() counts one less, and the last one puts the inode.
LEMMA CloseBase ==
    ASSUME Base, NEW p \in Procs, NEW d \in 1..NOFILE, Close(p, d)
    PROVE  Base'
<1> DEFINE v == ofile[p][d]
<1> DEFINE s == ft[v].ip
<1>0. On(p, "close") /\ v # NULL
  BY DEF Close
<1>1. /\ k[p] # <<>> /\ res[p] = NULL /\ cwd[p] # NULL
      /\ \A z \in Slots : Own(k[p][1], z) = 0
  BY <1>0, FdCall
<1>2. /\ FdSet(ofile, ofile', p, d, NULL) /\ ic' = ic
      /\ dn' = dn /\ cwd' = cwd /\ todo' = todo /\ res' = res /\ halted' = halted
      /\ \/ ft[v].ref > 1 /\ ft' = [ft EXCEPT ![v].ref = @ - 1] /\ Then(p, <<>>)
         \/ /\ ~ (ft[v].ref > 1) /\ FileSet(ft, ft', v, [ref |-> 0, ip |-> NULL])
            /\ Then(p, <<Put(s)>>)
  BY DEF Close, FdSet, FileSet
<1>3. v \in 1..NFILE /\ ft[v].ref \in Nat \ {0} /\ Live(s)
  BY <1>0, FileHeld
<1>5. ft \in Table /\ ofile \in Ofiles /\ v \in 0..NFILE /\ NULL \in 0..NFILE
  BY <1>3, BaseTypes, FilesAssumption DEF Ofiles, NULL
<1>s. s \in Slots
  BY <1>3 DEF Live
<1>si. ft[v].ip = s
  OBVIOUS
<1>v. ofile[p][d] = v
  OBVIOUS
<1> HIDE DEF v, s
<1>6. /\ ofile' \in Ofiles /\ Others(ofile, ofile', p)
      /\ \A f : Cardinality(Fds(ofile', f)) = Cardinality(Fds(ofile, f)) - Is(v, f) + Is(NULL, f)
  BY <1>2, <1>5, <1>v, FdSetFacts
<1>7. /\ ft' \in Table /\ ft'[v].ref = ft[v].ref - 1
      /\ (\A z \in 1..NFILE : z # v => ft'[z] = ft[z])
      /\ ft[v].ref > 1 => ft'[v].ip = s /\ Then(p, <<>>)
      /\ ~ (ft[v].ref > 1) => Then(p, <<Put(s)>>)
  <2>1. ASSUME ft[v].ref > 1, ft' = [ft EXCEPT ![v].ref = @ - 1]
        PROVE  /\ ft' \in Table /\ ft'[v].ref = ft[v].ref - 1 /\ ft'[v].ip = s
               /\ (\A z \in 1..NFILE : z # v => ft'[z] = ft[z])
    <3> DEFINE i == ft[v]
    <3> DEFINE e == [i EXCEPT !.ref = @ - 1]
    <3>1. i \in [ref : Nat, ip : 0..NINODE] /\ i.ref > 1
      BY <1>3, <1>5, <2>1 DEF Table
    <3>2. FileSet(ft, ft', v, e)
      BY <2>1 DEF FileSet
    <3> HIDE DEF i
    <3>3. e \in [ref : Nat, ip : 0..NINODE] /\ e.ref = i.ref - 1 /\ e.ip = i.ip
      BY <3>1
    <3> HIDE DEF e
    <3>4. ft' \in Table /\ ft'[v] = e /\ \A z \in 1..NFILE : z # v => ft'[z] = ft[z]
      BY <1>3, <1>5, <3>2, <3>3, FileSetFacts
    <3> QED BY <1>si, <3>3, <3>4 DEF i
  <2>2. ASSUME ~ (ft[v].ref > 1), FileSet(ft, ft', v, [ref |-> 0, ip |-> NULL])
        PROVE  /\ ft' \in Table /\ ft'[v].ref = ft[v].ref - 1
               /\ (\A z \in 1..NFILE : z # v => ft'[z] = ft[z])
    <3> DEFINE e == [ref |-> 0, ip |-> NULL]
    <3>1. e \in [ref : Nat, ip : 0..NINODE] /\ e.ref = 0
      BY NullSlot
    <3>2. FileSet(ft, ft', v, e)
      BY <2>2
    <3> HIDE DEF e
    <3>3. ft' \in Table /\ ft'[v] = e /\ \A z \in 1..NFILE : z # v => ft'[z] = ft[z]
      BY <1>3, <1>5, <3>1, <3>2, FileSetFacts
    <3>4. ft[v].ref - 1 = 0
      BY <1>3, <2>2
    <3> QED BY <3>1, <3>3, <3>4
  <2>3. CASE ft[v].ref > 1
    BY <1>2, <2>1, <2>3
  <2>4. CASE ~ (ft[v].ref > 1)
    BY <1>2, <2>2, <2>4
  <2> QED BY <2>3, <2>4
<1>8. Descriptors'
  <2>1. ASSUME NEW f \in 1..NFILE
        PROVE  ft'[f].ref = Cardinality(Fds(ofile', f)) /\ (ft'[f].ref > 0 => ft'[f].ip # NULL)
    <3>1. ft[f].ref = Cardinality(Fds(ofile, f)) /\ (ft[f].ref > 0 => ft[f].ip # NULL)
      BY DEF Base, Descriptors, Fds
    <3>2. Is(NULL, f) = 0 /\ Cardinality(Fds(ofile, f)) \in Nat
      BY FdsFinite DEF Is, NULL
    <3>3. CASE f = v
      <4>1. Is(v, f) = 1
        BY <3>3 DEF Is
      <4>2. ft'[f].ref > 0 => ft[v].ref > 1
        BY <1>3, <1>7, <3>3
      <4>3. ft'[f].ref > 0 => ft'[f].ip # NULL
        BY <1>7, <1>s, <3>3, <4>2, NullSlot
      <4> QED BY <1>6, <1>7, <3>1, <3>2, <3>3, <4>1, <4>3
    <3>4. CASE f # v
      <4>1. Is(v, f) = 0
        BY <3>4 DEF Is
      <4> QED BY <1>6, <1>7, <3>1, <3>2, <3>4, <4>1
    <3> QED BY <3>3, <3>4
  <2> QED BY <2>1 DEF Descriptors, Fds
<1>9. Stay(p) /\ Shape(k'[p]) /\ ResShape(k'[p], res'[p]) /\ Refs'
  <2>1. CASE ft[v].ref > 1
    <3>1. \A f \in 1..NFILE : FileIp(ft'[f]) = FileIp(ft[f])
      <4> TAKE f \in 1..NFILE
      <4>1. CASE f = v
        BY <1>3, <1>7, <1>si, <2>1, <4>1 DEF FileIp
      <4>2. CASE f # v
        BY <1>7, <4>2
      <4> QED BY <4>1, <4>2
    <3> QED BY <1>1, <1>2, <1>7, <2>1, <3>1, DoneRefs
  <2>2. ASSUME ~ (ft[v].ref > 1)
        PROVE  Stay(p) /\ Shape(k'[p]) /\ ResShape(k'[p], res'[p]) /\ Refs'
    <3> DEFINE a == Put(s)
    <3>0. FilesTypes /\ Calling /\ Refs
      BY DEF Base
    <3>1. Fit1(a, k[p])
      <4>1. "put" \in PutOps
        BY DEF PutOps
      <4> QED BY <1>1, <1>s, <4>1, FitPut DEF Put
    <3>2. Then(p, <<a>>) /\ \A z \in Slots : Own(a, z) = Is(s, z)
      BY <1>7, <1>s, <2>2, PutWell
    <3> HIDE DEF a
    <3>3. /\ Stay(p) /\ Shape(k'[p]) /\ Finite(At(k', res, cwd, ft))
          /\ \A z \in Slots : Count(At(k', res, cwd, ft), z)
                                = ic[z].ref - Own(k[p][1], z) + Own(a, z)
      BY <1>1, <3>0, <3>1, <3>2, Then1
    <3>4. OtherFiles(ft, ft', v) /\ FileIp(ft[v]) = s /\ FileIp(ft'[v]) = NULL
      <4>1. ft[v].ref > 0 /\ ~ (ft'[v].ref > 0)
        BY <1>3, <1>7, <2>2
      <4> QED BY <1>3, <1>7, <1>si, <4>1 DEF OtherFiles, FileIp
    <3>5. /\ Finite(At(k', res, cwd, ft'))
          /\ \A z \in Slots :
                Count(At(k', res, cwd, ft'), z) =
                  Count(At(k', res, cwd, ft), z) - Is(FileIp(ft[v]), z) + Is(FileIp(ft'[v]), z)
      BY <3>3, <3>4, CountFile
    <3>6. ASSUME NEW z \in Slots PROVE Count(At(k', res, cwd, ft'), z) = ic[z].ref
      <4>1. /\ Own(k[p][1], z) = 0 /\ Own(a, z) = Is(s, z) /\ Is(FileIp(ft[v]), z) = Is(s, z)
            /\ Is(FileIp(ft'[v]), z) = 0
        BY <1>1, <3>2, <3>4, OwnNumber
      <4>2. ic[z].ref \in Int /\ Is(s, z) \in Int
        BY <3>0, OwnNumber DEF FilesTypes, Inode
      <4>3. Count(At(k', res, cwd, ft), z) = ic[z].ref - Own(k[p][1], z) + Own(a, z)
        BY <3>3
      <4>4. Count(At(k', res, cwd, ft'), z) =
              Count(At(k', res, cwd, ft), z) - Is(FileIp(ft[v]), z) + Is(FileIp(ft'[v]), z)
        BY <3>5
      <4> QED BY <4>1, <4>2, <4>3, <4>4
    <3>7. Refs'
      BY <1>2, <3>5, <3>6 DEF Refs
    <3>8. ResShape(k'[p], res'[p])
      BY <1>1, <1>2 DEF ResShape
    <3> QED BY <3>3, <3>7, <3>8
  <2> QED BY <2>1, <2>2
<1>10. Others(res, res', p) /\ res' \in Regs /\ ic' \in [Slots -> Inode] /\ SameRefs(ic, ic')
  BY <1>2, BaseTypes
<1> QED BY <1>1, <1>2, <1>6, <1>7, <1>8, <1>9, <1>10, TableStep

\* open() puts the inode that it has found into a file.
LEMMA OpenFileBase ==
    ASSUME Base, NEW p \in Procs, OpenFile(p)
    PROVE  Base'
<1> DEFINE f == First(FreeFiles)
<1> DEFINE d == First(FreeFds(p))
<1> DEFINE s == res[p]
<1> DEFINE e == [ref |-> 1, ip |-> s]
<1>0. On(p, "opened") /\ s # NULL /\ FreeFiles # {} /\ FreeFds(p) # {}
  BY DEF OpenFile
<1>1. /\ k[p] # <<>> /\ cwd[p] # NULL /\ Live(s)
      /\ \A z \in Slots : Own(k[p][1], z) = 0
  <2>1. "opened" \notin SOps /\ "opened" \notin TOps /\ "opened" \notin PutOps
    BY DEF SOps, TOps, PutOps
  <2>2. /\ k[p] # <<>> /\ k[p][1].s = NULL /\ k[p][1].t = NULL /\ cwd[p] # NULL /\ Live(s)
    BY <1>0, <2>1, OnFacts
  <2>3. \A z \in Slots : Own(k[p][1], z) = 0
    BY <2>2, OwnNumber, OwnOne
  <2> QED BY <2>2, <2>3
<1>2. ~ (Len(k[p]) > 1)
  <2>1. "opened" \notin Over
    BY DEF Over, PutOps
  <2> QED BY <1>0, <2>1, OnFacts
<1>3. /\ FileSet(ft, ft', f, e) /\ FdSet(ofile, ofile', p, d, f) /\ Locking(ic', s, NoProc)
      /\ Then(p, <<>>) /\ Return(p, NULL) /\ dn' = dn /\ cwd' = cwd /\ todo' = todo
      /\ halted' = halted
  BY DEF OpenFile, FileSet, FdSet, Locking
<1>4. d \in 1..NOFILE /\ ofile[p][d] = NULL
  <2>1. NOFILE \in Nat /\ FreeFds(p) \subseteq 1..NOFILE
    BY FilesAssumption DEF FreeFds
  <2>2. d \in FreeFds(p)
    BY <1>0, <2>1, FirstFacts
  <2> QED BY <2>2 DEF FreeFds
<1>5. f \in 1..NFILE /\ ft[f].ref = 0
  <2>1. NFILE \in Nat /\ FreeFiles \subseteq 1..NFILE
    BY FilesAssumption DEF FreeFiles
  <2>2. f \in FreeFiles
    BY <1>0, <2>1, FirstFacts
  <2> QED BY <2>2 DEF FreeFiles
<1>6. s \in Slots /\ s \in 0..NINODE /\ f \in 0..NFILE /\ NoProc \in Procs \cup {NoProc}
  <2>1. s \in Slots
    BY <1>1 DEF Live
  <2> QED BY <1>5, <2>1, NullSlot
<1>7. e \in [ref : Nat, ip : 0..NINODE] /\ e.ref = 1 /\ e.ip = s
  BY <1>6
<1>8. ft \in Table /\ ofile \in Ofiles
  BY BaseTypes DEF Ofiles
<1>r. res[p] = s
  OBVIOUS
<1> HIDE DEF s, f, d, e
<1>9. ft' \in Table /\ ft'[f] = e /\ \A z \in 1..NFILE : z # f => ft'[z] = ft[z]
  BY <1>3, <1>5, <1>7, <1>8, FileSetFacts
<1>10. /\ ofile' \in Ofiles /\ Others(ofile, ofile', p)
       /\ \A g : Cardinality(Fds(ofile', g)) = Cardinality(Fds(ofile, g)) - Is(ofile[p][d], g) + Is(f, g)
  <2>1. FdSet(ofile, ofile', p, d, f) /\ ofile \in Ofiles /\ d \in 1..NOFILE /\ f \in 0..NFILE
    BY <1>3, <1>4, <1>6, <1>8
  <2> QED BY <2>1, FdSetFacts
<1>11. ic' \in [Slots -> Inode] /\ SameRefs(ic, ic')
  BY <1>3, <1>6, LkSet
<1>12. Others(res, res', p) /\ res' \in Regs /\ res'[p] = NULL
  BY <1>3, NullSlot, ReturnFacts
<1>13. FilesTypes /\ Calling /\ Refs
  BY DEF Base
<1>14. /\ Stay(p) /\ Shape(k'[p]) /\ Finite(At(k', res, cwd, ft))
       /\ \A z \in Slots : Count(At(k', res, cwd, ft), z) = ic[z].ref - Own(k[p][1], z)
  BY <1>1, <1>3, <1>13, Then0
<1>15. /\ Finite(At(k', res', cwd, ft))
       /\ \A z \in Slots : Count(At(k', res', cwd, ft), z) =
                             Count(At(k', res, cwd, ft), z) - Is(res[p], z) + Is(res'[p], z)
  BY <1>12, <1>14, CountRes
<1>16. OtherFiles(ft, ft', f) /\ FileIp(ft[f]) = NULL /\ FileIp(ft'[f]) = s
  BY <1>5, <1>7, <1>9 DEF OtherFiles, FileIp
<1>17. /\ Finite(At(k', res', cwd, ft'))
       /\ \A z \in Slots :
             Count(At(k', res', cwd, ft'), z) =
               Count(At(k', res', cwd, ft), z) - Is(FileIp(ft[f]), z) + Is(FileIp(ft'[f]), z)
  BY <1>15, <1>16, CountFile
<1>18. ASSUME NEW z \in Slots PROVE Count(At(k', res', cwd, ft'), z) = ic'[z].ref
  <2>1. /\ Own(k[p][1], z) = 0 /\ Is(res[p], z) = Is(s, z) /\ Is(res'[p], z) = 0
        /\ Is(FileIp(ft[f]), z) = 0 /\ Is(FileIp(ft'[f]), z) = Is(s, z)
    BY <1>1, <1>12, <1>16, <1>r, OwnNumber
  <2>2. ic[z].ref \in Int /\ Is(s, z) \in Int /\ ic'[z].ref = ic[z].ref
    BY <1>11, <1>13, OwnNumber DEF FilesTypes, Inode, SameRefs
  <2>3. Count(At(k', res, cwd, ft), z) = ic[z].ref - Own(k[p][1], z)
    BY <1>14
  <2>4. Count(At(k', res', cwd, ft), z) =
          Count(At(k', res, cwd, ft), z) - Is(res[p], z) + Is(res'[p], z)
    BY <1>15
  <2>5. Count(At(k', res', cwd, ft'), z) =
          Count(At(k', res', cwd, ft), z) - Is(FileIp(ft[f]), z) + Is(FileIp(ft'[f]), z)
    BY <1>17
  <2> QED BY <2>1, <2>2, <2>3, <2>4, <2>5
<1>19. Refs'
  BY <1>3, <1>17, <1>18 DEF Refs
<1>20. ResShape(k'[p], res'[p])
  BY <1>12 DEF ResShape
<1>21. Descriptors'
  <2>1. ASSUME NEW g \in 1..NFILE
        PROVE  ft'[g].ref = Cardinality(Fds(ofile', g)) /\ (ft'[g].ref > 0 => ft'[g].ip # NULL)
    <3>1. ft[g].ref = Cardinality(Fds(ofile, g)) /\ (ft[g].ref > 0 => ft[g].ip # NULL)
      BY DEF Base, Descriptors, Fds
    <3>2. Is(ofile[p][d], g) = 0 /\ Cardinality(Fds(ofile, g)) \in Nat
      BY <1>4, FdsFinite DEF Is, NULL
    <3>3. CASE g = f
      <4>1. Is(f, g) = 1 /\ s # NULL
        BY <1>6, <3>3, NullSlot DEF Is
      <4> QED BY <1>5, <1>7, <1>9, <1>10, <3>1, <3>2, <3>3, <4>1
    <3>4. CASE g # f
      <4>1. Is(f, g) = 0
        BY <3>4 DEF Is
      <4> QED BY <1>9, <1>10, <3>1, <3>2, <3>4, <4>1
    <3> QED BY <3>3, <3>4
  <2> QED BY <2>1 DEF Descriptors, Fds
<1> QED BY <1>1, <1>3, <1>9, <1>10, <1>11, <1>12, <1>14, <1>19, <1>20, <1>21, TableStep

\* A step of p that changes its current directory.
LEMMA CwdStep ==
    ASSUME Base, NEW p \in Procs, Stay(p), Shape(k'[p]), ResShape(k'[p], res'[p]),
           ic' \in [Slots -> Inode], SameRefs(ic, ic'), dn' = dn, ft' = ft, ofile' = ofile,
           cwd' \in Regs, Others(cwd, cwd', p), cwd'[p] = NULL => Gone(p)',
           Others(res, res', p), res' \in Regs, todo' = todo, halted' \in BOOLEAN, Refs'
    PROVE  Base'
<1>0. FilesTypes /\ Calling /\ Unique /\ Descriptors
  BY DEF Base
<1>1. FilesTypes'
  BY <1>0 DEF FilesTypes, Stay, Stacks, Table, Ofiles, Regs
<1>2. Unique'
  BY <1>0, UniqueKept
<1>3. Calling'
  <2>1. Others(ofile, ofile', p)
    BY DEF Others
  <2> QED BY <1>0, <2>1, CallingKept
<1>4. Descriptors'
  BY <1>0 DEF Descriptors
<1> QED BY <1>1, <1>2, <1>3, <1>4 DEF Base

\* The references after p has put its current directory and keeps r in its place.
LEMMA CwdRefs ==
    ASSUME Base, NEW p \in Procs, k[p] # <<>>, k[p][1].s = NULL, k[p][1].t = NULL,
           cwd[p] # NULL, Then(p, <<Put(cwd[p])>>), Others(res, res', p), Others(cwd, cwd', p),
           res'[p] = NULL, cwd'[p] = res[p], SameRefs(ic, ic'), ft' = ft
    PROVE  Stay(p) /\ Shape(k'[p]) /\ ResShape(k'[p], res'[p]) /\ Refs' /\ k'[p] # <<>>
           /\ Len(k'[p]) = Len(k[p]) /\ k'[p][1].op \in PutOps
<1> DEFINE s == cwd[p]
<1> DEFINE r == res[p]
<1> DEFINE a == Put(s)
<1>0. FilesTypes /\ Calling /\ Refs /\ Unique
  BY DEF Base
<1>1. s \in Slots
  BY <1>0, Held DEF Live
<1>2. Fit1(a, k[p])
  <2>1. "put" \in PutOps
    BY DEF PutOps
  <2> QED BY <1>1, <2>1, FitPut DEF Put
<1>3. Then(p, <<a>>) /\ a.op \in PutOps /\ \A z \in Slots : Own(a, z) = Is(s, z)
  BY <1>1, PutWell DEF PutOps
<1>4. \A z \in Slots : Own(k[p][1], z) = 0
  BY OwnNumber, OwnOne
<1>5. cwd[p] = s /\ res[p] = r /\ cwd'[p] = r
  OBVIOUS
<1> HIDE DEF a, s, r
<1>6. /\ Stay(p) /\ Shape(k'[p]) /\ Len(k'[p]) = Len(k[p]) /\ k'[p] # <<>> /\ k'[p][1] = a
      /\ Finite(At(k', res, cwd, ft))
      /\ \A z \in Slots : Count(At(k', res, cwd, ft), z)
                            = ic[z].ref - Own(k[p][1], z) + Own(a, z)
  <2>1. FilesTypes /\ Calling /\ Refs /\ Then(p, <<a>>) /\ p \in Procs /\ k[p] # <<>>
    BY <1>0, <1>3
  <2> QED BY ONLY <1>2, <2>1, Then1
<1>7. /\ Finite(At(k', res', cwd, ft))
      /\ \A z \in Slots : Count(At(k', res', cwd, ft), z) =
                            Count(At(k', res, cwd, ft), z) - Is(res[p], z) + Is(res'[p], z)
  BY <1>6, CountRes
<1>8. /\ Finite(At(k', res', cwd', ft))
      /\ \A z \in Slots : Count(At(k', res', cwd', ft), z) =
                            Count(At(k', res', cwd, ft), z) - Is(cwd[p], z) + Is(cwd'[p], z)
  BY <1>7, CountCwd
<1>9. ASSUME NEW z \in Slots PROVE Count(At(k', res', cwd', ft), z) = ic'[z].ref
  <2>1. /\ Own(k[p][1], z) = 0 /\ Own(a, z) = Is(s, z) /\ Is(res[p], z) = Is(r, z)
        /\ Is(res'[p], z) = 0 /\ Is(cwd[p], z) = Is(s, z) /\ Is(cwd'[p], z) = Is(r, z)
    BY <1>3, <1>4, <1>5, OwnNumber
  <2>2. ic[z].ref \in Int /\ Is(s, z) \in Int /\ Is(r, z) \in Int /\ ic'[z].ref = ic[z].ref
    BY <1>0, OwnNumber DEF FilesTypes, Inode, SameRefs
  <2>3. Count(At(k', res, cwd, ft), z) = ic[z].ref - Own(k[p][1], z) + Own(a, z)
    BY <1>6
  <2>4. Count(At(k', res', cwd, ft), z) =
          Count(At(k', res, cwd, ft), z) - Is(res[p], z) + Is(res'[p], z)
    BY <1>7
  <2>5. Count(At(k', res', cwd', ft), z) =
          Count(At(k', res', cwd, ft), z) - Is(cwd[p], z) + Is(cwd'[p], z)
    BY <1>8
  <2> QED BY <2>1, <2>2, <2>3, <2>4, <2>5
<1>10. Refs'
  BY <1>8, <1>9 DEF Refs
<1>11. ResShape(k'[p], res'[p])
  BY DEF ResShape
<1> QED BY <1>3, <1>6, <1>10, <1>11

\* chdir() keeps the new directory and puts the old one.
LEMMA ChdirBase ==
    ASSUME Base, NEW p \in Procs, Chdir(p)
    PROVE  Base'
<1> DEFINE s == res[p]
<1>0. On(p, "chdir") /\ "chdir" \in ToDir \cup ToFile /\ "chdir" \in ToFile /\ "chdir" # "link2" /\ s # NULL
  BY DEF Chdir, ToFile
<1>1. /\ k[p] # <<>> /\ Live(s) /\ k[p][1].s = NULL /\ k[p][1].t = NULL /\ Holds(p, s)
      /\ s \in Slots /\ cwd[p] # NULL
  BY <1>0, ResFacts
<1>2. /\ ic' = Load(s, NoProc) /\ Return(p, NULL) /\ dn' = dn /\ ft' = ft /\ ofile' = ofile
      /\ todo' = todo /\ halted' \in BOOLEAN
  BY DEF Chdir, NoType
<1>3. \/ cwd' = [cwd EXCEPT ![p] = s] /\ Then(p, <<Put(cwd[p])>>)
      \/ cwd' = cwd /\ Then(p, <<Put(s)>>)
  BY DEF Chdir
<1>4. ic' \in [Slots -> Inode] /\ SameRefs(ic, ic')
  BY <1>1, <1>2, LoadSame
<1>5. Others(res, res', p) /\ res' \in Regs /\ res'[p] = NULL
  BY <1>2, NullSlot, ReturnFacts
<1>6. CASE cwd' = [cwd EXCEPT ![p] = s] /\ Then(p, <<Put(cwd[p])>>)
  <2>1. cwd' \in Regs /\ Others(cwd, cwd', p) /\ cwd'[p] = res[p] /\ cwd'[p] # NULL
    BY <1>0, <1>6, BaseTypes DEF Regs, Others
  <2>2. Stay(p) /\ Shape(k'[p]) /\ ResShape(k'[p], res'[p]) /\ Refs'
    BY <1>1, <1>2, <1>4, <1>5, <1>6, <2>1, CwdRefs
  <2> QED BY <1>2, <1>4, <1>5, <2>1, <2>2, CwdStep
<1>7. CASE cwd' = cwd /\ Then(p, <<Put(s)>>)
  <2>1. dn' \in [Inums -> Dinode] /\ UNCHANGED files
    BY <1>2, <1>7, BaseTypes DEF files
  <2>2. Frame(p, NULL)
    BY <1>2, <1>4, <1>5, <2>1, FrameSame
  <2> HIDE DEF s
  <2> QED BY <1>1, <1>5, <1>7, <2>2, PutStep
<1> QED BY <1>3, <1>6, <1>7

\* exit() puts the current directory last.
LEMMA ExitCwdBase ==
    ASSUME Base, NEW p \in Procs, ExitCwd(p)
    PROVE  Base'
<1>0. On(p, "exit") /\ \A d \in 1..NOFILE : ofile[p][d] = NULL
  BY DEF ExitCwd
<1>1. /\ k[p] # <<>> /\ k[p][1].s = NULL /\ k[p][1].t = NULL /\ res[p] = NULL
      /\ cwd[p] # NULL /\ ~ (Len(k[p]) > 1)
  BY <1>0, FdCall
<1>2. /\ ic' = ic /\ dn' = dn /\ ft' = ft /\ ofile' = ofile /\ todo' = todo /\ res' = res
      /\ halted' = halted /\ cwd' = [cwd EXCEPT ![p] = NULL] /\ Then(p, <<Put(cwd[p])>>)
  BY DEF ExitCwd
<1>3. cwd' \in Regs /\ Others(cwd, cwd', p) /\ cwd'[p] = res[p]
  BY <1>1, <1>2, NullSlot, BaseTypes DEF Regs, Others
<1>4. /\ ic' \in [Slots -> Inode] /\ SameRefs(ic, ic') /\ Others(res, res', p) /\ res' \in Regs
      /\ res'[p] = NULL /\ halted' \in BOOLEAN
  BY <1>1, <1>2, BaseTypes
<1>5. /\ Stay(p) /\ Shape(k'[p]) /\ ResShape(k'[p], res'[p]) /\ Refs' /\ k'[p] # <<>>
      /\ Len(k'[p]) = Len(k[p]) /\ k'[p][1].op \in PutOps
  BY <1>1, <1>2, <1>3, <1>4, CwdRefs
<1>6. Gone(p)'
  BY <1>0, <1>1, <1>2, <1>5 DEF Gone
<1> QED BY <1>2, <1>3, <1>4, <1>5, <1>6, CwdStep

\* The descriptors of one process that refer to file f.
OwnFds(o, p, f) == {d \in 1..NOFILE : o[p][d] = f}

Forked(o, o2, p, q) ==
    /\ o \in Ofiles /\ p \in Procs /\ q \in Procs /\ p # q
    /\ \A d \in 1..NOFILE : o[q][d] = NULL
    /\ o2 = [o EXCEPT ![q] = o[p]]

\* They are those of the child, too: it has as many more.
LEMMA ForkFds ==
    ASSUME NEW o, NEW o2, NEW p, NEW q, Forked(o, o2, p, q), NEW f \in 1..NFILE
    PROVE  /\ Cardinality(Fds(o2, f)) = Cardinality(Fds(o, f)) + Cardinality(OwnFds(o, p, f))
           /\ Cardinality(OwnFds(o, p, f)) \in Nat
           /\ Cardinality(Fds(o, f)) = 0 => Cardinality(OwnFds(o, p, f)) = 0
<1>0. /\ o \in Ofiles /\ p \in Procs /\ q \in Procs /\ p # q
      /\ \A d \in 1..NOFILE : o[q][d] = NULL
      /\ o2 = [o EXCEPT ![q] = o[p]]
  BY DEF Forked
<1> DEFINE A == Fds(o, f)
<1> DEFINE D == OwnFds(o, p, f)
<1> DEFINE B == {q} \X D
<1>1. f # NULL
  BY DEF NULL
<1>2. Fds(o2, f) = A \cup B
  <2>1. o2[q] = o[p] /\ \A z \in Procs : z # q => o2[z] = o[z]
    BY <1>0 DEF Ofiles
  <2>2. ASSUME NEW x \in Procs \X (1..NOFILE)
        PROVE  x \in Fds(o2, f) <=> x \in A \cup B
    <3>1. x[1] \in Procs /\ x[2] \in 1..NOFILE /\ x = <<x[1], x[2]>>
      OBVIOUS
    <3>2. CASE x[1] = q
      <4>1. o2[x[1]][x[2]] = o[p][x[2]] /\ o[x[1]][x[2]] = NULL
        BY <1>0, <2>1, <3>1, <3>2
      <4> QED BY <1>0, <1>1, <3>1, <3>2, <4>1 DEF Fds, OwnFds
    <3>3. CASE x[1] # q
      <4>1. o2[x[1]][x[2]] = o[x[1]][x[2]]
        BY <2>1, <3>1, <3>3
      <4> QED BY <3>1, <3>3, <4>1 DEF Fds, OwnFds
    <3> QED BY <3>2, <3>3
  <2> QED BY <1>0, <2>2 DEF Fds, OwnFds
<1>3. A \cap B = {}
  BY <1>0, <1>1 DEF Fds, OwnFds
<1>4. IsFiniteSet(A) /\ Cardinality(A) \in Nat
  BY FdsFinite
<1>5. IsFiniteSet(D) /\ Cardinality(D) \in Nat
  <2>0. D \in SUBSET (1..NOFILE)
    BY DEF OwnFds
  <2>1. IsFiniteSet(1..NOFILE)
    BY FilesAssumption, FS_Interval
  <2> HIDE DEF D
  <2>2. IsFiniteSet(D)
    BY <2>0, <2>1, FS_Subset
  <2> QED BY <2>2, FS_CardinalityType
<1>6. IsFiniteSet(B) /\ Cardinality(B) = Cardinality(D)
  <2> HIDE DEF D
  <2>1. IsFiniteSet({q}) /\ Cardinality({q}) = 1
    BY FS_Singleton
  <2>2. IsFiniteSet(B) /\ Cardinality(B) = Cardinality({q}) * Cardinality(D)
    BY <1>5, <2>1, FS_Product
  <2> QED BY <1>5, <2>1, <2>2
<1>7. Cardinality(A) = 0 => D = {}
  <2> SUFFICES ASSUME A = {} PROVE D = {}
    BY <1>4, FS_EmptySet
  <2>1. ASSUME NEW d \in D PROVE FALSE
    <3>1. <<p, d>> \in A
      BY <1>0 DEF Fds, OwnFds
    <3> QED BY <3>1
  <2> QED BY <2>1
<1>8. Cardinality({}) = 0
  BY FS_EmptySet
<1> HIDE DEF A, B, D
<1>9. Cardinality(A \cup B) = Cardinality(A) + Cardinality(B) - Cardinality(A \cap B)
  BY <1>4, <1>6, FS_Union
<1>10. Cardinality(A \cup B) = Cardinality(A) + Cardinality(D)
  <2>1. Cardinality(A \cap B) = 0
    BY <1>3, <1>8
  <2> QED BY <1>4, <1>5, <1>6, <1>9, <2>1
<1>11. Cardinality(A) = 0 => Cardinality(D) = 0
  BY <1>7, <1>8
<1> QED BY <1>2, <1>5, <1>10, <1>11 DEF A, D

\* fork() counts the files and the directory that the child gets.
LEMMA ForkBase ==
    ASSUME Base, NEW p \in Procs, NEW q \in Procs, Fork(p, q)
    PROVE  Base'
<1> DEFINE s == cwd[p]
<1>0. On(p, "fork") /\ cwd[q] = NULL /\ k[q] = <<>>
  BY DEF Fork
<1>1. /\ k[p] # <<>> /\ res[p] = NULL /\ s # NULL /\ Live(s) /\ ~ (Len(k[p]) > 1)
      /\ \A z \in Slots : Own(k[p][1], z) = 0
  BY <1>0, FdCall
<1>2. /\ ofile' = [ofile EXCEPT ![q] = ofile[p]] /\ cwd' = [cwd EXCEPT ![q] = s]
      /\ ic' = idup(ic, s) /\ Then(p, <<>>) /\ dn' = dn /\ todo' = todo /\ res' = res
      /\ halted' = halted
      /\ ft' = [f \in 1..NFILE |->
                  [ft[f] EXCEPT !.ref = @ + Cardinality(OwnFds(ofile, p, f))]]
  BY DEF Fork, OwnFds
<1>3. p # q /\ \A d \in 1..NOFILE : ofile[q][d] = NULL
  BY <1>0, <1>1 DEF Base, Calling, Gone
<1>4. FilesTypes /\ Calling /\ Refs
  BY DEF Base
<1>5. /\ ic' \in [Slots -> Inode] /\ Unique'
      /\ \A z \in Slots : ic'[z].ref = ic[z].ref + Is(s, z)
  BY <1>1, <1>2, DupFacts
<1>6. /\ Stay(p) /\ Shape(k'[p]) /\ Finite(At(k', res, cwd, ft))
      /\ \A z \in Slots : Count(At(k', res, cwd, ft), z) = ic[z].ref - Own(k[p][1], z)
  BY <1>1, <1>2, <1>4, Then0
<1>7. cwd' \in Regs /\ Others(cwd, cwd', q) /\ cwd'[q] = s /\ cwd[p] \in 0..NINODE
  BY <1>2, BaseTypes DEF Regs, Others
<1>c. cwd[p] = s
  OBVIOUS
<1>f. /\ ofile \in Ofiles /\ ofile' \in Ofiles
      /\ \A z \in Procs : z # q => ofile'[z] = ofile[z]
  BY <1>2, BaseTypes DEF Ofiles
<1> HIDE DEF s
<1>8. ASSUME NEW f \in 1..NFILE
      PROVE  /\ ft'[f].ref \in Nat /\ ft'[f].ip = ft[f].ip /\ FileIp(ft'[f]) = FileIp(ft[f])
             /\ ft'[f].ref = Cardinality(Fds(ofile', f)) /\ (ft'[f].ref > 0 => ft'[f].ip # NULL)
             /\ ft'[f] \in [ref : Nat, ip : 0..NINODE]
  <2> DEFINE n == Cardinality(OwnFds(ofile, p, f))
  <2> DEFINE e == ft[f]
  <2>1. /\ Cardinality(Fds(ofile', f)) = Cardinality(Fds(ofile, f)) + n
        /\ n \in Nat /\ (Cardinality(Fds(ofile, f)) = 0 => n = 0)
    <3>1. Forked(ofile, ofile', p, q)
      BY <1>2, <1>3, <1>f DEF Forked
    <3> QED BY <3>1, ForkFds
  <2>2. e \in [ref : Nat, ip : 0..NINODE]
    BY BaseTypes DEF Table
  <2>3. e.ref = Cardinality(Fds(ofile, f)) /\ (e.ref > 0 => e.ip # NULL)
    BY DEF Base, Descriptors, Fds
  <2>4. ft'[f] = [e EXCEPT !.ref = @ + n]
    BY <1>2
  <2> HIDE DEF n, e
  <2>5. ft'[f].ref = e.ref + n /\ ft'[f].ip = e.ip
    BY <2>2, <2>4
  <2>5a. ft'[f] \in [ref : Nat, ip : 0..NINODE]
    BY <2>1, <2>2, <2>4
  <2>6. ft'[f].ref > 0 <=> e.ref > 0
    BY <2>1, <2>2, <2>3, <2>5
  <2>7. FileIp(ft'[f]) = FileIp(e)
    BY <2>5, <2>6 DEF FileIp
  <2>8. ft'[f].ref \in Nat /\ ft'[f].ref = Cardinality(Fds(ofile', f))
    BY <2>1, <2>2, <2>3, <2>5
  <2> QED BY <2>3, <2>5, <2>5a, <2>6, <2>7, <2>8 DEF e
<1>9. ft' \in Table
  <2> DEFINE g == ft'
  <2>1. g = [f \in 1..NFILE |-> g[f]]
    BY <1>2
  <2>2. \A f \in 1..NFILE : g[f] \in [ref : Nat, ip : 0..NINODE]
    BY <1>8
  <2> HIDE DEF g
  <2>3. g \in Table
    BY <2>1, <2>2 DEF Table
  <2> QED BY <2>3 DEF g
<1>10. Descriptors'
  BY <1>8 DEF Descriptors, Fds
<1>11. FilesTypes'
  BY <1>2, <1>4, <1>5, <1>6, <1>7, <1>9, <1>f
     DEF FilesTypes, Stay, Stacks, Table, Ofiles, Regs
<1>12. /\ Finite(At(k', res, cwd', ft))
       /\ \A z \in Slots : Count(At(k', res, cwd', ft), z) =
                             Count(At(k', res, cwd, ft), z) - Is(cwd[q], z) + Is(cwd'[q], z)
  BY <1>6, <1>7, CountCwd
<1>13. At(k', res, cwd', ft') = At(k', res, cwd', ft)
  <2> DEFINE g == ft'
  <2>1. \A f \in 1..NFILE : FileIp(g[f]) = FileIp(ft[f])
    BY <1>8
  <2> HIDE DEF g
  <2>2. At(k', res, cwd', g) = At(k', res, cwd', ft)
    BY <2>1, AtFiles
  <2> QED BY <2>2 DEF g
<1>14. ASSUME NEW z \in Slots PROVE Count(At(k', res, cwd', ft), z) = ic'[z].ref
  <2>1. Own(k[p][1], z) = 0 /\ Is(cwd[q], z) = 0 /\ Is(cwd'[q], z) = Is(s, z)
    BY <1>0, <1>1, <1>7, OwnNumber
  <2>2. ic[z].ref \in Int /\ Is(s, z) \in Int /\ ic'[z].ref = ic[z].ref + Is(s, z)
    BY <1>4, <1>5, OwnNumber DEF FilesTypes, Inode
  <2>3. Count(At(k', res, cwd, ft), z) = ic[z].ref - Own(k[p][1], z)
    BY <1>6
  <2>4. Count(At(k', res, cwd', ft), z) =
          Count(At(k', res, cwd, ft), z) - Is(cwd[q], z) + Is(cwd'[q], z)
    BY <1>12
  <2> QED BY <2>1, <2>2, <2>3, <2>4
<1>15. Refs'
  BY <1>2, <1>12, <1>13, <1>14 DEF Refs
<1>16. Calling'
  <2>1. ASSUME NEW z \in Procs
        PROVE  Shape(k'[z]) /\ ResShape(k'[z], res'[z]) /\ (cwd'[z] = NULL => Gone(z)')
    <3>1. Shape(k[z]) /\ ResShape(k[z], res[z]) /\ (cwd[z] = NULL => Gone(z))
      BY <1>4 DEF Calling
    <3>2. CASE z = p
      <4>1. res'[p] = NULL /\ cwd'[p] # NULL
        BY <1>1, <1>2, <1>3, <1>7, <1>c DEF Others
      <4>2. ResShape(k'[p], res'[p])
        BY <4>1 DEF ResShape
      <4> QED BY <1>6, <3>2, <4>1, <4>2
    <3>3. CASE z = q
      <4>1. k'[q] = k[q] /\ res'[q] = res[q] /\ cwd'[q] # NULL
        BY <1>1, <1>2, <1>3, <1>6, <1>7 DEF Stay
      <4> QED BY <3>1, <3>3, <4>1
    <3>4. CASE z # p /\ z # q
      <4>1. k'[z] = k[z] /\ res'[z] = res[z] /\ cwd'[z] = cwd[z] /\ ofile'[z] = ofile[z]
        BY <1>2, <1>6, <1>7, <1>f, <3>4 DEF Stay, Others
      <4> QED BY <3>1, <4>1 DEF Gone
    <3> QED BY <3>2, <3>3, <3>4
  <2> QED BY <2>1 DEF Calling
<1> QED BY <1>5, <1>10, <1>11, <1>15, <1>16 DEF Base

\* A stack whose instructions own nothing.
Bare(q) == Shape(q) /\ \A n \in Nat : View(q, n).s = NULL /\ View(q, n).t = NULL

\* An instruction that owns nothing.
BareIns(a) == a \in Instr /\ Well(a) /\ a.s = NULL /\ a.t = NULL

\* Calls of one instruction, ...
LEMMA Bare1 ==
    ASSUME NEW a, BareIns(a), a.op \in Bottom
    PROVE  Bare(<<a>>)
<1> DEFINE q == <<a>>
<1>1. a \in Instr /\ Well(a) /\ a.s = NULL /\ a.t = NULL
  BY DEF BareIns
<1>2. q \in Seq(Instr) /\ Len(q) = 1 /\ q[1] = a
  BY <1>1
<1> HIDE DEF q
<1>3. /\ \A j \in 1..Len(q) : q[j] = a
      /\ \A j \in 1..(Len(q) - 1) : FALSE
      /\ q[Len(q)] = a
  BY <1>2
<1>4. Shape(q)
  BY <1>1, <1>2, <1>3 DEF Shape
<1>5. ASSUME NEW n \in Nat PROVE View(q, n) = a \/ View(q, n) = None
  <2>1. CASE n < Len(q)
    <3>1. Len(q) - n \in 1..Len(q)
      BY <1>2, <2>1
    <3> QED BY <1>3, <2>1, <3>1 DEF View
  <2>2. CASE ~ (n < Len(q))
    BY <2>2 DEF View
  <2> QED BY <2>1, <2>2
<1>6. None.s = NULL /\ None.t = NULL
  BY DEF None, Ins
<1>7. ASSUME NEW n \in Nat PROVE View(q, n).s = NULL /\ View(q, n).t = NULL
  BY <1>1, <1>5, <1>6
<1> QED BY <1>4, <1>7 DEF Bare, q

\* ... of two ...
LEMMA Bare2 ==
    ASSUME NEW a, BareIns(a), NEW b, BareIns(b), Above(a, b), b.op \in Bottom
    PROVE  Bare(<<a, b>>)
<1> DEFINE q == <<a, b>>
<1>1. /\ a \in Instr /\ Well(a) /\ a.s = NULL /\ a.t = NULL
      /\ b \in Instr /\ Well(b) /\ b.s = NULL /\ b.t = NULL
  BY DEF BareIns
<1>2. q \in Seq(Instr) /\ Len(q) = 2 /\ q[1] = a /\ q[2] = b
  BY <1>1
<1> HIDE DEF q
<1>3. /\ \A j \in 1..Len(q) : q[j] = a \/ q[j] = b
      /\ \A j \in 1..(Len(q) - 1) : j = 1 /\ j + 1 = 2
      /\ q[Len(q)] = b
  BY <1>2
<1>4. Shape(q)
  BY <1>1, <1>2, <1>3 DEF Shape
<1>5. ASSUME NEW n \in Nat PROVE View(q, n) = a \/ View(q, n) = b \/ View(q, n) = None
  <2>1. CASE n < Len(q)
    <3>1. Len(q) - n \in 1..Len(q)
      BY <1>2, <2>1
    <3> QED BY <1>3, <2>1, <3>1 DEF View
  <2>2. CASE ~ (n < Len(q))
    BY <2>2 DEF View
  <2> QED BY <2>1, <2>2
<1>6. None.s = NULL /\ None.t = NULL
  BY DEF None, Ins
<1>7. ASSUME NEW n \in Nat PROVE View(q, n).s = NULL /\ View(q, n).t = NULL
  BY <1>1, <1>5, <1>6
<1> QED BY <1>4, <1>7 DEF Bare, q

\* ... and of three.
LEMMA Bare3 ==
    ASSUME NEW a, BareIns(a), NEW b, BareIns(b), NEW c, BareIns(c), Above(a, b), Above(b, c),
           c.op \in Bottom
    PROVE  Bare(<<a, b, c>>)
<1> DEFINE q == <<a, b, c>>
<1>1. /\ a \in Instr /\ Well(a) /\ a.s = NULL /\ a.t = NULL
      /\ b \in Instr /\ Well(b) /\ b.s = NULL /\ b.t = NULL
      /\ c \in Instr /\ Well(c) /\ c.s = NULL /\ c.t = NULL
  BY DEF BareIns
<1>2. q \in Seq(Instr) /\ Len(q) = 3 /\ q[1] = a /\ q[2] = b /\ q[3] = c
  BY <1>1
<1> HIDE DEF q
<1>3. /\ \A j \in 1..Len(q) : q[j] = a \/ q[j] = b \/ q[j] = c
      /\ \A j \in 1..(Len(q) - 1) : (j = 1 /\ j + 1 = 2) \/ (j = 2 /\ j + 1 = 3)
      /\ q[Len(q)] = c
  BY <1>2
<1>4. Shape(q)
  BY <1>1, <1>2, <1>3 DEF Shape
<1>5. ASSUME NEW n \in Nat
      PROVE  View(q, n) = a \/ View(q, n) = b \/ View(q, n) = c \/ View(q, n) = None
  <2>1. CASE n < Len(q)
    <3>1. Len(q) - n \in 1..Len(q)
      BY <1>2, <2>1
    <3> QED BY <1>3, <2>1, <3>1 DEF View
  <2>2. CASE ~ (n < Len(q))
    BY <2>2 DEF View
  <2> QED BY <2>1, <2>2
<1>6. None.s = NULL /\ None.t = NULL
  BY DEF None, Ins
<1>7. ASSUME NEW n \in Nat PROVE View(q, n).s = NULL /\ View(q, n).t = NULL
  BY <1>1, <1>5, <1>6
<1> QED BY <1>4, <1>7 DEF Bare, q

\* The instructions of a call that has not begun.
DoIns(a, op, path, arg) == a = Ins(op, NULL, NULL, path, arg)
DoFit(op, path, arg) ==
    /\ op \in (ToDir \ {"link2"}) \cup ToFile \cup Ends \cup OtherCalls
    /\ path \in Seq(Elems) /\ arg \in Args
    /\ op \in ToDir \cup {"link1"} => IsPath(path)
    /\ op = "create" => arg \in Kinds

\* They own nothing.
LEMMA DoWell ==
    ASSUME NEW op, NEW path, NEW arg, DoFit(op, path, arg), NEW a, DoIns(a, op, path, arg)
    PROVE  BareIns(a) /\ a.op = op /\ a.path = path /\ a.arg = arg
<1>1. a = [op |-> op, s |-> NULL, t |-> NULL, path |-> path, arg |-> arg]
  BY DEF DoIns, Ins
<1>2. a.op = op /\ a.s = NULL /\ a.t = NULL /\ a.path = path /\ a.arg = arg
  BY <1>1
<1>0. /\ op \in (ToDir \ {"link2"}) \cup ToFile \cup Ends \cup OtherCalls
      /\ path \in Seq(Elems) /\ arg \in Args
      /\ op \in ToDir \cup {"link1"} => IsPath(path)
      /\ op = "create" => arg \in Kinds
  BY DEF DoFit
<1>3. op \in Ops /\ op \notin SOps /\ op \notin TOps /\ op \notin {"namex", "walk", "exists", "new", "link2"}
  BY <1>0 DEF Ops, SOps, TOps, PutOps, ToDir, ToFile, Ends, OtherCalls
<1>4. a \in Instr
  BY <1>0, <1>1, <1>3, NullSlot DEF Instr
<1>5. Well(a)
  BY <1>0, <1>2, <1>3 DEF Well
<1> QED BY <1>2, <1>4, <1>5 DEF BareIns

\* What a system call starts with.
LEMMA ProgramBare ==
    ASSUME NEW p \in Procs, NEW c \in Calls[p]
    PROVE  Bare(Program(c))
<1> DEFINE do(op, arg) == Ins(op, NULL, NULL, c.path, arg)
<1> DEFINE up == Namex(c.path, "parent")
<1> DEFINE at == Namex(c.path, "file")
<1>1. /\ c.op \in PathCalls \cup OtherCalls /\ c.arg \in {"", "r", "w"}
      /\ c.op \in PathCalls => IsPath(c.path)
      /\ c.op = "link" => IsPath(c.new)
      /\ c.op \in OtherCalls => c.path = <<>>
  BY CallsAssumption
<1>2. c.arg \in Args /\ "" \in Args /\ Kinds \subseteq Args
  BY <1>1 DEF Args
<1>3. ASSUME c.op \in PathCalls
      PROVE  /\ BareIns(up) /\ up.op = "namex" /\ up.path = c.path /\ up.arg = "parent"
             /\ BareIns(at) /\ at.op = "namex" /\ at.path = c.path /\ at.arg = "file"
             /\ c.path \in Seq(Elems) /\ IsPath(c.path)
  <2>1. IsPath(c.path)
    BY <1>1, <1>3
  <2>2. c.path \in Seq(Elems)
    BY <2>1 DEF IsPath, Elems
  <2> QED BY <2>1, <2>2, NamexWell DEF BareIns
<1>4. ASSUME NEW kind \in Kinds, NEW e \in Ends, c.op \in PathCalls
      PROVE  Bare(<<up, do("create", kind), do(e, "")>>)
  <2> DEFINE x == do("create", kind)
  <2> DEFINE y == do(e, "")
  <2>1. DoIns(x, "create", c.path, kind) /\ DoIns(y, e, c.path, "")
    BY DEF DoIns
  <2> HIDE DEF x, y
  <2>2. "create" \in (ToDir \ {"link2"}) \cup ToFile \cup Ends \cup OtherCalls
    BY DEF ToDir
  <2>3. BareIns(x) /\ x.op = "create" /\ x.path = c.path
    <3> DEFINE o == "create"
    <3>1. DoFit(o, c.path, kind) /\ DoIns(x, o, c.path, kind)
      BY <1>2, <1>3, <1>4, <2>1, <2>2 DEF DoFit
    <3> HIDE DEF o
    <3>2. BareIns(x) /\ x.op = o /\ x.path = c.path
      BY <3>1, DoWell
    <3> QED BY <3>2 DEF o
  <2>4. /\ e \in (ToDir \ {"link2"}) \cup ToFile \cup Ends \cup OtherCalls
        /\ e \notin ToDir \cup {"link1"} /\ e # "create" /\ e \in Bottom /\ e \in Deep
    BY DEF ToDir, Ends, Bottom, Ops, Deep
  <2>5. BareIns(y) /\ y.op = e
    <3> DEFINE g == ""
    <3>1. DoFit(e, c.path, g) /\ DoIns(y, e, c.path, g)
      BY <1>2, <1>3, <1>4, <2>1, <2>4 DEF DoFit
    <3> HIDE DEF g
    <3> QED BY <3>1, DoWell
  <2>6. Above(up, x)
    BY <1>3, <1>4, <2>3 DEF Above, Over, Deep, ToDir
  <2>7. Above(x, y)
    BY <2>3, <2>4, <2>5 DEF Above, Over
  <2> HIDE DEF up
  <2>8. Bare(<<up, x, y>>)
    BY <1>3, <1>4, <2>3, <2>4, <2>5, <2>6, <2>7, Bare3
  <2> QED BY <2>8 DEF x, y
<1>5. ASSUME c.op = "unlink"
      PROVE  Bare(<<up, do("unlink", "")>>)
  <2> DEFINE x == do("unlink", "")
  <2>1. DoIns(x, "unlink", c.path, "")
    BY DEF DoIns
  <2> HIDE DEF x
  <2>2. /\ "unlink" \in (ToDir \ {"link2"}) \cup ToFile \cup Ends \cup OtherCalls
        /\ "unlink" \in Bottom /\ c.op \in PathCalls
    BY <1>5 DEF ToDir, Bottom, Ops, PathCalls
  <2>3. BareIns(x) /\ x.op = "unlink" /\ x.path = c.path
    <3> DEFINE o == "unlink"
    <3> DEFINE g == ""
    <3>1. DoFit(o, c.path, g) /\ DoIns(x, o, c.path, g)
      BY <1>2, <1>3, <2>1, <2>2 DEF DoFit
    <3> HIDE DEF o, g
    <3>2. BareIns(x) /\ x.op = o /\ x.path = c.path
      BY <3>1, DoWell
    <3> QED BY <3>2 DEF o
  <2>4. Above(up, x)
    BY <1>3, <2>2, <2>3 DEF Above, Over, Deep, ToDir
  <2> HIDE DEF up
  <2>5. Bare(<<up, x>>)
    BY <1>3, <2>2, <2>3, <2>4, Bare2
  <2> QED BY <2>5 DEF x
<1>6. ASSUME NEW op \in {"open", "chdir"}, NEW arg \in Args, c.op \in PathCalls
      PROVE  Bare(<<at, do(op, arg)>>)
  <2> DEFINE x == do(op, arg)
  <2>1. DoIns(x, op, c.path, arg)
    BY DEF DoIns
  <2> HIDE DEF x
  <2>2. /\ op \in (ToDir \ {"link2"}) \cup ToFile \cup Ends \cup OtherCalls
        /\ op \notin ToDir \cup {"link1"} /\ op # "create" /\ op \in Bottom /\ op \in Deep
        /\ op \in ToFile
    BY DEF ToDir, ToFile, Bottom, Ops, Deep
  <2>3. BareIns(x) /\ x.op = op
    <3>1. DoFit(op, c.path, arg)
      BY <1>3, <1>6, <2>2 DEF DoFit
    <3> QED BY <2>1, <3>1, DoWell
  <2>4. Above(at, x)
    BY <1>3, <1>6, <2>2, <2>3 DEF Above, Over
  <2> HIDE DEF at
  <2>5. Bare(<<at, x>>)
    BY <1>3, <1>6, <2>2, <2>3, <2>4, Bare2
  <2> QED BY <2>5 DEF x
<1>7. ASSUME c.op = "link"
      PROVE  Bare(<<at, Ins("link1", NULL, NULL, c.new, "")>>)
  <2> DEFINE x == Ins("link1", NULL, NULL, c.new, "")
  <2>1. DoIns(x, "link1", c.new, "") /\ IsPath(c.new) /\ c.new \in Seq(Elems)
    BY <1>1, <1>7 DEF DoIns, IsPath, Elems
  <2> HIDE DEF x
  <2>2. /\ "link1" \in (ToDir \ {"link2"}) \cup ToFile \cup Ends \cup OtherCalls
        /\ "link1" \in Bottom /\ "link1" \in Deep /\ c.op \in PathCalls
        /\ "link1" \in ToFile
    BY <1>7 DEF ToFile, Bottom, Ops, PathCalls, Deep
  <2>3. BareIns(x) /\ x.op = "link1"
    <3> DEFINE o == "link1"
    <3> DEFINE g == ""
    <3>1. DoFit(o, c.new, g) /\ DoIns(x, o, c.new, g)
      BY <1>2, <2>1, <2>2 DEF DoFit
    <3> HIDE DEF o, g
    <3>2. BareIns(x) /\ x.op = o
      BY <3>1, DoWell
    <3> QED BY <3>2 DEF o
  <2>4. Above(at, x)
    BY <1>3, <2>2, <2>3 DEF Above, Over
  <2> HIDE DEF at
  <2>5. Bare(<<at, x>>)
    BY <1>3, <2>2, <2>3, <2>4, Bare2
  <2> QED BY <2>5 DEF x
<1>8. ASSUME c.op \in OtherCalls
      PROVE  Bare(<<do(c.op, "")>>)
  <2> DEFINE x == do(c.op, "")
  <2> DEFINE op == c.op
  <2>1. DoIns(x, op, c.path, "") /\ c.path \in Seq(Elems)
    BY <1>1, <1>8, NoPath DEF DoIns
  <2>2. /\ op \in (ToDir \ {"link2"}) \cup ToFile \cup Ends \cup OtherCalls
        /\ op \notin ToDir \cup {"link1"} /\ op # "create" /\ op \in Bottom
    BY <1>8 DEF ToDir, OtherCalls, Bottom, Ops
  <2> HIDE DEF x, op
  <2>3. BareIns(x) /\ x.op = op
    <3> DEFINE g == ""
    <3>1. DoFit(op, c.path, g) /\ DoIns(x, op, c.path, g)
      BY <1>2, <2>1, <2>2 DEF DoFit
    <3> HIDE DEF g
    <3> QED BY <3>1, DoWell
  <2>4. Bare(<<x>>)
    BY <2>2, <2>3, Bare1
  <2> QED BY <2>4 DEF x
<1> QED
  <2>1. /\ "FILE" \in Kinds /\ "DIR" \in Kinds /\ "DEV" \in Kinds /\ "opened" \in Ends
        /\ "made" \in Ends /\ "open" \in {"open", "chdir"} /\ "chdir" \in {"open", "chdir"}
    BY DEF Kinds, Ends
  <2>2. CASE c.op = "creat"
    <3>1. Program(c) = <<up, do("create", "FILE"), do("opened", "")>> /\ c.op \in PathCalls
      BY <2>2 DEF Program, PathCalls
    <3> QED BY <1>4, <2>1, <3>1
  <2>3. CASE c.op = "mkdir"
    <3>1. Program(c) = <<up, do("create", "DIR"), do("made", "")>> /\ c.op \in PathCalls
      BY <2>3 DEF Program, PathCalls
    <3> QED BY <1>4, <2>1, <3>1
  <2>4. CASE c.op = "mknod"
    <3>1. Program(c) = <<up, do("create", "DEV"), do("made", "")>> /\ c.op \in PathCalls
      BY <2>4 DEF Program, PathCalls
    <3> QED BY <1>4, <2>1, <3>1
  <2>5. CASE c.op = "open"
    <3>1. Program(c) = <<at, do("open", c.arg)>> /\ c.op \in PathCalls
      BY <2>5 DEF Program, PathCalls
    <3> QED BY <1>2, <1>6, <2>1, <3>1
  <2>6. CASE c.op = "unlink"
    <3>1. Program(c) = <<up, do("unlink", "")>>
      BY <2>6 DEF Program
    <3> QED BY <1>5, <2>6, <3>1
  <2>7. CASE c.op = "link"
    <3>1. Program(c) = <<at, Ins("link1", NULL, NULL, c.new, "")>>
      BY <2>7 DEF Program
    <3> QED BY <1>7, <2>7, <3>1
  <2>8. CASE c.op = "chdir"
    <3>1. Program(c) = <<at, do("chdir", "")>> /\ c.op \in PathCalls
      BY <2>8 DEF Program, PathCalls
    <3> QED BY <1>2, <1>6, <2>1, <3>1
  <2>9. CASE c.op \in OtherCalls
    <3>1. Program(c) = <<do(c.op, "")>>
      BY <2>9 DEF Program, OtherCalls
    <3> QED BY <1>8, <2>9, <3>1
  <2> QED BY <1>1, <2>2, <2>3, <2>4, <2>5, <2>6, <2>7, <2>8, <2>9 DEF PathCalls

\* Places that see the same instructions.
Viewed(kk, k2, p) ==
    /\ Others(kk, k2, p)
    /\ \A n \in Nat : View(k2[p], n).s = View(kk[p], n).s /\ View(k2[p], n).t = View(kk[p], n).t

\* Only the inodes of the instructions count.
LEMMA AtStacks ==
    ASSUME NEW kk, NEW k2, NEW p, Viewed(kk, k2, p), NEW rr, NEW cc, NEW ff
    PROVE  At(k2, rr, cc, ff) = At(kk, rr, cc, ff)
<1> DEFINE A == At(kk, rr, cc, ff)
<1> DEFINE B == At(k2, rr, cc, ff)
<1>1. ASSUME NEW z \in Places PROVE B[z] = A[z]
  <2>1. /\ z[2] \in {"s", "t"} => z[1] \in Procs /\ z[3] \in Nat
        /\ z[2] \in {"s", "t", "res", "cwd", "file"}
    BY PlaceKinds
  <2>2. CASE z[2] \in {"s", "t"}
    <3>1. /\ View(k2[z[1]], z[3]).s = View(kk[z[1]], z[3]).s
          /\ View(k2[z[1]], z[3]).t = View(kk[z[1]], z[3]).t
      <4>1. CASE z[1] = p
        BY <2>1, <2>2, <4>1 DEF Viewed
      <4>2. CASE z[1] # p
        BY <2>1, <2>2, <4>2 DEF Viewed, Others
      <4> QED BY <4>1, <4>2
    <3> QED BY <2>2, <3>1 DEF At
  <2> QED BY <2>1, <2>2 DEF At
<1>2. A = [z \in Places |-> A[z]] /\ B = [z \in Places |-> B[z]]
  BY DEF At
<1> HIDE DEF A, B
<1>3. B = A
  BY <1>1, <1>2
<1> QED BY <1>3 DEF A, B

\* A system call begins.
LEMMA CallBase ==
    ASSUME Base, NEW p \in Procs, NEW c \in Calls[p], Call(p, c)
    PROVE  Base'
<1> DEFINE u == Program(c)
<1>0. FilesTypes /\ Calling /\ Refs /\ Unique /\ Descriptors
  BY DEF Base
<1>1. /\ k[p] = <<>> /\ cwd[p] # NULL /\ todo[p] > 0 /\ todo' = [todo EXCEPT ![p] = @ - 1]
      /\ k' = [k EXCEPT ![p] = u] /\ ic' = ic /\ dn' = dn /\ ft' = ft /\ ofile' = ofile
      /\ cwd' = cwd /\ res' = res /\ halted' = halted
  BY DEF Call
<1>2. Bare(u)
  BY ProgramBare
<1> HIDE DEF u
<1>3. u \in Seq(Instr) /\ Shape(u) /\ \A n \in Nat : View(u, n).s = NULL /\ View(u, n).t = NULL
  BY <1>2 DEF Bare, Shape
<1>4. Stay(p) /\ k'[p] = u /\ Others(k, k', p)
  BY <1>1, <1>3, BaseTypes DEF Stay, Stacks, Others
<1>5. res[p] = NULL
  BY <1>0, <1>1 DEF Calling, ResShape
<1>6. Viewed(k, k', p)
  <2>1. \A n \in Nat : View(k[p], n) = None
    BY <1>1 DEF View
  <2>2. None.s = NULL /\ None.t = NULL
    BY DEF None, Ins
  <2> QED BY <1>3, <1>4, <2>1, <2>2 DEF Viewed
<1>7. At(k', res, cwd, ft) = At(k, res, cwd, ft)
  BY <1>6, AtStacks
<1>8. Refs'
  BY <1>0, <1>1, <1>7 DEF Refs
<1>9. todo' \in [Procs -> Nat]
  <2>1. todo \in [Procs -> Nat] /\ todo[p] - 1 \in Nat
    BY <1>1, BaseTypes
  <2> QED BY <1>1, <2>1
<1>10. FilesTypes'
  BY <1>0, <1>1, <1>4, <1>9 DEF FilesTypes, Stay, Stacks
<1>11. ResShape(k'[p], res'[p])
  BY <1>1, <1>5 DEF ResShape
<1>12. Calling'
  <2>1. /\ Others(res, res', p) /\ Others(cwd, cwd', p) /\ Others(ofile, ofile', p)
        /\ cwd'[p] # NULL /\ Shape(k'[p])
    BY <1>1, <1>3, <1>4 DEF Others
  <2> QED BY <1>0, <1>4, <1>11, <2>1, CallingKept
<1>13. Unique' /\ Descriptors'
  BY <1>0, <1>1 DEF Unique, Descriptors
<1> QED BY <1>8, <1>10, <1>12, <1>13 DEF Base

\* The files of the image.
LEMMA ImageFacts ==
    ImageInum \in [Image -> Inums \ {ROOTINO}]
      /\ \A a, b \in Image : ImageInum[a] = ImageInum[b] => a = b
<1>1. \E m \in [Image -> Inums \ {ROOTINO}] : \A a, b \in Image : m[a] = m[b] => a = b
  BY FilesAssumption
<1> QED BY <1>1 DEF ImageInum

\* At first slot 1 has the root, which is the current directory of every process.
LEMMA InitBase ==
    ASSUME Init
    PROVE  Base
<1>1. 1 \in Slots /\ 1 \in 0..NINODE /\ 1 \in Inums /\ IsFiniteSet(Procs)
      /\ Cardinality(Procs) \in Nat /\ NULL \in 0..NINODE
  <2>1. IsFiniteSet(Procs) /\ NINODE \in Nat \ {0} /\ 1 \in Inums
    BY FilesAssumption DEF ROOTINO
  <2>2. Cardinality(Procs) \in Nat
    BY <2>1, FS_CardinalityType
  <2>3. 1 \in 1..NINODE
    BY <2>1
  <2> QED BY <2>1, <2>2, <2>3, NullSlot DEF Slots
<1>2. ic \in [Slots -> Inode]
  <2>1. ASSUME NEW s \in Slots PROVE ic[s] \in Inode
    <3> DEFINE i == IF s = 1 THEN ROOTINO ELSE NULL
    <3> DEFINE n == IF s = 1 THEN Cardinality(Procs) ELSE 0
    <3>1. ic[s] = [inum |-> i, ref |-> n, valid |-> FALSE, type |-> "FREE", nlink |-> 0, lk |-> NoProc]
      BY DEF Init
    <3>2. i \in Inums \cup {NULL} /\ n \in Nat /\ "FREE" \in Types
      BY <1>1 DEF ROOTINO, Types
    <3> HIDE DEF i, n
    <3> QED BY <3>1, <3>2 DEF Inode
  <2>2. ic = [s \in Slots |-> ic[s]]
    BY DEF Init
  <2> QED BY <2>1, <2>2
<1>3. dn \in [Inums -> Dinode]
  <2>1. NoEntries \in [Entries -> Inums \cup {NULL}]
    BY DEF NoEntries
  <2>2. ASSUME NEW i \in Inums PROVE dn[i] \in Dinode
    <3>1. CASE i = ROOTINO
      <4> DEFINE d == Dots(i, i)
      <4> DEFINE e == [n \in Entries |-> IF n \in Image THEN ImageInum[n] ELSE d[n]]
      <4>1. d \in [Entries -> Inums \cup {NULL}]
        BY <2>1 DEF Dots
      <4>2. dn[i] = [type |-> "DIR", nlink |-> 1, ents |-> e]
        BY <3>1 DEF Init
      <4> HIDE DEF d
      <4>3. e \in [Entries -> Inums \cup {NULL}]
        BY <4>1, ImageFacts
      <4> HIDE DEF e
      <4> QED BY <4>2, <4>3 DEF Dinode, Types, Kinds
    <3>2. CASE i # ROOTINO
      <4> DEFINE t == IF \E n \in Image : ImageInum[n] = i THEN "FILE" ELSE "FREE"
      <4> DEFINE n1 == IF \E n \in Image : ImageInum[n] = i THEN 1 ELSE 0
      <4>1. dn[i] = [type |-> t, nlink |-> n1, ents |-> NoEntries]
        BY <3>2 DEF Init
      <4>2. t \in Types /\ n1 \in Int
        BY DEF Types, Kinds
      <4> HIDE DEF t, n1
      <4> QED BY <2>1, <4>1, <4>2 DEF Dinode
    <3> QED BY <3>1, <3>2
  <2>3. dn = [i \in Inums |-> dn[i]]
    BY DEF Init
  <2> QED BY <2>2, <2>3
<1>4. /\ ft = [f \in 1..NFILE |-> [ref |-> 0, ip |-> NULL]]
      /\ ofile = [p \in Procs |-> [d \in 1..NOFILE |-> NULL]]
      /\ cwd = [p \in Procs |-> 1]
      /\ k = [p \in Procs |-> <<>>] /\ res = [p \in Procs |-> NULL]
      /\ todo = MaxCalls /\ halted = FALSE
  BY DEF Init
<1>5. /\ ft \in Table /\ ofile \in Ofiles /\ cwd \in Regs /\ res \in Regs /\ k \in Stacks
      /\ todo \in [Procs -> Nat] /\ halted \in BOOLEAN
  <2>1. [ref |-> 0, ip |-> NULL] \in [ref : Nat, ip : 0..NINODE]
    BY <1>1
  <2>2. NULL \in 0..NFILE /\ MaxCalls \in [Procs -> Nat]
    BY FilesAssumption DEF NULL
  <2>3. <<>> \in Seq(Instr)
    OBVIOUS
  <2>4. ft \in Table
    BY <1>4, <2>1 DEF Table
  <2>5. k \in Stacks
    BY <1>4, <2>3 DEF Stacks
  <2> QED BY <1>1, <1>4, <2>2, <2>4, <2>5 DEF Ofiles, Regs
<1>6. FilesTypes
  BY <1>2, <1>3, <1>5 DEF FilesTypes, Stacks, Table, Ofiles, Regs
<1>7. Calling
  <2>1. ASSUME NEW p \in Procs PROVE Shape(k[p]) /\ ResShape(k[p], res[p]) /\ cwd[p] # NULL
    <3>1. k[p] = <<>> /\ res[p] = NULL /\ cwd[p] = 1
      BY <1>4
    <3>2. Shape(<<>>)
      BY DEF Shape
    <3> QED BY <3>1, <3>2 DEF ResShape, NULL
  <2> QED BY <2>1 DEF Calling
<1>8. Unique
  <2>1. ASSUME NEW s \in Slots, ic[s].ref > 0 PROVE s = 1 /\ ic[s].inum \in Inums
    <3>1. CASE s = 1
      BY <1>1, <3>1 DEF Init, ROOTINO
    <3>2. CASE s # 1
      BY <2>1, <3>2 DEF Init
    <3> QED BY <3>1, <3>2
  <2> QED BY <2>1 DEF Unique
<1>9. Descriptors
  <2>1. ASSUME NEW f \in 1..NFILE PROVE ft[f].ref = Cardinality(Fds(ofile, f)) /\ ~ (ft[f].ref > 0)
    <3>1. ft[f].ref = 0
      BY <1>4
    <3>2. Fds(ofile, f) = {}
      BY <1>4 DEF Fds, NULL
    <3> QED BY <3>1, <3>2, FS_EmptySet
  <2> QED BY <2>1 DEF Descriptors, Fds
<1>10. Refs
  <2> DEFINE A == At(k, res, cwd, ft)
  <2>1. DOMAIN A = Places
    BY DEF At
  <2>2. ASSUME NEW z \in Places
        PROVE  A[z] = IF z[2] = "cwd" THEN 1 ELSE NULL
    <3>1. /\ z[2] \in {"s", "t", "res", "cwd", "file"}
          /\ z[2] \in {"s", "t"} => z[1] \in Procs /\ z[3] \in Nat
          /\ z[2] \in {"res", "cwd"} => z[1] \in Procs /\ z[3] = 0
          /\ z[2] = "file" => z[1] \in 1..NFILE /\ z[3] = 0
      BY PlaceKinds
    <3>2. CASE z[2] \in {"s", "t"}
      <4>1. View(k[z[1]], z[3]) = None
        BY <1>4, <3>1, <3>2 DEF View
      <4>2. None.s = NULL /\ None.t = NULL
        BY DEF None, Ins
      <4> QED BY <3>2, <4>1, <4>2 DEF At
    <3>3. CASE z[2] = "res"
      BY <1>4, <3>1, <3>3 DEF At
    <3>4. CASE z[2] = "cwd"
      BY <1>4, <3>1, <3>4 DEF At
    <3>5. CASE z[2] = "file"
      BY <1>4, <3>1, <3>5 DEF At
    <3> QED BY <3>1, <3>2, <3>3, <3>4, <3>5
  <2> HIDE DEF A
  <2>3. ASSUME NEW s \in Slots, s # 1 PROVE Fib(A, s) = {}
    <3>1. s # NULL
      BY NullSlot
    <3> QED BY <2>1, <2>2, <2>3, <3>1 DEF Fib
  <2>4. IsFiniteSet(Fib(A, 1)) /\ Cardinality(Fib(A, 1)) = Cardinality(Procs)
    <3> DEFINE T == Fib(A, 1)
    <3> DEFINE b == [p \in Procs |-> <<p, "cwd", 0>>]
    <3>1. ASSUME NEW p \in Procs PROVE <<p, "cwd", 0>> \in T
      <4> DEFINE x == <<p, "cwd", 0>>
      <4>1. x \in Places /\ x[2] = "cwd"
        BY DEF Places
      <4> QED BY <2>1, <2>2, <4>1 DEF Fib
    <3>2. ASSUME NEW x \in T PROVE \E p \in Procs : x = <<p, "cwd", 0>>
      <4>1. x \in Places /\ A[x] = 1
        BY <2>1 DEF Fib
      <4>2. x[2] = "cwd"
        BY <2>2, <4>1 DEF NULL
      <4>3. x[1] \in Procs /\ x[3] = 0
        BY <4>1, <4>2, PlaceKinds
      <4>4. x = <<x[1], "cwd", 0>>
        BY <4>1, <4>2, <4>3, PlaceParts
      <4> QED BY <4>3, <4>4
    <3> HIDE DEF T
    <3>3. b \in Bijection(Procs, T)
      <4>1. b \in [Procs -> T]
        BY <3>1
      <4>2. \A p, q \in Procs : b[p] = b[q] => p = q
        OBVIOUS
      <4>3. \A x \in T : \E p \in Procs : b[p] = x
        BY <3>2
      <4> HIDE DEF b
      <4>4. DOMAIN b = Procs
        BY <4>1
      <4>5. IsInjective(b)
        BY <4>2, <4>4 DEF IsInjective
      <4>6. b \in Injection(Procs, T)
        BY <4>1, <4>5 DEF Injection
      <4>7. b \in Surjection(Procs, T)
        BY <4>1, <4>3 DEF Surjection
      <4> QED BY <4>6, <4>7 DEF Bijection
    <3>4. ExistsBijection(Procs, T)
      BY <3>3 DEF ExistsBijection
    <3>5. IsFiniteSet(T) /\ Cardinality(T) = Cardinality(Procs)
      BY <1>1, <3>4, FS_Bijection
    <3> QED BY <3>5 DEF T
  <2>5. ASSUME NEW s \in Slots
        PROVE  IsFiniteSet(Fib(A, s)) /\ Cardinality(Fib(A, s)) = ic[s].ref
    <3>1. CASE s = 1
      BY <2>4, <3>1 DEF Init
    <3>2. CASE s # 1
      <4>1. ic[s].ref = 0
        BY <3>2 DEF Init
      <4> QED BY <2>3, <3>2, <4>1, FS_EmptySet
    <3> QED BY <3>1, <3>2
  <2> QED BY <2>5 DEF Refs, Finite, Count, A
<1> QED BY <1>6, <1>7, <1>8, <1>9, <1>10 DEF Base

\* Every step keeps the first layer.
LEMMA StepBase ==
    ASSUME Base, NEW p \in Procs, Step(p)
    PROVE  Base'
<1>1. CASE Iput(p) \/ IputFree(p) \/ IputFreed(p) \/ IputDec(p) \/ Iunlockput(p)
  BY <1>1, IputBase, IputFreeBase, IputFreedBase, IputDecBase, IunlockputBase
<1>2. CASE NamexStart(p) \/ NamexEnd(p) \/ NamexStep(p) \/ Failed(p)
  BY <1>2, NamexStartBase, NamexEndBase, NamexStepBase, FailedBase
<1>3. CASE Link1(p) \/ Link2Fail(p) \/ Link2(p) \/ LinkBad(p)
  BY <1>3, Link1Base, Link2FailBase, Link2Base, LinkBadBase
<1>4. CASE Unlink1(p) \/ Unlink2(p) \/ Unlink3(p)
  BY <1>4, Unlink1Base, Unlink2Base, Unlink3Base
<1>5. CASE CreateFound(p) \/ CreateExists(p) \/ CreateAlloc(p) \/ CreateNew(p) \/ Made(p)
  BY <1>5, CreateFoundBase, CreateExistsBase, CreateAllocBase, CreateNewBase, MadeBase
<1>6. CASE OpenLock(p) \/ OpenFile(p) \/ OpenFail(p) \/ Chdir(p)
  BY <1>6, OpenLockBase, OpenFileBase, OpenFailBase, ChdirBase
<1>7. CASE ExitClose(p) \/ ExitCwd(p) \/ NoSuch(p)
  BY <1>7, ExitCloseBase, ExitCwdBase, NoSuchBase
<1>8. CASE \E d \in 1..NOFILE : Dup(p, d) \/ Close(p, d)
  BY <1>8, DupBase, CloseBase
<1>9. CASE \E q \in Procs : Fork(p, q)
  BY <1>9, ForkBase
<1> QED BY <1>1, <1>2, <1>3, <1>4, <1>5, <1>6, <1>7, <1>8, <1>9 DEF Step

\* So does a step of the system.
LEMMA NextBase ==
    ASSUME Base, [Next]_vars
    PROVE  Base'
<1>1. CASE Next
  <2>1. PICK p \in Procs : Step(p) \/ \E c \in Calls[p] : Call(p, c)
    BY <1>1 DEF Next
  <2>2. CASE Step(p)
    BY <2>2, StepBase
  <2>3. CASE \E c \in Calls[p] : Call(p, c)
    BY <2>3, CallBase
  <2> QED BY <2>1, <2>2, <2>3
<1>2. CASE UNCHANGED vars
  <2>1. /\ ic' = ic /\ dn' = dn /\ ft' = ft /\ ofile' = ofile /\ cwd' = cwd /\ k' = k
        /\ res' = res /\ todo' = todo /\ halted' = halted
    BY <1>2 DEF vars
  <2>2. FilesTypes'
    BY <2>1 DEF Base, FilesTypes
  <2>3. Calling'
    BY <2>1 DEF Base, Calling, Gone
  <2>4. Refs'
    BY <2>1 DEF Base, Refs
  <2>5. Unique' /\ Descriptors'
    BY <2>1 DEF Base, Unique, Descriptors
  <2> QED BY <2>2, <2>3, <2>4, <2>5 DEF Base
<1> QED BY <1>1, <1>2

\* The holders of a slot are the places that refer to it.
LEMMA HoldersPlaces ==
    ASSUME Base, NEW s \in Slots
    PROVE  Holders(s) = Fib(At(k, res, cwd, ft), s)
<1> DEFINE A == At(k, res, cwd, ft)
<1>0. Holders(s) = ByS(s) \cup ByT(s) \cup ByRes(s) \cup ByCwd(s) \cup ByFile(s)
  BY DEF Holders
<1>1. DOMAIN A = Places /\ s # NULL
  BY NullSlot DEF At
<1>2. ASSUME NEW p \in Procs
      PROVE  Len(k[p]) \in Nat /\ DOMAIN k[p] = 1..Len(k[p])
  <2>1. k[p] \in Seq(Instr)
    BY BaseTypes DEF Stacks
  <2> QED BY <2>1
<1>3. ASSUME NEW p \in Procs, NEW n \in Nat
      PROVE  /\ <<p, "s", n>> \in Places /\ A[<<p, "s", n>>] = View(k[p], n).s
             /\ <<p, "t", n>> \in Places /\ A[<<p, "t", n>>] = View(k[p], n).t
  <2>1. <<p, "s", n>> \in Places /\ <<p, "t", n>> \in Places
    BY DEF Places
  <2> QED BY <2>1 DEF At
<1>4. ASSUME NEW p \in Procs
      PROVE  /\ <<p, "res", 0>> \in Places /\ A[<<p, "res", 0>>] = res[p]
             /\ <<p, "cwd", 0>> \in Places /\ A[<<p, "cwd", 0>>] = cwd[p]
  <2>1. <<p, "res", 0>> \in Places /\ <<p, "cwd", 0>> \in Places
    BY DEF Places
  <2> QED BY <2>1 DEF At
<1>5. ASSUME NEW f \in 1..NFILE
      PROVE  <<f, "file", 0>> \in Places /\ A[<<f, "file", 0>>] = FileIp(ft[f])
  <2>1. <<f, "file", 0>> \in Places
    BY DEF Places
  <2> QED BY <2>1 DEF At, FileIp
<1>6. ASSUME NEW p \in Procs, NEW j \in DOMAIN k[p]
      PROVE  Len(k[p]) - j \in Nat /\ View(k[p], Len(k[p]) - j) = k[p][j]
  <2>1. Len(k[p]) - j \in Nat /\ Len(k[p]) - j < Len(k[p]) /\ Len(k[p]) - (Len(k[p]) - j) = j
    BY <1>2
  <2> QED BY <2>1 DEF View
<1>7. ASSUME NEW p \in Procs, NEW n \in Nat, View(k[p], n) # None
      PROVE  \E j \in DOMAIN k[p] : Len(k[p]) - j = n /\ View(k[p], n) = k[p][j]
  <2>1. n < Len(k[p])
    BY <1>7 DEF View
  <2> DEFINE j == Len(k[p]) - n
  <2>2. j \in DOMAIN k[p] /\ Len(k[p]) - j = n
    BY <1>2, <2>1
  <2>3. View(k[p], n) = k[p][j]
    BY <2>1 DEF View
  <2> QED BY <2>2, <2>3
<1> HIDE DEF A
<1>8. ASSUME NEW x \in Holders(s) PROVE x \in Fib(A, s)
  <2>1. CASE x \in ByS(s)
    <3>0. PICK p \in Procs : \E j \in DOMAIN k[p] : k[p][j].s = s /\ x = <<p, "s", Len(k[p]) - j>>
      BY <2>1 DEF ByS
    <3>1. PICK j \in DOMAIN k[p] : k[p][j].s = s /\ x = <<p, "s", Len(k[p]) - j>>
      BY <3>0
    <3>2. x \in Places /\ A[x] = s
      BY <1>3, <1>6, <3>1
    <3> QED BY <1>1, <3>2 DEF Fib
  <2>2. CASE x \in ByT(s)
    <3>0. PICK p \in Procs : \E j \in DOMAIN k[p] : k[p][j].t = s /\ x = <<p, "t", Len(k[p]) - j>>
      BY <2>2 DEF ByT
    <3>1. PICK j \in DOMAIN k[p] : k[p][j].t = s /\ x = <<p, "t", Len(k[p]) - j>>
      BY <3>0
    <3>2. x \in Places /\ A[x] = s
      BY <1>3, <1>6, <3>1
    <3> QED BY <1>1, <3>2 DEF Fib
  <2>3. CASE x \in ByRes(s)
    <3>1. PICK p \in Procs : res[p] = s /\ x = <<p, "res", 0>>
      BY <2>3 DEF ByRes
    <3> QED BY <1>1, <1>4, <3>1 DEF Fib
  <2>4. CASE x \in ByCwd(s)
    <3>1. PICK p \in Procs : cwd[p] = s /\ x = <<p, "cwd", 0>>
      BY <2>4 DEF ByCwd
    <3> QED BY <1>1, <1>4, <3>1 DEF Fib
  <2>5. CASE x \in ByFile(s)
    <3>1. PICK f \in 1..NFILE : ft[f].ref > 0 /\ ft[f].ip = s /\ x = <<f, "file", 0>>
      BY <2>5 DEF ByFile
    <3> QED BY <1>1, <1>5, <3>1 DEF Fib, FileIp
  <2> QED BY <1>0, <1>8, <2>1, <2>2, <2>3, <2>4, <2>5
<1>9. ASSUME NEW x \in Fib(A, s) PROVE x \in Holders(s)
  <2>1. x \in Places /\ A[x] = s
    BY <1>1 DEF Fib
  <2>2. /\ x[2] \in {"s", "t", "res", "cwd", "file"}
        /\ x[2] \in {"s", "t"} => x[1] \in Procs /\ x[3] \in Nat
        /\ x[2] \in {"res", "cwd"} => x[1] \in Procs /\ x[3] = 0
        /\ x[2] = "file" => x[1] \in 1..NFILE /\ x[3] = 0
    BY <2>1, PlaceKinds
  <2>3. x = <<x[1], x[2], x[3]>>
    BY <2>1, PlaceParts
  <2>4. None.s = NULL /\ None.t = NULL
    BY DEF None, Ins
  <2>5. CASE x[2] = "s"
    <3>0. x[1] \in Procs /\ x[3] \in Nat
      BY <2>2, <2>5
    <3>a. x = <<x[1], "s", x[3]>>
      BY <2>3, <2>5
    <3>b. A[<<x[1], "s", x[3]>>] = View(k[x[1]], x[3]).s
      BY <1>3, <3>0
    <3>1. x[1] \in Procs /\ x[3] \in Nat /\ View(k[x[1]], x[3]).s = s
      BY Zenon, <2>1, <3>0, <3>a, <3>b
    <3>2. View(k[x[1]], x[3]) # None
      BY <1>1, <2>4, <3>1
    <3>3. PICK j \in DOMAIN k[x[1]] : Len(k[x[1]]) - j = x[3] /\ View(k[x[1]], x[3]) = k[x[1]][j]
      BY <1>7, <3>1, <3>2
    <3>4. x \in ByS(s)
      <4> DEFINE p == x[1]
      <4>1. p \in Procs /\ j \in {i \in DOMAIN k[p] : k[p][i].s = s} /\ x = <<p, "s", Len(k[p]) - j>>
        BY <2>3, <2>5, <3>1, <3>3
      <4> HIDE DEF p
      <4> QED BY <4>1 DEF ByS
    <3> QED BY <1>0, <3>4
  <2>6. CASE x[2] = "t"
    <3>0. x[1] \in Procs /\ x[3] \in Nat
      BY <2>2, <2>6
    <3>a. x = <<x[1], "t", x[3]>>
      BY <2>3, <2>6
    <3>b. A[<<x[1], "t", x[3]>>] = View(k[x[1]], x[3]).t
      BY <1>3, <3>0
    <3>1. x[1] \in Procs /\ x[3] \in Nat /\ View(k[x[1]], x[3]).t = s
      BY Zenon, <2>1, <3>0, <3>a, <3>b
    <3>2. View(k[x[1]], x[3]) # None
      BY <1>1, <2>4, <3>1
    <3>3. PICK j \in DOMAIN k[x[1]] : Len(k[x[1]]) - j = x[3] /\ View(k[x[1]], x[3]) = k[x[1]][j]
      BY <1>7, <3>1, <3>2
    <3>4. x \in ByT(s)
      <4> DEFINE p == x[1]
      <4>1. p \in Procs /\ j \in {i \in DOMAIN k[p] : k[p][i].t = s} /\ x = <<p, "t", Len(k[p]) - j>>
        BY <2>3, <2>6, <3>1, <3>3
      <4> HIDE DEF p
      <4> QED BY <4>1 DEF ByT
    <3> QED BY <1>0, <3>4
  <2>7. CASE x[2] = "res"
    <3>1. x[1] \in Procs /\ res[x[1]] = s /\ x = <<x[1], "res", 0>>
      BY <1>4, <2>1, <2>2, <2>3, <2>7
    <3>2. x \in ByRes(s)
      BY <3>1 DEF ByRes
    <3> QED BY <1>0, <3>2
  <2>8. CASE x[2] = "cwd"
    <3>1. x[1] \in Procs /\ cwd[x[1]] = s /\ x = <<x[1], "cwd", 0>>
      BY <1>4, <2>1, <2>2, <2>3, <2>8
    <3>2. x \in ByCwd(s)
      BY <3>1 DEF ByCwd
    <3> QED BY <1>0, <3>2
  <2>9. CASE x[2] = "file"
    <3>1. x[1] \in 1..NFILE /\ FileIp(ft[x[1]]) = s /\ x = <<x[1], "file", 0>>
      BY <1>5, <2>1, <2>2, <2>3, <2>9
    <3>2. ft[x[1]].ref > 0 /\ ft[x[1]].ip = s
      BY <1>1, <3>1 DEF FileIp
    <3>3. x \in ByFile(s)
      BY <3>1, <3>2 DEF ByFile
    <3> QED BY <1>0, <3>3
  <2> QED BY <2>2, <2>5, <2>6, <2>7, <2>8, <2>9
<1> QED BY <1>8, <1>9 DEF A

\* The first layer has what RefsRight says.
LEMMA BaseRefs ==
    ASSUME Base
    PROVE  RefsRight
<1>1. ASSUME NEW s \in Slots PROVE ic[s].ref = Cardinality(Holders(s))
  <2>1. Cardinality(Fib(At(k, res, cwd, ft), s)) = ic[s].ref
    BY DEF Base, Refs, Count
  <2> QED BY <2>1, HoldersPlaces
<1>2. \A f \in 1..NFILE :
         ft[f].ref = Cardinality({x \in Procs \X (1..NOFILE) : ofile[x[1]][x[2]] = f})
  BY DEF Base, Descriptors
<1> QED BY <1>1, <1>2 DEF RefsRight

\* The first layer is an invariant.
THEOREM LayerOne == Spec => []Base
<1>1. Init => Base
  BY InitBase
<1>2. Base /\ [Next]_vars => Base'
  BY NextBase
<1> QED BY <1>1, <1>2, PTL DEF Spec

\* References are counted right, for any number of processes, inodes, slots, files and
\* calls: ip->ref is the number of calls under way, current directories and open files
\* that own a reference to the slot, and f->ref is the number of descriptors.
THEOREM ReferencesCounted == Spec => []RefsRight
<1>1. Base => RefsRight
  BY BaseRefs
<1> QED BY <1>1, LayerOne, PTL

-----------------------------------------------------------------------------
(* Locks.  The slot that an instruction keeps locked, and, in place -1, the *)
(* one that create() or open() has returned locked.                         *)

\* The instruction that runs first.
Top(q) == IF q = <<>> THEN None ELSE q[1]

\* The instructions that keep their inode locked; unlink() and create() keep the directory.
Keepers == {"free", "freed", "unlockput", "unlink3"}

Keeps(a) == IF a.op \in Keepers THEN a.s ELSE IF a.op \in TOps THEN a.t ELSE NULL

\* While an iput() runs, or at the end of the call, the result is locked.
KeepsRes(q, r) == IF Top(q).op \in PutOps \cup Ends THEN r ELSE NULL

\* The places of a call that may keep a lock.
Where == Nat \cup {-1}

Kept(q, r, n) == IF n = -1 THEN KeepsRes(q, r) ELSE Keeps(View(q, n))

\* A process has the locks that its call keeps, each one in one place.
LocksOf(p) ==
    /\ \A s \in Slots : ic[s].lk = p <=> \E n \in Where : Kept(k[p], res[p], n) = s
    /\ \A n, m \in Where :
          Kept(k[p], res[p], n) = Kept(k[p], res[p], m) /\ Kept(k[p], res[p], n) # NULL => n = m

Locks == \A p \in Procs : LocksOf(p)

-----------------------------------------------------------------------------
(* The life of an inode.                                                    *)

\* The inode that a slot is for.
Num(s) == ic[s].inum

\* The first instruction of some process frees the inode of slot s, has freed it, gives
\* the slot up, or fills a new inode in it.
Freer(s)   == \E q \in Procs : Top(k[q]).op = "free" /\ Top(k[q]).s = s
Freed(s)   == \E q \in Procs : Top(k[q]).op = "freed" /\ Top(k[q]).s = s
Leaving(s) == \E q \in Procs : Top(k[q]).op \in {"freed", "dec"} /\ Top(k[q]).s = s
Filling(s) == \E q \in Procs : Top(k[q]).op = "new" /\ Top(k[q]).s = s

\* The inode of slot s is about to be freed, is free or is not yet filled.
Odd(s) == \/ Freer(s) \/ Freed(s) \/ Filling(s)
          \/ dn[Num(s)].type = "FREE"

\* The cache is as the disk, except for an inode that iput() has freed on disk.
Cached ==
    \A s \in Slots : ic[s].ref > 0 /\ ic[s].valid =>
       /\ ic[s].nlink = dn[Num(s)].nlink
       /\ Freed(s) \/ (ic[s].type = dn[Num(s)].type /\ ic[s].type # "FREE")

\* A free inode has no links, and only the one who freed it still refers to it.
FreeInodes ==
    /\ \A i \in Inums : dn[i].type = "FREE" => dn[i].nlink = 0 /\ dn[i].ents = NoEntries
    /\ \A s \in Slots : ic[s].ref > 0 /\ dn[Num(s)].type = "FREE" =>
          ic[s].ref = 1 /\ Leaving(s)

\* iput() has found the last reference to an inode without links; ialloc() may hand
\* the inode out as soon as it is free on disk.
FreeingOf(p) ==
    LET a == Top(k[p]) IN
    /\ a.op = "free" => /\ ic[a.s].valid /\ ic[a.s].ref = 1
                        /\ dn[Num(a.s)].nlink = 0
    /\ a.op = "freed" => /\ ic[a.s].valid /\ dn[Num(a.s)].nlink = 0
                         /\ \/ ic[a.s].ref = 1 /\ dn[Num(a.s)].type = "FREE"
                            \/ ic[a.s].ref = 2 /\ Filling(a.s)
    /\ a.op = "new" => /\ dn[Num(a.s)].nlink = 0 /\ dn[Num(a.s)].type = a.arg
                       /\ dn[Num(a.s)].ents = NoEntries
                       /\ \/ ic[a.s].ref = 1
                          \/ ic[a.s].ref = 2 /\ Leaving(a.s)

Freeing == \A p \in Procs : FreeingOf(p)

-----------------------------------------------------------------------------
(* What the instructions of a call rely on.                                 *)

\* unlink() goes on with the inode locked and read; link() is not for directories.
Relies(a) ==
    /\ a.op = "unlink3" => ic[a.s].valid
    /\ a.op \in {"link2", "bad"} => dn[Num(a.s)].type # "DIR"

\* The directories that are changed, and unlink() still finds the entry it has looked up.
TopRelies(p) ==
    LET a == Top(k[p]) IN
    /\ a.op \in TOps => /\ ic[a.t].valid /\ dn[Num(a.t)].type = "DIR" /\ a.path[1] \in Names
    /\ a.op \in ToDir /\ res[p] # NULL => dn[Num(res[p])].type = "DIR"
    /\ a.op = "unlink2" => dn[Num(a.t)].ents[a.path[1]] = Num(a.s)

Relying == \A p \in Procs : TopRelies(p) /\ \A n \in Nat : Relies(View(k[p], n))

-----------------------------------------------------------------------------
(* Links: the names of an inode, the subdirectories of a directory, the     *)
(* calls under way that have counted a link, and the root.                  *)

\* What may count in the nlink of an inode.
LinkPlaces == (Inums \X {"name", "sub"} \X Names) \cup (Procs \X {"call"} \X {0})
                 \cup {<<ROOTINO, "root", 0>>}

\* The inode that a call of stack q has counted a link of.
Pending(q, c) ==
    IF View(q, 0).op \in {"link2", "bad", "unlink3"} THEN c[View(q, 0).s].inum ELSE NULL

\* A subdirectory j counts in its parent d, which its ".." names.
Sub(dd, d, j) == IF j # NULL /\ dd[j].type = "DIR" THEN d ELSE NULL

\* The inode that each of these is a link of.
Linked(dd, kk, cc) ==
    [x \in LinkPlaces |->
       IF x[2] = "name" THEN dd[x[1]].ents[x[3]]
       ELSE IF x[2] = "sub" THEN Sub(dd, x[1], dd[x[1]].ents[x[3]])
       ELSE IF x[2] = "call" THEN Pending(kk[x[1]], cc) ELSE ROOTINO]

\* The count of an inode is not less than its links.
LinksCounted(L, dd) ==
    \A i \in Inums : Cardinality(Fib(L, i)) <= dd[i].nlink

Links == LinksCounted(Linked(dn, k, ic), dn)

\* Only directories have entries; once it is filled "." in a directory names it and ".."
\* names some inode.
Dirs ==
    /\ dn[ROOTINO].type = "DIR"
    /\ \A i \in Inums :
       /\ dn[i].type # "DIR" => dn[i].ents = NoEntries
       /\ \/ dn[i].type # "DIR"
          \/ dn[i].ents["."] = i /\ dn[i].ents[".."] # NULL
          \/ \E s \in Slots : ic[s].ref > 0 /\ Num(s) = i /\ Filling(s)

-----------------------------------------------------------------------------
(* Stacks and locks.                                                        *)

\* A step of p replaces its instructions from place m on by some of U.
Turned(p, m, U) ==
    /\ p \in Procs /\ m \in Nat /\ Stay(p)
    /\ \A n \in Nat : n < m => View(k'[p], n) = View(k[p], n)
    /\ \A n \in Nat : n > m => View(k[p], n) = None
    /\ \A n \in Nat : ~ (n < m) => View(k'[p], n) \in U \cup {None}
    /\ View(k[p], m) = Top(k[p])

\* Of the new ones one keeps slot y, or none if y is NULL.
KeepsNew(p, m, y) ==
    /\ \A n \in Nat : ~ (n < m) => Keeps(View(k'[p], n)) \in {NULL, y}
    /\ y # NULL => \E n \in Nat : ~ (n < m) /\ Keeps(View(k'[p], n)) = y
    /\ \A n1, n2 \in Nat :
          /\ ~ (n1 < m) /\ ~ (n2 < m) /\ y # NULL
          /\ Keeps(View(k'[p], n1)) = y /\ Keeps(View(k'[p], n2)) = y
          => n1 = n2

\* The locks of p move from o1 and o2 to y and r.
LockMove(p, o1, o2, y, r) ==
    /\ y # NULL => y # r
    /\ \A z \in Slots :
          /\ z = y \/ z = r => ic'[z].lk = p /\ (z = o1 \/ z = o2 \/ ic[z].lk = NoProc)
          /\ z # y /\ z # r /\ (z = o1 \/ z = o2) => ic'[z].lk = NoProc
          /\ z # y /\ z # r /\ z # o1 /\ z # o2 => ic'[z].lk = ic[z].lk

\* No instruction keeps nothing.
LEMMA KeepsNone == Keeps(None) = NULL /\ None.op = "none" /\ None.op \notin Ops
BY DEF Keeps, None, Ins, Keepers, TOps, Ops, SOps, PutOps, ToDir, ToFile, Ends, OtherCalls

\* What can be seen on a stack.
LEMMA ViewType ==
    ASSUME NEW q \in Seq(Instr), NEW n \in Nat
    PROVE  View(q, n) \in Instr \cup {None} /\ Keeps(View(q, n)) \in 0..NINODE
<1>1. View(q, n) \in Instr \cup {None}
  BY DEF View
<1>2. \A a \in Instr : Keeps(a) \in 0..NINODE
  BY NullSlot DEF Instr, Keeps
<1> QED
  BY <1>1, <1>2, KeepsNone, NullSlot

\* The locks after such a step.
LEMMA LocksTurn ==
    ASSUME FilesTypes, Locks, NEW p \in Procs, NEW m, NEW U, Turned(p, m, U), NEW y, KeepsNew(p, m, y),
           Others(res, res', p),
           LockMove(p, Keeps(Top(k[p])), KeepsRes(k[p], res[p]), y, KeepsRes(k'[p], res'[p]))
    PROVE  Locks'
<1> DEFINE o1 == Keeps(Top(k[p]))
           o2 == KeepsRes(k[p], res[p])
           r  == KeepsRes(k'[p], res'[p])
           K(n)  == Kept(k[p], res[p], n)
           K2(n) == Kept(k'[p], res'[p], n)
<1>0. NoProc \notin Procs
  BY FilesAssumption
<1>1. /\ m \in Nat
      /\ \A n \in Nat : n < m => K2(n) = K(n)
      /\ \A n \in Nat : n > m => K(n) = NULL
      /\ K(m) = o1 /\ K(-1) = o2 /\ K2(-1) = r
      /\ \A n \in Nat : ~ (n < m) => K2(n) \in {NULL, y}
      /\ y # NULL => \E n \in Nat : ~ (n < m) /\ K2(n) = y
      /\ \A n1, n2 \in Nat :
          /\ ~ (n1 < m) /\ ~ (n2 < m) /\ y # NULL /\ K2(n1) = y /\ K2(n2) = y => n1 = n2
  BY KeepsNone DEF Turned, KeepsNew, Kept
<1>2. /\ \A s \in Slots : ic[s].lk = p <=> \E n \in Where : K(n) = s
      /\ \A n, n1 \in Where : K(n) = K(n1) /\ K(n) # NULL => n = n1
  BY DEF Locks, LocksOf
<1>3. LockMove(p, o1, o2, y, r)
  OBVIOUS
<1> HIDE DEF K, K2, o1, o2, r
<1>4. NULL \notin Slots
  BY NullSlot
<1>5. \A n \in Where : n = -1 \/ (n \in Nat /\ n < m) \/ (n \in Nat /\ n = m) \/ (n \in Nat /\ n > m)
  BY <1>1 DEF Where
<1>6. \A n \in Nat : n \in Where /\ n # -1
  BY DEF Where
<1>6a. -1 \in Where
  BY DEF Where
\* Slots that are kept below are not in the places that change.
<1>7. ASSUME NEW n \in Nat, n < m, K(n) # NULL
      PROVE  K(n) # o1 /\ K(n) # o2
  BY <1>1, <1>2, <1>6, <1>6a, <1>7
<1>8. ASSUME NEW z \in Slots
      PROVE  /\ ic'[z].lk = p <=> \E n \in Where : K2(n) = z
             /\ \A q \in Procs : q # p => (ic'[z].lk = q <=> ic[z].lk = q)
  <2>1. z = o1 \/ z = o2 => ic[z].lk = p
    BY <1>1, <1>2, <1>6, <1>6a
  <2>2. \A q \in Procs : q # p => (ic'[z].lk = q <=> ic[z].lk = q)
    BY <2>1, <1>3, <1>0 DEF LockMove
  <2>3. ASSUME z = y \/ z = r
        PROVE  ic'[z].lk = p /\ \E n \in Where : K2(n) = z
    BY <2>3, <1>1, <1>3, <1>4, <1>6, <1>6a DEF LockMove
  <2>4. ASSUME z # y, z # r, z = o1 \/ z = o2
        PROVE  ic'[z].lk # p /\ \A n \in Where : K2(n) # z
    <3>1. ic'[z].lk = NoProc
      BY <2>4, <1>3 DEF LockMove
    <3>2. \A n \in Where : K2(n) # z
      BY <2>4, <1>1, <1>4, <1>5, <1>7
    <3> QED
      BY <3>1, <3>2, <1>0
  <2>5. ASSUME z # y, z # r, z # o1, z # o2
        PROVE  ic'[z].lk = p <=> \E n \in Where : K2(n) = z
    <3>1. ic'[z].lk = ic[z].lk
      BY <2>5, <1>3 DEF LockMove
    <3>2. \A n \in Where : K2(n) = z => n \in Nat /\ n < m
      BY <2>5, <1>1, <1>4, <1>5
    <3>3. \A n \in Where : K(n) = z => n \in Nat /\ n < m
      BY <2>5, <1>1, <1>4, <1>5
    <3> QED
      BY <3>1, <3>2, <3>3, <1>1, <1>2
  <2> QED
    BY <2>2, <2>3, <2>4, <2>5
<1>9. ASSUME NEW n1 \in Where, NEW n2 \in Where, K2(n1) = K2(n2), K2(n1) # NULL
      PROVE  n1 = n2
  <2>1. ASSUME NEW n \in Nat, n < m, K2(n) # NULL, K2(n) \in Slots
        PROVE  K2(n) # y /\ K2(n) # r
    <3>1. K(n) = K2(n) /\ ic[K(n)].lk = p
      BY <2>1, <1>1, <1>2, <1>6
    <3> QED
      BY <2>1, <3>1, <1>3, <1>7, <1>0 DEF LockMove
  <2>2. \A n \in Where : K2(n) # NULL /\ ~ (n \in Nat /\ n < m) =>
                            (n = -1 /\ K2(n) = r) \/ (n \in Nat /\ ~ (n < m) /\ K2(n) = y)
    BY <1>1, <1>5
  <2>3. ASSUME NEW n \in Nat, n < m, K2(n) # NULL
        PROVE  K2(n) \in Slots
    <3>1. K(n) = K2(n)
      BY <2>3, <1>1
    <3>2. K(n) = Keeps(View(k[p], n)) /\ k[p] \in Seq(Instr)
      BY <1>6 DEF K, Kept, FilesTypes
    <3>3. K(n) \in 0..NINODE
      BY <3>2, ViewType
    <3> QED
      BY <2>3, <3>1, <3>3, FilesAssumption DEF Slots, NULL
  <2>4. CASE n1 \in Nat /\ n1 < m /\ n2 \in Nat /\ n2 < m
    BY <2>4, <1>1, <1>2, <1>6, <1>9
  <2>5. CASE ~ (n1 \in Nat /\ n1 < m) /\ ~ (n2 \in Nat /\ n2 < m)
    BY <2>5, <2>2, <1>1, <1>3, <1>9 DEF LockMove
  <2>6. CASE n1 \in Nat /\ n1 < m /\ ~ (n2 \in Nat /\ n2 < m)
    BY <2>6, <2>1, <2>2, <2>3, <1>9
  <2>7. CASE n2 \in Nat /\ n2 < m /\ ~ (n1 \in Nat /\ n1 < m)
    BY <2>7, <2>1, <2>2, <2>3, <1>9
  <2> QED
    BY <2>4, <2>5, <2>6, <2>7
<1>10. ASSUME NEW q \in Procs, q # p
       PROVE  k'[q] = k[q] /\ res'[q] = res[q]
  BY <1>10 DEF Turned, Stay, Others
<1>11. LocksOf(p)'
  BY <1>8, <1>9 DEF LocksOf, K2
<1>12. ASSUME NEW q \in Procs, q # p
       PROVE  LocksOf(q)'
  BY <1>8, <1>10, <1>12 DEF LocksOf, Locks
<1> QED
  BY <1>11, <1>12 DEF Locks

\* The places of the stack before its first instruction is replaced.
LEMMA TurnPlaces ==
    ASSUME Base, NEW p \in Procs, k[p] # <<>>
    PROVE  /\ Len(k[p]) - 1 \in Nat /\ Top(k[p]) = k[p][1]
           /\ \A n \in Nat : n > Len(k[p]) - 1 => View(k[p], n) = None
           /\ View(k[p], Len(k[p]) - 1) = Top(k[p])
           /\ (Len(k[p]) > 1) <=> (Len(k[p]) - 1 # 0)
<1>1. Len(k[p]) \in Nat \ {0} /\ View(k[p], Len(k[p]) - 1) = k[p][1]
  BY HeadFacts DEF Base
<1>2. Top(k[p]) = k[p][1]
  BY DEF Top
<1>3. \A n \in Nat : n > Len(k[p]) - 1 => View(k[p], n) = None
  BY <1>1 DEF View
<1>6. \A n \in Nat \ {0} : (n > 1) <=> (n - 1 # 0)
  OBVIOUS
<1>4. (Len(k[p]) > 1) <=> (Len(k[p]) - 1 # 0)
  BY ONLY <1>1, <1>6, Zenon
<1>5. Len(k[p]) - 1 \in Nat
  BY ONLY <1>1
<1> QED
  BY <1>1, <1>2, <1>3, <1>4, <1>5

\* The instruction is done, ...
LEMMA Turn0 ==
    ASSUME Base, NEW p \in Procs, k[p] # <<>>, Then(p, <<>>)
    PROVE  LET m == Len(k[p]) - 1 IN
           /\ Turned(p, m, {}) /\ KeepsNew(p, m, NULL)
           /\ Len(k[p]) > 1 => /\ View(k'[p], 0) = View(k[p], 0)
                               /\ Top(k'[p]) = k[p][2] /\ k[p][2].op \in Deep
           /\ ~ (Len(k[p]) > 1) => Top(k'[p]) = None /\ View(k'[p], 0) = None
<1> DEFINE m == Len(k[p]) - 1
<1>1. /\ Stay(p) /\ (Len(k[p]) > 1 => k'[p] # <<>> /\ k'[p][1] = k[p][2])
      /\ (~ (Len(k[p]) > 1) => k'[p] = <<>>)
      /\ \A n \in Nat : View(k'[p], n) = IF n = m THEN None ELSE View(k[p], n)
  BY Then0 DEF Base
<1>2. /\ m \in Nat /\ (\A n \in Nat : n > m => View(k[p], n) = None)
      /\ View(k[p], m) = Top(k[p]) /\ ((Len(k[p]) > 1) <=> (m # 0))
  BY TurnPlaces
<1>3. Len(k[p]) > 1 => k[p][2].op \in Deep
  BY HeadFacts DEF Base, Above
<1> HIDE DEF m
<1>4. \A n \in Nat : ~ (n < m) => View(k'[p], n) = None
  BY <1>1, <1>2
<1>5. Turned(p, m, {}) /\ KeepsNew(p, m, NULL)
  BY <1>1, <1>2, <1>4, KeepsNone DEF Turned, KeepsNew
<1> QED
  BY <1>1, <1>2, <1>3, <1>5 DEF Top, m

\* ... replaced by a, ...
LEMMA Turn1 ==
    ASSUME Base, NEW p \in Procs, k[p] # <<>>, NEW a, Fit1(a, k[p]), Then(p, <<a>>)
    PROVE  LET m == Len(k[p]) - 1 IN
           /\ Turned(p, m, {a}) /\ KeepsNew(p, m, Keeps(a)) /\ Top(k'[p]) = a
           /\ Len(k[p]) > 1 => View(k'[p], 0) = View(k[p], 0)
           /\ ~ (Len(k[p]) > 1) => View(k'[p], 0) = a
<1> DEFINE m == Len(k[p]) - 1
<1>1. /\ Stay(p) /\ k'[p] # <<>> /\ k'[p][1] = a
      /\ \A n \in Nat : View(k'[p], n) = IF n = m THEN a ELSE View(k[p], n)
  BY Then1 DEF Base
<1>2. /\ m \in Nat /\ (\A n \in Nat : n > m => View(k[p], n) = None)
      /\ View(k[p], m) = Top(k[p]) /\ ((Len(k[p]) > 1) <=> (m # 0))
  BY TurnPlaces
<1> HIDE DEF m
<1>4. \A n \in Nat : ~ (n < m) => View(k'[p], n) = IF n = m THEN a ELSE None
  BY <1>1, <1>2
<1>5. Turned(p, m, {a})
  BY <1>1, <1>2, <1>4 DEF Turned
<1>6. KeepsNew(p, m, Keeps(a))
  BY <1>2, <1>4, KeepsNone DEF KeepsNew
<1> QED
  BY <1>1, <1>2, <1>5, <1>6 DEF Top, m

\* ... by a and b ...
LEMMA Turn2 ==
    ASSUME Base, NEW p \in Procs, k[p] # <<>>, NEW a, NEW b, Fit2(a, b, k[p]),
           Then(p, <<a, b>>), Keeps(a) = NULL
    PROVE  LET m == Len(k[p]) - 1 IN
           /\ Turned(p, m, {a, b}) /\ KeepsNew(p, m, Keeps(b)) /\ Top(k'[p]) = a
           /\ Len(k[p]) > 1 => View(k'[p], 0) = View(k[p], 0)
           /\ ~ (Len(k[p]) > 1) => View(k'[p], 0) = b
<1> DEFINE m == Len(k[p]) - 1
<1>1. /\ Stay(p) /\ k'[p] # <<>> /\ k'[p][1] = a
      /\ \A n \in Nat : View(k'[p], n) = IF n = Len(k[p]) THEN a
                                         ELSE IF n = m THEN b ELSE View(k[p], n)
  BY Then2 DEF Base
<1>2. /\ m \in Nat /\ (\A n \in Nat : n > m => View(k[p], n) = None)
      /\ View(k[p], m) = Top(k[p]) /\ ((Len(k[p]) > 1) <=> (m # 0)) /\ Len(k[p]) = m + 1
  BY TurnPlaces
<1> HIDE DEF m
<1>4. \A n \in Nat : ~ (n < m) => View(k'[p], n) = IF n = m + 1 THEN a ELSE IF n = m THEN b
                                                   ELSE None
  BY <1>1, <1>2
<1>5. Turned(p, m, {a, b})
  BY <1>1, <1>2, <1>4 DEF Turned
<1>6. KeepsNew(p, m, Keeps(b))
  BY <1>2, <1>4, KeepsNone DEF KeepsNew
<1> QED
  BY <1>1, <1>2, <1>5, <1>6 DEF Top, m

\* ... or by a, b and c.
LEMMA Turn3 ==
    ASSUME Base, NEW p \in Procs, k[p] # <<>>, NEW a, NEW b, NEW c, Fit3(a, b, c, k[p]),
           Then(p, <<a, b, c>>), Keeps(a) = NULL, Keeps(c) = NULL
    PROVE  LET m == Len(k[p]) - 1 IN
           /\ Turned(p, m, {a, b, c}) /\ KeepsNew(p, m, Keeps(b)) /\ Top(k'[p]) = a
           /\ Len(k[p]) > 1 => View(k'[p], 0) = View(k[p], 0)
           /\ ~ (Len(k[p]) > 1) => View(k'[p], 0) = c
<1> DEFINE m == Len(k[p]) - 1
<1>1. /\ Stay(p) /\ k'[p] # <<>> /\ k'[p][1] = a
      /\ \A n \in Nat : View(k'[p], n) = IF n = Len(k[p]) + 1 THEN a
                                         ELSE IF n = Len(k[p]) THEN b
                                         ELSE IF n = m THEN c ELSE View(k[p], n)
  BY Then3 DEF Base
<1>2. /\ m \in Nat /\ (\A n \in Nat : n > m => View(k[p], n) = None)
      /\ View(k[p], m) = Top(k[p]) /\ ((Len(k[p]) > 1) <=> (m # 0)) /\ Len(k[p]) = m + 1
  BY TurnPlaces
<1> HIDE DEF m
<1>4. \A n \in Nat : ~ (n < m) => View(k'[p], n) = IF n = m + 2 THEN a ELSE IF n = m + 1 THEN b
                                                   ELSE IF n = m THEN c ELSE None
  BY <1>1, <1>2
<1>5. Turned(p, m, {a, b, c})
  BY <1>1, <1>2, <1>4 DEF Turned
<1>6. KeepsNew(p, m, Keeps(b))
  BY <1>2, <1>4, KeepsNone DEF KeepsNew
<1> QED
  BY <1>1, <1>2, <1>5, <1>6 DEF Top, m

-----------------------------------------------------------------------------
(* Slots that nobody else refers to.                                        *)

\* Two and three places that refer to one slot.
LEMMA Shared ==
    ASSUME Base, NEW s \in Slots, NEW x \in Places, NEW y \in Places, x # y,
           At(k, res, cwd, ft)[x] = s, At(k, res, cwd, ft)[y] = s
    PROVE  /\ ic[s].ref \in Nat /\ ic[s].ref # 0 /\ ic[s].ref # 1
           /\ \A z \in Places : z # x /\ z # y /\ At(k, res, cwd, ft)[z] = s => ic[s].ref # 2
<1> DEFINE A == At(k, res, cwd, ft)
           F == Fib(A, s)
<1>1. IsFiniteSet(F) /\ Cardinality(F) = ic[s].ref /\ ic[s].ref \in Nat
  BY DEF Base, Refs, Finite, Count, FilesTypes, Inode
<1>2. x \in F /\ y \in F
  BY DEF Fib, At
<1>3. \A z \in Places : A[z] = s => z \in F
  BY DEF Fib, At
<1> HIDE DEF A, F
<1>4. Cardinality(F) # 0
  BY <1>1, <1>2, FS_EmptySet
<1>5. IsFiniteSet(F \ {x}) /\ Cardinality(F \ {x}) = Cardinality(F) - 1
  BY <1>1, <1>2, FS_RemoveElement
<1>6. IsFiniteSet((F \ {x}) \ {y}) /\ Cardinality((F \ {x}) \ {y}) = Cardinality(F) - 2
  BY <1>1, <1>2, <1>5, FS_RemoveElement, FS_CardinalityType
<1>7. Cardinality((F \ {x}) \ {y}) \in Nat
  BY <1>6, FS_CardinalityType
<1>8. ASSUME NEW z \in Places, z # x, z # y, A[z] = s
      PROVE  ic[s].ref # 2
  <2>1. z \in (F \ {x}) \ {y}
    BY <1>3, <1>8
  <2>2. Cardinality((F \ {x}) \ {y}) # 0
    BY <2>1, <1>6, FS_EmptySet
  <2> QED
    BY <2>2, <1>6, <1>1
<1> QED
  BY <1>1, <1>6, <1>7, <1>8 DEF A

\* The place of the first instruction's inode.
TopPlace(q) == <<q, "s", Len(k[q]) - 1>>

\* It refers to the inode.
LEMMA TopHolds ==
    ASSUME Base, NEW q \in Procs, Top(k[q]).op \in SOps
    PROVE  /\ TopPlace(q) \in Places /\ At(k, res, cwd, ft)[TopPlace(q)] = Top(k[q]).s
           /\ Live(Top(k[q]).s) /\ k[q] # <<>> /\ Top(k[q]) = k[q][1] /\ Top(k[q]) \in Instr
<1>1. k[q] # <<>> /\ Top(k[q]) = k[q][1]
  BY KeepsNone DEF Top, Ops
<1>2. Len(k[q]) - 1 \in Nat /\ View(k[q], Len(k[q]) - 1) = k[q][1] /\ k[q][1] \in Instr
  BY <1>1, HeadFacts DEF Base
<1>3. TopPlace(q) \in Places
  BY <1>2 DEF Places, TopPlace
<1>4. At(k, res, cwd, ft)[TopPlace(q)] = Top(k[q]).s
  BY <1>1, <1>2, <1>3 DEF At, TopPlace
<1>5. Live(Top(k[q]).s)
  BY <1>1, Held DEF Base
<1> QED
  BY <1>1, <1>2, <1>3, <1>4, <1>5

\* A place that is not the one of an instruction that frees or fills its inode.
Steady(x) ==
    /\ x \in Places
    /\ \A q \in Procs : Top(k[q]).op \in {"free", "freed", "dec", "new"} => x # TopPlace(q)

\* An inode that such a place refers to is neither being freed nor new.
LEMMA NotOdd ==
    ASSUME Base, FreeInodes, Freeing, NEW x, Steady(x), NEW s \in Slots,
           At(k, res, cwd, ft)[x] = s
    PROVE  ~ Odd(s) /\ Live(s)
<1>1. Live(s)
  BY HeldAt DEF Base, Steady
<1>2. \A q \in Procs : Top(k[q]).op \in {"free", "freed", "dec", "new"} =>
         Top(k[q]).op \in SOps
  BY DEF SOps, PutOps
<1>3. ASSUME NEW q \in Procs, Top(k[q]).op \in {"free", "freed", "dec", "new"}, Top(k[q]).s = s
      PROVE  /\ ic[s].ref # 1
             /\ \A r \in Procs : r # q /\ Top(k[r]).op \in {"free", "freed", "dec", "new"}
                                   /\ Top(k[r]).s = s => ic[s].ref # 2
  <2>1. TopPlace(q) \in Places /\ At(k, res, cwd, ft)[TopPlace(q)] = s
    BY <1>2, <1>3, TopHolds
  <2>2. x # TopPlace(q) /\ x \in Places
    BY <1>3 DEF Steady
  <2>3. /\ ic[s].ref # 1
        /\ \A z \in Places : z # x /\ z # TopPlace(q) /\ At(k, res, cwd, ft)[z] = s =>
              ic[s].ref # 2
    BY <2>1, <2>2, Shared
  <2>4. ASSUME NEW r \in Procs, r # q, Top(k[r]).op \in {"free", "freed", "dec", "new"},
               Top(k[r]).s = s
        PROVE  ic[s].ref # 2
    <3>1. TopPlace(r) \in Places /\ At(k, res, cwd, ft)[TopPlace(r)] = s
      BY <1>2, <2>4, TopHolds
    <3>2. TopPlace(r) # TopPlace(q)
      BY <2>4 DEF TopPlace
    <3>3. x # TopPlace(r)
      BY <2>4 DEF Steady
    <3> QED
      BY <2>3, <3>1, <3>2, <3>3
  <2> QED
    BY <2>3, <2>4
<1>4. ~ Freer(s)
  BY <1>3 DEF Freer, Freeing, FreeingOf
<1>5. ~ (dn[Num(s)].type = "FREE")
  BY <1>1, <1>3 DEF FreeInodes, Leaving, Live
<1>6. ~ Filling(s)
  <2>1. SUFFICES ASSUME NEW q \in Procs, Top(k[q]).op = "new", Top(k[q]).s = s
                 PROVE  FALSE
    BY DEF Filling
  <2>2. ic[s].ref = 2 /\ Leaving(s)
    BY <2>1, <1>3 DEF Freeing, FreeingOf
  <2>3. PICK r \in Procs : Top(k[r]).op \in {"freed", "dec"} /\ Top(k[r]).s = s
    BY <2>2 DEF Leaving
  <2> QED
    BY <2>1, <2>2, <2>3, <1>3
<1>7. ~ Freed(s)
  BY <1>3, <1>5, <1>6 DEF Freed, Freeing, FreeingOf
<1> QED
  BY <1>1, <1>4, <1>5, <1>6, <1>7 DEF Odd

\* The instructions that free or fill their inode.
LifeOps == {"free", "freed", "dec", "new"}

\* The places of an instruction that is not one of these, of a result, of a current
\* directory and of a file are steady.
LEMMA SteadyPlaces ==
    ASSUME Base
    PROVE  /\ \A q \in Procs, n \in Nat : View(k[q], n).op \in SOps \ LifeOps => Steady(<<q, "s", n>>)
           /\ \A q \in Procs, n \in Nat : Steady(<<q, "t", n>>)
           /\ \A q \in Procs : Steady(<<q, "res", 0>>) /\ Steady(<<q, "cwd", 0>>)
           /\ \A f \in 1..NFILE : Steady(<<f, "file", 0>>)
<1>1. ASSUME NEW q \in Procs, NEW n \in Nat, View(k[q], n).op \in SOps \ LifeOps,
             NEW r \in Procs, Top(k[r]).op \in LifeOps
      PROVE  <<q, "s", n>> # TopPlace(r)
  <2>1. Top(k[r]).op \in SOps
    BY <1>1 DEF SOps, PutOps, LifeOps
  <2>2. k[r] # <<>> /\ Top(k[r]) = k[r][1]
    BY <2>1, TopHolds
  <2>3. View(k[r], Len(k[r]) - 1) = k[r][1]
    BY <2>2, HeadFacts DEF Base
  <2>4. SUFFICES ASSUME <<q, "s", n>> = TopPlace(r)
                 PROVE  FALSE
    OBVIOUS
  <2>5. q = r /\ n = Len(k[r]) - 1
    BY <2>4 DEF TopPlace
  <2> QED
    BY <2>5, <2>3, <2>2, <1>1
<1>2. \A q \in Procs, n \in Nat : <<q, "s", n>> \in Places /\ <<q, "t", n>> \in Places
  BY DEF Places
<1>3. \A q \in Procs : <<q, "res", 0>> \in Places /\ <<q, "cwd", 0>> \in Places
  BY DEF Places
<1>4. \A f \in 1..NFILE : <<f, "file", 0>> \in Places
  BY DEF Places
<1>5. \A q, r, n : <<q, "t", n>> # TopPlace(r) /\ <<q, "res", n>> # TopPlace(r)
                   /\ <<q, "cwd", n>> # TopPlace(r) /\ <<q, "file", n>> # TopPlace(r)
  BY DEF TopPlace
<1> QED
  BY <1>1, <1>2, <1>3, <1>4, <1>5 DEF Steady, LifeOps

\* The life of the inodes, as far as the other facts rest on it.
Life == Cached /\ FreeInodes /\ Freeing

\* A slot in use whose inode is neither being freed nor new.
Fine(s) == Live(s) /\ ~ Odd(s)

\* What is in the cache of it.
LEMMA FineFacts ==
    ASSUME Base, Life, NEW s, Fine(s)
    PROVE  /\ s \in Slots /\ ic[s].ref > 0 /\ Num(s) \in Inums /\ dn[Num(s)].type # "FREE"
           /\ dn[Num(s)].type \in Kinds
           /\ Loaded(s).type = dn[Num(s)].type /\ Loaded(s).nlink = dn[Num(s)].nlink
           /\ ~ NoType(s)
<1>1. /\ s \in Slots /\ ic[s].ref \in Nat \ {0} /\ Num(s) \in Inums /\ ~ Freed(s)
      /\ dn[Num(s)].type # "FREE" /\ ic[s].inum = Num(s)
  BY DEF Fine, Live, Odd, Num
<1>2. /\ Loaded(s).type = IF ic[s].valid THEN ic[s].type ELSE dn[ic[s].inum].type
      /\ Loaded(s).nlink = IF ic[s].valid THEN ic[s].nlink ELSE dn[ic[s].inum].nlink
  BY LoadFacts DEF Base, Fine
<1>3. ic[s].ref > 0
  BY <1>1
<1>4. ic[s].valid => ic[s].nlink = dn[Num(s)].nlink /\ ic[s].type = dn[Num(s)].type
  BY <1>1, <1>3 DEF Life, Cached
<1>5. dn[Num(s)].type \in Types
  BY <1>1, BaseTypes DEF Dinode
<1>6. ~ (ic[s].ref < 1)
  BY <1>1
<1> QED
  BY <1>1, <1>2, <1>3, <1>4, <1>5, <1>6 DEF NoType, Types

\* What the first instruction of a process, its result and its directory refer to.
LEMMA FineHeld ==
    ASSUME Base, Life, NEW p \in Procs
    PROVE  /\ k[p] # <<>> /\ k[p][1].op \in SOps \ LifeOps => Fine(k[p][1].s)
           /\ k[p] # <<>> /\ k[p][1].op \in TOps => Fine(k[p][1].t)
           /\ res[p] # NULL => Fine(res[p])
           /\ cwd[p] # NULL => Fine(cwd[p])
<1> DEFINE A == At(k, res, cwd, ft)
<1>0. \A x, s : Steady(x) /\ s \in Slots /\ A[x] = s => Fine(s)
  BY NotOdd DEF Life, Fine
<1>1. ASSUME k[p] # <<>>, k[p][1].op \in SOps \ LifeOps
      PROVE  Fine(k[p][1].s)
  <2>1. Len(k[p]) - 1 \in Nat /\ View(k[p], Len(k[p]) - 1) = k[p][1]
    BY <1>1, HeadFacts DEF Base
  <2>2. Steady(<<p, "s", Len(k[p]) - 1>>)
    BY <1>1, <2>1, SteadyPlaces
  <2>3. A[<<p, "s", Len(k[p]) - 1>>] = k[p][1].s
    BY <2>1, <2>2 DEF At, Steady
  <2>4. k[p][1].s \in Slots
    BY <1>1, Held DEF Base, Live
  <2> QED
    BY <1>0, <2>2, <2>3, <2>4
<1>2. ASSUME k[p] # <<>>, k[p][1].op \in TOps
      PROVE  Fine(k[p][1].t)
  <2>1. Len(k[p]) - 1 \in Nat /\ View(k[p], Len(k[p]) - 1) = k[p][1]
    BY <1>2, HeadFacts DEF Base
  <2>2. Steady(<<p, "t", Len(k[p]) - 1>>)
    BY <2>1, SteadyPlaces
  <2>3. A[<<p, "t", Len(k[p]) - 1>>] = k[p][1].t
    BY <2>1, <2>2 DEF At, Steady
  <2>4. k[p][1].t \in Slots
    BY <1>2, Held DEF Base, Live
  <2> QED
    BY <1>0, <2>2, <2>3, <2>4
<1>3. Steady(<<p, "res", 0>>) /\ Steady(<<p, "cwd", 0>>)
  BY SteadyPlaces
<1>4. A[<<p, "res", 0>>] = res[p] /\ A[<<p, "cwd", 0>>] = cwd[p]
  BY <1>3 DEF At, Steady
<1>5. (res[p] # NULL => res[p] \in Slots) /\ (cwd[p] # NULL => cwd[p] \in Slots)
  BY Held DEF Base, Live
<1> QED
  BY <1>0, <1>1, <1>2, <1>3, <1>4, <1>5

\* An instruction below that is not one of those either.
LEMMA FineBelow ==
    ASSUME Base, Life, NEW q \in Procs, NEW n \in Nat, View(k[q], n).op \in SOps \ LifeOps
    PROVE  Fine(View(k[q], n).s)
<1>1. Steady(<<q, "s", n>>)
  BY SteadyPlaces
<1>2. At(k, res, cwd, ft)[<<q, "s", n>>] = View(k[q], n).s
  BY <1>1 DEF At, Steady
<1>3. n < Len(k[q]) /\ k[q] \in Seq(Instr) /\ Shape(k[q]) /\ View(k[q], n) = k[q][Len(k[q]) - n]
  BY KeepsNone DEF View, Ops, Base, FilesTypes, Calling
<1>4. Len(k[q]) - n \in 1..Len(k[q])
  BY <1>3
<1>5. Well(k[q][Len(k[q]) - n]) /\ k[q][Len(k[q]) - n] \in Instr
  BY <1>3, <1>4 DEF Shape
<1>6. View(k[q], n).s \in Slots
  <2>1. PICK a : a = k[q][Len(k[q]) - n]
    OBVIOUS
  <2>2. a \in Instr /\ Well(a) /\ a.op = View(k[q], n).op /\ a.s = View(k[q], n).s
    BY <1>3, <1>5, <2>1
  <2>3. a.s \in 0..NINODE
    BY <2>2 DEF Instr
  <2>4. a.s # NULL
    BY <1>3, <2>2 DEF Well
  <2> QED
    BY <2>2, <2>3, <2>4, FilesAssumption DEF Slots, NULL
<1> QED
  BY <1>1, <1>2, <1>6, NotOdd DEF Life, Fine

-----------------------------------------------------------------------------
(* Inodes that iget() may be called for.                                    *)

Safe(i) ==
    /\ i \in Inums /\ dn[i].type # "FREE"
    /\ \A z \in Slots : ic[z].ref > 0 /\ Num(z) = i => ~ Odd(z)

\* The places of links are finitely many.
LEMMA LinkPlacesFinite ==
    /\ IsFiniteSet(LinkPlaces)
    /\ \A G, i : DOMAIN G = LinkPlaces => IsFiniteSet(Fib(G, i)) /\ Cardinality(Fib(G, i)) \in Nat
<1>1. IsFiniteSet({"name", "sub"}) /\ IsFiniteSet({"call"}) /\ IsFiniteSet({0})
      /\ IsFiniteSet({<<ROOTINO, "root", 0>>})
  <2>1. \A x, y : IsFiniteSet({x}) /\ IsFiniteSet({x} \cup {y})
    BY FS_Singleton, FS_Union
  <2>2. {"name", "sub"} = {"name"} \cup {"sub"}
    OBVIOUS
  <2> QED
    BY <2>1, <2>2
<1>2. IsFiniteSet(Inums) /\ IsFiniteSet(Procs) /\ IsFiniteSet(Names)
  BY FilesAssumption
<1> DEFINE P1 == Inums \X {"name", "sub"} \X Names
           P2 == Procs \X {"call"} \X {0}
<1>3. IsFiniteSet(P1)
  <2> DEFINE f == [x \in (Inums \X {"name", "sub"}) \X Names |-> <<x[1][1], x[1][2], x[2]>>]
  <2>1. IsFiniteSet((Inums \X {"name", "sub"}) \X Names)
    BY <1>1, <1>2, FS_Product
  <2>2. f \in Surjection((Inums \X {"name", "sub"}) \X Names, P1)
    <3>1. f \in [(Inums \X {"name", "sub"}) \X Names -> P1]
      OBVIOUS
    <3>2. ASSUME NEW y \in P1
          PROVE  \E x \in (Inums \X {"name", "sub"}) \X Names : f[x] = y
      <4>1. PICK a \in Inums, b \in {"name", "sub"}, c \in Names : y = <<a, b, c>>
        OBVIOUS
      <4>2. <<<<a, b>>, c>> \in (Inums \X {"name", "sub"}) \X Names /\ f[<<<<a, b>>, c>>] = y
        BY <4>1
      <4> QED
        BY <4>2
    <3> QED
      BY <3>1, <3>2 DEF Surjection
  <2> QED
    BY <2>1, <2>2, FS_Surjection
<1>4. IsFiniteSet(P2)
  <2> DEFINE f == [x \in Procs |-> <<x, "call", 0>>]
  <2>1. f \in Surjection(Procs, P2)
    <3>1. f \in [Procs -> P2]
      OBVIOUS
    <3>2. \A y \in P2 : \E x \in Procs : f[x] = y
      OBVIOUS
    <3> QED
      BY <3>1, <3>2 DEF Surjection
  <2> QED
    BY <2>1, <1>2, FS_Surjection
<1>5. IsFiniteSet(LinkPlaces)
  BY <1>1, <1>3, <1>4, FS_Union DEF LinkPlaces
<1>6. ASSUME NEW G, NEW i, DOMAIN G = LinkPlaces
      PROVE  IsFiniteSet(Fib(G, i)) /\ Cardinality(Fib(G, i)) \in Nat
  <2>1. Fib(G, i) \subseteq LinkPlaces
    BY <1>6 DEF Fib
  <2> QED
    BY <1>5, <2>1, FS_Subset, FS_CardinalityType
<1> QED
  BY <1>5, <1>6

\* An inode with a link.
LEMMA LinkedOnce ==
    ASSUME Base, Links, NEW x \in LinkPlaces, NEW i \in Inums, Linked(dn, k, ic)[x] = i
    PROVE  dn[i].nlink >= 1 /\ dn[i].nlink \in Int
<1> DEFINE L == Linked(dn, k, ic)
<1>1. DOMAIN L = LinkPlaces
  BY DEF Linked
<1>2. x \in Fib(L, i)
  BY <1>1 DEF Fib
<1> HIDE DEF L
<1>3. IsFiniteSet(Fib(L, i)) /\ Cardinality(Fib(L, i)) \in Nat
  BY <1>1, LinkPlacesFinite
<1>4. Cardinality(Fib(L, i)) # 0
  BY <1>2, <1>3, FS_EmptySet
<1>5. Cardinality(Fib(L, i)) <= dn[i].nlink
  BY DEF Links, LinksCounted, L
<1>6. dn[i].nlink \in Int
  BY BaseTypes DEF Dinode
<1> QED
  BY <1>3, <1>4, <1>5, <1>6

\* No link count is negative.
LEMMA LinksNat ==
    ASSUME Base, Links, NEW i \in Inums
    PROVE  dn[i].nlink \in Nat
<1> DEFINE L == Linked(dn, k, ic)
<1>1. DOMAIN L = LinkPlaces
  BY DEF Linked
<1> HIDE DEF L
<1>2. Cardinality(Fib(L, i)) \in Nat
  BY <1>1, LinkPlacesFinite
<1>3. Cardinality(Fib(L, i)) <= dn[i].nlink
  BY DEF Links, LinksCounted, L
<1>4. dn[i].nlink \in Int
  BY BaseTypes DEF Dinode
<1> QED
  BY <1>2, <1>3, <1>4

\* The root, and an inode that has a name in a directory.
LEMMA NamedOnce ==
    ASSUME Base, Links
    PROVE  /\ dn[ROOTINO].nlink >= 1
           /\ \A d \in Inums, n \in Names :
                 dn[d].ents[n] # NULL => dn[d].ents[n] \in Inums /\ dn[dn[d].ents[n]].nlink >= 1
<1>1. dn[ROOTINO].nlink >= 1
  <2>1. <<ROOTINO, "root", 0>> \in LinkPlaces
    BY DEF LinkPlaces
  <2>2. Linked(dn, k, ic)[<<ROOTINO, "root", 0>>] = ROOTINO
    BY <2>1 DEF Linked
  <2> QED
    BY <2>1, <2>2, LinkedOnce, FilesAssumption
<1>2. ASSUME NEW d \in Inums, NEW n \in Names, dn[d].ents[n] # NULL
      PROVE  dn[d].ents[n] \in Inums /\ dn[dn[d].ents[n]].nlink >= 1
  <2>1. <<d, "name", n>> \in LinkPlaces
    BY DEF LinkPlaces
  <2>2. Linked(dn, k, ic)[<<d, "name", n>>] = dn[d].ents[n]
    BY <2>1 DEF Linked
  <2>3. n \in Entries
    BY DEF Entries
  <2>4. dn[d].ents[n] \in Inums
    BY <1>2, <2>3, BaseTypes DEF Dinode
  <2> QED
    BY <2>1, <2>2, <2>4, LinkedOnce
<1> QED
  BY <1>1, <1>2

\* An inode with a link is neither free nor being freed nor new.
LEMMA SafeLinked ==
    ASSUME Base, Life, NEW i \in Inums, dn[i].nlink >= 1
    PROVE  Safe(i)
<1>1. dn[i].nlink # 0
  OBVIOUS
<1>2. dn[i].type # "FREE"
  BY <1>1 DEF Life, FreeInodes
<1>3. ASSUME NEW z \in Slots, Num(z) = i
      PROVE  ~ Odd(z)
  BY <1>1, <1>2, <1>3 DEF Life, Freeing, FreeingOf, Odd, Freer, Freed, Filling
<1> QED
  BY <1>2, <1>3 DEF Safe

\* So is the inode of a slot that is fine.
LEMMA SafeFine ==
    ASSUME Base, Life, NEW s, Fine(s)
    PROVE  Safe(Num(s))
<1>1. s \in Slots /\ ic[s].ref > 0 /\ Num(s) \in Inums /\ dn[Num(s)].type # "FREE"
  BY FineFacts
<1>2. \A z \in Slots : ic[z].ref > 0 /\ Num(z) = Num(s) => z = s
  BY <1>1 DEF Base, Unique, Num
<1> QED
  BY <1>1, <1>2 DEF Safe, Fine

\* The root is.
LEMMA SafeRoot ==
    ASSUME Base, Life, Links
    PROVE  Safe(ROOTINO)
BY NamedOnce, SafeLinked, FilesAssumption

\* So is the parent of a directory, if the directory has its name or the parent a link.
LEMMA SafeParent ==
    ASSUME Base, Life, Links, NEW i \in Inums, dn[i].type = "DIR", dn[i].ents[".."] # NULL,
           ~ ParentGone(i)
    PROVE  Safe(dn[i].ents[".."]) /\ dn[i].ents[".."] \in Inums
<1> DEFINE up == dn[i].ents[".."]
<1>1. up \in Inums
  BY BaseTypes DEF Dinode, Entries
<1>2. CASE dn[up].nlink # 0
  <2>1. dn[up].nlink >= 1
    BY <1>1, <1>2, LinksNat
  <2> QED
    BY <1>1, <2>1, SafeLinked
<1>3. ASSUME NEW n \in Names, dn[up].ents[n] = i
      PROVE  Safe(up)
  <2>1. <<up, "sub", n>> \in LinkPlaces
    BY <1>1 DEF LinkPlaces
  <2>2. Linked(dn, k, ic)[<<up, "sub", n>>] = Sub(dn, up, i)
    BY <1>3, <2>1 DEF Linked
  <2>3. Sub(dn, up, i) = up
    BY FilesAssumption DEF Sub
  <2>4. dn[up].nlink >= 1
    BY <1>1, <2>1, <2>2, <2>3, LinkedOnce
  <2> QED
    BY <1>1, <2>4, SafeLinked
<1> QED
  BY <1>1, <1>2, <1>3 DEF ParentGone

\* And so is what dirlookup() finds in a directory.
LEMMA SafeEntry ==
    ASSUME Base, Life, Links, Dirs, NEW s, Fine(s), dn[Num(s)].type = "DIR",
           NEW name \in Names \cup {".", ".."}, dirlookup(s, name) # NULL,
           name = ".." => ~ ParentGone(Num(s))
    PROVE  /\ Safe(dirlookup(s, name)) /\ dirlookup(s, name) \in Inums
           /\ name = "." => dirlookup(s, name) = Num(s)
<1>1. /\ s \in Slots /\ ic[s].ref > 0 /\ Num(s) \in Inums /\ ic[s].inum = Num(s)
      /\ dirlookup(s, name) = dn[Num(s)].ents[name]
  BY FineFacts DEF dirlookup, Num
<1>2. ASSUME name = "."
      PROVE  dirlookup(s, name) = Num(s)
  <2>1. \/ dn[Num(s)].ents["."] = Num(s)
        \/ \E z \in Slots : ic[z].ref > 0 /\ Num(z) = Num(s) /\ Filling(z)
    BY <1>1 DEF Dirs
  <2>2. \A z \in Slots : ic[z].ref > 0 /\ Num(z) = Num(s) => z = s
    BY <1>1 DEF Base, Unique, Num
  <2>3. ~ Filling(s)
    BY DEF Fine, Odd
  <2> QED
    BY <1>1, <1>2, <2>1, <2>2, <2>3
<1>3. ASSUME name \in Names
      PROVE  Safe(dirlookup(s, name)) /\ dirlookup(s, name) \in Inums
  BY <1>1, <1>3, NamedOnce, SafeLinked
<1>5. ASSUME name = ".."
      PROVE  Safe(dirlookup(s, name)) /\ dirlookup(s, name) \in Inums
  BY <1>1, <1>5, SafeParent
<1>4. Safe(Num(s))
  BY SafeFine
<1> QED
  BY <1>1, <1>2, <1>3, <1>4, <1>5

-----------------------------------------------------------------------------
(* Steps that neither free nor allocate an inode.                           *)

\* Cache c and disk dd: slots in use stay so, inodes that are being freed or filled are not
\* touched, what is read or written is the same in the cache and on disk, and an inode that
\* is new in the cache has still to be read.
CalmCache(c, dd) ==
    \A z \in Slots :
       /\ ic[z].ref > 0 => /\ c[z].ref > 0 /\ c[z].inum = ic[z].inum
                           /\ ic[z].valid => c[z].valid
       /\ ic[z].ref > 0 /\ Odd(z) =>
             /\ c[z].ref = ic[z].ref /\ c[z].valid = ic[z].valid
             /\ c[z].type = ic[z].type /\ c[z].nlink = ic[z].nlink
             /\ dd[ic[z].inum] = dn[ic[z].inum]
       /\ ic[z].ref > 0 /\ ~ Odd(z) /\ c[z].valid =>
             c[z].nlink = dd[ic[z].inum].nlink /\ c[z].type = dd[ic[z].inum].type
       /\ ~ (ic[z].ref > 0) /\ c[z].ref > 0 =>
             ~ c[z].valid /\ c[z].inum \in Inums /\ dn[c[z].inum].type # "FREE"

\* The types stay; only a directory gets or loses names, and only under its lock.
CalmDisk(p, dd) ==
    /\ \A i \in Inums :
       /\ dd[i].type = dn[i].type
       /\ dn[i].type = "FREE" => dd[i] = dn[i]
       /\ dn[i].type # "DIR" => dd[i].ents = dn[i].ents
       /\ dd[i].ents["."] = dn[i].ents["."] /\ dd[i].ents[".."] = dn[i].ents[".."]
    /\ \A z \in Slots : ic[z].ref > 0 /\ ic[z].lk \notin {p, NoProc} =>
          dd[ic[z].inum].ents = dn[ic[z].inum].ents

\* The first instruction of p neither frees nor fills an inode, and neither does the next.
Quiet(p) ==
    /\ p \in Procs /\ Stay(p)
    /\ Top(k[p]).op \notin LifeOps /\ Top(k'[p]).op \notin {"free", "freed", "new"}

\* The disk may stay as it is.
LEMMA CalmSame ==
    ASSUME NEW p
    PROVE  CalmDisk(p, dn)
BY DEF CalmDisk

\* The others' first instructions.
LEMMA QuietTops ==
    ASSUME NEW p, Quiet(p)
    PROVE  /\ \A s : Freer(s)' <=> Freer(s)
           /\ \A s : Freed(s)' <=> Freed(s)
           /\ \A s : Filling(s)' <=> Filling(s)
           /\ \A s : Leaving(s) => Leaving(s)'
           /\ \A q \in Procs : q # p => k'[q] = k[q]
<1>1. \A q \in Procs : q # p => k'[q] = k[q]
  BY DEF Quiet, Stay
<1>2. p \in Procs /\ Top(k[p]).op \notin {"free", "freed", "dec", "new"}
      /\ Top(k'[p]).op \notin {"free", "freed", "new"}
  BY DEF Quiet, LifeOps
<1>3. \A q \in Procs : q # p => Top(k'[q]) = Top(k[q])
  BY <1>1
<1>4. ASSUME NEW s
      PROVE  /\ Freer(s)' <=> Freer(s)
             /\ Freed(s)' <=> Freed(s)
             /\ Filling(s)' <=> Filling(s)
             /\ Leaving(s) => Leaving(s)'
  BY <1>2, <1>3 DEF Freer, Freed, Filling, Leaving
<1> QED
  BY <1>1, <1>4

\* The life of the inodes goes on.
LEMMA QuietLife ==
    ASSUME Base, Life, NEW p \in Procs, Quiet(p), CalmCache(ic', dn'), CalmDisk(p, dn')
    PROVE  Life'
<1>1. ASSUME NEW z \in Slots
      PROVE  ic[z].ref > 0 \/ ic[z].ref = 0
  BY BaseTypes DEF Inode
<1>2. Cached'
  <2>1. SUFFICES ASSUME NEW z \in Slots, ic'[z].ref > 0, ic'[z].valid
                 PROVE  /\ ic'[z].nlink = dn'[ic'[z].inum].nlink
                        /\ Freed(z)' \/ (ic'[z].type = dn'[ic'[z].inum].type /\ ic'[z].type # "FREE")
    BY DEF Cached, Num
  <2>2. ic[z].ref > 0
    BY <2>1 DEF CalmCache
  <2>3. ic'[z].inum = ic[z].inum /\ ic[z].inum \in Inums
    BY <2>2 DEF CalmCache, Base, Unique
  <2>4. dn'[ic[z].inum].type = dn[ic[z].inum].type
    BY <2>3 DEF CalmDisk
  <2>5. CASE ~ Odd(z)
    BY <2>1, <2>2, <2>3, <2>4, <2>5 DEF CalmCache, Odd, Num
  <2>6. CASE Odd(z)
    <3>1. /\ ic'[z].valid = ic[z].valid /\ ic'[z].type = ic[z].type /\ ic'[z].nlink = ic[z].nlink
          /\ dn'[ic[z].inum] = dn[ic[z].inum]
      BY <2>2, <2>6 DEF CalmCache
    <3>2. /\ ic[z].nlink = dn[ic[z].inum].nlink
          /\ Freed(z) \/ (ic[z].type = dn[ic[z].inum].type /\ ic[z].type # "FREE")
      BY <3>1, <2>1, <2>2 DEF Life, Cached, Num
    <3>3. Freed(z)' <=> Freed(z)
      BY QuietTops
    <3> QED
      BY <3>1, <3>2, <3>3, <2>3
  <2> QED
    BY <2>5, <2>6
<1>3. FreeInodes'
  <2>1. ASSUME NEW i \in Inums, dn'[i].type = "FREE"
        PROVE  dn'[i].nlink = 0 /\ dn'[i].ents = NoEntries
    BY <2>1 DEF CalmDisk, Life, FreeInodes
  <2>2. ASSUME NEW z \in Slots, ic'[z].ref > 0, dn'[ic'[z].inum].type = "FREE"
        PROVE  ic'[z].ref = 1 /\ Leaving(z)'
    <3>1. ic[z].ref > 0
      BY <2>2 DEF CalmCache, CalmDisk
    <3>2. ic'[z].inum = ic[z].inum /\ ic[z].inum \in Inums
      BY <3>1 DEF CalmCache, Base, Unique
    <3>3. dn[ic[z].inum].type = "FREE"
      BY <2>2, <3>2 DEF CalmDisk
    <3>4. Odd(z) /\ ic[z].ref = 1 /\ Leaving(z)
      BY <3>1, <3>3 DEF Odd, Num, Life, FreeInodes
    <3>5. ic'[z].ref = ic[z].ref
      BY <3>1, <3>4 DEF CalmCache
    <3>6. Leaving(z)'
      BY <3>4, QuietTops
    <3> QED
      BY <3>4, <3>5, <3>6
  <2> QED
    BY <2>1, <2>2 DEF FreeInodes, Num
<1>4. Freeing'
  <2>0. \A q \in Procs : Top(k'[q]).op \notin {"free", "freed", "new"} => FreeingOf(q)'
    BY DEF FreeingOf
  <2>1. SUFFICES ASSUME NEW q \in Procs, Top(k'[q]).op \in {"free", "freed", "new"}
                 PROVE  FreeingOf(q)'
    BY <2>0 DEF Freeing
  <2>2. q # p
    BY <2>1 DEF Quiet
  <2>3. Top(k'[q]) = Top(k[q])
    BY <2>2, QuietTops
  <2>4. Top(k[q]).op \in SOps
    BY <2>1, <2>3 DEF SOps, PutOps
  <2>9. Live(Top(k[q]).s)
    BY <2>4, TopHolds
  <2>10. PICK s \in Slots : s = Top(k[q]).s
    BY <2>9 DEF Live
  <2>5. s \in Slots /\ ic[s].ref > 0 /\ Odd(s)
    <3>2. s \in Slots /\ ic[s].ref > 0
      BY <2>9, <2>10 DEF Live
    <3>3. Odd(s)
      BY <2>1, <2>3, <2>10 DEF Odd, Freer, Freed, Filling
    <3> QED
      BY <3>2, <3>3
  <2>6. /\ ic'[s].ref = ic[s].ref /\ ic'[s].valid = ic[s].valid
        /\ dn'[ic[s].inum] = dn[ic[s].inum] /\ ic'[s].inum = ic[s].inum
    BY <2>5 DEF CalmCache
  <2>7. (Filling(s)' <=> Filling(s)) /\ (Leaving(s) => Leaving(s)')
    BY QuietTops
  <2>8. FreeingOf(q)
    BY DEF Life, Freeing
  <2> QED
    BY <2>3, <2>6, <2>7, <2>8, <2>10 DEF FreeingOf, Num
<1> QED
  BY <1>2, <1>3, <1>4 DEF Life

\* The directories stay what they are.
LEMMA QuietDirs ==
    ASSUME Base, Dirs, NEW p \in Procs, Quiet(p), CalmCache(ic', dn'), CalmDisk(p, dn')
    PROVE  Dirs'
<1>0. ROOTINO \in Inums
  BY FilesAssumption
<1>1. dn'[ROOTINO].type = "DIR"
  BY <1>0 DEF Dirs, CalmDisk
<1>2. ASSUME NEW i \in Inums
      PROVE  /\ dn'[i].type # "DIR" => dn'[i].ents = NoEntries
             /\ \/ dn'[i].type # "DIR"
                \/ dn'[i].ents["."] = i /\ dn'[i].ents[".."] # NULL
                \/ \E s \in Slots : ic'[s].ref > 0 /\ ic'[s].inum = i /\ Filling(s)'
  <2>1. dn'[i].type = dn[i].type /\ (dn[i].type # "DIR" => dn'[i].ents = dn[i].ents)
        /\ dn'[i].ents["."] = dn[i].ents["."] /\ dn'[i].ents[".."] = dn[i].ents[".."]
    BY DEF CalmDisk
  <2>2. \A s \in Slots : ic[s].ref > 0 /\ Num(s) = i /\ Filling(s) =>
           ic'[s].ref > 0 /\ ic'[s].inum = i /\ Filling(s)'
    BY QuietTops DEF CalmCache, Num
  <2> QED
    BY <2>1, <2>2 DEF Dirs
<1> QED
  BY <1>1, <1>2 DEF Dirs, Num

\* What a new instruction, and a new first one, rely on.
RelyNew(a) ==
    /\ a.op = "unlink3" => ic'[a.s].valid
    /\ a.op \in {"link2", "bad"} => dn'[ic'[a.s].inum].type # "DIR"

TopNew(p) ==
    LET a == Top(k'[p]) IN
    /\ a.op \in TOps => /\ ic'[a.t].valid /\ dn'[ic'[a.t].inum].type = "DIR"
                        /\ a.path[1] \in Names
    /\ a.op \in ToDir /\ res'[p] # NULL => dn'[ic'[res'[p]].inum].type = "DIR"
    /\ a.op = "unlink2" => dn'[ic'[a.t].inum].ents[a.path[1]] = ic'[a.s].inum

\* The locks of a process: that of its first instruction and that of its result.
LEMMA LockFacts ==
    ASSUME Base, Locks, NEW q \in Procs
    PROVE  /\ Keeps(Top(k[q])) # NULL => /\ Keeps(Top(k[q])) \in Slots
                                         /\ ic[Keeps(Top(k[q]))].lk = q
                                         /\ Keeps(Top(k[q])) # KeepsRes(k[q], res[q])
           /\ KeepsRes(k[q], res[q]) # NULL => /\ KeepsRes(k[q], res[q]) \in Slots
                                               /\ ic[KeepsRes(k[q], res[q])].lk = q
<1> DEFINE K(n) == Kept(k[q], res[q], n)
<1>1. /\ \A s \in Slots : ic[s].lk = q <=> \E n \in Where : K(n) = s
      /\ \A n, n1 \in Where : K(n) = K(n1) /\ K(n) # NULL => n = n1
  BY DEF Locks, LocksOf
<1>2. -1 \in Where /\ K(-1) = KeepsRes(k[q], res[q])
  BY DEF Where, Kept
<1>3. ASSUME k[q] # <<>>
      PROVE  /\ Len(k[q]) - 1 \in Where /\ K(Len(k[q]) - 1) = Keeps(Top(k[q]))
             /\ Len(k[q]) - 1 # -1 /\ Keeps(Top(k[q])) \in 0..NINODE
  <2>1. Len(k[q]) - 1 \in Nat /\ View(k[q], Len(k[q]) - 1) = Top(k[q])
    BY <1>3, TurnPlaces
  <2>2. Len(k[q]) - 1 # -1
    BY <2>1
  <2>3. Keeps(View(k[q], Len(k[q]) - 1)) \in 0..NINODE
    BY <2>1, ViewType DEF Base, FilesTypes
  <2> QED
    BY <2>1, <2>2, <2>3 DEF Where, Kept
<1>4. k[q] = <<>> => Keeps(Top(k[q])) = NULL
  BY KeepsNone DEF Top
<1>5. KeepsRes(k[q], res[q]) \in 0..NINODE
  BY NullSlot, BaseTypes DEF KeepsRes, Regs
<1>6. \A s \in 0..NINODE : s # NULL => s \in Slots
  BY FilesAssumption DEF NULL, Slots
<1> QED
  BY <1>1, <1>2, <1>3, <1>4, <1>5, <1>6

\* What instructions rely on is not disturbed.
LEMMA QuietRely ==
    ASSUME Base, Life, Locks, Relying, NEW p \in Procs, NEW m, NEW U, Turned(p, m, U),
           CalmCache(ic', dn'), CalmDisk(p, dn'), Others(res, res', p),
           \A a \in U : RelyNew(a), TopNew(p)
    PROVE  Relying'
<1>1. ASSUME NEW s, Live(s)
      PROVE  /\ s \in Slots /\ ic'[s].inum = Num(s) /\ Num(s) \in Inums
             /\ dn'[Num(s)].type = dn[Num(s)].type /\ (ic[s].valid => ic'[s].valid)
  BY <1>1 DEF Live, CalmCache, CalmDisk, Num
<1>2. ASSUME NEW q \in Procs, NEW n \in Nat
      PROVE  RelyNew(View(k[q], n))
  <2>1. Relies(View(k[q], n))
    BY DEF Relying
  <2>2. ASSUME View(k[q], n).op \in {"unlink3", "link2", "bad"}
        PROVE  Live(View(k[q], n).s)
    <3>1. View(k[q], n).op \in SOps \ LifeOps
      BY <2>2 DEF SOps, LifeOps, PutOps
    <3> QED
      BY <3>1, FineBelow DEF Fine
  <2> QED
    BY <2>1, <2>2, <1>1 DEF Relies, RelyNew
<1>3. \A n \in Nat : RelyNew(View(k'[p], n))
  <2>1. SUFFICES ASSUME NEW n \in Nat PROVE RelyNew(View(k'[p], n))
    OBVIOUS
  <2>2. m \in Nat /\ (n < m => View(k'[p], n) = View(k[p], n))
        /\ (~ (n < m) => View(k'[p], n) \in U \cup {None})
    BY DEF Turned
  <2>3. RelyNew(None)
    BY KeepsNone DEF RelyNew
  <2> QED
    BY <2>2, <2>3, <1>2
<1>4. ASSUME NEW q \in Procs, q # p
      PROVE  k'[q] = k[q] /\ res'[q] = res[q]
  BY <1>4 DEF Turned, Stay, Others
<1>5. \A q \in Procs, n \in Nat : RelyNew(View(k'[q], n))
  BY <1>2, <1>3, <1>4
<1>6. ASSUME NEW q \in Procs, q # p
      PROVE  TopNew(q)
  <2>1. TopRelies(q)
    BY DEF Relying
  <2>2. Top(k'[q]) = Top(k[q]) /\ res'[q] = res[q]
    BY <1>4, <1>6
  <2>3. ASSUME Top(k[q]).op \in TOps
        PROVE  /\ Live(Top(k[q]).t) /\ Live(Top(k[q]).s) /\ Keeps(Top(k[q])) = Top(k[q]).t
               /\ Top(k[q]).t \in Slots /\ ic[Top(k[q]).t].lk = q
    <3>1. Top(k[q]).op \in SOps
      BY <2>3 DEF TOps, SOps
    <3>2. k[q] # <<>> /\ Top(k[q]) = k[q][1] /\ Live(Top(k[q]).s)
      BY <3>1, TopHolds
    <3>3. Live(Top(k[q]).t)
      BY <3>2, <2>3, Held DEF Base
    <3>4. Keeps(Top(k[q])) = Top(k[q]).t
      BY <2>3 DEF Keeps, TOps, Keepers
    <3>5. Top(k[q]).t \in Slots /\ Top(k[q]).t # NULL
      BY <3>3, NullSlot DEF Live
    <3> QED
      BY <3>2, <3>3, <3>4, <3>5, LockFacts
  <2>4. ASSUME Top(k[q]).op \in TOps
        PROVE  dn'[Num(Top(k[q]).t)].ents = dn[Num(Top(k[q]).t)].ents
    <3>1. q \notin {p, NoProc}
      BY <1>6, FilesAssumption
    <3>2. Top(k[q]).t \in Slots /\ ic[Top(k[q]).t].lk = q /\ ic[Top(k[q]).t].ref > 0
      BY <2>3, <2>4 DEF Live
    <3> QED
      BY <3>1, <3>2 DEF CalmDisk, Num
  <2>5. res[q] # NULL => Live(res[q])
    BY Held DEF Base
  <2>6. Top(k[q]).op = "unlink2" => Top(k[q]).op \in TOps
    BY DEF TOps
  <2> QED
    BY <2>1, <2>2, <2>3, <2>4, <2>5, <2>6, <1>1 DEF TopRelies, TopNew
<1>7. \A q \in Procs : TopNew(q)
  BY <1>6
<1>8. \A q \in Procs : TopRelies(q)'
  BY <1>7 DEF TopRelies, TopNew, Num
<1>9. \A q \in Procs, n \in Nat : Relies(View(k[q], n))'
  BY <1>5 DEF Relies, RelyNew, Num
<1> QED
  BY <1>8, <1>9 DEF Relying

-----------------------------------------------------------------------------
(* Counting links.                                                          *)

\* Links are lost.
LEMMA LinksShrink ==
    ASSUME NEW G, NEW H, NEW d1, NEW d2, DOMAIN G = LinkPlaces, DOMAIN H = LinkPlaces,
           LinksCounted(G, d1), \A x \in LinkPlaces : H[x] = G[x] \/ H[x] = NULL,
           \A i \in Inums : d1[i].nlink = d2[i].nlink /\ d1[i].nlink \in Int
    PROVE  LinksCounted(H, d2)
<1>1. SUFFICES ASSUME NEW i \in Inums PROVE Cardinality(Fib(H, i)) <= d2[i].nlink
  BY DEF LinksCounted
<1>2. i # NULL
  BY FilesAssumption
<1>3. Fib(H, i) \subseteq Fib(G, i)
  BY <1>2 DEF Fib
<1>4. /\ IsFiniteSet(Fib(G, i)) /\ Cardinality(Fib(G, i)) \in Nat
      /\ Cardinality(Fib(H, i)) \in Nat
  BY LinkPlacesFinite
<1>5. Cardinality(Fib(H, i)) <= Cardinality(Fib(G, i))
  BY <1>3, <1>4, FS_Subset
<1>6. Cardinality(Fib(G, i)) <= d1[i].nlink /\ d1[i].nlink = d2[i].nlink /\ d1[i].nlink \in Int
  BY DEF LinksCounted
<1> QED
  BY <1>4, <1>5, <1>6

\* Between G and H inode i gets links at place x.
Gain(G, H, x, i) == Is(H[x], i) - Is(G[x], i)

\* The links at one place ...
LEMMA LinksOne ==
    ASSUME NEW G, NEW H, DOMAIN G = LinkPlaces, DOMAIN H = LinkPlaces, NEW x \in LinkPlaces,
           \A z \in LinkPlaces : z # x => H[z] = G[z]
    PROVE  \A i : Cardinality(Fib(H, i)) = Cardinality(Fib(G, i)) + Gain(G, H, x, i)
<1>1. SUFFICES ASSUME NEW i PROVE Cardinality(Fib(H, i)) = Cardinality(Fib(G, i)) + Gain(G, H, x, i)
  OBVIOUS
<1>2. IsFiniteSet(Fib(G, i)) /\ Cardinality(Fib(G, i)) \in Nat
  BY LinkPlacesFinite
<1>3. Cardinality(Fib(H, i)) = Cardinality(Fib(G, i)) - Is(G[x], i) + Is(H[x], i)
  BY <1>2, FibSet
<1>4. Is(G[x], i) \in Int /\ Is(H[x], i) \in Int
  BY DEF Is
<1> QED
  BY <1>2, <1>3, <1>4 DEF Gain

\* ... and at three places change.
LEMMA LinksThree ==
    ASSUME NEW G, NEW H, DOMAIN G = LinkPlaces, DOMAIN H = LinkPlaces,
           NEW x \in LinkPlaces, NEW y \in LinkPlaces, NEW w \in LinkPlaces, x # y, x # w, y # w,
           \A z \in LinkPlaces : z # x /\ z # y /\ z # w => H[z] = G[z]
    PROVE  \A i : Cardinality(Fib(H, i)) =
                     Cardinality(Fib(G, i)) + Gain(G, H, x, i) + Gain(G, H, y, i) + Gain(G, H, w, i)
<1> DEFINE G1 == [z \in LinkPlaces |-> IF z = x THEN H[z] ELSE G[z]]
           G2 == [z \in LinkPlaces |-> IF z = x \/ z = y THEN H[z] ELSE G[z]]
<1>1. /\ DOMAIN G1 = LinkPlaces /\ \A z \in LinkPlaces : z # x => G1[z] = G[z]
      /\ G1[x] = H[x] /\ G1[y] = G[y]
  OBVIOUS
<1>2. /\ DOMAIN G2 = LinkPlaces /\ \A z \in LinkPlaces : z # y => G2[z] = G1[z]
      /\ G2[y] = H[y] /\ G2[w] = G[w]
  OBVIOUS
<1>3. \A z \in LinkPlaces : z # w => H[z] = G2[z]
  OBVIOUS
<1> HIDE DEF G1, G2
<1>4. SUFFICES ASSUME NEW i
               PROVE  Cardinality(Fib(H, i)) = Cardinality(Fib(G, i))
                        + Gain(G, H, x, i) + Gain(G, H, y, i) + Gain(G, H, w, i)
  OBVIOUS
<1>5. Cardinality(Fib(G1, i)) = Cardinality(Fib(G, i)) + Gain(G, G1, x, i)
  BY <1>1, LinksOne
<1>6. Cardinality(Fib(G2, i)) = Cardinality(Fib(G1, i)) + Gain(G1, G2, y, i)
  BY <1>1, <1>2, LinksOne
<1>7. Cardinality(Fib(H, i)) = Cardinality(Fib(G2, i)) + Gain(G2, H, w, i)
  BY <1>2, <1>3, LinksOne
<1>8. Gain(G, G1, x, i) = Gain(G, H, x, i) /\ Gain(G1, G2, y, i) = Gain(G, H, y, i)
      /\ Gain(G2, H, w, i) = Gain(G, H, w, i)
  BY <1>1, <1>2 DEF Gain
<1> QED
  BY <1>5, <1>6, <1>7, <1>8

\* No slot that somebody refers to changes its inode.
InumsKept == \A z \in Slots : ic[z].ref > 0 => ic'[z].inum = ic[z].inum

\* What calls have counted.
LEMMA PendingKept ==
    ASSUME Base, Life, InumsKept, NEW p \in Procs, Stay(p)
    PROVE  /\ \A q \in Procs : q # p => Pending(k'[q], ic') = Pending(k[q], ic)
           /\ View(k'[p], 0) = View(k[p], 0) => Pending(k'[p], ic') = Pending(k[p], ic)
           /\ \A q \in Procs : View(k[q], 0).op \in {"link2", "bad", "unlink3"} =>
                 ic'[View(k[q], 0).s].inum = Pending(k[q], ic)
           /\ \A q \in Procs : Pending(k[q], ic) \in Inums \cup {NULL}
<1>1. ASSUME NEW q \in Procs, View(k[q], 0).op \in {"link2", "bad", "unlink3"}
      PROVE  /\ ic'[View(k[q], 0).s].inum = ic[View(k[q], 0).s].inum
             /\ Pending(k[q], ic) = ic[View(k[q], 0).s].inum
             /\ ic[View(k[q], 0).s].inum \in Inums
  <2>1. View(k[q], 0).op \in SOps \ LifeOps
    BY <1>1 DEF SOps, LifeOps, PutOps
  <2>2. Live(View(k[q], 0).s)
    BY <2>1, FineBelow DEF Fine
  <2> QED
    BY <2>2, <1>1 DEF Live, InumsKept, Pending
<1>2. \A q \in Procs : q # p => k'[q] = k[q]
  BY DEF Stay
<1>3. \A q \in Procs : View(k[q], 0).op \notin {"link2", "bad", "unlink3"} => Pending(k[q], ic) = NULL
  BY DEF Pending
<1>4. \A q \in Procs : View(k'[q], 0) = View(k[q], 0) => Pending(k'[q], ic') = Pending(k[q], ic)
  BY <1>1 DEF Pending
<1> QED
  BY <1>1, <1>2, <1>3, <1>4

\* The values of Linked.
LEMMA LinkedAt ==
    ASSUME NEW dd, NEW kk, NEW cc
    PROVE  /\ DOMAIN Linked(dd, kk, cc) = LinkPlaces
           /\ \A d \in Inums, n \in Names :
                 /\ <<d, "name", n>> \in LinkPlaces /\ <<d, "sub", n>> \in LinkPlaces
                 /\ Linked(dd, kk, cc)[<<d, "name", n>>] = dd[d].ents[n]
                 /\ Linked(dd, kk, cc)[<<d, "sub", n>>] = Sub(dd, d, dd[d].ents[n])
           /\ \A q \in Procs : /\ <<q, "call", 0>> \in LinkPlaces
                               /\ Linked(dd, kk, cc)[<<q, "call", 0>>] = Pending(kk[q], cc)
           /\ <<ROOTINO, "root", 0>> \in LinkPlaces
           /\ Linked(dd, kk, cc)[<<ROOTINO, "root", 0>>] = ROOTINO
           /\ \A z \in LinkPlaces :
                 \/ \E d \in Inums, n \in Names : z = <<d, "name", n>> \/ z = <<d, "sub", n>>
                 \/ \E q \in Procs : z = <<q, "call", 0>>
                 \/ z = <<ROOTINO, "root", 0>>
<1>1. DOMAIN Linked(dd, kk, cc) = LinkPlaces
  BY DEF Linked
<1>2. \A d \in Inums, n \in Names :
         /\ <<d, "name", n>> \in LinkPlaces /\ <<d, "sub", n>> \in LinkPlaces
         /\ Linked(dd, kk, cc)[<<d, "name", n>>] = dd[d].ents[n]
         /\ Linked(dd, kk, cc)[<<d, "sub", n>>] = Sub(dd, d, dd[d].ents[n])
  BY DEF Linked, LinkPlaces
<1>3. \A q \in Procs : /\ <<q, "call", 0>> \in LinkPlaces
                       /\ Linked(dd, kk, cc)[<<q, "call", 0>>] = Pending(kk[q], cc)
  BY DEF Linked, LinkPlaces
<1>4. /\ <<ROOTINO, "root", 0>> \in LinkPlaces
      /\ Linked(dd, kk, cc)[<<ROOTINO, "root", 0>>] = ROOTINO
  BY DEF Linked, LinkPlaces
<1>5. \A z \in LinkPlaces :
         \/ \E d \in Inums, n \in Names : z = <<d, "name", n>> \/ z = <<d, "sub", n>>
         \/ \E q \in Procs : z = <<q, "call", 0>>
         \/ z = <<ROOTINO, "root", 0>>
  BY DEF LinkPlaces
<1> QED
  BY <1>1, <1>2, <1>3, <1>4, <1>5

TypesKept == \A i \in Inums : dn'[i].type = dn[i].type
NlinkTypes == \A i \in Inums : dn[i].nlink \in Int /\ dn'[i].nlink \in Int

\* The subdirectories stay where the entries do.
LEMMA SubKept ==
    ASSUME Base, TypesKept, NEW d \in Inums, NEW n \in Names,
           dn'[d].ents[n] = dn[d].ents[n]
    PROVE  Sub(dn', d, dn'[d].ents[n]) = Sub(dn, d, dn[d].ents[n])
<1>1. n \in Entries
  BY DEF Entries
<1>2. dn[d].ents[n] \in Inums \cup {NULL}
  BY <1>1, BaseTypes DEF Dinode
<1> QED
  BY <1>2 DEF Sub, TypesKept

\* A call counts a link, or takes it back, ...
LEMMA LinksCall ==
    ASSUME Base, Life, Links, InumsKept, NEW p \in Procs, Stay(p), TypesKept, NlinkTypes,
           \A d \in Inums, n \in Names : dn'[d].ents[n] = dn[d].ents[n],
           \A i \in Inums : Is(Pending(k'[p], ic'), i) - Is(Pending(k[p], ic), i)
                               <= dn'[i].nlink - dn[i].nlink
    PROVE  Links'
<1> DEFINE G == Linked(dn, k, ic)
           H == Linked(dn', k', ic')
           x == <<p, "call", 0>>
<1>1. DOMAIN G = LinkPlaces /\ DOMAIN H = LinkPlaces /\ x \in LinkPlaces
      /\ G[x] = Pending(k[p], ic) /\ H[x] = Pending(k'[p], ic')
  BY LinkedAt
<1>2. \A z \in LinkPlaces : z # x => H[z] = G[z]
  <2>1. ASSUME NEW d \in Inums, NEW n \in Names
        PROVE  H[<<d, "name", n>>] = G[<<d, "name", n>>] /\ H[<<d, "sub", n>>] = G[<<d, "sub", n>>]
    <3>1. dn'[d].ents[n] = dn[d].ents[n]
      OBVIOUS
    <3>2. Sub(dn', d, dn'[d].ents[n]) = Sub(dn, d, dn[d].ents[n])
      BY <3>1, SubKept
    <3>3. /\ G[<<d, "name", n>>] = dn[d].ents[n] /\ H[<<d, "name", n>>] = dn'[d].ents[n]
          /\ G[<<d, "sub", n>>] = Sub(dn, d, dn[d].ents[n])
          /\ H[<<d, "sub", n>>] = Sub(dn', d, dn'[d].ents[n])
      BY LinkedAt
    <3> QED
      BY <3>1, <3>2, <3>3
  <2>2. \A q \in Procs : q # p => Pending(k'[q], ic') = Pending(k[q], ic)
    BY PendingKept
  <2>3. \A q \in Procs : q # p => H[<<q, "call", 0>>] = G[<<q, "call", 0>>]
    BY <2>2, LinkedAt
  <2>4. H[<<ROOTINO, "root", 0>>] = G[<<ROOTINO, "root", 0>>]
    BY LinkedAt
  <2>5. \A z \in LinkPlaces :
                 \/ \E d \in Inums, n \in Names : z = <<d, "name", n>> \/ z = <<d, "sub", n>>
                 \/ \E q \in Procs : z = <<q, "call", 0>>
                 \/ z = <<ROOTINO, "root", 0>>
    BY LinkedAt
  <2> HIDE DEF G, H
  <2> QED
    BY <2>1, <2>3, <2>4, <2>5
<1>3. Links => LinksCounted(G, dn)
  BY DEF Links
<1>4. LinksCounted(H, dn') => Links'
  BY DEF Links
<1> HIDE DEF G, H, x
<1>5. ASSUME NEW i \in Inums
      PROVE  Cardinality(Fib(H, i)) <= dn'[i].nlink
  <2>1. Cardinality(Fib(H, i)) = Cardinality(Fib(G, i)) + Gain(G, H, x, i)
    BY <1>1, <1>2, LinksOne
  <2>2. Cardinality(Fib(G, i)) <= dn[i].nlink /\ Cardinality(Fib(G, i)) \in Nat
    BY <1>1, <1>3, LinkPlacesFinite DEF LinksCounted
  <2>3. Gain(G, H, x, i) <= dn'[i].nlink - dn[i].nlink /\ Gain(G, H, x, i) \in Int
    BY <1>1 DEF Gain, Is
  <2>4. dn[i].nlink \in Int /\ dn'[i].nlink \in Int
    BY DEF NlinkTypes
  <2> QED
    BY <2>1, <2>2, <2>3, <2>4
<1> QED
  BY <1>4, <1>5 DEF LinksCounted

\* ... or does nothing to it.
LEMMA LinksRead ==
    ASSUME Base, Life, Links, InumsKept, NEW p \in Procs, Stay(p), dn' = dn,
           \/ Pending(k'[p], ic') = Pending(k[p], ic)
           \/ Pending(k'[p], ic') = NULL
    PROVE  Links'
<1>1. TypesKept /\ NlinkTypes
  BY BaseTypes DEF TypesKept, NlinkTypes, Dinode
<1>2. ASSUME NEW i \in Inums
      PROVE  Is(Pending(k'[p], ic'), i) - Is(Pending(k[p], ic), i) <= dn'[i].nlink - dn[i].nlink
  <2>1. i # NULL /\ dn[i].nlink \in Int
    BY FilesAssumption, <1>1 DEF NlinkTypes
  <2> QED
    BY <2>1 DEF Is
<1> QED
  BY <1>1, <1>2, LinksCall

\* A name is entered or cleared.
LEMMA LinksEntry ==
    ASSUME Base, Life, Links, InumsKept, NEW p \in Procs, Stay(p), TypesKept, NlinkTypes,
           NEW d \in Inums, NEW n \in Names,
           \A i \in Inums, m \in Names : i # d \/ m # n => dn'[i].ents[m] = dn[i].ents[m],
           NEW old, old = dn[d].ents[n], NEW new, new = dn'[d].ents[n],
           NEW b1, b1 = Sub(dn, d, old), NEW b2, b2 = Sub(dn', d, new),
           NEW c1, c1 = Pending(k[p], ic), NEW c2, c2 = Pending(k'[p], ic'),
           \A i \in Inums : (Is(new, i) - Is(old, i)) + (Is(b2, i) - Is(b1, i)) + (Is(c2, i) - Is(c1, i))
                               <= dn'[i].nlink - dn[i].nlink
    PROVE  Links'
<1> DEFINE G == Linked(dn, k, ic)
           H == Linked(dn', k', ic')
           x == <<d, "name", n>>
           y == <<d, "sub", n>>
           w == <<p, "call", 0>>
<1>1. /\ DOMAIN G = LinkPlaces /\ DOMAIN H = LinkPlaces /\ x \in LinkPlaces /\ y \in LinkPlaces
      /\ w \in LinkPlaces /\ x # y /\ x # w /\ y # w
      /\ G[x] = old /\ H[x] = new /\ G[y] = b1 /\ H[y] = b2 /\ G[w] = c1 /\ H[w] = c2
  BY LinkedAt
<1>2. \A z \in LinkPlaces : z # x /\ z # y /\ z # w => H[z] = G[z]
  <2>1. ASSUME NEW i \in Inums, NEW m \in Names, i # d \/ m # n
        PROVE  H[<<i, "name", m>>] = G[<<i, "name", m>>] /\ H[<<i, "sub", m>>] = G[<<i, "sub", m>>]
    <3>1. dn'[i].ents[m] = dn[i].ents[m]
      BY <2>1
    <3>2. Sub(dn', i, dn'[i].ents[m]) = Sub(dn, i, dn[i].ents[m])
      BY <3>1, SubKept
    <3>3. /\ G[<<i, "name", m>>] = dn[i].ents[m] /\ H[<<i, "name", m>>] = dn'[i].ents[m]
          /\ G[<<i, "sub", m>>] = Sub(dn, i, dn[i].ents[m])
          /\ H[<<i, "sub", m>>] = Sub(dn', i, dn'[i].ents[m])
      BY LinkedAt
    <3> QED
      BY <3>1, <3>2, <3>3
  <2>2. \A q \in Procs : q # p => Pending(k'[q], ic') = Pending(k[q], ic)
    BY PendingKept
  <2>3. \A q \in Procs : q # p => H[<<q, "call", 0>>] = G[<<q, "call", 0>>]
    BY <2>2, LinkedAt
  <2>4. H[<<ROOTINO, "root", 0>>] = G[<<ROOTINO, "root", 0>>]
    BY LinkedAt
  <2>5. \A z \in LinkPlaces :
                 \/ \E i \in Inums, m \in Names : z = <<i, "name", m>> \/ z = <<i, "sub", m>>
                 \/ \E q \in Procs : z = <<q, "call", 0>>
                 \/ z = <<ROOTINO, "root", 0>>
    BY LinkedAt
  <2> HIDE DEF G, H
  <2>6. SUFFICES ASSUME NEW z \in LinkPlaces, z # x, z # y, z # w
                 PROVE  H[z] = G[z]
    OBVIOUS
  <2>7. CASE \E i \in Inums, m \in Names : z = <<i, "name", m>> \/ z = <<i, "sub", m>>
    <3>1. PICK i \in Inums, m \in Names : z = <<i, "name", m>> \/ z = <<i, "sub", m>>
      BY <2>7
    <3>2. i # d \/ m # n
      BY <2>6, <3>1
    <3> QED
      BY <2>1, <3>1, <3>2
  <2>8. CASE \E q \in Procs : z = <<q, "call", 0>>
    BY <2>3, <2>6, <2>8
  <2> QED
    BY <2>4, <2>5, <2>7, <2>8
<1>3. LinksCounted(G, dn)
  BY DEF Links
<1>4. LinksCounted(H, dn') => Links'
  BY DEF Links
<1> HIDE DEF G, H, x, y, w
<1>5. ASSUME NEW i \in Inums
      PROVE  Cardinality(Fib(H, i)) <= dn'[i].nlink
  <2>1. Cardinality(Fib(H, i)) =
          Cardinality(Fib(G, i)) + Gain(G, H, x, i) + Gain(G, H, y, i) + Gain(G, H, w, i)
    BY <1>1, <1>2, LinksThree
  <2>2. Cardinality(Fib(G, i)) <= dn[i].nlink /\ Cardinality(Fib(G, i)) \in Nat
    BY <1>1, <1>3, LinkPlacesFinite DEF LinksCounted
  <2>3. /\ Gain(G, H, x, i) = Is(new, i) - Is(old, i) /\ Gain(G, H, x, i) \in Int
        /\ Gain(G, H, y, i) = Is(b2, i) - Is(b1, i) /\ Gain(G, H, y, i) \in Int
        /\ Gain(G, H, w, i) = Is(c2, i) - Is(c1, i) /\ Gain(G, H, w, i) \in Int
    <3>1. \A a \in {new, old, b1, b2, c1, c2} : Is(a, i) \in Int
      BY DEF Is
    <3> QED
      BY <3>1, <1>1 DEF Gain
  <2>4. dn[i].nlink \in Int /\ dn'[i].nlink \in Int
    BY DEF NlinkTypes
  <2>5. Gain(G, H, x, i) + Gain(G, H, y, i) + Gain(G, H, w, i) <= dn'[i].nlink - dn[i].nlink
    <3>1. (Is(new, i) - Is(old, i)) + (Is(b2, i) - Is(b1, i)) + (Is(c2, i) - Is(c1, i))
                               <= dn'[i].nlink - dn[i].nlink
      OBVIOUS
    <3> QED
      BY <3>1, <2>3
  <2> HIDE DEF Gain, Is
  <2> QED
    BY <2>1, <2>2, <2>3, <2>4, <2>5
<1> QED
  BY <1>4, <1>5 DEF LinksCounted

-----------------------------------------------------------------------------
(* Steps that read.                                                         *)

\* The second layer of the invariant.
Second == Locks /\ Life /\ Relying /\ Dirs /\ Links /\ ~halted

\* Nothing but locks changes in the cache.
OnlyLk(c) ==
    \A z \in Slots : /\ c[z].ref = ic[z].ref /\ c[z].inum = ic[z].inum
                     /\ c[z].valid = ic[z].valid /\ c[z].type = ic[z].type
                     /\ c[z].nlink = ic[z].nlink

\* Such a cache is calm, ...
LEMMA CalmLocks ==
    ASSUME Base, Life, NEW c, OnlyLk(c)
    PROVE  CalmCache(c, dn)
<1>1. \A z \in Slots : ic[z].ref > 0 /\ ~ Odd(z) /\ ic[z].valid =>
         ic[z].nlink = dn[ic[z].inum].nlink /\ ic[z].type = dn[ic[z].inum].type
  BY DEF Life, Cached, Odd, Num
<1> QED
  BY <1>1 DEF OnlyLk, CalmCache

\* ... and so is one in which an inode has been read, ...
LEMMA CalmLoad ==
    ASSUME Base, Life, NEW s, Fine(s), NEW q \in Procs \cup {NoProc}
    PROVE  CalmCache(Load(s, q), dn) /\ SameRefs(ic, Load(s, q)) /\ Load(s, q) \in [Slots -> Inode]
<1>1. /\ s \in Slots /\ Live(s) /\ ~ Odd(s) /\ Loaded(s).type = dn[ic[s].inum].type
      /\ Loaded(s).nlink = dn[ic[s].inum].nlink
  BY FineFacts DEF Fine, Num
<1> DEFINE c == Load(s, q)
<1>5. FilesTypes
  BY DEF Base
<1>8. c \in [Slots -> Inode] /\ SameRefs(ic, c)
  BY <1>1, <1>5, LoadFacts
<1>6. \A z \in Slots : z # s => c[z] = ic[z]
  BY <1>1, BaseTypes DEF Load
<1>7. c[s].type = Loaded(s).type /\ c[s].nlink = Loaded(s).nlink
  BY <1>1, <1>5, LoadFacts
<1>2. /\ c \in [Slots -> Inode] /\ SameRefs(ic, c) /\ (\A z \in Slots : z # s => c[z] = ic[z])
      /\ c[s].valid /\ c[s].type = Loaded(s).type /\ c[s].nlink = Loaded(s).nlink
  <2>1. c[s].valid
    BY <1>1, <1>5, LoadFacts
  <2> QED
    BY <2>1, <1>6, <1>7, <1>8
<1> HIDE DEF c
<1>3. \A z \in Slots : ic[z].ref > 0 /\ ~ Odd(z) /\ ic[z].valid =>
         ic[z].nlink = dn[ic[z].inum].nlink /\ ic[z].type = dn[ic[z].inum].type
  BY DEF Life, Cached, Odd, Num
<1>4. CalmCache(c, dn)
  <2>1. \A z \in Slots : c[z].ref = ic[z].ref /\ c[z].inum = ic[z].inum
    BY <1>2 DEF SameRefs
  <2> QED
    BY <2>1, <1>1, <1>2, <1>3 DEF CalmCache
<1> QED
  BY <1>2, <1>4 DEF c

\* ... iget() has been called for an inode that may be, ...
LEMMA CalmGot ==
    ASSUME Base, NEW c, NEW dd, CalmCache(c, dd), SameRefs(ic, c), NEW i, Safe(i), NEW x, Finds(i, x),
           NEW d, Got(c, d, i, x)
    PROVE  CalmCache(d, dd)
<1>1. /\ x \in Slots /\ d[x].ref = ic[x].ref + 1 /\ d[x].inum = i /\ d[x].type = c[x].type
      /\ d[x].nlink = c[x].nlink /\ (ic[x].ref > 0 => d[x].valid = c[x].valid)
      /\ (ic[x].ref = 0 => d[x].valid = FALSE) /\ \A z \in Slots : z # x => d[z] = c[z]
  BY DEF Got, Finds
<1>2. /\ i \in Inums /\ dn[i].type # "FREE"
      /\ ic[x].ref > 0 => ic[x].inum = i /\ ~ Odd(x)
  BY DEF Safe, Finds, Num
<1>3. ic[x].ref \in Nat
  BY <1>1, BaseTypes DEF Inode
<1>4. d[x].ref > 0 /\ (~ (ic[x].ref > 0) => ic[x].ref = 0)
  BY <1>1, <1>3
<1>5. c[x].ref = ic[x].ref /\ c[x].inum = ic[x].inum
  BY <1>1 DEF SameRefs
<1> QED
  BY <1>1, <1>2, <1>4, <1>5 DEF CalmCache

\* ... or a slot has got one more reference.
LEMMA CalmDup ==
    ASSUME Base, Life, NEW s, Fine(s), ic' = idup(ic, s)
    PROVE  CalmCache(ic', dn) /\ \A z \in Slots : ic'[z].lk = ic[z].lk
<1>1. s \in Slots /\ ~ Odd(s) /\ Live(s) /\ ic[s].ref \in Nat \ {0}
  BY FineFacts DEF Fine, Live
<1>2. /\ \A z \in Slots : z # s => ic'[z] = ic[z]
      /\ ic'[s] = [ic[s] EXCEPT !.ref = @ + 1]
  BY <1>1, BaseTypes DEF idup
<1>3. ic[s] \in Inode
  BY <1>1, BaseTypes
<1>4. /\ ic'[s].ref = ic[s].ref + 1 /\ ic'[s].inum = ic[s].inum /\ ic'[s].valid = ic[s].valid
      /\ ic'[s].type = ic[s].type /\ ic'[s].nlink = ic[s].nlink /\ ic'[s].lk = ic[s].lk
  BY <1>2, <1>3 DEF Inode
<1>5. \A z \in Slots : ic[z].ref > 0 /\ ~ Odd(z) /\ ic[z].valid =>
         ic[z].nlink = dn[ic[z].inum].nlink /\ ic[z].type = dn[ic[z].inum].type
  BY DEF Life, Cached, Odd, Num
<1>6. ic'[s].ref > 0
  BY <1>1, <1>4
<1>7. \A z \in Slots : z # s => ic'[z].lk = ic[z].lk /\ (ic'[z].ref > 0 <=> ic[z].ref > 0)
  BY <1>2
<1>8. CalmCache(ic', dn)
  <2>1. ic[s].ref > 0
    BY <1>1
  <2>2. \A z \in Slots : z # s => ic'[z] = ic[z]
    BY <1>2
  <2> QED
    BY <2>1, <2>2, <1>1, <1>4, <1>5, <1>6 DEF CalmCache
<1> QED
  BY <1>4, <1>7, <1>8

\* The locks are as they were.
LEMMA LocksSame ==
    ASSUME Base, Locks, NEW p \in Procs, \A z \in Slots : ic'[z].lk = ic[z].lk,
           Keeps(Top(k[p])) = NULL, KeepsRes(k'[p], res'[p]) = KeepsRes(k[p], res[p])
    PROVE  LockMove(p, Keeps(Top(k[p])), KeepsRes(k[p], res[p]), NULL, KeepsRes(k'[p], res'[p]))
<1>1. KeepsRes(k[p], res[p]) # NULL => ic[KeepsRes(k[p], res[p])].lk = p
  BY LockFacts
<1>2. NULL \notin Slots
  BY NullSlot
<1> QED
  BY <1>1, <1>2 DEF LockMove

\* A step of p that neither frees nor allocates.
LEMMA QuietStep ==
    ASSUME Base, Second, NEW p \in Procs, NEW m, NEW U, Turned(p, m, U), NEW y, KeepsNew(p, m, y),
           LockMove(p, Keeps(Top(k[p])), KeepsRes(k[p], res[p]), y, KeepsRes(k'[p], res'[p])),
           Others(res, res', p), Quiet(p), CalmCache(ic', dn'), CalmDisk(p, dn'),
           \A a \in U : RelyNew(a), TopNew(p), Links', ~halted'
    PROVE  Second'
<1>1. Locks'
  BY LocksTurn DEF Base, Second
<1>2. Life'
  BY QuietLife DEF Second
<1>3. Dirs'
  BY QuietDirs DEF Second
<1>4. Relying'
  BY QuietRely DEF Second
<1> QED
  BY <1>1, <1>2, <1>3, <1>4 DEF Second

\* The same if the disk is only read.
LEMMA ReadStep ==
    ASSUME Base, Second, NEW p \in Procs, NEW m, NEW U, Turned(p, m, U), NEW y, KeepsNew(p, m, y),
           LockMove(p, Keeps(Top(k[p])), KeepsRes(k[p], res[p]), y, KeepsRes(k'[p], res'[p])),
           Others(res, res', p), Top(k[p]).op \notin LifeOps,
           Top(k'[p]).op \notin {"free", "freed", "new"},
           dn' = dn, CalmCache(ic', dn), \A a \in U : RelyNew(a), TopNew(p), ~halted',
           \/ Pending(k'[p], ic') = Pending(k[p], ic)
           \/ Pending(k'[p], ic') = NULL
    PROVE  Second'
<1>1. Stay(p) /\ Quiet(p)
  BY DEF Quiet, Turned
<1>2. InumsKept
  BY DEF InumsKept, CalmCache
<1>3. CalmDisk(p, dn')
  BY CalmSame
<1>4. Links'
  BY <1>1, <1>2, LinksRead DEF Second
<1> QED
  BY <1>1, <1>3, <1>4, QuietStep

Counting == {"link2", "bad", "unlink3"}

\* The last instruction b of p after a step has counted what p had counted before.
CountsOn(p, b) == b.op \in Counting => ic'[b.s].inum = Pending(k[p], ic)

\* What p has counted after its first instruction has been replaced.
LEMMA PendingTurn ==
    ASSUME Base, Life, NEW p \in Procs, Stay(p), InumsKept, NEW b, CountsOn(p, b),
           \/ View(k'[p], 0) = View(k[p], 0)
           \/ View(k'[p], 0) = b
    PROVE  \/ Pending(k'[p], ic') = Pending(k[p], ic)
           \/ Pending(k'[p], ic') = NULL
<1>1. CASE View(k'[p], 0) = View(k[p], 0)
  BY <1>1, PendingKept
<1>2. CASE View(k'[p], 0) = b
  BY <1>2 DEF Pending, CountsOn, Counting
<1> QED
  BY <1>1, <1>2

\* A step that only reads and is done, ...
LEMMA Reads0 ==
    ASSUME Base, Second, NEW p \in Procs, k[p] # <<>>, Then(p, <<>>), Others(res, res', p),
           Top(k[p]).op \notin LifeOps, dn' = dn, CalmCache(ic', dn), ~halted', TopNew(p),
           LockMove(p, Keeps(Top(k[p])), KeepsRes(k[p], res[p]), NULL, KeepsRes(k'[p], res'[p]))
    PROVE  Second'
<1>1. PICK m : m = Len(k[p]) - 1
  OBVIOUS
<1>2. /\ Turned(p, m, {}) /\ KeepsNew(p, m, NULL)
      /\ Len(k[p]) > 1 => /\ View(k'[p], 0) = View(k[p], 0)
                          /\ Top(k'[p]) = k[p][2] /\ k[p][2].op \in Deep
      /\ ~ (Len(k[p]) > 1) => Top(k'[p]) = None /\ View(k'[p], 0) = None
  BY <1>1, Turn0
<1>3. Stay(p) /\ InumsKept
  BY <1>2 DEF Turned, InumsKept, CalmCache
<1>4. CountsOn(p, None)
  BY KeepsNone DEF CountsOn, Counting
<1>5. \/ Pending(k'[p], ic') = Pending(k[p], ic)
      \/ Pending(k'[p], ic') = NULL
  BY <1>2, <1>3, <1>4, PendingTurn DEF Second
<1>6. Top(k'[p]).op \notin {"free", "freed", "new"}
  <2>1. \A b : b.op \in Deep => b.op \notin {"free", "freed", "new"}
    BY DEF Deep, ToDir, ToFile, Ends
  <2> QED
    BY <2>1, <1>2, KeepsNone
<1>7. \A a \in {} : RelyNew(a)
  OBVIOUS
<1> QED
  BY <1>2, <1>5, <1>6, <1>7, ReadStep

\* ... goes on with a, ...
LEMMA Reads1 ==
    ASSUME Base, Second, NEW p \in Procs, k[p] # <<>>, NEW a, Fit1(a, k[p]), Then(p, <<a>>),
           Others(res, res', p), Top(k[p]).op \notin LifeOps, a.op \notin {"free", "freed", "new"},
           dn' = dn, CalmCache(ic', dn), ~halted', RelyNew(a), TopNew(p), CountsOn(p, a),
           LockMove(p, Keeps(Top(k[p])), KeepsRes(k[p], res[p]), Keeps(a), KeepsRes(k'[p], res'[p]))
    PROVE  Second'
<1>1. PICK m : m = Len(k[p]) - 1
  OBVIOUS
<1>2. /\ Turned(p, m, {a}) /\ KeepsNew(p, m, Keeps(a)) /\ Top(k'[p]) = a
      /\ Len(k[p]) > 1 => View(k'[p], 0) = View(k[p], 0)
      /\ ~ (Len(k[p]) > 1) => View(k'[p], 0) = a
  BY <1>1, Turn1
<1>3. Stay(p) /\ InumsKept
  BY <1>2 DEF Turned, InumsKept, CalmCache
<1>5. \/ Pending(k'[p], ic') = Pending(k[p], ic)
      \/ Pending(k'[p], ic') = NULL
  BY <1>2, <1>3, PendingTurn DEF Second
<1>6. Top(k'[p]).op \notin {"free", "freed", "new"}
  BY <1>2
<1>7. \A b \in {a} : RelyNew(b)
  OBVIOUS
<1> QED
  BY <1>2, <1>5, <1>6, <1>7, ReadStep

\* ... with a and b ...
LEMMA Reads2 ==
    ASSUME Base, Second, NEW p \in Procs, k[p] # <<>>, NEW a, NEW b, Fit2(a, b, k[p]),
           Then(p, <<a, b>>), Keeps(a) = NULL,
           Others(res, res', p), Top(k[p]).op \notin LifeOps, a.op \notin {"free", "freed", "new"},
           dn' = dn, CalmCache(ic', dn), ~halted', RelyNew(a), RelyNew(b), TopNew(p),
           CountsOn(p, b),
           LockMove(p, Keeps(Top(k[p])), KeepsRes(k[p], res[p]), Keeps(b), KeepsRes(k'[p], res'[p]))
    PROVE  Second'
<1>1. PICK m : m = Len(k[p]) - 1
  OBVIOUS
<1>2. /\ Turned(p, m, {a, b}) /\ KeepsNew(p, m, Keeps(b)) /\ Top(k'[p]) = a
      /\ Len(k[p]) > 1 => View(k'[p], 0) = View(k[p], 0)
      /\ ~ (Len(k[p]) > 1) => View(k'[p], 0) = b
  BY <1>1, Turn2
<1>3. Stay(p) /\ InumsKept
  BY <1>2 DEF Turned, InumsKept, CalmCache
<1>5. \/ Pending(k'[p], ic') = Pending(k[p], ic)
      \/ Pending(k'[p], ic') = NULL
  BY <1>2, <1>3, PendingTurn DEF Second
<1>6. Top(k'[p]).op \notin {"free", "freed", "new"}
  BY <1>2
<1>7. \A e \in {a, b} : RelyNew(e)
  OBVIOUS
<1> QED
  BY <1>2, <1>5, <1>6, <1>7, ReadStep

\* ... or with a, b and c.
LEMMA Reads3 ==
    ASSUME Base, Second, NEW p \in Procs, k[p] # <<>>, NEW a, NEW b, NEW c, Fit3(a, b, c, k[p]),
           Then(p, <<a, b, c>>), Keeps(a) = NULL, Keeps(c) = NULL,
           Others(res, res', p), Top(k[p]).op \notin LifeOps, a.op \notin {"free", "freed", "new"},
           dn' = dn, CalmCache(ic', dn), ~halted', RelyNew(a), RelyNew(b), RelyNew(c), TopNew(p),
           CountsOn(p, c),
           LockMove(p, Keeps(Top(k[p])), KeepsRes(k[p], res[p]), Keeps(b), KeepsRes(k'[p], res'[p]))
    PROVE  Second'
<1>1. PICK m : m = Len(k[p]) - 1
  OBVIOUS
<1>2. /\ Turned(p, m, {a, b, c}) /\ KeepsNew(p, m, Keeps(b)) /\ Top(k'[p]) = a
      /\ Len(k[p]) > 1 => View(k'[p], 0) = View(k[p], 0)
      /\ ~ (Len(k[p]) > 1) => View(k'[p], 0) = c
  BY <1>1, Turn3
<1>3. Stay(p) /\ InumsKept
  BY <1>2 DEF Turned, InumsKept, CalmCache
<1>5. \/ Pending(k'[p], ic') = Pending(k[p], ic)
      \/ Pending(k'[p], ic') = NULL
  BY <1>2, <1>3, PendingTurn DEF Second
<1>6. Top(k'[p]).op \notin {"free", "freed", "new"}
  BY <1>2
<1>7. \A e \in {a, b, c} : RelyNew(e)
  OBVIOUS
<1> QED
  BY <1>2, <1>5, <1>6, <1>7, ReadStep

\* Before a step: nothing is kept by the first instruction or the result of p.
Unkept(p) == Keeps(Top(k[p])) = NULL /\ KeepsRes(k[p], res[p]) = NULL

\* An instruction that keeps no lock and relies on nothing.
Light(a) == a.op \notin Keepers \cup TOps \cup Counting \cup ToDir \cup {"free", "freed", "new"}

\* What this says.
LEMMA LightFacts ==
    ASSUME NEW a, Light(a), NEW p
    PROVE  /\ Keeps(a) = NULL /\ RelyNew(a) /\ CountsOn(p, a) /\ a.op \notin {"free", "freed", "new"}
           /\ Top(k'[p]) = a => TopNew(p)
<1>1. a.op \notin Keepers /\ a.op \notin TOps /\ a.op \notin Counting /\ a.op \notin ToDir
      /\ a.op \notin {"free", "freed", "new"}
  BY DEF Light
<1>2. Keeps(a) = NULL
  BY <1>1 DEF Keeps
<1>3. RelyNew(a) /\ CountsOn(p, a)
  BY <1>1 DEF RelyNew, CountsOn, Counting
<1>4. a.op # "unlink2"
  BY <1>1 DEF TOps
<1>5. Top(k'[p]) = a => TopNew(p)
  BY <1>1, <1>4 DEF TopNew
<1> QED
  BY <1>1, <1>2, <1>3, <1>5

\* A step after which p has one such instruction and no locks.
LEMMA LightStep ==
    ASSUME Base, Second, NEW p \in Procs, k[p] # <<>>, NEW a, Fit1(a, k[p]), Then(p, <<a>>),
           Light(a), Others(res, res', p), Top(k[p]).op \notin LifeOps, Unkept(p),
           res'[p] = NULL \/ a.op \notin PutOps \cup Ends,
           dn' = dn, CalmCache(ic', dn), ~halted', \A z \in Slots : ic'[z].lk = ic[z].lk
    PROVE  Second'
<1>1. Keeps(a) = NULL /\ RelyNew(a) /\ CountsOn(p, a) /\ a.op \notin {"free", "freed", "new"}
  BY LightFacts
<1>2. Top(k'[p]) = a
  BY Turn1
<1>3. TopNew(p)
  BY <1>2, LightFacts
<1>4. KeepsRes(k'[p], res'[p]) = NULL
  BY <1>2 DEF KeepsRes
<1>5. LockMove(p, Keeps(Top(k[p])), KeepsRes(k[p], res[p]), NULL, KeepsRes(k'[p], res'[p]))
  BY <1>4, LocksSame DEF Second, Unkept
<1> QED
  BY <1>1, <1>3, <1>5, Reads1

\* It puts the inode.
LEMMA PutsStep ==
    ASSUME Base, Second, NEW p \in Procs, k[p] # <<>>, NEW s \in Slots, Then(p, <<Put(s)>>),
           Others(res, res', p), res'[p] = NULL, Top(k[p]).op \notin LifeOps, Unkept(p),
           dn' = dn, CalmCache(ic', dn), ~halted', \A z \in Slots : ic'[z].lk = ic[z].lk
    PROVE  Second'
<1>1. PICK a : a = Put(s)
  OBVIOUS
<1>2. Fit1(a, k[p])
  <2>1. "put" \in PutOps
    BY DEF PutOps
  <2> QED
    BY <1>1, <2>1, FitPut DEF Put
<1>3. a.op = "put"
  BY <1>1, PutWell
<1>4. Light(a)
  BY <1>3 DEF Light, Keepers, TOps, Counting, ToDir
<1>5. Then(p, <<a>>)
  BY <1>1
<1> QED
  BY <1>2, <1>4, <1>5, LightStep

\* It is done, and nothing is returned to the next one.
LEMMA EndsStep ==
    ASSUME Base, Second, NEW p \in Procs, k[p] # <<>>, Then(p, <<>>), Others(res, res', p),
           res'[p] = NULL, Top(k[p]).op \notin LifeOps, Unkept(p),
           dn' = dn, CalmCache(ic', dn), ~halted', \A z \in Slots : ic'[z].lk = ic[z].lk
    PROVE  Second'
<1>1. Top(k'[p]).op \in Deep \cup {"none"}
  BY Turn0, KeepsNone
<1>2. Top(k'[p]).op \notin TOps
  BY <1>1 DEF Deep, TOps, ToDir, ToFile, Ends
<1>3. TopNew(p)
  BY <1>2 DEF TopNew, TOps
<1>4. KeepsRes(k'[p], res'[p]) = NULL
  BY DEF KeepsRes
<1>5. LockMove(p, Keeps(Top(k[p])), KeepsRes(k[p], res[p]), NULL, KeepsRes(k'[p], res'[p]))
  BY <1>4, LocksSame DEF Second, Unkept
<1> QED
  BY <1>3, <1>5, Reads0
=============================================================================
