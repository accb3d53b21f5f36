------------------------------ MODULE FileData ------------------------------
(***************************************************************************)
(* The contents of files: block allocation, bmap, itrunc, readi and writei *)
(* (fs.c), read and write at a file offset (file.c), on an image that mkfs *)
(* (mkfs.c) has made.  The inode lock is held during readi and writei, so  *)
(* an action is one of them; filewrite() gives it up between its chunks.   *)
(*                                                                         *)
(* A cell stands for a byte, for a block number in an indirect block and   *)
(* for a directory entry; a block has BSIZE cells, so NINDIRECT = BSIZE.   *)
(***************************************************************************)
EXTENDS Integers, Sequences, FiniteSets, FiniteSetsExt, SequencesExt

CONSTANTS
    BSIZE, NDIRECT, FSSIZE,
    NLOG, NINODEBLOCKS, NBITMAP,   \* blocks of each area
    MAXOPBLOCKS,
    UINTMOD,       \* a uint is a number modulo UINTMOD
    Image,         \* sizes of the files that mkfs copies, in order
    Opens,         \* file structures; file f is open on inode Opens[f]
    Bytes,         \* values a process writes, all positive
    Sizes          \* bound: the n of reads and writes

NINDIRECT == BSIZE
MAXFILE   == NDIRECT + NINDIRECT
ROOTINO   == 1
Inodes     == 1..(Len(Image) + 1)
Cells     == 0..(BSIZE - 1)

VARIABLES
    fs,       \* ip: the inodes in memory; din: on disk; blk: the blocks;
              \* used: the bitmap; logged: what this transaction has logged
    file,     \* file structures: off; left and val of a write under way
    content   \* what was written to each inode (for the properties)

vars == <<fs, file, content>>

-----------------------------------------------------------------------------
(* mkfs                                                                     *)

nmeta == 2 + NLOG + NINODEBLOCKS + NBITMAP

\* The blocks of the inodes and of the bitmap, one each here.
IBLOCK == 2 + NLOG
BBLOCK == 2 + NLOG + NINODEBLOCKS

Empty == [addrs |-> [a \in 0..NDIRECT |-> 0], size |-> 0]

\* iappend() of one cell; m holds the image and freeblock.
Iappend(m, i, v) ==
    LET din == m.din[i]
        fbn == din.size \div BSIZE
        ind == din.addrs[NDIRECT]
        direct == fbn < NDIRECT
        \* the indirect block, then the data block
        free1 == m.free + (IF ~direct /\ ind = 0 THEN 1 ELSE 0)
        ind1 == IF ~direct /\ ind = 0 THEN m.free ELSE ind
        old == IF direct THEN din.addrs[fbn] ELSE m.blk[ind1][fbn - NDIRECT]
        x == IF old = 0 THEN free1 ELSE old
        addrs == IF direct THEN [din.addrs EXCEPT ![fbn] = x]
                 ELSE [din.addrs EXCEPT ![NDIRECT] = ind1]
        blk == IF direct THEN m.blk ELSE [m.blk EXCEPT ![ind1][fbn - NDIRECT] = x]
    IN  [m EXCEPT !.free = IF old = 0 THEN free1 + 1 ELSE free1,
                  !.din[i] = [addrs |-> addrs, size |-> din.size + 1],
                  !.blk = [blk EXCEPT ![x][din.size % BSIZE] = v]]

\* The cells that main() appends, as pairs of inode and value: "." and "..",
\* then for each file its entry and its bytes.
Appends ==
    <<<<ROOTINO, ROOTINO>>, <<ROOTINO, ROOTINO>>>> \o
    FlattenSeq([j \in DOMAIN Image |->
                  <<<<ROOTINO, j + 1>>>> \o [b \in 1..Image[j] |-> <<j + 1, j + 1>>]])

Mkfs ==
    LET start == [free |-> nmeta, din |-> [i \in Inodes |-> Empty],
                  blk |-> [b \in 0..(FSSIZE - 1) |-> [c \in Cells |-> 0]]]
        m == FoldLeft(LAMBDA a, x : Iappend(a, x[1], x[2]), start, Appends)
    IN  \* "fix size of root inode dir", then the bitmap
        [m EXCEPT !.din[ROOTINO].size = (@ \div BSIZE + 1) * BSIZE]

Init ==
    /\ fs = [ip |-> Mkfs.din, din |-> Mkfs.din, blk |-> Mkfs.blk,
             used |-> 0..(Mkfs.free - 1), logged |-> {}]
    /\ file = [f \in DOMAIN Opens |-> [off |-> 0, left |-> 0, val |-> 0]]
    /\ content = [i \in Inodes |->
         IF i = ROOTINO
         THEN LET names == <<ROOTINO, ROOTINO>> \o [j \in DOMAIN Image |-> j + 1]
              IN  [c \in 1..Mkfs.din[i].size |-> IF c <= Len(names) THEN names[c] ELSE 0]
         ELSE [c \in 1..Image[i - 1] |-> i]]

-----------------------------------------------------------------------------
(* Blocks.  An operation takes the file system s and returns it changed.    *)

FreeBlocks(s) == (0..(FSSIZE - 1)) \ s.used

\* balloc() with bzero(): the bitmap block and the block itself are logged.
Balloc(s) ==
    LET b == Min(FreeBlocks(s)) IN
    [s EXCEPT !.used = @ \cup {b}, !.blk[b] = [c \in Cells |-> 0],
              !.logged = @ \cup {BBLOCK, b}]

Bfree(s, b) == [s EXCEPT !.used = @ \ {b}, !.logged = @ \cup {BBLOCK}]

Iupdate(s, i) == [s EXCEPT !.din[i] = s.ip[i], !.logged = @ \cup {IBLOCK}]

-----------------------------------------------------------------------------
(* bmap                                                                     *)

\* The block number in addrs[a], allocated if it is missing.
Direct(s, i, a) ==
    IF s.ip[i].addrs[a] # 0 THEN s
    ELSE [Balloc(s) EXCEPT !.ip[i].addrs[a] = Min(FreeBlocks(s))]

\* The same for entry e of the indirect block x.
Indirect(s, x, e) ==
    IF s.blk[x][e] # 0 THEN s
    ELSE [Balloc(s) EXCEPT !.blk[x][e] = Min(FreeBlocks(s)),
                           !.logged = @ \cup {x}]

\* Fault: the index into the indirect block is not reduced by NDIRECT.
bmapShift(s, i, bn) ==
    IF bn < NDIRECT
    THEN LET s1 == Direct(s, i, bn) IN [s |-> s1, addr |-> s1.ip[i].addrs[bn]]
    ELSE LET s1 == Direct(s, i, NDIRECT)
             x  == s1.ip[i].addrs[NDIRECT]
             e  == bn % NINDIRECT
             s2 == Indirect(s1, x, e)
         IN  [s |-> s2, addr |-> s2.blk[x][IF e = 0 THEN 0 ELSE e - 1]]

bmap(s, i, bn) ==
    IF bn < NDIRECT
    THEN LET s1 == Direct(s, i, bn) IN [s |-> s1, addr |-> s1.ip[i].addrs[bn]]
    ELSE LET s1 == Direct(s, i, NDIRECT)
             x  == s1.ip[i].addrs[NDIRECT]
             s2 == Indirect(s1, x, bn - NDIRECT)
         IN  [s |-> s2, addr |-> s2.blk[x][bn - NDIRECT]]

\* Fault: the indirect block is freed, the blocks it lists are not.
itruncShallow(s, i) ==
    LET addrs == {s.ip[i].addrs[a] : a \in 0..NDIRECT} \ {0}
    IN  Iupdate([FoldLeft(Bfree, s, SetToSeq(addrs)) EXCEPT !.ip[i] = Empty], i)

itrunc(s, i) ==
    LET addrs == {s.ip[i].addrs[a] : a \in 0..NDIRECT} \ {0}
        ind == s.ip[i].addrs[NDIRECT]
        listed == IF ind = 0 THEN {} ELSE {s.blk[ind][e] : e \in Cells} \ {0}
    IN  Iupdate([FoldLeft(Bfree, s, SetToSeq(addrs \cup listed)) EXCEPT !.ip[i] = Empty], i)

-----------------------------------------------------------------------------
(* readi and writei                                                         *)

\* off + n as a uint, and the test both calls start with.
Plus(off, n) == (off + n) % UINTMOD
BadRange(s, i, off, n) == off > s.ip[i].size \/ Plus(off, n) < off

\* The turns of the copy loop: block number and the part of the file in it.
Turns(off, n) ==
    IF n = 0 THEN <<>>
    ELSE [t \in 1..((off + n - 1) \div BSIZE - off \div BSIZE + 1) |->
            LET bn == off \div BSIZE + t - 1 IN
            [bn |-> bn, from |-> Max({off, bn * BSIZE}),
             to |-> Min({off + n, (bn + 1) * BSIZE}) - 1]]

readi(s, i, off, n) ==
    IF BadRange(s, i, off, n) THEN [s |-> s, ret |-> -1, data |-> <<>>]
    ELSE LET m == IF Plus(off, n) > s.ip[i].size THEN s.ip[i].size - off ELSE n
             turn(a, t) ==
               LET r == bmap(a.s, i, t.bn) IN
               [s |-> r.s,
                data |-> a.data \o [c \in 1..(t.to - t.from + 1) |->
                                      r.s.blk[r.addr][(t.from + c - 1) % BSIZE]]]
             e == FoldLeft(turn, [s |-> s, data |-> <<>>], Turns(off, m))
         IN  [s |-> e.s, ret |-> m, data |-> e.data]

\* Fault: the size in memory is not written to disk.
writeiLazy(s, i, off, n, v) ==
    IF BadRange(s, i, off, n) \/ Plus(off, n) > MAXFILE * BSIZE
    THEN [s |-> s, ret |-> -1]
    ELSE LET turn(a, t) ==
               LET r == bmap(a, i, t.bn) IN
               [r.s EXCEPT !.blk[r.addr] =
                               [c \in Cells |-> IF t.bn * BSIZE + c \in t.from..t.to
                                                THEN v ELSE @[c]],
                           !.logged = @ \cup {r.addr}]
             e == FoldLeft(turn, s, Turns(off, n))
         IN  [s |-> IF n > 0 /\ off + n > s.ip[i].size
                    THEN [e EXCEPT !.ip[i].size = off + n] ELSE e,
              ret |-> n]

\* writei() of n cells of value v.
writei(s, i, off, n, v) ==
    IF BadRange(s, i, off, n) \/ Plus(off, n) > MAXFILE * BSIZE
    THEN [s |-> s, ret |-> -1]
    ELSE LET turn(a, t) ==
               LET r == bmap(a, i, t.bn) IN
               [r.s EXCEPT !.blk[r.addr] =
                               [c \in Cells |-> IF t.bn * BSIZE + c \in t.from..t.to
                                                THEN v ELSE @[c]],
                           !.logged = @ \cup {r.addr}]
             e == FoldLeft(turn, s, Turns(off, n))
         IN  [s |-> IF n > 0 /\ off + n > s.ip[i].size
                    THEN Iupdate([e EXCEPT !.ip[i].size = off + n], i) ELSE e,
              ret |-> n]

-----------------------------------------------------------------------------
(* fileread, filewrite                                                      *)

\* begin_op(): a new transaction.
Begin(s) == [s EXCEPT !.logged = {}]

\* A process that shares the file may read it between the chunks of a write.
FileRead(f, n) ==
    /\ LET r == readi(fs, Opens[f], file[f].off, n) IN
       /\ fs' = r.s
       /\ file' = [file EXCEPT ![f].off = IF r.ret > 0 THEN @ + r.ret ELSE @]
    /\ UNCHANGED content

FileWrite(f, n, v) ==
    /\ file[f].left = 0
    /\ file' = [file EXCEPT ![f].left = n, ![f].val = v]
    /\ UNCHANGED <<fs, content>>

\* Fault: no allowance for the bitmap blocks and for a write that is not aligned.
ChunkMaxAll == (MAXOPBLOCKS - 1 - 1) * BSIZE

ChunkMax == ((MAXOPBLOCKS - 1 - 1 - 2) \div 2) * BSIZE

\* The file of inode i after n cells of value v at offset off.
Overwritten(i, off, n, v) ==
    [c \in 1..Max({Len(content[i]), off + n}) |->
       IF c \in (off + 1)..(off + n) THEN v ELSE content[i][c]]

\* One turn of the loop of filewrite(); it ends at the first error.
FileWriteChunk(f) ==
    /\ file[f].left > 0
    /\ LET i  == Opens[f]
           n1 == Min({file[f].left, ChunkMax})
           r  == writei(Begin(fs), i, file[f].off, n1, file[f].val)
       IN  /\ fs' = r.s
           /\ file' = [file EXCEPT ![f] = IF r.ret < 0
                         THEN [@ EXCEPT !.left = 0, !.val = 0]
                         ELSE [@ EXCEPT !.off = @ + n1, !.left = @ - n1,
                                        !.val = IF file[f].left = n1 THEN 0 ELSE @]]
           /\ content' = IF r.ret < 0 THEN content
                         ELSE [content EXCEPT ![i] = Overwritten(i, file[f].off, n1,
                                                                file[f].val)]

\* The file is closed and opened again: the inode comes from disk.
Reopen(f) ==
    /\ file[f].left = 0
    /\ file' = [file EXCEPT ![f].off = 0]
    /\ fs' = [fs EXCEPT !.ip[Opens[f]] = fs.din[Opens[f]], !.logged = {}]
    /\ UNCHANGED content

\* iput() of an unlinked file; the inode is then used for a new one.
Trunc(i) ==
    /\ i # ROOTINO /\ fs.ip[i].size > 0
    /\ \A f \in DOMAIN Opens : Opens[f] = i => file[f].left = 0 /\ file[f].off = 0
    /\ fs' = itrunc(Begin(fs), i)
    /\ content' = [content EXCEPT ![i] = <<>>]
    /\ UNCHANGED file

Next ==
    \/ \E f \in DOMAIN Opens : \/ FileWriteChunk(f) \/ Reopen(f)
                               \/ \E n \in Sizes : FileRead(f, n)
                               \/ \E n \in Sizes, v \in Bytes : FileWrite(f, n, v)
    \/ \E i \in Inodes : Trunc(i)

Spec == Init /\ [][Next]_vars
-----------------------------------------------------------------------------
(* Properties.                                                              *)

\* Every read, at any offset and of any length, returns what was written there
\* last, and reading changes nothing: it allocates no block, which would need a
\* transaction.
ReadsWritten ==
    \A i \in Inodes : LET len == Len(content[i]) IN
       /\ fs.ip[i].size = len
       /\ \A off \in 0..len : \A n \in 0..(len - off + 1) :
             LET r == readi(fs, i, off, n) IN
             /\ r.data = SubSeq(content[i], off + 1, Min({off + n, len}))
             /\ r.s = fs

\* The blocks of inode i with the number of times it refers to each of them.
Refers(i, b) ==
    Cardinality({a \in 0..NDIRECT : fs.ip[i].addrs[a] = b})
    + IF fs.ip[i].addrs[NDIRECT] = 0 THEN 0
      ELSE Cardinality({e \in Cells : fs.blk[fs.ip[i].addrs[NDIRECT]][e] = b})

\* Every block is free, metadata, or belongs to exactly one place of one inode,
\* and the bitmap says so: none is lost, none is shared.
BlocksRight ==
    \A b \in nmeta..(FSSIZE - 1) :
       MapThenSumSet(LAMBDA i : Refers(i, b), Inodes) = IF b \in fs.used THEN 1 ELSE 0

\* What a call has changed in an inode is on disk when it returns ("i-node cache
\* is write-through"), so that closing a file or a crash loses nothing of it.
WriteThrough == fs.ip = fs.din

\* A chunk of filewrite() logs no more blocks than its transaction reserves,
\* wherever in the file it falls.
ChunkFits == Cardinality(fs.logged) <= MAXOPBLOCKS

\* Reads return what was written, and what was written is not in memory only.
DataRight == ReadsWritten /\ WriteThrough
=============================================================================
