------------------------------- MODULE Files -------------------------------
(***************************************************************************)
(* The inode cache, directories and path names (fs.c), the file table      *)
(* (file.c) and the system calls on them (sysfile.c), run by several       *)
(* processes at once.                                                      *)
(*                                                                         *)
(* A process runs a list of instructions, the calls it has still to make;  *)
(* each holds the inodes it owns a reference to.  An action runs the first *)
(* one.  It is as long as the code allows another process to be locked     *)
(* out: a section that takes one sleep lock, uses icache.lock or an inode  *)
(* block once and gives the lock back is one action; where a second lock   *)
(* is waited for with the first one held there are two.  Waiting for a     *)
(* sleep lock is a guard (the lock itself is in Bcache).                   *)
(***************************************************************************)
EXTENDS Integers, Sequences, FiniteSets, SequencesExt

CONSTANTS
    Procs,
    Names,       \* names of directory entries, without "." and ".."
    Inums,       \* inode numbers from ROOTINO = 1
    NINODE, NFILE, NOFILE,
    Image,       \* the files that mkfs has put in the root directory
    Calls,       \* bound: the system calls that each process makes
    MaxCalls,    \* bound: how many of them
    NoProc

Slots   == 1..NINODE
NULL    == 0
ROOTINO == 1

ASSUME FilesAssumption ==
    /\ ROOTINO \in Inums /\ NULL \notin Inums
    /\ Inums \subseteq Nat /\ IsFiniteSet(Inums) /\ IsFiniteSet(Procs)
    /\ IsFiniteSet(Names)
    /\ NINODE \in Nat \ {0} /\ NFILE \in Nat /\ NOFILE \in Nat /\ MaxCalls \in [Procs -> Nat]
    /\ NoProc \notin Procs /\ Names \cap {".", "..", "/"} = {}
    /\ Image \subseteq Names
    /\ \E m \in [Image -> Inums \ {ROOTINO}] : \A a, b \in Image : m[a] = m[b] => a = b

\* The calls, with the paths that they are given: a "/" only in front.
IsPath(q) == /\ q \in Seq(Names \cup {".", "..", "/"}) /\ q # <<>>
             /\ \A j \in 2..Len(q) : q[j] # "/"
PathCalls  == {"creat", "mkdir", "mknod", "open", "unlink", "link", "chdir"}
OtherCalls == {"close", "dup", "fork", "exit"}

ASSUME CallsAssumption ==
    \A p \in Procs : \A c \in Calls[p] :
       /\ c.op \in PathCalls \cup OtherCalls /\ c.arg \in {"", "r", "w"}
       /\ c.op \in PathCalls => IsPath(c.path)
       /\ c.op = "link" => IsPath(c.new)
       /\ c.op \in OtherCalls => c.path = <<>>

VARIABLES
    ic,      \* icache.inode: inum, ref, valid, type, nlink, owner of the lock
    dn,      \* the inodes on disk: type, nlink, and the entries of a directory
    ft,      \* ftable.file: ref and ip
    ofile,   \* p->ofile
    cwd,     \* p->cwd, NULL for a process that has exited
    k,       \* the instructions of each process
    res,     \* what namex() or create() has returned, with its reference
    todo,    \* calls left
    halted   \* a panic

vars == <<ic, dn, ft, ofile, cwd, k, res, todo, halted>>

Entries == Names \cup {".", ".."}
NoEntries == [n \in Entries |-> NULL]
Dots(i, parent) == [NoEntries EXCEPT !["."] = i, ![".."] = parent]

\* An instruction: inodes s and t, a path, a type or a mode.
Ins(op, s, t, path, arg) ==
    [op |-> op, s |-> s, t |-> t, path |-> path, arg |-> arg]
Put(s)    == Ins("put", s, NULL, <<>>, "")
Unlock(s) == Ins("unlockput", s, NULL, <<>>, "")
Namex(path, mode) == Ins("namex", NULL, NULL, path, mode)

\* The file of each name that mkfs has made.
ImageInum == CHOOSE m \in [Image -> Inums \ {ROOTINO}] :
                \A a, b \in Image : m[a] = m[b] => a = b

\* mkfs has made the root directory; every process starts in it.
Init ==
    /\ ic = [s \in Slots |->
               [inum  |-> IF s = 1 THEN ROOTINO ELSE NULL,
                ref   |-> IF s = 1 THEN Cardinality(Procs) ELSE 0,
                valid |-> FALSE, type |-> "FREE", nlink |-> 0, lk |-> NoProc]]
    /\ dn = [i \in Inums |->
               IF i = ROOTINO
               THEN [type |-> "DIR", nlink |-> 1,
                     ents |-> [n \in Entries |-> IF n \in Image THEN ImageInum[n]
                                                 ELSE Dots(i, i)[n]]]
               ELSE [type  |-> IF \E n \in Image : ImageInum[n] = i THEN "FILE" ELSE "FREE",
                     nlink |-> IF \E n \in Image : ImageInum[n] = i THEN 1 ELSE 0,
                     ents  |-> NoEntries]]
    /\ ft = [f \in 1..NFILE |-> [ref |-> 0, ip |-> NULL]]
    /\ ofile = [p \in Procs |-> [d \in 1..NOFILE |-> NULL]]
    /\ cwd = [p \in Procs |-> 1]
    /\ k = [p \in Procs |-> <<>>] /\ res = [p \in Procs |-> NULL]
    /\ todo = MaxCalls
    /\ halted = FALSE

-----------------------------------------------------------------------------
(* Running instructions.                                                    *)

On(p, op) == ~halted /\ k[p] # <<>> /\ Head(k[p]).op = op
Arg(p)    == Head(k[p])
Then(p, prog) == k' = [k EXCEPT ![p] = prog \o Tail(@)]
Return(p, s)  == res' = [res EXCEPT ![p] = s]

files == <<ft, ofile, cwd, todo>>

-----------------------------------------------------------------------------
(* The inode cache.                                                         *)

\* The slot iget() returns for inode i, NULL if all are taken.
SlotOf(c, i) ==
    LET hit  == {s \in Slots : c[s].ref > 0 /\ c[s].inum = i}
        free == {s \in Slots : c[s].ref = 0}
    IN  IF hit # {} THEN CHOOSE s \in hit : TRUE
        ELSE IF free = {} THEN NULL
        ELSE CHOOSE s \in free : \A t \in free : s <= t

\* iget() panics if all slots are taken; the model does not follow a call further.
HasSlot(i) == SlotOf(ic, i) # NULL

\* Fault: an entry that is cached, but not referenced, is taken as it is.
IgetStale(c, i) ==
    LET s == SlotOf(c, i) IN
    IF c[s].inum = i THEN [c EXCEPT ![s].ref = @ + 1]
    ELSE [c EXCEPT ![s] = [@ EXCEPT !.inum = i, !.ref = 1]]

iget(c, i) ==
    LET s == SlotOf(c, i) IN
    IF c[s].ref > 0 THEN [c EXCEPT ![s].ref = @ + 1]
    ELSE [c EXCEPT ![s] = [@ EXCEPT !.inum = i, !.ref = 1, !.valid = FALSE]]

idup(c, s) == [c EXCEPT ![s].ref = @ + 1]

\* The inode as it is after ilock() has read it from disk if need be.
Loaded(s) ==
    IF ic[s].valid THEN ic[s]
    ELSE [ic[s] EXCEPT !.valid = TRUE, !.type = dn[ic[s].inum].type,
                       !.nlink = dn[ic[s].inum].nlink]

Lockable(s) == ic[s].lk = NoProc

\* ilock() panics.
NoType(s) == Loaded(s).type = "FREE" \/ ic[s].ref < 1

Load(s, q) == [ic EXCEPT ![s] = [Loaded(s) EXCEPT !.lk = q]]

\* iupdate() after nlink of inode s has changed by n.
AddLinks(c, s, n) == [c EXCEPT ![s].nlink = @ + n]

\* Fault: nlink is not written.
IupdateType(c, s) == [dn EXCEPT ![c[s].inum].type = c[s].type]

Iupdate(c, s) == [dn EXCEPT ![c[s].inum].nlink = c[s].nlink,
                            ![c[s].inum].type = c[s].type]

-----------------------------------------------------------------------------
(* iput                                                                     *)

\* Fault: ref is not looked at.
IputAlways(p) ==
    /\ On(p, "put") /\ Lockable(Arg(p).s)
    /\ LET s == Arg(p).s IN
       IF ic[s].valid /\ ic[s].nlink = 0
       THEN /\ ic' = [ic EXCEPT ![s].lk = p]
            /\ Then(p, <<Ins("free", s, NULL, <<>>, "")>>)
       ELSE ic' = ic /\ Then(p, <<Ins("dec", s, NULL, <<>>, "")>>)
    /\ UNCHANGED <<dn, files, res, halted>>

\* Take the lock, test, and give it back unless the inode is to be freed.
Iput(p) ==
    /\ On(p, "put") /\ Lockable(Arg(p).s)
    /\ LET s == Arg(p).s IN
       IF ic[s].valid /\ ic[s].nlink = 0 /\ ic[s].ref = 1
       THEN /\ ic' = [ic EXCEPT ![s].lk = p]
            /\ Then(p, <<Ins("free", s, NULL, <<>>, "")>>)
       ELSE ic' = ic /\ Then(p, <<Ins("dec", s, NULL, <<>>, "")>>)
    /\ UNCHANGED <<dn, files, res, halted>>

\* itrunc(), type = 0 and iupdate(): from here on ialloc() may take the inode.
IputFree(p) ==
    /\ On(p, "free")
    /\ LET i == ic[Arg(p).s].inum IN
       dn' = [dn EXCEPT ![i] = [@ EXCEPT !.type = "FREE", !.ents = NoEntries]]
    /\ Then(p, <<Ins("freed", Arg(p).s, NULL, <<>>, "")>>)
    /\ UNCHANGED <<ic, files, res, halted>>

IputFreed(p) ==
    /\ On(p, "freed")
    /\ ic' = [ic EXCEPT ![Arg(p).s] = [@ EXCEPT !.type = "FREE", !.valid = FALSE,
                                                !.lk = NoProc]]
    /\ Then(p, <<Ins("dec", Arg(p).s, NULL, <<>>, "")>>)
    /\ UNCHANGED <<dn, files, res, halted>>

IputDec(p) ==
    /\ On(p, "dec")
    /\ ic' = [ic EXCEPT ![Arg(p).s].ref = @ - 1]
    /\ Then(p, <<>>)
    /\ UNCHANGED <<dn, files, res, halted>>

\* iunlockput(): first iunlock().
Iunlockput(p) ==
    /\ On(p, "unlockput")
    /\ ic' = [ic EXCEPT ![Arg(p).s].lk = NoProc]
    /\ Then(p, <<Put(Arg(p).s)>>)
    /\ UNCHANGED <<dn, files, res, halted>>

-----------------------------------------------------------------------------
(* namex, for namei ("file") and nameiparent ("parent").                    *)

NamexStart(p) ==
    /\ On(p, "namex")
    /\ LET path == Arg(p).path
           abs  == path[1] = "/"
           c    == IF abs THEN iget(ic, ROOTINO) ELSE idup(ic, cwd[p])
           s    == IF abs THEN SlotOf(ic, ROOTINO) ELSE cwd[p]
       IN  /\ abs => HasSlot(ROOTINO)
           /\ ic' = c
           /\ Then(p, <<Ins("walk", s, NULL, IF abs THEN Tail(path) ELSE path,
                            Arg(p).arg)>>)
    /\ UNCHANGED <<dn, files, res, halted>>

\* The inode number of an entry of directory dp, NULL if there is none.
dirlookup(dp, name) == dn[ic[dp].inum].ents[name]

\* No element is left.
NamexEnd(p) ==
    /\ On(p, "walk") /\ Arg(p).path = <<>>
    /\ IF Arg(p).arg = "parent" THEN Return(p, NULL) /\ Then(p, <<Put(Arg(p).s)>>)
                                ELSE Return(p, Arg(p).s) /\ Then(p, <<>>)
    /\ UNCHANGED <<ic, dn, files, halted>>

\* One turn of the loop: ilock, dirlookup with its iget, iunlock.
NamexStep(p) ==
    /\ On(p, "walk") /\ Arg(p).path # <<>> /\ Lockable(Arg(p).s)
    /\ LET s == Arg(p).s
           path == Arg(p).path
           next == dirlookup(s, Head(path))
           c == Load(s, NoProc)
       IN  IF c[s].type # "DIR"
           THEN ic' = c /\ Return(p, NULL) /\ Then(p, <<Put(s)>>)
           ELSE IF Arg(p).arg = "parent" /\ Len(path) = 1
           THEN ic' = c /\ Return(p, s) /\ Then(p, <<>>)
           ELSE IF next = NULL
           THEN ic' = c /\ Return(p, NULL) /\ Then(p, <<Put(s)>>)
           ELSE /\ HasSlot(next) /\ ic' = iget(c, next) /\ UNCHANGED res
                /\ Then(p, <<Put(s), Ins("walk", SlotOf(c, next), NULL,
                                         Tail(path), Arg(p).arg)>>)
    /\ halted' = NoType(Arg(p).s)
    /\ UNCHANGED <<dn, files>>

\* A call whose namex() or create() has failed ends.
Failed(p) ==
    /\ k[p] # <<>> /\ res[p] = NULL /\ ~halted
    /\ \/ On(p, "unlink") \/ On(p, "link1") \/ On(p, "open") \/ On(p, "made")
       \/ On(p, "create") \/ On(p, "opened") \/ On(p, "chdir")
    /\ Then(p, <<>>)
    /\ UNCHANGED <<ic, dn, files, res, halted>>

-----------------------------------------------------------------------------
(* sys_link                                                                 *)

\* Fault: the inode stays locked while the new name is walked to.
Link1Locked(p) ==
    /\ On(p, "link1") /\ res[p] # NULL /\ Lockable(res[p])
    /\ LET ip == res[p]
           c  == Load(ip, p)
       IN  /\ ic' = AddLinks(c, ip, 1) /\ dn' = Iupdate(ic', ip)
           /\ Then(p, <<Namex(Arg(p).path, "parent"),
                        Ins("link2", ip, NULL, Arg(p).path, "")>>)
    /\ halted' = NoType(res[p])
    /\ Return(p, NULL)
    /\ UNCHANGED files

\* nlink goes up before the new entry exists.
Link1(p) ==
    /\ On(p, "link1") /\ res[p] # NULL /\ Lockable(res[p])
    /\ LET ip == res[p]
           c  == Load(ip, NoProc)
       IN  IF c[ip].type = "DIR"
           THEN ic' = c /\ UNCHANGED dn /\ Then(p, <<Put(ip)>>)
           ELSE /\ ic' = AddLinks(c, ip, 1) /\ dn' = Iupdate(ic', ip)
                /\ Then(p, <<Namex(Arg(p).path, "parent"),
                             Ins("link2", ip, NULL, Arg(p).path, "")>>)
    /\ halted' = NoType(res[p])
    /\ Return(p, NULL)
    /\ UNCHANGED files

\* The parent of the new name is not there: goto bad.
Link2Fail(p) ==
    /\ On(p, "link2") /\ res[p] = NULL
    /\ Then(p, <<Ins("bad", Arg(p).s, NULL, <<>>, "")>>)
    /\ UNCHANGED <<ic, dn, files, res, halted>>

\* dirlink(): if the name exists its inode is put with dp still locked.
Link2(p) ==
    /\ On(p, "link2") /\ res[p] # NULL /\ Lockable(res[p])
    /\ LET dp == res[p]
           ip == Arg(p).s
           name == Last(Arg(p).path)
           old == dirlookup(dp, name)
       IN  IF old # NULL
           THEN /\ HasSlot(old) /\ ic' = iget(Load(dp, p), old) /\ UNCHANGED dn
                /\ Then(p, <<Put(SlotOf(ic, old)), Unlock(dp),
                             Ins("bad", ip, NULL, <<>>, "")>>)
           ELSE /\ ic' = Load(dp, NoProc)
                /\ dn' = [dn EXCEPT ![ic[dp].inum].ents[name] = ic[ip].inum]
                /\ Then(p, <<Put(dp), Put(ip)>>)
    /\ halted' = NoType(res[p])
    /\ Return(p, NULL)
    /\ UNCHANGED files

LinkBad(p) ==
    /\ On(p, "bad") /\ Lockable(Arg(p).s)
    /\ ic' = AddLinks(Load(Arg(p).s, NoProc), Arg(p).s, -1)
    /\ dn' = Iupdate(ic', Arg(p).s)
    /\ Then(p, <<Put(Arg(p).s)>>)
    /\ halted' = NoType(Arg(p).s)
    /\ UNCHANGED <<files, res>>

-----------------------------------------------------------------------------
(* sys_unlink                                                               *)

isdirempty(i) == \A n \in Names : dn[i].ents[n] = NULL

\* Lock the parent and look the name up; "." and ".." cannot be unlinked.
Unlink1(p) ==
    /\ On(p, "unlink") /\ res[p] # NULL /\ Lockable(res[p])
    /\ LET dp == res[p]
           name == Last(Arg(p).path)
           i == dirlookup(dp, name)
       IN  IF name \in {".", ".."} \/ i = NULL
           THEN ic' = Load(dp, NoProc) /\ Then(p, <<Put(dp)>>)
           ELSE /\ HasSlot(i) /\ ic' = iget(Load(dp, p), i)
                /\ Then(p, <<Ins("unlink2", SlotOf(ic, i), dp, <<name>>, "")>>)
    /\ halted' = NoType(res[p])
    /\ Return(p, NULL)
    /\ UNCHANGED <<dn, files>>

\* With both locks: clear the entry, then give the parent back (iunlockput)
\* while the inode stays locked.
Unlink2(p) ==
    /\ On(p, "unlink2") /\ Lockable(Arg(p).s)
    /\ LET ip == Arg(p).s
           dp == Arg(p).t
           c == Load(ip, p)
           dir == c[ip].type = "DIR"
       IN  /\ halted' = (NoType(ip) \/ c[ip].nlink < 1)
           /\ IF dir /\ ~isdirempty(ic[ip].inum)
              THEN /\ ic' = Load(ip, NoProc) /\ UNCHANGED dn
                   /\ Then(p, <<Put(ip), Unlock(dp)>>)
              ELSE LET c1 == AddLinks([c EXCEPT ![dp].lk = NoProc], dp,
                                      IF dir THEN -1 ELSE 0)
                   IN  /\ ic' = c1
                       /\ dn' = [Iupdate(c1, dp) EXCEPT
                                   ![c[dp].inum].ents[Arg(p).path[1]] = NULL]
                       /\ Then(p, <<Put(dp), Ins("unlink3", ip, NULL, <<>>, "")>>)
    /\ UNCHANGED <<files, res>>

Unlink3(p) ==
    /\ On(p, "unlink3")
    /\ ic' = [AddLinks(ic, Arg(p).s, -1) EXCEPT ![Arg(p).s].lk = NoProc]
    /\ dn' = Iupdate(ic', Arg(p).s)
    /\ Then(p, <<Put(Arg(p).s)>>)
    /\ UNCHANGED <<files, res, halted>>

-----------------------------------------------------------------------------
(* create, and the calls that use it                                        *)

FreeInums == {i \in Inums : dn[i].type = "FREE"}

\* The name exists: its inode is looked at after dp has been unlocked.
CreateFound(p) ==
    /\ On(p, "create") /\ res[p] # NULL /\ Lockable(res[p])
    /\ LET dp == res[p]
           i == dirlookup(dp, Last(Arg(p).path))
       IN  /\ i # NULL /\ HasSlot(i)
           /\ ic' = iget(Load(dp, NoProc), i)
           /\ Then(p, <<Put(dp), Ins("exists", SlotOf(ic, i), NULL, <<>>, Arg(p).arg)>>)
    /\ halted' = NoType(res[p])
    /\ Return(p, NULL)
    /\ UNCHANGED <<dn, files>>

\* An existing file is returned locked, anything else is an error.
CreateExists(p) ==
    /\ On(p, "exists") /\ Lockable(Arg(p).s)
    /\ LET ip == Arg(p).s IN
       IF Arg(p).arg = "FILE" /\ Loaded(ip).type = "FILE"
       THEN ic' = Load(ip, p) /\ Return(p, ip) /\ Then(p, <<>>)
       ELSE ic' = Load(ip, NoProc) /\ Return(p, NULL) /\ Then(p, <<Put(ip)>>)
    /\ halted' = NoType(Arg(p).s)
    /\ UNCHANGED <<dn, files>>

\* ialloc(), with its iget(), while dp is locked.
CreateAlloc(p) ==
    /\ On(p, "create") /\ res[p] # NULL /\ Lockable(res[p]) /\ FreeInums # {}
    /\ LET dp == res[p]
           name == Last(Arg(p).path)
           i == CHOOSE x \in FreeInums : \A y \in FreeInums : x <= y
       IN  /\ dirlookup(dp, name) = NULL /\ HasSlot(i)
           /\ dn' = [dn EXCEPT ![i] = [type |-> Arg(p).arg, nlink |-> 0,
                                       ents |-> NoEntries]]
           /\ ic' = iget(Load(dp, p), i)
           /\ Then(p, <<Ins("new", SlotOf(ic, i), dp, <<name>>, Arg(p).arg)>>)
    /\ halted' = NoType(res[p])
    /\ Return(p, NULL)
    /\ UNCHANGED files

\* Fill the inode, enter it in dp, and give dp back with ip locked.
CreateNew(p) ==
    /\ On(p, "new") /\ Lockable(Arg(p).s)
    /\ LET ip == Arg(p).s
           dp == Arg(p).t
           i == ic[ip].inum
           dir == Arg(p).arg = "DIR"
           c == [Load(ip, p) EXCEPT ![ip].nlink = 1, ![dp].lk = NoProc]
           c1 == AddLinks(c, dp, IF dir THEN 1 ELSE 0)
       IN  /\ ic' = c1
           /\ dn' = [Iupdate(c1, dp) EXCEPT
                       ![i] = [type |-> c[ip].type, nlink |-> 1,
                               ents |-> IF dir THEN Dots(i, ic[dp].inum)
                                        ELSE NoEntries],
                       ![ic[dp].inum].ents[Arg(p).path[1]] = i]
           /\ Then(p, <<Put(dp)>>)
           /\ Return(p, ip)
    /\ halted' = NoType(Arg(p).s)
    /\ UNCHANGED files

\* sys_mkdir and sys_mknod
Made(p) ==
    /\ On(p, "made") /\ res[p] # NULL
    /\ Then(p, <<Unlock(res[p])>>)
    /\ Return(p, NULL)
    /\ UNCHANGED <<ic, dn, files, halted>>

-----------------------------------------------------------------------------
(* sys_open, sys_chdir and the file table                                   *)

\* namei() has found the file; a directory may only be read.
OpenLock(p) ==
    /\ On(p, "open") /\ res[p] # NULL /\ Lockable(res[p])
    /\ IF Loaded(res[p]).type = "DIR" /\ Arg(p).arg = "w"
       THEN ic' = Load(res[p], NoProc) /\ Then(p, <<Put(res[p])>>) /\ Return(p, NULL)
       ELSE ic' = Load(res[p], p) /\ Then(p, <<Ins("opened", NULL, NULL, <<>>, "")>>)
            /\ UNCHANGED res
    /\ halted' = NoType(res[p])
    /\ UNCHANGED <<dn, files>>

FreeFiles == {f \in 1..NFILE : ft[f].ref = 0}
FreeFds(p) == {d \in 1..NOFILE : ofile[p][d] = NULL}
First(S) == CHOOSE x \in S : \A y \in S : x <= y

\* filealloc() and fdalloc(); the inode's reference moves into the file.
OpenFile(p) ==
    /\ On(p, "opened") /\ res[p] # NULL
    /\ FreeFiles # {} /\ FreeFds(p) # {}
    /\ LET f == First(FreeFiles) IN
       /\ ft' = [ft EXCEPT ![f] = [ref |-> 1, ip |-> res[p]]]
       /\ ofile' = [ofile EXCEPT ![p][First(FreeFds(p))] = f]
    /\ ic' = [ic EXCEPT ![res[p]].lk = NoProc]
    /\ Then(p, <<>>) /\ Return(p, NULL)
    /\ UNCHANGED <<dn, cwd, todo, halted>>

\* No file or no descriptor: a file that was allocated is closed again.
OpenFail(p) ==
    /\ On(p, "opened") /\ res[p] # NULL
    /\ FreeFiles = {} \/ FreeFds(p) = {}
    /\ Then(p, <<Unlock(res[p])>>) /\ Return(p, NULL)
    /\ UNCHANGED <<ic, dn, files, halted>>

\* sys_chdir; nobody else looks at p->cwd while the old one is put.
Chdir(p) ==
    /\ On(p, "chdir") /\ res[p] # NULL /\ Lockable(res[p])
    /\ ic' = Load(res[p], NoProc)
    /\ IF Loaded(res[p]).type = "DIR"
       THEN /\ cwd' = [cwd EXCEPT ![p] = res[p]]
            /\ Then(p, <<Put(cwd[p])>>)
       ELSE UNCHANGED cwd /\ Then(p, <<Put(res[p])>>)
    /\ Return(p, NULL)
    /\ halted' = NoType(res[p])
    /\ UNCHANGED <<dn, ft, ofile, todo>>

\* sys_dup
Dup(p, d) ==
    /\ On(p, "dup") /\ ofile[p][d] # NULL /\ FreeFds(p) # {}
    /\ ofile' = [ofile EXCEPT ![p][First(FreeFds(p))] = ofile[p][d]]
    /\ ft' = [ft EXCEPT ![ofile[p][d]].ref = @ + 1]
    /\ Then(p, <<>>)
    /\ UNCHANGED <<ic, dn, cwd, todo, res, halted>>

\* Fault: the inode is put at every close.
CloseEach(p, d) ==
    /\ On(p, "close") /\ ofile[p][d] # NULL
    /\ LET f == ofile[p][d] IN
       /\ ofile' = [ofile EXCEPT ![p][d] = NULL]
       /\ IF ft[f].ref > 1
          THEN ft' = [ft EXCEPT ![f].ref = @ - 1] /\ Then(p, <<Put(ft[f].ip)>>)
          ELSE /\ ft' = [ft EXCEPT ![f] = [ref |-> 0, ip |-> NULL]]
               /\ Then(p, <<Put(ft[f].ip)>>)
    /\ UNCHANGED <<ic, dn, cwd, todo, res, halted>>

\* sys_close with fileclose(): the last close puts the inode.
Close(p, d) ==
    /\ On(p, "close") /\ ofile[p][d] # NULL
    /\ LET f == ofile[p][d] IN
       /\ ofile' = [ofile EXCEPT ![p][d] = NULL]
       /\ IF ft[f].ref > 1
          THEN ft' = [ft EXCEPT ![f].ref = @ - 1] /\ Then(p, <<>>)
          ELSE /\ ft' = [ft EXCEPT ![f] = [ref |-> 0, ip |-> NULL]]
               /\ Then(p, <<Put(ft[f].ip)>>)
    /\ UNCHANGED <<ic, dn, cwd, todo, res, halted>>

\* exit(): close the files one by one, then put the current directory.
ExitClose(p) ==
    /\ On(p, "exit") /\ \E d \in 1..NOFILE : ofile[p][d] # NULL
    /\ Then(p, <<Ins("close", NULL, NULL, <<>>, ""), Ins("exit", NULL, NULL, <<>>, "")>>)
    /\ UNCHANGED <<ic, dn, files, res, halted>>

ExitCwd(p) ==
    /\ On(p, "exit") /\ \A d \in 1..NOFILE : ofile[p][d] = NULL
    /\ cwd' = [cwd EXCEPT ![p] = NULL]
    /\ Then(p, <<Put(cwd[p])>>)
    /\ UNCHANGED <<ic, dn, ft, ofile, todo, res, halted>>

\* fork(): q, which does not exist, gets the files and the directory of p.
Fork(p, q) ==
    /\ On(p, "fork") /\ cwd[q] = NULL /\ k[q] = <<>>
    /\ ofile' = [ofile EXCEPT ![q] = ofile[p]]
    /\ ft' = [f \in 1..NFILE |->
                [ft[f] EXCEPT !.ref = @ + Cardinality({d \in 1..NOFILE : ofile[p][d] = f})]]
    /\ cwd' = [cwd EXCEPT ![q] = cwd[p]]
    /\ ic' = idup(ic, cwd[p])
    /\ Then(p, <<>>)
    /\ UNCHANGED <<dn, todo, res, halted>>

\* A call on descriptors or processes that are not there returns at once.
NoSuch(p) ==
    /\ \/ On(p, "close") /\ \A d \in 1..NOFILE : ofile[p][d] = NULL
       \/ On(p, "dup") /\ (FreeFds(p) = {} \/ \A d \in 1..NOFILE : ofile[p][d] = NULL)
       \/ On(p, "fork") /\ \A q \in Procs : cwd[q] # NULL \/ k[q] # <<>>
    /\ Then(p, <<>>)
    /\ UNCHANGED <<ic, dn, files, res, halted>>

-----------------------------------------------------------------------------
\* The instructions of a system call c, a record of op, path and new.
Program(c) ==
    LET do(op, arg) == Ins(op, NULL, NULL, c.path, arg) IN
    CASE c.op = "creat" -> <<Namex(c.path, "parent"), do("create", "FILE"), do("opened", "")>>
      [] c.op = "mkdir" -> <<Namex(c.path, "parent"), do("create", "DIR"), do("made", "")>>
      [] c.op = "mknod" -> <<Namex(c.path, "parent"), do("create", "DEV"), do("made", "")>>
      [] c.op = "open"  -> <<Namex(c.path, "file"), do("open", c.arg)>>
      [] c.op = "unlink" -> <<Namex(c.path, "parent"), do("unlink", "")>>
      [] c.op = "link"  -> <<Namex(c.path, "file"), Ins("link1", NULL, NULL, c.new, "")>>
      [] c.op = "chdir" -> <<Namex(c.path, "file"), do("chdir", "")>>
      [] OTHER -> <<do(c.op, "")>>

Call(p, c) ==
    /\ ~halted /\ k[p] = <<>> /\ cwd[p] # NULL /\ todo[p] > 0
    /\ todo' = [todo EXCEPT ![p] = @ - 1]
    /\ k' = [k EXCEPT ![p] = Program(c)]
    /\ UNCHANGED <<ic, dn, ft, ofile, cwd, res, halted>>

Step(p) ==
    \/ Iput(p) \/ IputFree(p) \/ IputFreed(p) \/ IputDec(p) \/ Iunlockput(p)
    \/ NamexStart(p) \/ NamexEnd(p) \/ NamexStep(p) \/ Failed(p)
    \/ Link1(p) \/ Link2Fail(p) \/ Link2(p) \/ LinkBad(p)
    \/ Unlink1(p) \/ Unlink2(p) \/ Unlink3(p)
    \/ CreateFound(p) \/ CreateExists(p) \/ CreateAlloc(p) \/ CreateNew(p) \/ Made(p)
    \/ OpenLock(p) \/ OpenFile(p) \/ OpenFail(p) \/ Chdir(p)
    \/ ExitClose(p) \/ ExitCwd(p) \/ NoSuch(p)
    \/ \E d \in 1..NOFILE : Dup(p, d) \/ Close(p, d)
    \/ \E q \in Procs : Fork(p, q)

Next == \E p \in Procs : Step(p) \/ \E c \in Calls[p] : Call(p, c)

Spec == Init /\ [][Next]_vars
-----------------------------------------------------------------------------
(* ".." of removed directories.  unlink() counts the link down that ".." is *)
(* of the parent and leaves the entry; only the last iput() clears it.  So  *)
(* who is still in the directory may follow ".." to a parent that has been  *)
(* removed and freed too, and ilock() panics or finds another inode there.  *)

\* The directory in which the next step of p calls dirlookup() with "..", if it does.
LooksUp(p) ==
    IF On(p, "walk") /\ Arg(p).path # <<>> /\ Head(Arg(p).path) = ".."
       /\ ~ (Arg(p).arg = "parent" /\ Len(Arg(p).path) = 1) THEN Arg(p).s
    ELSE IF (On(p, "create") \/ On(p, "link2")) /\ Last(Arg(p).path) = ".." THEN res[p]
    ELSE NULL

\* Directory i has lost its name, and the parent that its ".." names its last link.
ParentGone(i) ==
    LET up == dn[i].ents[".."] IN
    /\ up # NULL /\ dn[up].nlink = 0
    /\ \A n \in Names : dn[up].ents[n] # i

\* No step follows such a "..".
Straight ==
    \A p \in Procs :
       LooksUp(p) # NULL /\ ParentGone(ic[LooksUp(p)].inum) => ~ Step(p)

-----------------------------------------------------------------------------
(* Properties.                                                              *)

\* Who owns a reference to slot s: the instructions of a call, as their s or as
\* their t, counted from the last so that they keep their numbers, results,
\* current directories and files.
ByS(s) == UNION {{<<p, "s", Len(k[p]) - j>> : j \in {i \in DOMAIN k[p] : k[p][i].s = s}}
                 : p \in Procs}
ByT(s) == UNION {{<<p, "t", Len(k[p]) - j>> : j \in {i \in DOMAIN k[p] : k[p][i].t = s}}
                 : p \in Procs}
ByRes(s)  == {<<p, "res", 0>> : p \in {q \in Procs : res[q] = s}}
ByCwd(s)  == {<<p, "cwd", 0>> : p \in {q \in Procs : cwd[q] = s}}
ByFile(s) == {<<f, "file", 0>> : f \in {g \in 1..NFILE : ft[g].ref > 0 /\ ft[g].ip = s}}

Holders(s) == ByS(s) \cup ByT(s) \cup ByRes(s) \cup ByCwd(s) \cup ByFile(s)

\* ip->ref counts exactly the references that calls, current directories and
\* open files hold, on every path through every call and its failures; so an
\* entry is recycled when nobody can use it any more, and not later.  f->ref
\* counts the descriptors.
RefsRight ==
    /\ \A s \in Slots : ic[s].ref = Cardinality(Holders(s))
    /\ \A f \in 1..NFILE :
          ft[f].ref = Cardinality({x \in Procs \X (1..NOFILE) : ofile[x[1]][x[2]] = f})

\* An inode is in the cache once, and what the cache says of it is what the
\* disk says, so the lock in the cache is a lock of the inode.
CacheRight ==
    \A s \in Slots : ic[s].ref > 0 =>
       /\ \A t \in Slots \ {s} : ic[t].ref > 0 => ic[t].inum # ic[s].inum
       /\ ic[s].valid /\ ic[s].lk = NoProc =>
             /\ ic[s].nlink = dn[ic[s].inum].nlink
             /\ ic[s].type = dn[ic[s].inum].type

LinksTo(i) ==
    Cardinality({x \in Inums \X Names :
                   /\ dn[x[1]].type = "DIR" /\ dn[x[1]].nlink > 0
                   /\ dn[x[1]].ents[x[2]] = i})

\* A directory that is linked itself never names a free inode, and an inode has
\* at least as many links as there are names for it: unlink, link, create and
\* iput of several processes never free a file that can still be found.
NamesAllocated ==
    \A i \in Inums : LinksTo(i) > 0 =>
       dn[i].type # "FREE" /\ dn[i].nlink >= LinksTo(i)

\* The inode of an open file or of a current directory is not freed, unlinked
\* or not.
InUseKept ==
    /\ \A f \in 1..NFILE : ft[f].ref > 0 => dn[ic[ft[f].ip].inum].type # "FREE"
    /\ \A p \in Procs : cwd[p] # NULL => dn[ic[cwd[p]].inum].type # "FREE"

\* No call ends in panic(): ilock() of a freed inode or of an unreferenced slot,
\* unlink() of an inode without links.
NoPanic == ~halted

\* The lock that process p waits for, NULL if it can go on.
WaitsFor(p) ==
    IF k[p] = <<>> THEN NULL
    ELSE LET i == Arg(p)
             s == IF i.op \in {"put", "bad", "exists", "new", "unlink2"}
                     \/ (i.op = "walk" /\ i.path # <<>>) THEN i.s
                  ELSE IF i.op \in {"unlink", "create", "link1", "link2", "open", "chdir"}
                  THEN res[p] ELSE NULL
         IN  IF s # NULL /\ ic[s].lk # NoProc THEN s ELSE NULL

\* p waits, directly or not, for q.
Blocked(p, q) == WaitsFor(p) # NULL /\ ic[WaitsFor(p)].lk = q

Stuck(S) == S # {} /\ \A p \in S : \E q \in S : Blocked(p, q)

\* No set of processes waits for each other's inode locks.
NoDeadlock == ~\E S \in SUBSET Procs : Stuck(S)

\* Apart from iput(), a lock is waited for from the parent to the child: every
\* circle of waiting processes has one in iput().
OnlyIputBlocks ==
    \A S \in SUBSET Procs : Stuck(S) => \E p \in S : On(p, "put")

\* References are counted right, and an inode has one place in the cache.
ReferencesRight == RefsRight /\ CacheRight

\* No inode is freed that a name, an open file, a current directory or a call under
\* way still leads to, so that no call panics.
InodesKept == NamesAllocated /\ InUseKept /\ NoPanic
=============================================================================
