------------------------------- MODULE Memory -------------------------------
(***************************************************************************)
(* Physical pages (kalloc.c) and page tables (vm.c) under fork(), exec()   *)
(* (exec.c), sbrk() (growproc) and exit() of several processes at once.    *)
(*                                                                         *)
(* kmem.lock protects one kalloc() or kfree(): the allocations of the      *)
(* processes interleave page by page.  Pages are freed together in one     *)
(* action: another process sees only whether a page is left, as before or  *)
(* as after it.  Which free page kalloc() returns does not matter.         *)
(* A page directory has one entry per NT pages of user memory and one for  *)
(* the page table of the kernel's mappings.                                *)
(***************************************************************************)
EXTENDS Integers, Sequences, FiniteSets, FiniteSetsExt

CONSTANTS
    Procs, InitProc,
    NPAGES,        \* physical pages on the free list at boot
    PGSIZE, NU, NT,\* bytes of a page, user entries of a directory, of a table
    UINTMOD,
    Deltas,        \* bound: the arguments of sbrk
    Programs,      \* bound: executable files, sequences of segments
    MaxCalls,      \* bound: calls of sbrk, fork, exec
    NONE

Pages    == 1..NPAGES
NULL     == 0
KERNBASE == NU * NT * PGSIZE

VARIABLES
    free,      \* kmem.freelist
    dir, tab,  \* contents of the pages used as directories and as page tables
    guard,     \* user pages without PTE_U
    pgdir, kstack, sz,  \* the processes; pgdir = NULL for an unused slot
    doomed,    \* no page is left to run in: the next instruction faults
    op,        \* the call under way
    lost,      \* pages that nobody can reach any more (for the properties)
    calls      \* for the bound

vars == <<free, dir, tab, guard, pgdir, kstack, sz, doomed, op, lost, calls>>

NoDir == [x \in 0..NU |-> NULL]
NoTab == [x \in 0..(NT - 1) |-> NULL]
Idle  == [pc |-> "user", call |-> "none", d |-> NULL, a |-> 0, old |-> 0,
          new |-> 0, mem |-> NULL, child |-> NONE, segs |-> <<>>]

PGROUNDUP(x) == ((x + PGSIZE - 1) \div PGSIZE)  \* as a page number
Present(d, a) == /\ dir[d][a \div NT] # NULL
                 /\ tab[dir[d][a \div NT]][a % NT] # NULL
Page(d, a) == tab[dir[d][a \div NT]][a % NT]

\* userinit(): a stack, a directory, the kernel's table, and one page of code.
Init ==
    /\ free = 6..NPAGES
    /\ dir = [x \in Pages |-> IF x = 2 THEN [NoDir EXCEPT ![NU] = 3, ![0] = 4] ELSE NoDir]
    /\ tab = [x \in Pages |-> IF x = 4 THEN [NoTab EXCEPT ![0] = 5] ELSE NoTab]
    /\ guard = {} /\ lost = {} /\ calls = 0
    /\ kstack = [p \in Procs |-> IF p = InitProc THEN 1 ELSE NULL]
    /\ pgdir = [p \in Procs |-> IF p = InitProc THEN 2 ELSE NULL]
    /\ sz = [p \in Procs |-> IF p = InitProc THEN PGSIZE ELSE 0]
    /\ doomed = [p \in Procs |-> FALSE]
    /\ op = [p \in Procs |-> Idle]

-----------------------------------------------------------------------------
(* Freeing.                                                                 *)

TablesOf(d) == {dir[d][x] : x \in 0..NU} \ {NULL}
UserTables(d) == {dir[d][x] : x \in 0..(NU - 1)} \ {NULL}

\* Fault: the last page of the new size goes too.
DroppedDown(d, oldsz, newsz) ==
    {Page(d, a) : a \in {x \in (newsz \div PGSIZE)..(PGROUNDUP(oldsz) - 1) : Present(d, x)}}

\* Pages that deallocuvm(d, oldsz, newsz) frees; missing tables are skipped.
Dropped(d, oldsz, newsz) ==
    {Page(d, a) : a \in {x \in PGROUNDUP(newsz)..(PGROUNDUP(oldsz) - 1) : Present(d, x)}}

deallocuvm(d, oldsz, newsz) ==
    LET gone == Dropped(d, oldsz, newsz) IN
    /\ tab' = [t \in Pages |-> IF t \in UserTables(d)
                               THEN [e \in 0..(NT - 1) |-> IF tab[t][e] \in gone THEN NULL
                                                           ELSE tab[t][e]]
                               ELSE tab[t]]
    /\ guard' = guard \ gone
    /\ UNCHANGED dir

\* Fault: the page tables are forgotten.
VmPagesOnly(d) == Dropped(d, KERNBASE, 0) \cup {d}

\* Everything freevm(d) frees.
VmPages(d) == Dropped(d, KERNBASE, 0) \cup TablesOf(d) \cup {d}

\* kfree() of all pages in S.
kfree(S) == free' = free \cup S

\* freevm(d) and kfree() of the pages in extra.
freevm(d, extra) ==
    /\ kfree(VmPages(d) \cup extra)
    /\ dir' = [dir EXCEPT ![d] = NoDir]
    /\ tab' = [t \in Pages |-> IF t \in TablesOf(d) THEN NoTab ELSE tab[t]]
    /\ guard' = guard \ VmPages(d)

-----------------------------------------------------------------------------
(* The steps of a call.  A call that cannot get a page fails as a whole.    *)

At(p, l)     == op[p].pc = l
Goto(p, rec) == op' = [op EXCEPT ![p] = rec]
Return(p)    == Goto(p, Idle)
tables       == <<dir, tab, guard>>
procs        == <<pgdir, kstack, sz, doomed>>

\* kalloc()
New == Min(free)
Take == free' = free \ {New}

Running(p) == pgdir[p] # NULL /\ At(p, "user")

\* A process in user mode makes a system call.
Enter(p) == Running(p) /\ ~doomed[p] /\ calls < MaxCalls /\ calls' = calls + 1

\* sys_sbrk() and growproc(), n > 0: up to the loop of allocuvm().
SbrkGrow(p, n) ==
    /\ Enter(p) /\ n > 0
    /\ sz[p] + n < KERNBASE
    /\ Goto(p, [Idle EXCEPT !.pc = "page", !.call = "sbrk", !.d = pgdir[p],
                            !.a = PGROUNDUP(sz[p]), !.old = sz[p], !.new = sz[p] + n])
    /\ UNCHANGED <<free, tables, procs, lost>>

\* n < 0: a new size that wraps is not smaller and nothing is done; size 0 is
\* taken for an error, with all pages gone.
SbrkShrink(p, n) ==
    /\ Enter(p) /\ n < 0
    /\ LET new == (sz[p] + n) % UINTMOD IN
       /\ new < sz[p]
       /\ kfree(Dropped(pgdir[p], sz[p], new))
       /\ deallocuvm(pgdir[p], sz[p], new)
       /\ sz' = [sz EXCEPT ![p] = IF new = 0 THEN @ ELSE new]
       /\ doomed' = [doomed EXCEPT ![p] = new = 0]
    /\ UNCHANGED <<pgdir, kstack, op, lost>>

\* fork(): allocproc() takes the kernel stack of the child ...
ForkStack(p, q) ==
    /\ Enter(p) /\ pgdir[q] = NULL /\ kstack[q] = NULL
    /\ free # {}
    /\ Take /\ kstack' = [kstack EXCEPT ![q] = New]
    /\ Goto(p, [Idle EXCEPT !.pc = "kvm", !.call = "fork", !.child = q, !.new = sz[p]])
    /\ UNCHANGED <<tables, pgdir, sz, doomed, lost>>

ExecStart(p, prog) ==
    /\ Enter(p)
    /\ Goto(p, [Idle EXCEPT !.pc = "kvm", !.call = "exec", !.segs = prog])
    /\ UNCHANGED <<free, tables, procs, lost>>

\* setupkvm(): the directory, then the table of the kernel.
SetupDir(p) ==
    /\ At(p, "kvm") /\ free # {}
    /\ Take
    /\ Goto(p, [op[p] EXCEPT !.pc = "kmap", !.d = New])
    /\ UNCHANGED <<tables, procs, lost, calls>>

SetupMap(p) ==
    /\ At(p, "kmap") /\ free # {}
    /\ Take
    /\ dir' = [dir EXCEPT ![op[p].d][NU] = New]
    /\ Goto(p, [op[p] EXCEPT !.pc = IF op[p].call = "exec" THEN "seg" ELSE "page"])
    /\ UNCHANGED <<tab, guard, procs, lost, calls>>

-----------------------------------------------------------------------------
(* The loops of allocuvm() and copyuvm(): a page and its mapping.           *)

AllocPage(p) ==
    /\ At(p, "page") /\ op[p].a < PGROUNDUP(op[p].new) /\ free # {}
    /\ Take
    /\ Goto(p, [op[p] EXCEPT !.pc = "map", !.mem = New])
    /\ UNCHANGED <<tables, procs, lost, calls>>

Map(d, a, t, mem) == tab' = [tab EXCEPT ![t][a % NT] = mem]

\* PTE_U is copied with the other flags.
CopyFlags(p) ==
    guard' = IF op[p].call = "fork" /\ Page(pgdir[p], op[p].a) \in guard
             THEN guard \cup {op[p].mem} ELSE guard

Mapped(p) == Goto(p, [op[p] EXCEPT !.pc = "page", !.mem = NULL, !.a = @ + 1])

\* mappages() with the page table there, and with one to be allocated.
MapPage(p) ==
    /\ At(p, "map") /\ dir[op[p].d][op[p].a \div NT] # NULL
    /\ Map(op[p].d, op[p].a, dir[op[p].d][op[p].a \div NT], op[p].mem)
    /\ CopyFlags(p)
    /\ Mapped(p)
    /\ UNCHANGED <<free, dir, procs, lost, calls>>

MapNewTable(p) ==
    /\ At(p, "map") /\ dir[op[p].d][op[p].a \div NT] = NULL /\ free # {}
    /\ Take
    /\ dir' = [dir EXCEPT ![op[p].d][op[p].a \div NT] = New]
    /\ Map(op[p].d, op[p].a, New, op[p].mem)
    /\ CopyFlags(p)
    /\ Mapped(p)
    /\ UNCHANGED <<procs, lost, calls>>

-----------------------------------------------------------------------------
(* No page is left.                                                         *)

Exhausted(p) == \/ free = {} /\ op[p].pc \in {"kvm", "kmap"}
                \/ free = {} /\ At(p, "page") /\ op[p].a < PGROUNDUP(op[p].new)
                \/ free = {} /\ At(p, "map") /\ dir[op[p].d][op[p].a \div NT] = NULL

Held(p) == {op[p].mem} \ {NULL}

\* allocuvm() gives back what it had, its last page included.
SbrkFail(p) ==
    /\ Exhausted(p) /\ op[p].call = "sbrk"
    /\ kfree(Dropped(op[p].d, op[p].new, op[p].old) \cup Held(p))
    /\ deallocuvm(op[p].d, op[p].new, op[p].old)
    /\ Return(p)
    /\ UNCHANGED <<procs, lost, calls>>

\* setupkvm() or copyuvm() fails: fork() frees the stack.  The page that
\* mappages() could not map is not freed.
ForkFail(p) ==
    /\ Exhausted(p) /\ op[p].call = "fork"
    /\ IF op[p].d = NULL THEN kfree({kstack[op[p].child]}) /\ UNCHANGED tables
       ELSE freevm(op[p].d, {kstack[op[p].child]})
    /\ lost' = lost \cup Held(p)
    /\ kstack' = [kstack EXCEPT ![op[p].child] = NULL]
    /\ Return(p)
    /\ UNCHANGED <<pgdir, sz, doomed, calls>>

\* exec(): goto bad, for want of memory, or for another reason later on.
ExecBad(p) ==
    /\ IF op[p].d = NULL THEN UNCHANGED <<free, tables>> ELSE freevm(op[p].d, Held(p))
    /\ Return(p)
    /\ UNCHANGED <<procs, lost, calls>>

ExecFail(p) == Exhausted(p) /\ op[p].call = "exec" /\ ExecBad(p)

-----------------------------------------------------------------------------
(* The ends of the loops.                                                   *)

LoopDone(p, c) == /\ At(p, "page") /\ op[p].call = c
                  /\ op[p].a >= PGROUNDUP(op[p].new)

SbrkDone(p) ==
    /\ LoopDone(p, "sbrk")
    /\ sz' = [sz EXCEPT ![p] = op[p].new]
    /\ Return(p)
    /\ UNCHANGED <<free, tables, pgdir, kstack, doomed, lost, calls>>

ForkDone(p) ==
    /\ LoopDone(p, "fork")
    /\ pgdir' = [pgdir EXCEPT ![op[p].child] = op[p].d]
    /\ sz' = [sz EXCEPT ![op[p].child] = sz[p]]
    /\ Return(p)
    /\ UNCHANGED <<free, tables, kstack, doomed, lost, calls>>

\* Fault: memsz may be smaller than filesz.
SegGoodLoose(p, s) ==
    /\ (s.vaddr + s.memsz) % UINTMOD >= s.vaddr
    /\ (s.vaddr + s.memsz) % UINTMOD < KERNBASE

\* exec(): the checks on the next segment; allocuvm() to vaddr + memsz.
SegGood(p, s) ==
    /\ s.memsz >= s.filesz
    /\ (s.vaddr + s.memsz) % UINTMOD >= s.vaddr
    /\ (s.vaddr + s.memsz) % UINTMOD < KERNBASE

NextSeg(p) ==
    /\ At(p, "seg") /\ op[p].segs # <<>> /\ SegGood(p, Head(op[p].segs))
    /\ LET s == Head(op[p].segs) IN
       Goto(p, [op[p] EXCEPT !.pc = "page", !.old = op[p].new, !.a = PGROUNDUP(op[p].new),
                             !.new = Max({@, s.vaddr + s.memsz})])
    /\ UNCHANGED <<free, tables, procs, lost, calls>>

BadSeg(p) ==
    /\ At(p, "seg") /\ op[p].segs # <<>> /\ ~SegGood(p, Head(op[p].segs))
    /\ ExecBad(p)

\* allocuvm() is done and has not returned 0: load the segment.
LoadSeg(p) ==
    /\ LoopDone(p, "exec") /\ op[p].segs # <<>>
    /\ op[p].new # 0 /\ Head(op[p].segs).vaddr % PGSIZE = 0
    /\ Goto(p, [op[p] EXCEPT !.pc = "seg", !.segs = Tail(@)])
    /\ UNCHANGED <<free, tables, procs, lost, calls>>

\* It cannot be loaded: misaligned, an image of no bytes, or the file ends early.
LoadFail(p) == LoopDone(p, "exec") /\ op[p].segs # <<>> /\ ExecBad(p)

\* Two more pages at the next boundary, for the guard page and the stack.
StackPages(p) ==
    /\ At(p, "seg") /\ op[p].segs = <<>> /\ op[p].child = NONE
    /\ LET base == PGROUNDUP(op[p].new) IN
       IF (base + 2) * PGSIZE >= KERNBASE THEN ExecBad(p)
       ELSE /\ Goto(p, [op[p] EXCEPT !.pc = "page", !.old = base * PGSIZE, !.a = base,
                                     !.new = (base + 2) * PGSIZE])
            /\ UNCHANGED <<free, tables, procs, lost, calls>>

\* The arguments are copied out; they may not fit.
ExecArgsFail(p) == LoopDone(p, "exec") /\ op[p].segs = <<>> /\ ExecBad(p)

\* clearpteu() and the switch to the new image; the old one is freed.
ExecCommit(p) ==
    /\ LoopDone(p, "exec") /\ op[p].segs = <<>>
    /\ LET old == pgdir[p] IN
       /\ pgdir' = [pgdir EXCEPT ![p] = op[p].d]
       /\ sz' = [sz EXCEPT ![p] = op[p].new]
       /\ kfree(VmPages(old))
       /\ dir' = [dir EXCEPT ![old] = NoDir]
       /\ tab' = [t \in Pages |-> IF t \in TablesOf(old) THEN NoTab ELSE tab[t]]
       /\ guard' = (guard \ VmPages(old)) \cup {Page(op[p].d, op[p].a - 2)}
    /\ Return(p)
    /\ UNCHANGED <<kstack, doomed, lost, calls>>

\* exit() of q and the wait() that frees it.
Reap(q) ==
    /\ q # InitProc /\ Running(q)
    /\ freevm(pgdir[q], {kstack[q]})
    /\ pgdir' = [pgdir EXCEPT ![q] = NULL]
    /\ kstack' = [kstack EXCEPT ![q] = NULL]
    /\ sz' = [sz EXCEPT ![q] = 0]
    /\ doomed' = [doomed EXCEPT ![q] = FALSE]
    /\ UNCHANGED <<op, lost, calls>>

Next ==
    \E p \in Procs :
       \/ SetupDir(p) \/ SetupMap(p) \/ AllocPage(p) \/ MapPage(p) \/ MapNewTable(p)
       \/ SbrkFail(p) \/ ForkFail(p) \/ ExecFail(p)
       \/ SbrkDone(p) \/ ForkDone(p)
       \/ NextSeg(p) \/ BadSeg(p) \/ LoadSeg(p) \/ LoadFail(p) \/ StackPages(p)
       \/ ExecArgsFail(p) \/ ExecCommit(p) \/ Reap(p)
       \/ \E n \in Deltas : SbrkGrow(p, n) \/ SbrkShrink(p, n)
       \/ \E q \in Procs : ForkStack(p, q)
       \/ \E prog \in Programs : ExecStart(p, prog)

Spec == Init /\ [][Next]_vars
-----------------------------------------------------------------------------
(* Properties.                                                              *)

\* The uses of page x.
Uses(x) ==
    LET dirs == {pgdir[p] : p \in Procs} \cup {op[p].d : p \in Procs}
        tabs == UNION {TablesOf(d) : d \in dirs \ {NULL}}
    IN  Cardinality({p \in Procs : kstack[p] = x}) + Cardinality(dirs \cap {x})
        + Cardinality({y \in (dirs \ {NULL}) \X (0..NU) : dir[y[1]][y[2]] = x})
        + Cardinality({y \in tabs \X (0..(NT - 1)) : tab[y[1]][y[2]] = x})
        + Cardinality({p \in Procs : op[p].mem = x})
        + Cardinality({x} \cap free) + Cardinality({x} \cap lost)

\* Every page is free or in use, once: no call, successful or out of memory at
\* any point, frees a page in use, maps one twice or loses one, except the page
\* that copyuvm() loses when mappages() fails.
PagesRight == \A x \in Pages : Uses(x) = 1

\* The memory of a process is what its size says: all pages below sz are mapped
\* and none above, so copyuvm() of a running process never panics.
SizeMapped ==
    \A p \in Procs : pgdir[p] # NULL /\ ~doomed[p] =>
       \A a \in 0..(NU * NT - 1) :
          /\ a < PGROUNDUP(sz[p]) => Present(pgdir[p], a)
          /\ a >= PGROUNDUP(sz[p]) /\ op[p].call # "sbrk" => ~Present(pgdir[p], a)

\* mappages() finds the entry empty (no "remap"), and loaduvm() finds every page
\* of the segment present.
MapsFresh ==
    \A p \in Procs :
       /\ At(p, "map") => ~Present(op[p].d, op[p].a)
       /\ LoopDone(p, "exec") /\ op[p].segs # <<>> =>
             LET s == Head(op[p].segs) IN
             s.vaddr % PGSIZE = 0 =>
               \A a \in (s.vaddr \div PGSIZE)..(PGROUNDUP(s.vaddr + s.filesz) - 1) :
                  a < NU * NT /\ Present(op[p].d, a)

\* Memory is sound: every page in one place, sizes that tell what is mapped, and
\* no panic of mappages() or loaduvm().
MemoryRight == PagesRight /\ SizeMapped /\ MapsFresh
=============================================================================
