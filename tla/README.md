# A TLA+ specification of XV6PDX

XV6PDX is the teaching kernel xv6 with the extensions of four course projects
(`CS333_P1` to `CS333_P4`): atomic ticks, process accounting, linked lists of
processes per state, and a multi-level feedback queue (MLFQ). This directory
specifies the kernel, the shell and the allocator of the user library where
concurrency, crashes, resource limits or arithmetic make correctness hard to test,
checks them with TLC on small instances, and proves with TLAPS, for instances of any
size, the main invariants of both process tables, of the buffer cache, of the redo log
and of pipes, and that the log and the pipe implement their abstract specifications.

All paths below are relative to the kernel sources, `src/src/`. The project number
is a build option (`CS333_PROJECT ?= 0` in the Makefile) and changes `proc.c` and
`wakeup()`. `ProcTable` follows the most complete build (`CS333_P4`, which includes
P1 to P3), `StateList` the `CS333_P3` build, `PlainTable` the default one;
modules that only use `wakeup()` either have a constant `WAKEONE` or let any
non-empty set of sleepers be woken. `PDX_XV6` is always defined.

## 1. The system

| component | state | operations | hard because | correct if |
|---|---|---|---|---|
| process table, `proc.c` (P4) | slots, a list per state, a ready list per priority, `PromoteAtTime`, `nextpid` | `fork`/`allocproc`, `exit`, `wait`, `sleep`, `wakeup`, `kill`, `setpriority`, `yield` | several critical sections per call, unlocked writes between them, every CPU at once | nobody lost, run twice, orphaned; no exit missed; every ready process runs |
| process table, `proc.c` (default) | slots | the same, by scans of the table | as above; the walk of each CPU goes on where it stopped | as above; round-robin |
| state lists, `proc.c` | head, tail, next pointers | add, remove, the walk of `wakeup1` | all lists share one next pointer per process | they are sequences |
| scheduler, timer, `trap.c` | `cpu->proc`, `ticks` | promotion, dispatch, idle, tick | interrupts between any two instructions | no starvation; sleeps last and end |
| spin locks, `spinlock.c` | locks, `ncli`, `intena`, the interrupt flag | `acquire`, `release`, `pushcli`, `popcli`, `sched` | per-CPU state of a thread that moves between CPUs | no interrupt inside a lock, flag restored |
| redo log, `log.c` | `log.lh`, `outstanding`, `committing`, the log area on disk | `begin_op`, `log_write`, `end_op`, commit, recovery | crash between any two block writes; group commit; reservation | all or nothing; no overflow; waits end |
| buffer cache, `bio.c`, `sleeplock.c`, `ide.c` | buffers, LRU list, sleep locks, request queue | `bget`, `bread`, `bwrite`, `brelse`, `iderw`, `ideintr` | pinned buffers, recycling, interrupt against requester | readers see the last write; transfers end |
| inodes, directories, `fs.c` | inode cache, link counts, entries | `iget`, `iput`, `ilock`, `dirlink`, `namex`, `ialloc` | reference counts, lock order, unlinked files that are open | counts right; nothing in use is freed |
| data of files, `fs.c`, `file.c`, `mkfs.c` | block lists, bitmap, offsets | `bmap`, `balloc`, `itrunc`, `readi`, `writei`, `filewrite` | indirect block, chunks, unsigned offsets | reads return what was written; no block shared or lost |
| path names, `fs.c` | | `skipelem` | slashes at either end, long names | the elements of the path |
| file table, `file.c`, `sysfile.c` | `ftable`, descriptors | open, close, dup, link, unlink, mkdir, mknod, chdir, fork, exit | reference counts across processes, undoing of failures | counts right; no deadlock |
| pipes, `pipe.c` | ring buffer, two open flags | read, write, close | two-sided sleeping, end of file, several readers | a queue of bytes; nobody sleeps without reason |
| memory, `kalloc.c`, `vm.c`, `exec.c` | free list, page tables | `fork`, `exec`, `sbrk`, exit | failure at every page | every page free or used once |
| console, keyboard | input ring, cursor; modifiers | `consoleintr`, `consoleread`, `consolewrite`, `kbdgetc` | interrupt against reader, editing at the ring's limits | lines in order; no key sticks |
| system call arguments, `syscall.c` | | `fetchint`, `fetchstr`, `argptr` | unsigned arithmetic at the end of memory | inside the caller's memory |
| shell, `sh.c`, `init.c` | command tree; processes, descriptors | parse, run, built-ins, restart | pipelines, who closes what, who waits for whom | wired as written; no hang |
| allocator, `umalloc.c` | ring of free blocks | `malloc`, `free` | holes, wrap-around of the ring | blocks do not overlap; neighbours joined |

Interactions: every blocking component rests on `sleep`/`wakeup` of the process
table, which rests on spin locks; the file system calls bracket their block writes
by `begin_op`/`end_op`; the log uses the buffer cache, which uses sleep locks and
the disk driver; `fork`, `exit` and `exec` join processes, memory and open files;
the timer drives preemption, `sys_sleep` and the MLFQ clock; the shell joins
processes, descriptors and pipes.

The hazards, each with its source line and the properties that cover it, are in
`PROJECT.json`.

## 2. Modules

| module | models | run |
|---|---|---|
| `ProcTable` | process table, scheduler, timer (P4) | `life`, `mlfq`, `live`, `born` |
| `PlainTable` | process table and scheduler of the default build | `units` |
| `StateList` | the pointers of the lists, `wakeup1` step by step (P3) | `units` |
| `StateListProofs` | proofs about `StateList` | section 4 |
| `SeqLists` | abstract: lists as sequences | refined by `StateList` |
| `Spinlock` | spin locks, interrupt flag, `sched` | `life` |
| `TickSleep` | `sys_sleep` and the tick counter | `waits` |
| `Log` | `log.c` over the cache and a crashing disk | `log_crash` |
| `AtomicDisk` | abstract: a disk with atomic groups of writes | refined by `Log` |
| `Bcache` | buffer cache, sleep locks, IDE queue | `bcache` |
| `Files` | inode cache, directories, file table, system calls | `files`, `files_deadlock` |
| `FileData` | blocks and contents of files, the image of mkfs | `files` |
| `PathName` | `skipelem` against a reference | `files` |
| `Pipe` | `pipe.c` and the last close in `fileclose` | `waits`, `pipe_eof`, `pipe_kill` |
| `ByteQueue` | abstract: a bounded queue of bytes | refined by `Pipe` |
| `Memory` | page allocator, page tables, `fork`, `exec`, `sbrk` | `units` |
| `Console` | input ring, editing, reading, writing, cursor | `waits` |
| `LineQueue` | abstract: lines that are edited, entered and read | refined by `Console` |
| `Kbd` | `kbdgetc` with a keyboard | `units` |
| `SysArgs` | fetching of arguments | `units` |
| `Shell` | running of command lines | `units` |
| `ShellParse` | the parser against a reference grammar | `units` |
| `Umalloc` | `malloc`, `free`, `morecore` | `units` |
| `MC*` | constants for TLC | |
| `ProcTableProofs`, `PlainTableProofs`, `LogProofs`, `BcacheProofs`, `PipeProofs`, `FilesProofs` | theorems about the module of that name, section 4 | TLAPS |
| `InodeProofs` | theorems about `Files`, continued | TLAPS |

`MCLife`, `MCWaits`, `MCFs` and `MCUnits` each hold several independent instances: the
variable `part` is chosen in the initial state and says which one moves, the others
keep their initial values. One of the parts is the module that the `MC` module extends
(`ProcTable`, `Pipe`, `Files` and `PlainTable`), so that its properties are checked under
their own names, the ones the theorems use; a property of another part is evaluated where
that part moves.
Nothing is shared between parts, so that such a run is the sum of the runs of its
parts.

Definitions marked `Fault:` are wrong variants of the definition that follows
them; each breaks the property it is paired with in `PROJECT.json` ("mutants"), one per
part of a conjunction,
which shows that the property can fail. Nothing else refers to them.

### 2.1 ProcTable

The variables are the fields of `struct proc` that control depends on, the lists
as sequences, `c->proc` per CPU, and the program counter `pc` of each process's
kernel thread. A section under `ptable.lock` is one action. Four points need more
than that:

- *fork and allocproc* are eight actions: two critical sections of `allocproc`,
  the detaching of the child, the unlocked copying (which may fail), and the last
  section. The parent can be preempted between any two, and other CPUs run.
- *wait* is resumed by the scheduler inside `sleep` with `ptable.lock` still held
  and scans again before it releases it. `ptlock` names such a process; every
  action that takes the lock waits for it.
- *the timer interrupt of CPU 0* is three steps: the unlocked increment of
  `ticks`, `wakeup(&ticks)`, and the end of `trap()`, which exits, yields or
  returns. `intr` says which. Other CPUs only run the last one.
- *the scheduler* releases the lock between promotion and dispatch; `spc` says
  where each CPU stands.

`ticks` counts modulo `TICKMOD`, and `Spent` takes the difference modulo
`TICKMOD` as the unsigned subtraction does; the budget itself is an integer (the
conversion back to `int` is exact as long as a process runs for fewer than 2^31
ticks at a stretch). Pids stop at `MaxPid`, a bound on the number of forks.
Channels: `wait` uses process addresses, all other kernel code sleeps on a member
of `Chans`, and may be woken at any time by an interrupt or another process
(`Wakeup`). System calls that touch no state of this module are steps `SyscallEnter`
then `TrapReturn`.

`wakeup1` is modelled by `FirstSleeper`: it wakes the first sleeper on the channel
and stops. This is what the pointer code does, and `StateList` checks it
(`WakesFirst`).

### 2.2 PlainTable

The same calls in the build without lists. A process that gives up its CPU does so
with `ptable.lock` held, and the scheduler continues its walk (`scan`) under the
same lock, so giving up and picking the next process are one action. `kill` marks
the slot with the given pid whatever its state, as the loop at `proc.c:1342` does:
init, and a slot that a failed `fork` has left with its pid, are among them. `passed`
counts, for `RoundRobin`, how often others were picked while a process could run.

### 2.3 StateList and SeqLists

`StateList` keeps the head, tail and next pointers, with `stateListAdd` and
`stateListRemove` as pointer updates, moves processes between lists along the
moves `proc.c` makes, and takes the loop of `wakeup1` one turn at a time with the
lock held. `SeqLists` is the abstract view, on which `ProcTable` builds: append
at the end, delete anywhere, one list per process.

### 2.4 Spinlock and TickSleep

`Spinlock` has CPUs with their interrupt flag, `ncli` and `intena`, and threads,
each a list of instructions: a process in a system call that takes locks and
sleeps, the scheduler, and interrupt handlers that take locks of their own and may
yield. `xchg`, `pushcli` and `popcli` are separate steps. A new process enters
`forkret` with the `intena` of whoever used the CPU before; it does not matter,
since the way back to user mode restores the flag from the trap frame, and
`InterruptsRestored` says where the flag must be right.

`TickSleep` is `sys_sleep` with its unlocked test and unlocked sleep, and the tick
as two steps, increment and wakeup. `slept` counts ticks since the call, for the
properties; `LAG` bounds how many ticks go by while a process that is awake does
not get to run.

### 2.5 Log and AtomicDisk

`Log` has the disk (home blocks, log area, header), the buffers (content and
`B_DIRTY`), `struct log`, the system calls between `begin_op` and `end_op`, and
the progress of `commit` or of recovery. Each block write is one step and a crash
can come before any step; writing a sector is atomic, so the header write is the
commit point. `Modify` stands for a caller that locks a buffer, changes it and
enters `log_write` up to the tests that are made without `log.lock`; `LogWrite`
is its critical section. `Evict` recycles a buffer that is neither held nor
dirty. The block behind the log area, which an overrun would hit, is `AfterLog`.

`MAXOPBLOCKS` is what `begin_op` reserves, `OPBLOCKS` what operations really
write. The log area that mkfs lays out (`mkfs.c:25`) has `LOGSIZE` blocks with the
header, so it has room for one data block less than `begin_op` hands out, and
`log_write` tests the space before it takes the lock (`log.c:218`): if all operations
used their whole reservation, two of them could pass the test together and the
commit would write over the first inode block. The system calls of this kernel stay
below the reservation (`ChunkFits` shows it for `filewrite`), and `LogFits` and
`LogNoPanic` hold for operations that do.

`AtomicDisk` has the content a crash would leave, the content the file system
reads, and the set of active operations. The refinement mapping takes the first
to be the home blocks overridden by the logged ones if the header on disk names
them, and the second to be what `bread` returns.

### 2.6 Bcache

One action per section under `bcache.lock`, the lock inside a sleep lock, or
`idelock`. The LRU list, `refcnt`, `B_VALID` and `B_DIRTY` are as in the code; a
process may pin a block as `log_write` does or write it through. A process uses
one block at a time (in the kernel `bmap` and the copy loops of the log hold two); the
drive
finishes the request at the head of the queue some time later and does not fail
(`ide.c:118` leaves the buffer unread on an error and marks it valid all the same).
`bget` panics ("no buffers") when every buffer is referred to or dirty; in the model the
call is not followed further. `Exhausted` says that such a state comes from load alone
and from no leak: the pinned blocks and the processes that use a buffer are together at
least as many as the buffers. With the values of `param.h` (`NBUF` = 30 against
`LOGSIZE` - 1 = 29 pinned blocks and 64 processes) that load is possible, so the panic
is not excluded; the run reaches such states.

### 2.7 Files, FileData and PathName

`Files` runs system calls of several processes as lists of instructions, each with
the inodes it owns a reference to; an action ends where the code lets another
process in, and where a second sleep lock is waited for with the first one held
there are two actions. It has the inode cache with `ref`, `valid` and the copy of
`nlink`, inodes and directory entries on disk, the file table, descriptors and
current directories. The calls are `open` (with and without `O_CREATE`), `close`,
`dup`, `link`, `unlink`, `mkdir`, `mknod`, `chdir`, `fork` and `exit`, each with its
error paths. The calls and paths that processes use are given by the instance;
`CallsAssumption` says what they look like. Paths may go through ".." and end in
it. `unlink` of a directory takes back the link that its ".." is of the parent and
leaves the entry in place, so a process that is still in the removed directory can follow
".." to a parent that has been removed and freed as well; `ilock` then panics, or finds
whatever the inode number was used for next. `Straight` is the condition that no step
is such a lookup (`LooksUp`, `ParentGone`). It is about steps, not about calls: any
other ".." is taken, those in removed directories whose parent is alive included. The run
takes the steps that are `Straight`, and without the condition the run fails. A call for which `iget` finds no slot
would panic and is not followed further (`HasSlot`). `iput` of an
unlinked inode releases `icache.lock` to truncate it; `ialloc` may find the inode
while it is being freed.

`FileData` has the blocks, the bitmap and the inodes in memory and on disk. `bmap`,
`balloc`, `itrunc`, `readi` and `writei` are functions from a file system to a file
system; the actions are `fileread`, the chunks of `filewrite`, reopening and
truncation, and the initial state is computed by the steps of mkfs. Offsets are
unsigned and wrap. `content` records what was written, the reference for
`ReadsWritten`. A read through the same `struct file` may come between two chunks of a
write, since `filewrite` releases the inode there; a second write does not, so that what
each call wrote stays defined.

The image has one file of five cells beside the root directory. `mkfs.c:161` rounds the
size of the root directory up to the next block, and if its entries end just at a
block boundary it adds a whole block that was never allocated: reading the directory
would then allocate that block in `bmap`, outside of any transaction, and "reading
changes nothing" would not hold for it. The images that the Makefile builds do not
have such a root directory, nor does the instance.

`PathName` applies `skipelem` to every path up to a length and compares with the
elements defined by their positions.

### 2.8 Pipe and ByteQueue

`Pipe` has the ring buffer with counters that wrap around, the two open flags, the
pipe's lock, the processes that hold each end (one process may hold both), and the
sleepers on the two channels in the order in which they fell asleep. The loops run
one byte per step under the lock. The test of `killed` and the sleep are separate
steps, because `kill()` does not take the pipe's lock. `fileclose` drops a holder
and, for the last one, calls `pipeclose` in a second step. `WAKEONE` selects the
`wakeup()` of the builds with lists (the first sleeper) or that of the build
without (all). `ByteQueue` is the abstract view.

### 2.9 Memory

Every page is on the free list, a directory, a page table, a kernel stack or
mapped; `fork`, `exec`, `sbrk` and exit of several processes interleave page by
page, and any allocation may fail. Three things the code does are kept: `copyuvm`
does not free the page it could not map (`vm.c:335`; such pages are in `lost`);
`sbrk` to size 0 frees the pages and then returns -1, because 0 is also how
`deallocuvm` reports failure (`doomed`); and `sbrk` by more than the size downwards
reports success (`proc.c`, `growproc`). Segments of an executable overlap, wrap or
have more bytes in the file than in memory, and must be rejected.

### 2.10 Console, LineQueue and Kbd

`Console` has the ring with its three counters, `cons.lock`, the readers and the
cursor. Keys come at any time; a reader gives up the lock only to sleep.
In this kernel control-D shuts the machine down (`console.c`), so the end-of-file
branch of `consoleread` is dead and left out. `LineQueue` is the abstract view:
editing touches only the line that has not been entered.

`Kbd` joins `kbdgetc` with a keyboard that sends make and break codes, two bytes
for the second block of keys, and compares the modifiers with the keys held down.

### 2.11 SysArgs, Shell, ShellParse, Umalloc

`SysArgs` fetches integers, blocks and strings at every address and of every
length, near the end of the caller's memory and where sums wrap.

`Shell` runs the processes of a command tree with their descriptors. Lines that
`main` treats itself (`cd`, the built-ins that begin with "_", `exit` and its prefixes,
the end of the input) are commands too; when the shell exits, `init` starts another
one. Of the kernel it has `fork`, `exit` and `wait` with adoption by init, the copying and
closing of descriptors, and readers that sleep on a pipe until `pipeclose` wakes them:
all, or one in the builds with lists (`WakeAll`). Any `fork`, `exec`, `open` or `pipe` may
fail. `NoHang` therefore has one exception, which is the finding `pipe_eof` seen from
the shell: in the builds with lists a line in which two programs read one pipe at a time,
such as `a | (b & c)`, hangs, since one of them is never woken (`SharedInput`). In the
default build there is no exception. `ShellParse` is the
recursive-descent parser on tokens, compared with a grammar that splits at the
loosest operator.

`Umalloc` has the circular list of free blocks as pointers and sizes; the program
may move the break itself, so that arenas are not adjacent. Requests of 2^31 bytes and
more are outside the bounds: `sbrk` takes an `int`, so that such a request arrives
as a negative number, shrinks the process and succeeds, and near 2^32 the size in units
wraps.

## 3. Runs

| run | instance | checks |
|---|---|---|
| `life` | `ProcTable`: 3 processes, 2 CPUs, MLFQ off | `ListsAgree`, `OneCPUEach`, `NoLostExit`, `ParentAlive`, `UniquePids` |
| | `Spinlock`: 2 processes, 2 CPUs | `LocksRight` (`SpinNoPanic`, `LocksMasked`, `InterruptsRestored`) |
| `mlfq` | `ProcTable`: 2 processes, 1 CPU, 3 priorities, budget 2, ticks modulo 3 | `TypeOK`, `BudgetLeft` |
| `live` | `ProcTable`: 2 processes, 1 CPU, 2 priorities, fair | `NoStarvation`, `WaitReturns` |
| `born` | `ProcTable`: 3 processes, 1 CPU | `BornAlive` (violated) |
| `log_crash` | `Log`: 2 operations, 3 blocks, a log of 4 blocks, crashes | refinement `CrashAtomic`, `SpaceRight` (`TypeOK`, `LogNoPanic`, `LogFits`), `WaitersServed`, `WaitEnds` |
| `bcache` | `Bcache`: 3 processes, 3 blocks, 2 buffers, one pinned | `ReadsRight` (`ReadsLatest`, `NothingLost`), `CountsRight` (`TypeOK`, `RefsCounted`, `Exhausted`), `LockWaiters`, `IoEnds`; deadlock |
| `waits` | pipe with a reader and a writer, wake-one, either may be killed | `PipeRight` (`PipeTypeOK`, `FreedUnused`, `SleepJustified`), refinement `BytesInOrder`, `CallsReturn` (`EofSeen`, `WriteReturns`) |
| | console: ring of 2, one or two readers | refinement `LinesInOrder`, `LineWakes` (with `FullIsEntered`), `CursorOnScreen` |
| | clock: 2 sleepers, ticks modulo 6 | `SleepRight` (`SleepEnds`, `SleepsEnough`) |
| `pipe_eof` | `Pipe`: 2 readers, 1 writer, wake-one | `EofSeen` (violated) |
| `pipe_kill` | `Pipe`: 1 reader, 1 writer | `KillEnds` (violated) |
| `files` | `Files`: 2 processes with 3 and 2 calls, or with 4 and 2 calls that use ".."; 4 inodes | `ReferencesRight` (`RefsRight`, `CacheRight`), `InodesKept` (`NamesAllocated`, `InUseKept`, `NoPanic`), `OnlyIputBlocks` |
| | `FileData`: 2 opens of a file with an indirect block | `DataRight` (`ReadsWritten`, `WriteThrough`), `BlocksRight` (with `ChunkFits`) |
| | `PathName`: all paths of up to 7 characters | `PathSplit` |
| `files_deadlock` | `Files`: create and unlink of one name | `NoDeadlock` (violated) |
| `units` | `Memory`: 2 processes, 15 pages, 4 calls | `MemoryRight` (`PagesRight`, `SizeMapped`, `MapsFresh`) |
| | `StateList`: 3 processes, 2 channels | `WakesRight` (`NeverLost`, `WakesFirst`), refinement `ListsAreSequences` |
| | `PlainTable`: 3 processes, 2 CPUs | `PlainRight` (`WaitJustified`, `TableRight`, `RoundRobin`) |
| | `SysArgs`: all memories of up to 5 bytes of 3 values | `ArgsInside` |
| | `Shell`: 2 of 5 lines typed, 8 processes, one failing fork, both kinds of wakeup | `CommandsRight` (`Wired`, `InTurn`, `NoHang`) |
| | `ShellParse`: all lines of up to 5 tokens | `ParsesRight` |
| | `Kbd`: 8 keys held in any combination | `NoStuckModifier` |
| | `Umalloc`: 10 units of memory | `HeapSound` (`HeapRight`, `Coalesced`) |

What each property says is in the comment above it in its module. Where names are
given in parentheses, the property is the conjunction of these.

Bounds.

- *Processes.* Three are init, a parent and a child: enough for adoption, for an
  exit that races with the parent's, and for a waiter with a sleeper in front of it
  in the list. Two CPUs give real parallelism; the MLFQ run uses one, since
  priorities and budgets are protected by the lock and time is what varies there.
  A budget of 2 with a yield at every second tick lets a budget be used up exactly,
  be overdrawn, and be left over.
- *Log.* Two operations that reserve two blocks each in a log of four make `begin_op`
  wait for space, as soon as a block is logged, and for a commit; three home blocks
  let the two operations write the same block, different ones, and the one behind the log.
- *Buffers.* Three blocks in two buffers, one of them pinned, and three processes:
  recycling, misses of one block at once, a recycling that has to pass over a pinned
  buffer, two processes that wait for one buffer, and no buffer left.
- *Files.* One process works from above a directory, the other one may be in it
  and hold files open: removal of a directory in use, link and unlink of one file from
  two sides, a creation that meets an unlink. In the second instance one process makes
  and removes a directory in a directory while the other one is in it and creates,
  links, unlinks and changes to names with "..". Two file structures and two
  descriptors run out. The cache and the disk have as many inodes as the calls can
  need.
- *Data.* Blocks of two cells, two direct blocks and one indirect: every write
  crosses a block; chunks of two cells make `filewrite` take several turns, between
  which the file is read and written through the other descriptor; the largest write,
  made at a later offset, runs beyond the largest file and breaks off. Unsigned numbers are modulo 16.
- *Pipes and console.* A ring of two with counters modulo four fills, empties and
  wraps; calls of up to three bytes block in the middle.
- *Memory.* Tables of two entries, so that a process needs a second table; 15 pages,
  so that every allocation of a call fails in some behaviour and succeeds in another.
- *Clock.* Sleeps of two ticks with a counter modulo 6 that starts at 0 or just
  before it wraps.
- *Shell.* One line with two pipes and redirections at both ends, one with a
  background command before a pipe into a list, one whose two programs read one pipe,
  `cd` and `exit`; a background command outlives its line and meets the next one or a
  new shell.

A killed writer that has just filled the pipe returns without waking the reader
(`pipe.c:84-86`). `SleepJustified` has this as its one exception: a reader may sleep with
bytes in the pipe if a writer of the pipe has been killed (`WriterKilled`), until another
call or the exit of that writer, when it closes the last write end, wakes it. Deadlock
is not checked where all processes may be done (closed pipes, no more calls); in
`Files`, where it matters, `OnlyIputBlocks` says instead that whenever nobody can go
on it is because of the `iput` of the finding below.

Findings, recorded in `PROJECT.json` with the lines they disagree with:

1. `born`: a kill that hits a half-made child whose `fork` then fails is inherited
   by the next process in the slot.
2. `pipe_eof`: `wakeup` is documented to wake all processes sleeping on a channel
   and, with lists, wakes one (`WakesFirst`). Of several readers blocked on a pipe
   one sees the end of file, the others sleep for ever. `WaitersServed`, `WaitEnds`,
   `NoLostExit`, `WaitReturns`, `LockWaiters`, `IoEnds` and `SleepEnds` show that the
   log, `wait()`, sleep locks, the disk and `sys_sleep` work all the same; each kind
   of sleeper had to be looked at separately. (`LineWakes` holds for a single reader
   of the console.)
3. `pipe_kill`: a kill between the test of `killed` and the sleep is not noticed.
4. `files_deadlock`: `create` releases the directory by `iunlockput` with the new
   inode locked, and this kernel's `iput` takes the lock of the directory again; an
   `unlink` of the new name that comes in between holds the directory and waits for
   the inode.

Fairness.

- `ProcTable`: the timer of CPU 0 keeps firing (strong fairness, because the
  interrupt is blocked while the CPU holds the lock and stays pending), CPUs in the
  scheduler make progress (strong fairness, because the lock comes and goes and
  interrupts intervene), and a thread that holds the lock goes on. Nothing is assumed
  of user code, of system calls or of the timers of other CPUs. `NoStarvation` and
  `WaitReturns` are conditional on `MLFQRuns`: nobody lowers the priority of ready
  processes for ever, and a due promotion is met again and again (true unless `ticks`
  wraps between two turns of the scheduler), and they end in a panic if init exits.
- `Log`: operations end and the commit's disk writes complete.
- `Bcache`: the drive raises its interrupt for the request it works on, and a
  process woken in `iderw` gets to run.
- `Pipe`, `Console`: a call goes on when the lock is free again and again (strong,
  since spin locks are not fair but contended for moments only); a killed process
  exits.
- `TickSleep`: the clock does not stop and a process that is awake gets to run.

The scheduler gives the last kind: `NoStarvation` and `RoundRobin`.

## 4. Proofs

Each proofs module has an inductive invariant `IInv`, a conjunction of named parts with a
comment on each, one lemma per action with a step for each part that the action can
disturb, and short theorems that derive the properties from it. The theorems hold for
every value of the constants that the named assumptions of the modules allow; the
hypotheses some of them have in addition are given here with their reason. TLC checked
every `IInv` before it was proved.

| theorem | states |
|---|---|
| `ProcTableProofs!Invariance` | `[]IInv`; from it `TypeCorrect`, `ListsAlwaysAgree`, `CPUsExclusive`, `ExitNeverLost`, `NoOrphans`, `PidsUnique`, `BudgetsPositive` |
| `PlainTableProofs!PlainTableSound` | `[]PlainRight` |
| `StateListProofs!ListsRefineSequences` | `StateList` implements `SeqLists` (`ListsAreSequences`), if `ListSizes` |
| `StateListProofs!WakeupWakesFirst` | `[]WakesRight`, if `ListSizes` |
| `LogProofs!LogRefinesAtomicDisk` | `Log` implements `AtomicDisk` (`CrashAtomic`) |
| `LogProofs!LogHasRoom`, `LogWaiters` | `[]SpaceRight`, `[]WaitersServed` |
| `BcacheProofs!ReadersSeeLastWrite` | `[]ReadsRight` |
| `BcacheProofs!LockSleepersServed` | `[]LockWaiters` |
| `BcacheProofs!DriverCalledRight` | `[]LocksHeld` |
| `BcacheProofs!CountsAlwaysRight` | `[]CountsRight` |
| `PipeProofs!PipeRefinesQueue` | `Pipe` implements `ByteQueue` (`BytesInOrder`) |
| `PipeProofs!PipeSafe` | `[](PipeTypeOK /\ FreedUnused)` |
| `PipeProofs!PipeWakeups` | `[]PipeRight`, if `WakesAll` |
| `FilesProofs!ReferencesCounted` | `[]RefsRight` (first layer, `LayerOne`) |
| `InodeProofs!LayerTwo` | `[](Base /\ Second)`, if all steps are `Straight` |
| `InodeProofs!ReferencesAlwaysRight`, `InodesAlwaysKept` | `[]ReferencesRight`, `[]InodesKept`, if all steps are `Straight` |
| `InodeProofs!DirectoriesAForest` | `[]Forest`, if all steps are `Straight` |
| `InodeProofs!OnlyIputCloses` | `[]OnlyIputBlocks`, if all steps are `Straight` |

### 4.1 ProcTable

None of the properties is inductive alone. `ListsAgree` needs `ForkAgree` (a child
under construction belongs to one `fork`, so that putting it on a list cannot
duplicate it); `OneCPUEach` needs `ListsAgree` (a process taken from a ready list
is not running) and `SchedAgree`; `NoLostExit` needs `SleepAgree` (whoever sleeps
on a process address is in `wait()` on its own, so waking the first sleeper on
`parent` wakes the parent) and `LockAgree`; `ParentAlive` needs `ThreadAgree` (only
a process with a thread can be a parent; init never exits) and `ForkAgree`;
`UniquePids` needs `PidsBounded`; `BudgetLeft` needs `ChildBudget`. `IInv` is their
conjunction.

The proof first establishes what `stateListAdd` and `stateListRemove` do to one
list (members, no repetition) and to a family of lists (`FamilyAdd`,
`FamilyRemove`, `FamilyMove`), then has one lemma per action. The promotion step rests
on a lemma about the concatenation of two lists without common members.

### 4.2 PlainTable

Without lists the argument about the family is direct: `Family` and `Forking` say who has
a parent and which child belongs to which `fork`, `Running` that `c->proc` is one-to-one on
the running processes. `RoundRobin` needs a count. `Between(c, p)` is the number of
slots that the walk of CPU c comes to before p, and `Turns(p)` the set of these turns of
all CPUs. A step that picks another process q uses up a turn of its CPU, because the walk
has moved on from where it stood to q without meeting p, so `passed[p]` plus the number
of turns left never grows (`Passing`); there are at most `NCPU * (NPROC - 1)` of them.
The end of a walk does not give turns back while p is runnable: the walk would have come
to p first.

### 4.3 StateList

`Intact` says that the pointers of each list are those of a sequence without repetition:
head and tail its ends, each next pointer the following element, that of the
last NULL. `Placed` says that a process is on exactly the list of its `state`, so no two
lists meet and an update of one list leaves the shared next pointers of the others
alone; that of a removed head dangles until the process joins its next list. `Walking`
follows `wakeup1`: either nobody so far sleeps on the channel and the rest of the
list is ahead, or the first sleeper was woken and the walk ends, since that sleeper is
now the tail of the ready list.

`Contents` reads a list by following next pointers, a recursive function. The lemma
`ChainIs` shows that a sequence whose links the pointers are is what that function
reads, by a least index where they differ. `ListSizes` (there is a process, and 0 is not a
channel) is a hypothesis. The theorems justify that `ProcTable` uses sequences and
`FirstSleeper`.

### 4.4 Log

`Phases` ties the stage of commit or recovery to who may run and to the header on disk;
`CacheRight` says which buffers may differ from the disk; `Copied` how far the copies have
come. Together they make every step of commit a stutter of `AtomicDisk`, except for the
write of the header, which makes the transaction permanent, and make a crash at
any point, recovery included, return the disk to the last committed state.

`LogHasRoom` rests on `LogSizeAssumption`: operations write at least one block less than
they reserve, and the log area has `LOGSIZE` blocks with its header. The part
`Space` of the invariant says that what is logged and what is reserved fits, and that
the last operation has a block to spare unless it is alone in the transaction; without
that second half the missing block of the log area would be hit by the last operation.

### 4.5 Bcache

`OneBuffer` (no block in two buffers), `Owners` (the sleep lock's owner is the one process
past `acquiresleep`), `RefsCounted`, `Wants`, `Requests` and `Started` (what is in the
queue of the driver and for whom) and `Coherent` (a valid buffer has the last contents
written, or its block is on the way) are inductive only together with `NothingLost` and
`PinsBounded`. The list is a permutation of the buffers, which
`Brelse` and recycling preserve.

`CountsAlwaysRight` has no hypothesis about the load. Its part `Exhausted` follows when
`bget` fails: every buffer is dirty, and then its block is pinned, or its `refcnt` is not
0, and then some process is inside the cache with it (`RefsCounted`), so that pinned blocks
and users are together at least as many as the buffers.

### 4.6 Pipe

`PipeSafe` and `PipeRefinesQueue` hold for either kind of `wakeup()` and any kill. The
refinement needs only that the size of the ring divides the modulus of the counters
(`SizeAssumption`): `Fill` is the difference modulo `UINTMOD`, and two positions
of the ring in use differ modulo `PIPESIZE`. `PipeWakeups` needs `WakesAll` (all sleepers
are woken, or each channel has at most one sleeper because one reader and one writer use the
pipe) since the run `pipe_eof` shows it false otherwise. Readers and writers may be
killed at any time; the one consequence, a reader that a killed writer did not
wake, is in the statement (`WriterKilled`). The part
`Awake` says what the holder of the lock knows of the sleepers before it gives the lock up.

### 4.7 Files

The argument has three layers. The first is about references alone and is inductive
alone; the second uses it, and the third uses both. `FilesProofs` has the first layer and
the definitions and general lemmas of the second, `InodeProofs` the rest.

*First layer, `Base`: references.* Reference counts are right in every reachable state
because each action hands on the references it has. `At` gives for every place that may own
a reference (instruction n of a process, counted from the last, as its inode s or t; the
result of namex() or create(); the current directory; an open file) the slot it refers to.
`Refs` says that the number of places that refer to a slot is its `ref`. Which places can be
occupied follows from the shape of the stacks: `Shape` says which instruction may run before
which and which inodes it has, `ResShape` when a result is pending, `Gone` what an exited
process still does. `Unique` (a slot in use has an inode, and no other slot has it) and
`Descriptors` complete the inductive invariant `Base`.

The lemmas `Push0` to `Push3` and `Count0` to `Count3` say what replacing the first
instruction of a stack by up to three others does to its shape and to the count of
every slot; `CountRes`, `CountCwd` and `CountFile` do the same for the other places.
`Step0` to `Step3` combine them: an action preserves `Base` if the instructions it leaves own
what the first one and the result owned before, and one reference more to the slot that
`iget()` or `idup()` returned. Each action then has a lemma that shows this. The counting is
with cardinalities of sets of places, so it holds for any number of processes, slots and
files; `CallsAssumption` (paths are not empty, "/" comes first) is what is
assumed of the calls. This layer holds with any "..": whom a reference leads to does not
matter for the count.

*Second layer, `Second`: locks, lives of inodes, links.* None of its parts is inductive
without the others.

- `Locks`: a process has exactly the inode locks that its call keeps (`Keeps` of an
  instruction, `KeepsRes` of a result), each in one place. So what a call has read under
  a lock is still there when it goes on.
- `Cached`: a valid slot says what the disk says, except while `iput()` has freed the
  inode on disk and not yet in the cache ("freed").
- `FreeInodes`, `Freeing`: `iput()` frees only an inode without links whose only reference
  is its own. Between its write to the disk and the release of the slot `ialloc()` may
  hand the same inode out, and `iget()` then returns the slot that is being given up. The
  count of that slot is 2 and the two processes are the one in "freed" or "dec" and the
  one in "new"; nobody else can get at the inode, because it has no links and no name.
- `Links`: the `nlink` of an inode is at least the number of its names, of the
  subdirectories in it, of the calls that have counted a link before its name is entered
  or after it is cleared (`Pending`), and one for the root. So a named inode has links
  and is neither free nor being freed.
- `Relying`, `Dirs`: what the later steps of a call need of the earlier ones: `unlink()`
  still finds the entry it has looked up, the directory that is changed is one, `link()` has
  no directory, "." and ".." are there once a directory is filled.

`Straight` enters here, and only where a lookup of ".." returns (`Climbs`). The ".." of
a directory that has a name is counted by `Links`, so its parent has links; if the
directory has lost its name, it is `Straight` that says that the parent has not lost
its last link. Either way the parent is `Fine` (`SafeParent`, `SafeEntry`). Without the
condition the theorems of this layer are false.

An inode that is referred to otherwise is `Fine`: not free, not being freed, not being
filled. Every reference of a call, except those of `iput()` and of "new", is to such an
inode (`FineHeld`, `FineBelow`), which is why `ilock()` never panics. `Turn0` to `Turn3`
say what becomes of the locks when the first instruction is replaced; `LifeStep0`
and `LifeStep1`, `Reads0` to `Reads3` and `Writes1`, `Writes2` combine this with the cache and
the disk for steps that free or allocate, that only read, and that change an inode.

*Third layer, `Forest`.* There is a rank of inodes by which every directory is above the
directories that it names. No step but the last one of `create()` makes a new name of a
directory (`Fewer`), and that one names an inode that nobody else names and that is
empty. A process that waits outside of `iput()` has at most the lock of a directory that
names the inode it waits for, so ranks fall along a chain of waiting processes. For
`iput()` there is no such bound: the run `files_deadlock` shows the circle.

### 4.8 Only model-checked

Liveness under fairness is outside what TLAPS proves here (`NoStarvation`, `WaitReturns`,
`WaitEnds`, `IoEnds`, `CallsReturn`, `LineWakes`, `SleepRight`). What `skipelem`, the
parser and the copy loops compute for every input would need induction over data, and
`ShellParse`, `Shell` and `FileData` use operators that the provers do not
unfold. The safety of `Memory`, `Spinlock`, `Console`, `Kbd`, `SysArgs` and `Umalloc` is
checked for the instances of section 3. Worth proving next: `Console` implements
`LineQueue`, along the argument for `Pipe`.

## 5. Not modelled

- *Boot and machine setup* (`main.c`, `mp.c`, `lapic.c`, `ioapic.c`, `picirq.c`,
  assembly): hardware programming without protocol state of its own.
- *User programs and tests*: sequential tools on top of the calls; the tests were
  read as statements of what the calls should do. The rest of the user library
  (strings, `printf`) keeps no state.
- *Read-only and debugging calls* (`getprocs`, the control-P dumps, `fstat`), uid and
  gid, process accounting: nothing else depends on them.
- *Serial line, device switch, `cprintf`*: port I/O and formatting.
- *Memory ordering*: spin locks are taken to order memory as `xchg` and the barriers
  of `spinlock.c` do.
- *Contents of pages and segments, the TLB, the layout of `argv` on the stack.*
- *Failures of the disk*: `ideintr` marks a buffer valid even if the read failed
  (`ide.c:118`).
- *Exhaustion that ends in a panic by design*: no free inode in the cache
  (`fs.c:262`, the guard `HasSlot`), no free inode or block on disk. (No free
  buffer: `Exhausted` in `Bcache`.)
- *Wrap-around of `nextpid`* (`proc.c:152`): after 2^32 forks a pid in use may be
  handed out again.
- *".." to a freed directory.* The one lookup that `Straight` excludes (section 2.7):
  after a directory and its parent are removed, ".." names a freed inode and `ilock`
  panics. What the kernel does after that, or in an inode that was handed out again in
  between, is not followed.
- *An inode left allocated.* Two `iput` of an unlinked inode at once may each see the
  other's reference and neither frees it. Nothing dangles, so that the properties of
  `Files` hold; the inode is lost.
