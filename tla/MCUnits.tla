------------------------------ MODULE MCUnits ------------------------------
(***************************************************************************)
(* Small instances of the parts that do not need fairness: the process     *)
(* table of the default build, memory, the lists of processes, the         *)
(* arguments of system calls, the shell and its parser, malloc() and the   *)
(* keyboard.  They are independent: part says which one moves, the others  *)
(* stay as they were initialised.                                          *)
(***************************************************************************)
EXTENDS PlainTable

VARIABLES
    part,
    mem_free, mem_dir, mem_tab, mem_guard, mem_pgdir, mem_kstack, mem_sz, mem_doomed,
    mem_op, mem_lost, mem_calls,
    list_h, list_state, list_chan, list_walk, list_wchan, list_before, list_halted,
    sh_pc, sh_cmd, sh_parent, sh_fd, sh_typed, sh_fails, sh_line,
    parse_line,
    kbd_held, kbd_port, kbd_shift, kbd_c,
    heap_ptr, heap_size, heap_freep, heap_brk, heap_arena, heap_used,
    arg_sz, arg_mem, arg_esp, arg_got

memVars   == <<mem_free, mem_dir, mem_tab, mem_guard, mem_pgdir, mem_kstack, mem_sz,
               mem_doomed, mem_op, mem_lost, mem_calls>>
listVars  == <<list_h, list_state, list_chan, list_walk, list_wchan, list_before,
               list_halted>>
shVars    == <<sh_pc, sh_cmd, sh_parent, sh_fd, sh_typed, sh_fails, sh_line>>
kbdVars   == <<kbd_held, kbd_port, kbd_shift, kbd_c>>
heapVars  == <<heap_ptr, heap_size, heap_freep, heap_brk, heap_arena, heap_used>>
argVars   == <<arg_sz, arg_mem, arg_esp, arg_got>>
-----------------------------------------------------------------------------
\* Executables: one that is fine, two segments of which the second lies in the
\* first, one whose end wraps around, one with more bytes than memory.
Seg(v, m, f) == [vaddr |-> v, memsz |-> m, filesz |-> f]
Executables ==
    {<<Seg(0, 1, 1)>>, <<Seg(0, 3, 1), Seg(2, 1, 1)>>, <<Seg(6, 11, 1)>>,
     <<Seg(0, 2, 1), Seg(2, 1, 3)>>}

\* Two processes, fifteen pages of two bytes, addresses that wrap at sixteen.
Me == INSTANCE Memory WITH
    Procs <- {"p1", "p2"}, InitProc <- "p1", NPAGES <- 15, PGSIZE <- 2, NU <- 2, NT <- 2,
    UINTMOD <- 16, Deltas <- {-4, -1, 1, 3}, Programs <- Executables, MaxCalls <- 4,
    NONE <- "none",
    free <- mem_free, dir <- mem_dir, tab <- mem_tab, guard <- mem_guard,
    pgdir <- mem_pgdir, kstack <- mem_kstack, sz <- mem_sz, doomed <- mem_doomed,
    op <- mem_op, lost <- mem_lost, calls <- mem_calls

St == INSTANCE StateList WITH
    NPROC <- 3, Chans <- {"c1", "c2"}, NoChan <- "none",
    h <- list_h, state <- list_state, chan <- list_chan, walk <- list_walk,
    wchan <- list_wchan, before <- list_before, halted <- list_halted

\* a < f | b | c > g,  a &; b | (c; d),  a | (b &; c),  cd and exit.
EXEC(i)       == [type |-> "EXEC", id |-> i]
REDIR(i, x, f) == [type |-> "REDIR", id |-> i, cmd |-> x, fd |-> f]
LIST(i, x, y) == [type |-> "LIST", id |-> i, left |-> x, right |-> y]
PIPE(i, x, y) == [type |-> "PIPE", id |-> i, left |-> x, right |-> y]
BACK(i, x)    == [type |-> "BACK", id |-> i, cmd |-> x]
CommandLines ==
    {PIPE(1, REDIR(2, EXEC(3), 0), PIPE(4, EXEC(5), REDIR(6, EXEC(7), 1))),
     LIST(11, BACK(12, EXEC(13)), PIPE(14, EXEC(15), LIST(16, EXEC(17), EXEC(18)))),
     PIPE(21, EXEC(22), LIST(23, BACK(24, EXEC(25)), EXEC(26))),
     [type |-> "CD", id |-> 31], [type |-> "EXIT", id |-> 32]}

\* The shell on a kernel with lists, and on the default kernel.
Sh == INSTANCE Shell WITH
    Commands <- CommandLines, MaxLines <- 2, MaxProcs <- 8, MaxFails <- 1, WakeAll <- FALSE,
    pc <- sh_pc, cmd <- sh_cmd, parent <- sh_parent, fd <- sh_fd, typed <- sh_typed,
    fails <- sh_fails, line <- sh_line

Sd == INSTANCE Shell WITH
    Commands <- CommandLines, MaxLines <- 2, MaxProcs <- 8, MaxFails <- 1, WakeAll <- TRUE,
    pc <- sh_pc, cmd <- sh_cmd, parent <- sh_parent, fd <- sh_fd, typed <- sh_typed,
    fails <- sh_fails, line <- sh_line

Ps == INSTANCE ShellParse WITH MAXARGS <- 3, MaxLen <- 5, line <- parse_line

\* Both shifts, both controls, right alt, caps lock, a letter and Home.
Kb == INSTANCE Kbd WITH
    Keys <- {<<42, FALSE>>, <<54, FALSE>>, <<29, FALSE>>, <<29, TRUE>>, <<56, TRUE>>,
             <<58, FALSE>>, <<30, FALSE>>, <<71, TRUE>>},
    held <- kbd_held, port <- kbd_port, shift <- kbd_shift, c <- kbd_c

\* Blocks of two, three and four units, arenas of at least three.
Um == INSTANCE Umalloc WITH
    HEADER <- 2, NALLOC <- 3, Limit <- 10, Requests <- {1, 3, 5},
    ptr <- heap_ptr, size <- heap_size, freep <- heap_freep, brk <- heap_brk,
    arena <- heap_arena, used <- heap_used

\* Words of two bytes, sixteen addresses of which eight are the user's.
Ar == INSTANCE SysArgs WITH
    WORD <- 2, BASE <- 4, MaxSz <- 5, Bytes <- {0, 1, 3}, Args <- {0, 1},
    sz <- arg_sz, mem <- arg_mem, esp <- arg_esp, got <- arg_got
-----------------------------------------------------------------------------
UnitsInit ==
    /\ part \in {"plain", "memory", "lists", "shell", "shell default", "parser", "keyboard", "malloc", "args"}
    /\ Init /\ Me!Init /\ St!Init /\ Sh!Init /\ Ps!Init /\ Kb!Init /\ Um!Init /\ Ar!Init
    /\ part # "args" => arg_sz = 0 /\ arg_esp = 0

UnitsNext ==
    /\ \/ part = "plain" /\ Next
          /\ UNCHANGED <<memVars, listVars, shVars, parse_line, kbdVars, heapVars, argVars>>
       \/ part = "memory" /\ Me!Next
          /\ UNCHANGED <<vars, listVars, shVars, parse_line, kbdVars, heapVars, argVars>>
       \/ part = "lists" /\ St!Next
          /\ UNCHANGED <<vars, memVars, shVars, parse_line, kbdVars, heapVars, argVars>>
       \/ part = "shell" /\ Sh!Next
          /\ UNCHANGED <<vars, memVars, listVars, parse_line, kbdVars, heapVars, argVars>>
       \/ part = "shell default" /\ Sd!Next
          /\ UNCHANGED <<vars, memVars, listVars, parse_line, kbdVars, heapVars, argVars>>
       \/ part = "parser" /\ Ps!Next
          /\ UNCHANGED <<vars, memVars, listVars, shVars, kbdVars, heapVars, argVars>>
       \/ part = "keyboard" /\ Kb!Next
          /\ UNCHANGED <<vars, memVars, listVars, shVars, parse_line, heapVars, argVars>>
       \/ part = "malloc" /\ Um!Next
          /\ UNCHANGED <<vars, memVars, listVars, shVars, parse_line, kbdVars, argVars>>
       \/ part = "args" /\ Ar!Next
          /\ UNCHANGED <<vars, memVars, listVars, shVars, parse_line, kbdVars, heapVars>>
    /\ UNCHANGED part

UnitsSpec ==
    /\ UnitsInit
    /\ [][UnitsNext]_<<vars, memVars, listVars, shVars, parse_line, kbdVars, heapVars,
                       argVars, part>>
-----------------------------------------------------------------------------
(* The properties of the parts, under their own names; that of the process  *)
(* table is inherited.  A property is evaluated where its part moves.       *)

\* Memory: every page is free or has one use, and none is freed while in use.
MemoryRight == part = "memory" => Me!MemoryRight

\* Lists: wakeup1() of the list builds wakes the first sleeper, and every process
\* is found on the list of its state.
WakesRight == part = "lists" => St!WakesRight

\* Lists: the linked lists are sequences (the specification of SeqLists, looked
\* at only where the lists move).
ListsAreSequences ==
    /\ St!SL!Init
    /\ [][part = "lists" => St!SL!Step]_listVars

\* Shell: command lines run as they are written, and none hangs.
CommandsRight ==
    /\ part = "shell" => Sh!CommandsRight
    /\ part = "shell default" => Sd!CommandsRight

\* Parser: it builds the tree of the grammar or rejects the line.
ParsesRight == part = "parser" => Ps!ParsesRight

\* Keyboard: no modifier sticks.
NoStuckModifier == part = "keyboard" => Kb!NoStuckModifier

\* malloc: every unit is in one block, and free neighbours are joined.
HeapSound == part = "malloc" => Um!HeapSound

\* Arguments: the kernel touches only memory of the caller.
ArgsInside == part = "args" => Ar!ArgsInside
=============================================================================
