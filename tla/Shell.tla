------------------------------- MODULE Shell -------------------------------
(***************************************************************************)
(* The shell at work (sh.c): main() and the processes that runcmd() makes, *)
(* with their descriptors, pipes and waits, and init, which starts a new   *)
(* shell when one exits.  A command line is a tree as parsecmd() returns   *)
(* it (ShellParse), or one that the shell deals with itself.  Programs     *)
(* read their standard input until its end and then exit; what they write  *)
(* fits in the pipe.                                                       *)
(*                                                                         *)
(* The kernel's part is fork(), exit() and wait() as the shell sees them   *)
(* (ProcTable has their steps, and that no wakeup of a waiting parent is   *)
(* lost), the descriptors of a process, and readers of a pipe that sleep   *)
(* until pipeclose() wakes them, one or all as the build's wakeup1() does. *)
(* Descriptors that a process closes one after the other go in one step:   *)
(* to others it makes no difference which of the calls drops the last      *)
(* holder of a pipe's end.                                                 *)
(***************************************************************************)
EXTENDS Integers, Sequences, FiniteSets

CONSTANTS
    Commands,  \* the command lines, whose nodes have ids
    MaxLines,  \* bound: lines typed, each once
    WakeAll,   \* wakeup1() wakes every sleeper (default build) or one (list builds)
    MaxProcs,  \* bound: processes at a time, the shell included
    MaxFails   \* bound: failing calls of fork()

Pids  == 1..MaxProcs
Sh    == 1        \* the shell itself
INIT  == 0        \* adopts orphans and waits for them
NOFD  == 6
None  == <<"none", 0>>
Cons  == <<"console", 0>>

VARIABLES
    pc,      \* where the process stands, "free" if there is none
    cmd,     \* the node it runs
    parent,
    fd,      \* descriptors
    typed, fails,  \* lines typed, failures: for the bounds
    line     \* the tree of the line being run

vars == <<pc, cmd, parent, fd, typed, fails, line>>

NoCmd == [type |-> "none"]

\* main(): three descriptors on the console.
NoFds   == [f \in 0..(NOFD - 1) |-> None]
Console == [f \in 0..(NOFD - 1) |-> IF f < 3 THEN Cons ELSE None]

Init ==
    /\ pc = [p \in Pids |-> IF p = Sh THEN "prompt" ELSE "free"]
    /\ cmd = [p \in Pids |-> NoCmd]
    /\ parent = [p \in Pids |-> INIT]
    /\ fd = [p \in Pids |-> IF p = Sh THEN Console ELSE NoFds]
    /\ typed = {} /\ fails = 0 /\ line = NoCmd

-----------------------------------------------------------------------------
(* The kernel.                                                              *)

Goto(p, l)  == pc' = [pc EXCEPT ![p] = l]
Children(p) == {q \in Pids : pc[q] # "free" /\ parent[q] = p}
FreePid(q)  == pc[q] = "free" /\ \A x \in Pids : pc[x] = "free" => q <= x
LowFd(t)    == CHOOSE f \in DOMAIN t : t[f] = None /\ \A g \in DOMAIN t : t[g] = None => f <= g

\* The processes that have a descriptor for o, when their tables are t: its end
\* of the pipe stays open as long as there is one.
Holders(t, o) == {p \in Pids : \E f \in DOMAIN t[p] : t[p][f] = o}

\* Those that sleep in piperead(); with tables t instead of fd, the pipes whose
\* last write end is gone; and whom pipeclose() wakes then.
Sleepers(i) == {p \in Pids : pc[p] = "asleep" /\ fd[p][0] = <<"r", i>>}
Closed(t)   == {i \in {fd[p][0][2] : p \in {q \in Pids : pc[q] = "asleep"}} :
                  Holders(fd, <<"w", i>>) # {} /\ Holders(t, <<"w", i>>) = {}}
WakeOf(i)   == IF WakeAll THEN {Sleepers(i)} ELSE {{q} : q \in Sleepers(i)}
WokenBy(t)  == {W \in SUBSET UNION {Sleepers(i) : i \in Closed(t)} :
                  \A i \in Closed(t) : W \cap Sleepers(i) \in WakeOf(i)}

\* p goes on at l with the descriptors t.
Close(p, l, t) ==
    LET new == [fd EXCEPT ![p] = t] IN
    /\ fd' = new
    /\ \E W \in WokenBy(new) :
          pc' = [q \in Pids |-> IF q = p THEN l ELSE IF q \in W THEN "program" ELSE pc[q]]

\* The child of p starts at point l of node c, and p goes on at m.
Fork(p, l, c, m) ==
    \E q \in Pids :
       /\ FreePid(q)
       /\ pc' = [pc EXCEPT ![p] = m, ![q] = l]
       /\ cmd' = [cmd EXCEPT ![q] = c]
       /\ parent' = [parent EXCEPT ![q] = p]
       /\ fd' = [fd EXCEPT ![q] = fd[p]]

\* exit(): everything is closed, children go to INIT, which reaps at once those
\* that are not the shell.
Exit(p) ==
    LET orphans == Children(p)
        new == [fd EXCEPT ![p] = NoFds]
    IN
    /\ fd' = new
    /\ parent' = [q \in Pids |-> IF q \in orphans THEN INIT ELSE parent[q]]
    /\ \E W \in WokenBy(new) :
          pc' = [q \in Pids |->
                    IF q = p THEN IF parent[p] = INIT /\ p # Sh THEN "free" ELSE "zombie"
                    ELSE IF q \in orphans /\ pc[q] = "zombie" THEN "free"
                    ELSE IF q \in W THEN "program" ELSE pc[q]]
    /\ cmd' = [cmd EXCEPT ![p] = NoCmd]

\* wait() by p, which goes on at m: a zombie, or nobody to wait for.
Wait(p, m) ==
    /\ \/ \E q \in Children(p) : /\ pc[q] = "zombie"
                                 /\ pc' = [pc EXCEPT ![p] = m, ![q] = "free"]
       \/ Children(p) = {} /\ Goto(p, m)
    /\ UNCHANGED <<parent, fd, typed, fails, line>>

bounds == <<typed, fails, line>>

-----------------------------------------------------------------------------
(* main()                                                                   *)

\* getcmd() returns line c.
Typed(c) ==
    /\ pc[Sh] = "prompt" /\ c \notin typed /\ Cardinality(typed) < MaxLines
    /\ typed' = typed \cup {c}
    /\ line' = c

InShell(c) == c.type \in {"CD", "BUILTIN", "EXIT"}

\* A child runs the line.
Prompt(c) == ~InShell(c) /\ Typed(c) /\ Fork(Sh, "run", c, "wait") /\ UNCHANGED fails

\* cd and the built-ins, which begin with "_", are done without a child.  (They
\* change the directory and the identity of the shell, that nothing here reads.)
PromptBuiltin(c) ==
    /\ c.type \in {"CD", "BUILTIN"} /\ Typed(c)
    /\ UNCHANGED <<pc, cmd, parent, fd, fails>>

\* exit, or any prefix of it, or the end of the console's input: the shell exits,
\* and so it does when its fork1() panics.
PromptExit(c) ==
    /\ Typed(c)
    /\ \/ c.type = "EXIT" /\ UNCHANGED fails
       \/ ~InShell(c) /\ fails < MaxFails /\ fails' = fails + 1
    /\ Exit(Sh)

\* init waits for the shell and starts another.
Restart ==
    /\ pc[Sh] = "zombie"
    /\ Goto(Sh, "prompt")
    /\ fd' = [fd EXCEPT ![Sh] = Console]
    /\ UNCHANGED <<cmd, parent, bounds>>

MainWait == pc[Sh] = "wait" /\ Wait(Sh, "prompt") /\ UNCHANGED cmd

\* fork1() panics: the process exits.
ForkFail(p) ==
    /\ fails < MaxFails /\ fails' = fails + 1
    /\ pc[p] \in {"fork1", "fork2"} \/ (pc[p] = "run" /\ cmd[p].type \in {"LIST", "BACK"})
    /\ Exit(p)
    /\ UNCHANGED <<typed, line>>

-----------------------------------------------------------------------------
(* runcmd()                                                                 *)

At(p, t) == pc[p] = "run" /\ cmd[p].type = t

RunExec(p) ==
    /\ At(p, "EXEC")
    /\ Goto(p, "program")
    /\ UNCHANGED <<cmd, parent, fd, bounds>>

\* close(rcmd->fd), then open() returns the lowest descriptor.
RunRedir(p) ==
    /\ At(p, "REDIR")
    /\ LET t == [fd[p] EXCEPT ![cmd[p].fd] = None] IN
       Close(p, "run", [t EXCEPT ![LowFd(t)] = <<"file", cmd[p].id>>])
    /\ cmd' = [cmd EXCEPT ![p] = cmd[p].cmd]
    /\ UNCHANGED <<parent, bounds>>

\* exec(), open() or pipe() fails, or there is no program to run: exit().
CallFail(p) ==
    /\ At(p, "EXEC") \/ At(p, "REDIR") \/ At(p, "PIPE")
    /\ Exit(p)
    /\ UNCHANGED bounds

RunList(p) ==
    /\ At(p, "LIST")
    /\ Fork(p, "run", cmd[p].left, "lwait")
    /\ UNCHANGED bounds

ListWait(p) ==
    /\ pc[p] = "lwait"
    /\ Wait(p, "run")
    /\ cmd' = [cmd EXCEPT ![p] = cmd[p].right]

RunBack(p) ==
    /\ At(p, "BACK")
    /\ Fork(p, "run", cmd[p].cmd, "exit")
    /\ UNCHANGED bounds

Rd(p) == <<"r", cmd[p].id>>
Wr(p) == <<"w", cmd[p].id>>

RunPipe(p) ==
    /\ At(p, "PIPE")
    /\ LET a == LowFd(fd[p])
           t == [fd[p] EXCEPT ![a] = Rd(p)] IN
       fd' = [fd EXCEPT ![p] = [t EXCEPT ![LowFd(t)] = Wr(p)]]
    /\ Goto(p, "fork1")
    /\ UNCHANGED <<cmd, parent, bounds>>

ForkLeft(p)  == pc[p] = "fork1" /\ Fork(p, "left", cmd[p], "fork2") /\ UNCHANGED bounds
ForkRight(p) == pc[p] = "fork2" /\ Fork(p, "right", cmd[p], "pclose") /\ UNCHANGED bounds

\* Table t without the ends of the pipe of p.
Unpiped(p, t) == [f \in DOMAIN t |-> IF t[f] \in {Rd(p), Wr(p)} THEN None ELSE t[f]]

\* Fault: the child keeps the other end of the pipe.
PlumbKeep(p, f, o) ==
    LET t == [fd[p] EXCEPT ![f] = None] IN
    [g \in DOMAIN t |-> IF g = LowFd(t) THEN o ELSE IF t[g] = o THEN None ELSE t[g]]

\* close(f), dup(o), close both ends.
Plumb(p, f, o) ==
    LET t == [fd[p] EXCEPT ![f] = None] IN [Unpiped(p, t) EXCEPT ![LowFd(t)] = o]

PipeLeft(p) ==
    /\ pc[p] = "left"
    /\ Close(p, "run", Plumb(p, 1, Wr(p)))
    /\ cmd' = [cmd EXCEPT ![p] = cmd[p].left]
    /\ UNCHANGED <<parent, bounds>>

PipeRight(p) ==
    /\ pc[p] = "right"
    /\ Close(p, "run", Plumb(p, 0, Rd(p)))
    /\ cmd' = [cmd EXCEPT ![p] = cmd[p].right]
    /\ UNCHANGED <<parent, bounds>>

\* Fault: the parent waits with the pipe open.
PipeCloseNot(p) ==
    /\ pc[p] = "pclose"
    /\ Goto(p, "wait1")
    /\ UNCHANGED <<fd, cmd, parent, bounds>>

PipeClose(p) ==
    /\ pc[p] = "pclose"
    /\ Close(p, "wait1", Unpiped(p, fd[p]))
    /\ UNCHANGED <<cmd, parent, bounds>>

\* Fault: one wait() for two children.
PipeWaitOnce(p) == pc[p] = "wait1" /\ Wait(p, "exit") /\ UNCHANGED cmd

PipeWait(p) ==
    /\ \/ pc[p] = "wait1" /\ Wait(p, "wait2")
       \/ pc[p] = "wait2" /\ Wait(p, "exit")
    /\ UNCHANGED cmd

RunExit(p) == pc[p] = "exit" /\ Exit(p) /\ UNCHANGED bounds

\* The program that was started: it reads, sleeps while its pipe is empty and has
\* writers, and ends with its input.  What it writes wakes readers, who take it
\* and read on.
PipeIn(p) == fd[p][0][1] = "r"
Eof(p)    == PipeIn(p) => Holders(fd, <<"w", fd[p][0][2]>>) = {}

ProgramSleep(p) ==
    /\ pc[p] = "program" /\ ~Eof(p)
    /\ Goto(p, "asleep")
    /\ UNCHANGED <<cmd, parent, fd, bounds>>

ProgramEnd(p) == pc[p] = "program" /\ Eof(p) /\ Exit(p) /\ UNCHANGED bounds

ProgramWrite(p) ==
    /\ pc[p] = "program" /\ fd[p][1][1] = "w"
    /\ LET i == fd[p][1][2] IN
       /\ Sleepers(i) # {}
       /\ \E W \in WakeOf(i) :
             pc' = [q \in Pids |-> IF q \in W THEN "program" ELSE pc[q]]
    /\ UNCHANGED <<cmd, parent, fd, bounds>>

Step(p) ==
    \/ RunExec(p) \/ RunRedir(p) \/ RunList(p) \/ ListWait(p) \/ RunBack(p)
    \/ RunPipe(p) \/ ForkLeft(p) \/ ForkRight(p) \/ PipeLeft(p) \/ PipeRight(p)
    \/ PipeClose(p) \/ PipeWait(p) \/ RunExit(p) \/ ProgramSleep(p)
    \/ ProgramEnd(p)

Next == \/ MainWait \/ Restart
        \/ \E c \in Commands : Prompt(c) \/ PromptBuiltin(c) \/ PromptExit(c)
        \/ \E p \in Pids : Step(p) \/ ProgramWrite(p) \/ ForkFail(p) \/ CallFail(p)

Spec == Init /\ [][Next]_vars
-----------------------------------------------------------------------------
(* Properties.                                                              *)

\* Nodes of tree c that are programs; those in the foreground; and what runs
\* before what: <<x, y>> if y starts when x has ended.
RECURSIVE ProgramsOf(_, _), Order(_), Wiring(_, _, _)
ProgramsOf(c, fg) ==
    CASE c.type = "EXEC" -> {c.id}
      [] c.type = "REDIR" -> ProgramsOf(c.cmd, fg)
      [] c.type = "BACK" -> IF fg THEN {} ELSE ProgramsOf(c.cmd, fg)
      [] c.type \in {"LIST", "PIPE"} -> ProgramsOf(c.left, fg) \cup ProgramsOf(c.right, fg)
      [] OTHER -> {}

Order(c) ==
    CASE c.type \in {"REDIR", "BACK"} -> Order(c.cmd)
      [] c.type = "LIST" -> Order(c.left) \cup Order(c.right)
                            \cup (ProgramsOf(c.left, TRUE) \X ProgramsOf(c.right, FALSE))
      [] c.type = "PIPE" -> Order(c.left) \cup Order(c.right)
      [] OTHER -> {}

\* <<program, standard input, standard output>> for the programs of c.
Wiring(c, in, out) ==
    CASE c.type = "EXEC" -> {<<c.id, in, out>>}
      [] c.type = "REDIR" -> LET o == <<"file", c.id>> IN
                             Wiring(c.cmd, IF c.fd = 0 THEN o ELSE in,
                                           IF c.fd = 1 THEN o ELSE out)
      [] c.type = "BACK" -> Wiring(c.cmd, in, out)
      [] c.type = "LIST" -> Wiring(c.left, in, out) \cup Wiring(c.right, in, out)
      [] c.type = "PIPE" -> Wiring(c.left, in, <<"w", c.id>>)
                            \cup Wiring(c.right, <<"r", c.id>>, out)
      [] OTHER -> {}

IsProgram(p) == pc[p] \in {"program", "asleep"}
Running(x)   == \E p \in Pids : IsProgram(p) /\ cmd[p].id = x

\* Two programs of c read one pipe, and neither starts after the other has ended.
SharedInput(c) ==
    \E w1, w2 \in Wiring(c, Cons, Cons) :
       /\ w1[1] # w2[1] /\ w1[2] = w2[2] /\ w1[2][1] = "r"
       /\ {<<w1[1], w2[1]>>, <<w2[1], w1[1]>>} \cap Order(c) = {}

\* Every program is started with the input and output that its line asks for,
\* and with nothing else open.
Wired ==
    \A p \in Pids : IsProgram(p) =>
       /\ \E c \in Commands : <<cmd[p].id, fd[p][0], fd[p][1]>> \in Wiring(c, Cons, Cons)
       /\ fd[p][2] = Cons /\ \A f \in 3..(NOFD - 1) : fd[p][f] = None

\* In "x; y" y starts when x, all of a pipeline, has ended, and the prompt comes
\* when all of the foreground has, unless a fork() failed.
InTurn ==
    fails = 0 =>
      /\ \A o \in Order(line) : ~(Running(o[1]) /\ Running(o[2]))
      /\ pc[Sh] = "prompt" => \A x \in ProgramsOf(line, TRUE) : ~Running(x)

\* No command line hangs the shell: until the prompt comes back some process can
\* go on, because the readers of a pipe are woken once nobody else keeps a write
\* end open, and nobody waits for a child that is not his.  Trees being finite,
\* and programs that end with their input, the prompt does come back.  In the
\* list builds, where pipeclose() wakes one reader, lines such as a | (b &; c) in
\* which two programs read one pipe at a time are excepted: they do hang.
NoHang ==
    pc[Sh] = "wait" => \/ ENABLED (MainWait \/ \E p \in Pids : Step(p))
                       \/ ~WakeAll /\ SharedInput(line)

\* Command lines run as written: programs are wired as the line says, in turn, and
\* the prompt comes back.
CommandsRight == Wired /\ InTurn /\ NoHang
=============================================================================
