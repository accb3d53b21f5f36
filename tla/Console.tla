------------------------------ MODULE Console ------------------------------
(***************************************************************************)
(* The console (console.c): the input ring that the keyboard and serial    *)
(* interrupts fill and edit, the processes in consoleread(), the cursor.   *)
(* cons.lock is held from one sleep() to the next, so the loop of          *)
(* consoleread() takes a character per step with the lock held.            *)
(*                                                                         *)
(* The control keys that list processes or power off only set flags that   *)
(* are looked at after the ring; they leave this state alone.  C('D') is   *)
(* one of them in this kernel, so no end-of-file mark ever gets into the   *)
(* ring and the branch of consoleread() for it is never taken.             *)
(***************************************************************************)
EXTENDS Integers, Sequences, FiniteSets

CONSTANTS
    Readers,      \* sets of processes that may be reading
    Letters, NL, NUL,
    INPUT_BUF, UINTMOD,
    ROWS, COLS,   \* 25 and 80
    MaxN,         \* bound: the largest n of a read
    Outputs,      \* bound: what consolewrite() is asked to write
    WAKEONE,      \* TRUE in the builds with process lists
    NoProc

Procs == UNION Readers
Chars == Letters \cup {NL}

VARIABLES
    buf, r, w, e,  \* struct input
    lock,          \* cons.lock
    iq,            \* sleepers on &input.r
    may,           \* who reads from the console in this run
    pc, left, killed,
    dst,           \* the character stored last by a consoleread()
    pos            \* the cursor

ring == <<buf, r, w, e>>
vars == <<ring, lock, iq, may, pc, left, killed, dst, pos>>

Init ==
    /\ buf = [i \in 0..(INPUT_BUF - 1) |-> NUL]
    /\ r = 0 /\ w = 0 /\ e = 0
    /\ lock = NoProc /\ iq = <<>>
    /\ may \in Readers
    /\ pc = [p \in Procs |-> "user"]
    /\ left = [p \in Procs |-> 0]
    /\ killed = [p \in Procs |-> FALSE]
    /\ dst = NL
    /\ pos \in {0, ROWS * COLS - 1}   \* as the firmware left it

-----------------------------------------------------------------------------
(* cgaputc(): only the cursor, not the characters on the screen.            *)

\* Fault: the screen scrolls only when its last row is full.
ScrolledLate(x) == IF x \div COLS >= ROWS THEN x - COLS ELSE x

Scrolled(x) == IF x \div COLS >= ROWS - 1 THEN x - COLS ELSE x

Advance(x, c) == Scrolled(IF c = NL THEN x + (COLS - (x % COLS)) ELSE x + 1)

Back(x) == Scrolled(IF x > 0 THEN x - 1 ELSE x)

\* k times consputc(BACKSPACE), and consputc() of all of s.
BackBy(x, k) == LET f[j \in 0..k] == IF j = 0 THEN x ELSE Back(f[j - 1]) IN f[k]
Written(x, s) ==
    LET f[j \in 0..Len(s)] == IF j = 0 THEN x ELSE Advance(f[j - 1], s[j]) IN f[Len(s)]

-----------------------------------------------------------------------------
(* consoleintr(): one key per step.                                         *)

Fill == (e - r) % UINTMOD
Line == (e - w) % UINTMOD

\* wakeup(): the sleepers that stay asleep.
Wakeup(s) == IF WAKEONE /\ s # <<>> THEN Tail(s) ELSE <<>>

\* Fault: a full ring is not handed over.
EntersLine(c) == c = NL

\* The character, about to be stored, ends the line.
Enters(c) == c = NL \/ (e + 1) % UINTMOD = (r + INPUT_BUF) % UINTMOD

\* Fault: the newline is stored but nobody is told.
TypeQuiet(c) ==
    /\ lock = NoProc /\ Fill < INPUT_BUF
    /\ buf' = [buf EXCEPT ![e % INPUT_BUF] = c]
    /\ e' = (e + 1) % UINTMOD
    /\ pos' = Advance(pos, c)
    /\ w' = IF Enters(c) THEN e' ELSE w
    /\ UNCHANGED <<r, iq, lock, may, pc, left, killed, dst>>

\* Any other key; '\r' counts as '\n'.  It is dropped when the ring is full.
Type(c) ==
    /\ lock = NoProc /\ Fill < INPUT_BUF
    /\ buf' = [buf EXCEPT ![e % INPUT_BUF] = c]
    /\ e' = (e + 1) % UINTMOD
    /\ pos' = Advance(pos, c)
    /\ IF Enters(c) THEN w' = e' /\ iq' = Wakeup(iq) ELSE UNCHANGED <<w, iq>>
    /\ UNCHANGED <<r, lock, may, pc, left, killed, dst>>

\* C('H')
Backspace ==
    /\ lock = NoProc /\ e # w
    /\ e' = (e - 1) % UINTMOD
    /\ pos' = Back(pos)
    /\ UNCHANGED <<buf, r, w, lock, iq, may, pc, left, killed, dst>>

\* Fault: the line is killed up to the last newline, entered or not.
KillsPast == {k \in 0..INPUT_BUF : \A i \in 1..k : buf[(e - i) % INPUT_BUF] # NL}

\* The numbers of characters that C('U') may take back.
Kills == {k \in 0..Line : \A i \in 1..k : buf[(e - i) % INPUT_BUF] # NL}

KillLine ==
    /\ lock = NoProc
    /\ LET n == CHOOSE k \in Kills : \A j \in Kills : j <= k IN
       /\ n > 0
       /\ e' = (e - n) % UINTMOD
       /\ pos' = BackBy(pos, n)
    /\ UNCHANGED <<buf, r, w, lock, iq, may, pc, left, killed, dst>>

-----------------------------------------------------------------------------
(* consoleread() and consolewrite()                                         *)

Asleep(p) == \E i \in DOMAIN iq : iq[i] = p

Runs(p, l) == pc[p] = l /\ ~Asleep(p) /\ lock \in {p, NoProc}

Goto(p, l) == pc' = [pc EXCEPT ![p] = l]

ReadStart(p, n) ==
    /\ p \in may /\ pc[p] = "user" /\ ~killed[p]
    /\ Goto(p, "read")
    /\ left' = [left EXCEPT ![p] = n]
    /\ UNCHANGED <<ring, lock, iq, may, killed, dst, pos>>

ReadFail(p) ==
    /\ Runs(p, "read") /\ left[p] > 0 /\ r = w /\ killed[p]
    /\ Goto(p, "user") /\ lock' = NoProc
    /\ UNCHANGED <<ring, iq, may, left, killed, dst, pos>>

\* A kill() may come between the test of killed and the sleep.
ReadEmpty(p) ==
    /\ Runs(p, "read") /\ left[p] > 0 /\ r = w /\ ~killed[p]
    /\ Goto(p, "sleep") /\ lock' = p
    /\ UNCHANGED <<ring, iq, may, left, killed, dst, pos>>

ReadSleep(p) ==
    /\ Runs(p, "sleep")
    /\ iq' = Append(iq, p)
    /\ Goto(p, "read") /\ lock' = NoProc
    /\ UNCHANGED <<ring, may, left, killed, dst, pos>>

\* A newline ends the read.
TakeChar(p) ==
    /\ Runs(p, "read") /\ left[p] > 0 /\ r # w
    /\ dst' = buf[r % INPUT_BUF]
    /\ r' = (r + 1) % UINTMOD
    /\ left' = [left EXCEPT ![p] = IF dst' = NL THEN 0 ELSE @ - 1]
    /\ lock' = p
    /\ UNCHANGED <<buf, w, e, iq, may, pc, killed, pos>>

ReadEnd(p) ==
    /\ Runs(p, "read") /\ left[p] = 0
    /\ Goto(p, "user") /\ lock' = NoProc
    /\ UNCHANGED <<ring, iq, may, left, killed, dst, pos>>

consolewrite(s) ==
    /\ lock = NoProc
    /\ pos' = Written(pos, s)
    /\ UNCHANGED <<ring, lock, iq, may, pc, left, killed, dst>>

\* kill()
Kill(p) ==
    /\ ~killed[p]
    /\ killed' = [killed EXCEPT ![p] = TRUE]
    /\ iq' = SelectSeq(iq, LAMBDA x : x # p)
    /\ UNCHANGED <<ring, lock, may, pc, left, dst, pos>>

Step(p) == \/ ReadFail(p) \/ ReadEmpty(p) \/ ReadSleep(p)
           \/ TakeChar(p) \/ ReadEnd(p)

Next == \/ Backspace \/ KillLine
        \/ \E c \in Chars : Type(c)
        \/ \E s \in Outputs : consolewrite(s)
        \/ \E p \in may : \/ Step(p) \/ Kill(p)
                          \/ \E n \in 1..MaxN : ReadStart(p, n)

Spec == Init /\ [][Next]_vars

(* A reader that is not asleep goes on; nothing is assumed of the keyboard. *)
Fairness == \A p \in Procs : SF_vars(Step(p))
-----------------------------------------------------------------------------
(* Properties.                                                              *)

LQ == INSTANCE LineQueue WITH
        q <- [i \in 1..((w - r) % UINTMOD) |-> buf[(r + i - 1) % INPUT_BUF]],
        line <- [i \in 1..Line |-> buf[(w + i - 1) % INPUT_BUF]],
        out <- dst, Capacity <- INPUT_BUF

\* Three counters that wrap around, moved by interrupts and by readers, make a
\* queue of lines: what was entered is read in order, what was erased is not
\* read, and editing never reaches what was entered.
LinesInOrder == LQ!Spec

\* The console never goes deaf: a ring that drops keys holds something to read.
FullIsEntered == Fill = INPUT_BUF => w = e

\* An entered line that ends with a newline waits to be read.
LineReady == \E i \in 1..((w - r) % UINTMOD) : buf[(r + i - 1) % INPUT_BUF] = NL

\* The only reader is never asleep with something to read, and its read()
\* returns once there is a whole line; a full ring does not keep it from coming.
LineWakes ==
    /\ []FullIsEntered
    /\ Cardinality(may) = 1 =>
         /\ [](lock = NoProc /\ iq # <<>> => r = w)
         /\ \A p \in Procs : (LineReady /\ pc[p] # "user") ~> pc[p] = "user"

\* cgaputc() neither panics nor writes behind the screen: it leaves the cursor
\* in the first rows or at the start of the last.
CursorOnScreen == [][pos' \in 0..((ROWS - 1) * COLS)]_pos
=============================================================================
