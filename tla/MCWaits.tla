------------------------------ MODULE MCWaits ------------------------------
(***************************************************************************)
(* Waiting and being woken, in the builds where a wakeup reaches one       *)
(* sleeper: a pipe between one reader and one writer, the console, and the *)
(* clock.  They are independent: part says which one moves, the others     *)
(* stay as they were initialised.                                          *)
(***************************************************************************)
EXTENDS MCPipe

VARIABLES
    part,
    con_buf, con_r, con_w, con_e, con_lock, con_iq, con_may, con_pc, con_left,
    con_killed, con_dst, con_pos,
    tick_ticks, tick_inc, tick_tq, tick_pc, tick_ticks0, tick_n, tick_killed, tick_slept

conVars  == <<con_buf, con_r, con_w, con_e, con_lock, con_iq, con_may, con_pc, con_left,
              con_killed, con_dst, con_pos>>
tickVars == <<tick_ticks, tick_inc, tick_tq, tick_pc, tick_ticks0, tick_n, tick_killed,
              tick_slept>>

\* A ring of two characters, a screen of two rows; one or two readers.
Con == INSTANCE Console WITH
    Readers <- {{"c1"}, {"c1", "c2"}}, Letters <- {"a"}, NL <- "newline", NUL <- "nul",
    INPUT_BUF <- 2, UINTMOD <- 4, ROWS <- 2, COLS <- 2, MaxN <- 2,
    Outputs <- {<<"newline">>, <<"a", "a", "a">>}, WAKEONE <- TRUE, NoProc <- "nobody",
    buf <- con_buf, r <- con_r, w <- con_w, e <- con_e, lock <- con_lock, iq <- con_iq,
    may <- con_may, pc <- con_pc, left <- con_left, killed <- con_killed,
    dst <- con_dst, pos <- con_pos

Clock == INSTANCE TickSleep WITH
    Procs <- {"t1", "t2"}, Ns <- {2}, UINTMOD <- 6, LAG <- 1, WAKEONE <- TRUE,
    ticks <- tick_ticks, inc <- tick_inc, tq <- tick_tq, pc <- tick_pc,
    ticks0 <- tick_ticks0, n <- tick_n, killed <- tick_killed, slept <- tick_slept

PipeMoves  == part = "pipe" /\ Next /\ UNCHANGED <<conVars, tickVars>>
ConMoves   == part = "console" /\ Con!Next /\ UNCHANGED <<vars, tickVars>>
ClockMoves == part = "clock" /\ Clock!Next /\ UNCHANGED <<vars, conVars>>

WaitsInit ==
    /\ part \in {"pipe", "console", "clock"}
    /\ Init /\ Con!Init /\ Clock!Init
    /\ addr = 0 /\ \A i \in DOMAIN data : data[i] = 0
    /\ part # "console" => con_may = {"c1"} /\ con_pos = 0
    /\ part # "clock" => tick_ticks = 0

WaitsNext == /\ PipeMoves \/ ConMoves \/ ClockMoves
             /\ UNCHANGED part

\* The fairness of the parts.  That of the pipe and the console says nothing
\* while they do not move; the clock ticks only if it is the one to move.
WaitsFairness ==
    /\ Fairness /\ Con!Fairness
    /\ WF_tickVars(part = "clock" /\ Clock!Tick) /\ WF_tickVars(Clock!TickWake)
    /\ \A p \in {"t1", "t2"} : WF_tickVars(Clock!Step(p))

WaitsSpec ==
    /\ WaitsInit
    /\ [][WaitsNext]_<<vars, conVars, tickVars, part>>
    /\ WaitsFairness
-----------------------------------------------------------------------------
(* The properties of the parts, under their own names; those of the pipe    *)
(* are inherited.                                                           *)

\* Console: what is entered is read in order, what is erased is not read.
LinesInOrder == Con!LinesInOrder

\* Console: the only reader is woken and its read() of a line returns.
LineWakes == Con!LineWakes

\* Console: cgaputc() keeps the cursor on the screen.
CursorOnScreen == Con!CursorOnScreen

\* Clock: every sleep(n) ends, after n ticks or more.
SleepRight == Clock!SleepRight
=============================================================================
