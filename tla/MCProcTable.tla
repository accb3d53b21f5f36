---------------------------- MODULE MCProcTable ----------------------------
(***************************************************************************)
(* Instances of ProcTable for TLC.  The only channel besides the process   *)
(* addresses is &ticks: kernel code may sleep on it and anybody may wake   *)
(* it, so it also stands for the log, buffer and pipe channels.            *)
(***************************************************************************)
EXTENDS ProcTable

MCChans == {TICKS}
=============================================================================
