------------------------------- MODULE MCPipe -------------------------------
(***************************************************************************)
(* Small instances of Pipe for TLC.                                        *)
(***************************************************************************)
EXTENDS Pipe

MCBytes == {0, 1}

\* One value, where the order of bytes does not matter.
MCBlank == {0}
=============================================================================
