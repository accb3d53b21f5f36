------------------------------- MODULE MCLog -------------------------------
(***************************************************************************)
(* Small instances of Log for TLC.                                         *)
(***************************************************************************)
EXTENDS Log, TLC

\* Block contents: as formatted, and written.
MCVals == {0, 1}

\* One content, where only the space in the log matters.
MCBlank == {0}

\* Processes are interchangeable.
Symmetry == Permutations(Procs)
=============================================================================
