------------------------------ MODULE MCBcache ------------------------------
(***************************************************************************)
(* A small instance of Bcache for TLC.                                     *)
(***************************************************************************)
EXTENDS Bcache

CONSTANTS v1, v2

MCDisk == [x \in Blocks |-> IF x \in Writable THEN v1 ELSE v2]
=============================================================================
