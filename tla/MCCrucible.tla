----------------------------- MODULE MCCrucible -----------------------------
(* Instances of Crucible: two kinds of line, enough lines to overflow both *)
(* the pipe and the capped buffer.                                         *)
EXTENDS Crucible

CONSTANTS lineA, lineB

MCLine == {lineA, lineB}
=============================================================================
