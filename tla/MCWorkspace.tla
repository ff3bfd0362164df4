---------------------------- MODULE MCWorkspace -----------------------------
(* Instances of Workspace: three invocations in one place and one in       *)
(* another.                                                                *)
EXTENDS Workspace

CONSTANTS p1, p2, p3, p4
MCPlace == [p \in Proc |-> IF p = p4 THEN "there" ELSE "here"]
=============================================================================
