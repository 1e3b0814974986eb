------------------------------ MODULE MCExec ------------------------------
(* An exec, and an operation beside it, for TLC.                           *)
EXTENDS Exec

CONSTANTS x, t

MCOps == {x, t}
===========================================================================
