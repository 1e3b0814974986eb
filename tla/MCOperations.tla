--------------------------- MODULE MCOperations ---------------------------
(* One operation of each class and one client of each kind: every client may *)
(* meet every operation, and the same one the others are at.                 *)
EXTENDS Operations
=============================================================================
