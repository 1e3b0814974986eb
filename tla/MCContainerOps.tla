-------------------------- MODULE MCContainerOps --------------------------
(* Two containers and three operations: two generations of the lock on one   *)
(* container while the other one is locked too.                              *)
EXTENDS ContainerOps
=============================================================================
