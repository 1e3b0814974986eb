------------------------------ MODULE MCStorage ------------------------------
EXTENDS StorageDrivers

Symmetry == Permutations(Containers) \cup Permutations(Snaps) \cup Permutations(Threads)

(* One thread whose commands may fail, then one call more; two threads whose *)
(* commands work, with four calls between them.                              *)
Alone    == [threads |-> 1, snaps |-> 1, harm |-> 1, calls |-> 1]
Together == [threads |-> 2, snaps |-> 2, harm |-> 0, calls |-> 4]
Both     == {Alone, Together}
=============================================================================
