---------------------------- MODULE MCContainers -----------------------------
EXTENDS Containers, TLC
CONSTANTS c1, c2, c3, s1, t1, t2
AllKinds == {"none", "image", "copy", "snapshot", "delete", "rename", "restore"}
Symmetry == Permutations({c1, c2, c3}) \cup Permutations({t1, t2})
=============================================================================
