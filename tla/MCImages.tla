------------------------------ MODULE MCImages -------------------------------
EXTENDS Images, TLC
CONSTANTS t1, t2, t3, a1, a2
AllKinds == {"launch", "copy", "url", "refresh", "upload", "publish", "delete", "prune"}
Symmetry == Permutations({t1, t2, t3} \cap Threads) \cup Permutations({a1, a2} \cap Aliases)
=============================================================================
