--------------------------- MODULE MCBtrSearchFree ---------------------------
EXTENDS BtrSearchFree, TLC

CONSTANTS t1, t2, p1, p2, p3, i1, i2, s1, s2

MCThreads == {t1, t2}
MCPages == {p1, p2, p3}
MCIndexes == {i1, i2}
MCSigs == {s1, s2}

(* Threads, pages, incarnations and signatures have no identity the code *)
(* looks at.                                                             *)
MCSymmetry == Permutations(MCThreads) \cup Permutations(MCPages)
              \cup Permutations(MCIndexes) \cup Permutations(MCSigs)
=============================================================================
