---------------------------- MODULE MCTimerQueue ----------------------------
EXTENDS TimerQueue, TLC
CONSTANTS r1, r2, n1, n2, n3, n4, n5
MCReqs  == {r1, r2}
MCNodes == {n1, n2, n3, n4, n5}
Symmetry == Permutations(MCReqs) \cup Permutations(MCNodes)
=============================================================================
