---------------------------- MODULE MCMatchPool ----------------------------
\* Instances of MatchPool for TLC.
EXTENDS MatchPool, TLC

\* The instances are interchangeable, and so are the players: ties in a pool are
\* broken in any order, so no definition tells two players apart.
PoolSymmetry == Permutations(Games) \cup Permutations(Players)
=============================================================================
