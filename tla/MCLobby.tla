------------------------------ MODULE MCLobby ------------------------------
\* Instances of Lobby for TLC.
EXTENDS Lobby, TLC

CONSTANTS c1, c2, c3, p1, p2

\* The third connection is the first player's second device.
Account == [c \in Conns |-> IF c = c2 THEN p2 ELSE p1]
MCAccountOf(c) == Account[c]

\* Workers are alike.
LobbySymmetry == Permutations(Workers)
=============================================================================
