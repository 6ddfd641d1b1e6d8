------------------------------- MODULE MCRoom -------------------------------
\* Instances of Room for TLC: the players and the threads are model values,
\* the rest small numbers in the proportions of room.go.
EXTENDS Room

CONSTANTS Stranger          \* an id that is not in the room

AllCallers == {P1, P2, Stranger}

ToMove(dx)     == [type |-> "MOVE", dx |-> dx, target |-> NoPlayer]
Against(t, id) == [type |-> t, dx |-> 0, target |-> id]

\* Enough to make the HP differ, and to kill.
FallInputs == {Against("ATK", P1)}

\* Walking, and each attack.
BattleInputs == {Against("ATK", P2), Against("SKILL", P1), Against("SKILL", P2), ToMove(1)}
=============================================================================
