---------------------------- MODULE MCFrameSync ----------------------------
\* Instances of FrameSync for TLC.
EXTENDS FrameSync

ToMove(dx)     == [type |-> "MOVE", dx |-> dx, target |-> 0]
Against(t, id) == [type |-> t, dx |-> 0, target |-> id]

MCInputs == {ToMove(-2), ToMove(1), Against("ATK", 1), Against("ATK", 2), Against("SKILL", 1)}

\* Before the first tick: everything but a move, whose effect a client would miss.
AttackEarly == {op \in MCInputs : op.type # "MOVE"}
=============================================================================
