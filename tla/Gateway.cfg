\* Two connections of two players, who log in and out at will; the client of c2 does not read.
SPECIFICATION Spec
CONSTANTS
    Conns = {c1, c2}
    NoConn = NoConn
    Readers = {c1}
    Players = {p1, p2}
    NoPlayer = NoPlayer
    NoRoom = 0
    Rooms = {}
    Modes = {0}
    MaxFrames = 2
    Faults = TRUE
INVARIANTS
    OneConnectionPerPlayer
    NoSessionOfTheGone
PROPERTIES
    OnlyOwnCleanupRemoves
    ClosedIsCleanedUp
