\* Two players and their calls of JoinMatch, on two instances that share the
\* pools; a command may fail, or an instance die and start again.
SPECIFICATION Spec
SYMMETRY PoolSymmetry
CONSTANTS
    Players = {p1, p2}
    Gateways = {gw}
    Games = {g1, g2}
    Queriers = {q1}
    NoPlayer = NoPlayer
    NoRoom = 0
    NoGame = NoGame
    SeqBase = 2
    MatchTimeout = 1
    ResultTtl = 1
    MaxJoins = 4
    MaxFailures = 1
INVARIANTS
    RoomIdsDistinct
    EntryPlaysOnce
    NobodyPlaysHimself
    ResultNamesOwnRoom
