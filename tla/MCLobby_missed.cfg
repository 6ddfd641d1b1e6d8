\* A player whose connection ends between the pairing and the answer.
SPECIFICATION Spec
CONSTANTS
    AccountOf <- MCAccountOf
    Conns = {c1, c2}
    c1 = c1
    c2 = c2
    c3 = c3
    p1 = p1
    p2 = p2
    NoConn = NoConn
    Patient = {p1, p2}
    Players = {p1, p2}
    NoPlayer = NoPlayer
    NoRoom = 0
    NoGame = NoGame
    Asked = {0}
    Gateways = {gw}
    Games = {g1}
    Workers = {w1, w2}
    SeqBase = 2
    MatchTimeout = 1
    ResultTtl = 2
    Drops = {c1, c2}
    MaxJoins = 2
INVARIANTS DroppedLoses
