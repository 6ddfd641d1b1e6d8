\* Two players who keep their connections, and of whom the second asks whenever he likes.
SPECIFICATION Spec
SYMMETRY LobbySymmetry
CONSTANTS
    AccountOf <- MCAccountOf
    Conns = {c1, c2}
    c1 = c1
    c2 = c2
    c3 = c3
    p1 = p1
    p2 = p2
    NoConn = NoConn
    Patient = {p1}
    Players = {p1, p2}
    NoPlayer = NoPlayer
    NoRoom = 0
    NoGame = NoGame
    Asked = {0}
    Gateways = {gw}
    Games = {g1}
    Workers = {w1, w2}
    SeqBase = 2
    MatchTimeout = 1
    ResultTtl = 2
    Drops = {}
    MaxJoins = 4
INVARIANTS
    NothingLeftBehind
    InputsReachBattle
PROPERTIES MatchesAsPromised
