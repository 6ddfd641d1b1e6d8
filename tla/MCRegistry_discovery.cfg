\* A game and rank that may move, and a gateway.
SPECIFICATION Spec
CONSTANTS
    Games = {g1}
    Gateways = {w}
    Apis = {}
    Ranks = {r}
    Addresses <- MCAddresses
    Registers <- MCRegisters
    Movers = {g1, r}
    Nobody = Nobody
    Callers = {w}
    Timeout = 1
    MaxTries = 1
    MaxFaults = 2
    Horizon = 1
INVARIANTS
    GamesListedWhereTheyRun
    ServingGameListed
    BoundedStaleness
PROPERTIES
    DeadGameForgotten
    RankFound
