\* A game and the api, while the center may restart.
SPECIFICATION Spec
CONSTANTS
    Games = {g1}
    Gateways = {}
    Apis = {a}
    Ranks = {}
    Addresses <- MCAddresses
    Registers <- MCRegisters
    Movers = {}
    Nobody = Nobody
    Callers = {}
    Timeout = 1
    MaxTries = 1
    MaxFaults = 1
    Horizon = 1
PROPERTY GameComesBack
