\* Two clients and two passwords for an account, which some command may fail, next to a ranking
\* and an operator.  The bounded calls used up, the system has stopped.
SPECIFICATION AdminSpec
SYMMETRY AccountsSymmetry
CONSTANTS
    Clients = {c1, c2}
    Accounts = {1}
    Passwords = {x, y}
    Salts = {s}
    Nobody = 0
    NoPassword = NoPassword
    NoRow = NoRow
    TokenTtl = 2
    InfoTtl = 2
    MaxCalls = 3
    MaxFailures = 1
    Veterans = {2, 3, 4}
    NoNumber = NoNumber
    VeteranScore <- MCVeteranScore
    DefaultTop = 2
    MaxTop = 3
    AdminTtl = 1
    Points = {2}
    MaxScore = 2
INVARIANTS
    OneRegistration
    SessionIsOwn
    LiveTokenVerifies
    RankPagesRight
    HealthyMeansTrue
