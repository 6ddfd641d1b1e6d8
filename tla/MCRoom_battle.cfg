\* A battle that nobody leaves: two inputs a tick, walking and all attacks.
SPECIFICATION Spec
CONSTANTS
    P1 = P1
    P2 = P2
    NoPlayer = NoPlayer
    Stranger = Stranger
    Ticker = Ticker
    Callers = {}
    Handlers = {}
    MaxHp = 4
    AtkDamage = 1
    SkillDamage = 4
    AtkRange = 0
    SkillRange = 0
    AtkCooldown = 2
    SkillCooldown = 4
    MapSize = 1
    SpawnOffset = 1
    MoveStep = 1
    Timeout = 3
    FinishCleanup = 0
    WinScore = 10
    LoseScore = 1
    Inputs <- BattleInputs
    MaxUnreached = 0
    MaxPending = 2
INVARIANTS
    NoDamageBeforeSpawn
    DamageWithinCooldown
    MutualKillFavoursP2
