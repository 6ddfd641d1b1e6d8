\* Players who leave at any point of a tick and of a settlement, or never.
SPECIFICATION Spec
CONSTANTS
    P1 = P1
    P2 = P2
    NoPlayer = NoPlayer
    Stranger = Stranger
    Ticker = Ticker
    Callers <- AllCallers
    Handlers = {h1}
    MaxHp = 2
    AtkDamage = 1
    SkillDamage = 2
    AtkRange = 1
    SkillRange = 1
    AtkCooldown = 1
    SkillCooldown = 2
    MapSize = 1
    SpawnOffset = 0
    MoveStep = 1
    Timeout = 1
    FinishCleanup = 0
    WinScore = 10
    LoseScore = 1
    Inputs <- FallInputs
    MaxUnreached = 1
    MaxPending = 1
INVARIANTS
    OutcomeFitsBattle
    DeathIsBeingSettled
    RemovedWhenOver
    FramesInLockstep
PROPERTIES
    OutcomeIsFinal
    KeepsPromise
    RoomIsClosed
