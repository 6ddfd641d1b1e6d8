\* Two frames after the first, with up to two inputs each; no
\* move arrives before the first tick.  Deadlock is off:
\* the battle stops at MaxFrames.
SPECIFICATION Spec
CHECK_DEADLOCK FALSE
CONSTANTS
    P1 = 1
    P2 = 2
    LowId = 2
    MaxHp = 3
    AtkDamage = 2
    SkillDamage = 3
    AtkRange = 1
    SkillRange = 2
    AtkCooldown = 2
    SkillCooldown = 2
    MapSize = 3
    SpawnOffset = 1
    MoveStep = 1
    Inputs <- MCInputs
    EarlyInputs <- AttackEarly
    MaxPending = 2
    MaxFrames = 3
    MaxInFlight = 2
INVARIANTS
    ClientFollowsServer
