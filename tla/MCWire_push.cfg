\* p1 plays, and may stop reading; p2 talks, and need not be heard of for ever.  A socket holds half
\* a header.  The ticks and the clients' frames are bounded, so the system may stop.
SPECIFICATION Spec
CHECK_DEADLOCK FALSE
CONSTANTS
    Players = {p1, p2}
    NoPlayer = NoPlayer
    Battlers = {p1}
    Talkers = {p2}
    Quiet = {p2}
    Slow = {p1}
    Frames <- MCFrames
    SocketSize = 1
    MaxTicks = 2
    MaxBeats = 2
    MaxFrameSize = 3
INVARIANTS
    TypeOK
    HeardAsSent
    FramesIntact
    InOrderUntilLate
PROPERTIES
    TicksGoOn
    SilentThrownOut
