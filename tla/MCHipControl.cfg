SPECIFICATION Spec
CONSTANTS
    Hips = 2
    Timeout = 2
    CmdPeriod = 1
    CoordPeriod = 1
    StartWait = 0
    LoopMax = 1
INVARIANTS
    TypeOK
    CommandsFollowMode
    CommandsOnFreshEncoder
    HeartbeatLossStops
    BusOffSilences
