SPECIFICATION Spec
CONSTANTS
    Periods = {8, 9}
    Budget = 4
    ControlMax = 1
    LinkMax = 1
    IdleMax = 6
    Timeout = 5
    WatchdogMax = 13
    AgeCap = 20
INVARIANTS
    ControlInTime
    LinkLossInTime
    WatchdogFed
