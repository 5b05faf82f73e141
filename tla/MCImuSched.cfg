SPECIFICATION Spec
CONSTANTS
    N = 3
    Idle = idle
    MaxFailures = 1
INVARIANTS
    TransferWatched
    InflightOwnsBus
PROPERTIES
    NoStarvation
    HungTransferEnds
