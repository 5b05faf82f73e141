\* 8 sequence numbers, so that the rollover is met; one address off the grid.
CONSTANTS
    Record = 2
    Ring = 3
    Half = 4
    NoMeta = NoMeta
SPECIFICATION SavesSpec
INVARIANTS
    SavesTypeOK
    VerifiedSurvives
CHECK_DEADLOCK FALSE
