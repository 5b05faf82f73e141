SPECIFICATION Spec
CONSTANTS
    Values = {v1, v2}
    None = None
    Torn = Torn
    Erased = Erased
    Garbage = Garbage
    Words = 5
    Sizes = {2, 3}
    MaxSequence = 4
    MaxFailures = 1
INVARIANTS
    TypeOK
    AckedSurvives
    RamMatchesFlash
