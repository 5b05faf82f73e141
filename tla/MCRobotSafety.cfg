SPECIFICATION Spec
CONSTANTS
    Sides = {left, right}
    Torques = {0, 1}
    Zero = 0
    None = none
    ImuFallen = 0
    ImuFatal = 1
    MotorFallen = 0
    MotorFatal = 0
    LinkTimeout = 0
    KtKnown = FALSE
INVARIANTS
    TypeOK
    PowerHasOwner
    ManualExcludesController
    BeliefMatchesDrives
    SentRecordTruthful
PROPERTIES
    ArmFromRest
    TorqueNeedsAuthority
