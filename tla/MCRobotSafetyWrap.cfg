SPECIFICATION Spec
CONSTANTS
    Sides = {left}
    Torques = {0}
    Zero = 0
    None = none
    ImuFallen = 0
    ImuFatal = 1
    MotorFallen = 0
    MotorFatal = 0
    LinkTimeout = 0
    KtKnown = FALSE
PROPERTIES
    FaultOnlyOnLoss
