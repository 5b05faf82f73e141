SPECIFICATION Spec
CONSTANTS
    left = left
    right = right
    Sides <- MCSides
    Order <- MCOrder
    Torques = {0, 1}
    Zero = 0
    None = none
PROPERTIES
    ImplementsSpec
    TorqueReachesClosedDrive
CHECK_DEADLOCK FALSE
