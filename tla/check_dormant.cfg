CONSTANTS
    NumSlaves = 2
    Wired = FALSE
    MaxFault = 3
    MaxLost = 2
SPECIFICATION Spec
PROPERTY Restored
CHECK_DEADLOCK FALSE
