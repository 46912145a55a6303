CONSTANTS
    NumSlaves = 2
    Wired = TRUE
    MaxFault = 3
    MaxLost = 3
SPECIFICATION Spec
INVARIANTS
    TypeOK
    NothingLeftBehind
    InOpMapped
PROPERTY Restored
CHECK_DEADLOCK FALSE
