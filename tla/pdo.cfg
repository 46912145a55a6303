CONSTANTS
    NumSlaves = 3
    Dictionary <- SomeDictionaries
    MAX_SLAVE_NUM = 50
    MAX_PD_NUM = 8
    MaxLost = 2
SPECIFICATION Spec
CHECK_DEADLOCK FALSE
INVARIANTS
    TypeOK
    OffsetsAgree
    InsideImage
    NoOverlap
