CONSTANTS
    NumSlaves = 1
    Dictionary <- OnlyChannels
    MAX_SLAVE_NUM = 50
    MAX_PD_NUM = 25
    MaxLost = 0
SPECIFICATION Spec
CHECK_DEADLOCK FALSE
INVARIANT WithinTable
