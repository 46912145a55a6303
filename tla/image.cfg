SPECIFICATION Spec
CONSTANTS
    InVars <- DriveIn
    OutVars <- DriveOut
    Reads <- StepReads
    Writes <- StepWrites
    MaxCycle = 6
    MaxLate = 3
INVARIANTS TypeOK TornOnlyWhenLate SplitOnlyWhenLate ReactionTime
CHECK_DEADLOCK FALSE
