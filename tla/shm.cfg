CONSTANTS
    c1 = c1
    c2 = c2
    Client = {c1}
    EC_SEM_NUM = 2
    MaxStart = 2
    MaxAttach = 2
SPECIFICATION Spec
CHECK_DEADLOCK FALSE
INVARIANTS
    TypeOK
    MasterOwnsNames
    LateClientShares
    LateClientAttaches
    CleanStart
    SemBinary
PROPERTY LateClientReleased
