CONSTANTS
    t1 = t1
    t2 = t2
    t3 = t3
    p1 = p1
    p2 = p2
    Thread = {t1, t2, t3}
    Proc = {p1, p2}
    ProcOf <- TwoProcesses
    EC_SEM_NUM = 2
SPECIFICATION Spec
INVARIANTS
    TypeOK
    SemBinary
    AtMostTwice
    Announced
PROPERTIES
    ImplementsSignals
    SoleWaiterReleased
