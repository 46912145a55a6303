CONSTANTS
    t1 = t1
    t2 = t2
    t3 = t3
    p1 = p1
    p2 = p2
    Thread = {t1, t2, t3}
    Proc = {p1}
    ProcOf <- OneProcess
    EC_SEM_NUM = 2
SPECIFICATION Safety
INVARIANT SlotInRange
