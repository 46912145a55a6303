CONSTANTS
    drive = drive
    do = do
    di = di
    Slave = {drive, do, di}
    Outputs = {drive, do}
    Inputs = {drive, di}
    MaxChk = 2
    MaxFault = 2
SPECIFICATION Spec
CHECK_DEADLOCK FALSE
INVARIANTS
    TypeOK
    CopiesCompleteExchange
    SharedMemoryUsedOnceCreated
PROPERTIES
    StartupEnds
    CycleResumes
