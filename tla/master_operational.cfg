CONSTANTS
    drive = drive
    do = do
    di = di
    Slave = {drive, do, di}
    Outputs = {drive, do}
    Inputs = {drive, di}
    MaxChk = 2
    MaxFault = 1
SPECIFICATION Safety
CHECK_DEADLOCK FALSE
PROPERTY AllSlavesOperational
