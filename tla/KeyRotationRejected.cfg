SPECIFICATION Spec
CONSTANTS
    MaxKey = 2
    MaxSession = 2
    MaxQueue = 2
    MaxCrash = 0
    MaxOutage = 1
    MaxManual = 0
    MaxReconfig = 0
    MaxBadEdit = 1
    MaxWriteError = 0
    MaxFaults = 9
INVARIANT NeverLockedOut
CHECK_DEADLOCK FALSE
