SPECIFICATION DeviceSpec
CONSTANTS
    MaxKey = 3
    MaxSession = 2
    MaxQueue = 2
    MaxCrash = 1
    MaxOutage = 1
    MaxManual = 1
    MaxReconfig = 1
    MaxBadEdit = 0
    MaxWriteError = 0
    MaxFaults = 2
    Requests = {p1, p2, n1, n2}
    Numbered = {n1, n2}
    MaxSessions = 2
    Transfers = {f1, f2, f3}
    Parallel = 2
    Paths = {1, 2, 3}
    Size = 2
    MaxVersion = 2
INVARIANTS TypeOK HostKeyHeld RunningKeyHeld AnswersMatched Verified
PROPERTIES CommitOnlyTaken HostNeverReverts
CHECK_DEADLOCK FALSE
