SPECIFICATION NodeSpec
CONSTANTS
    MaxDeaths = 1
    Computers = {c1, c2}
    MaxRules = 2
    Lifetime = 1
    MaxSessions = 1
    MaxTime = 4
    MaxChanges = 2
    MaxGen = 2
    MaxFails = 1
    MaxMsgs = 1
    MaxHolder = 2
    MaxOps = 1
    Devices = {1, 2, 3}
    MaxKey = 3
    MaxKeyGen = 4
    MaxRefusals = 1
    MaxDrops = 1
    RotateAfter = 1
    FailGap = 1
    PokeGap = 3
    DeadWait = 3
    StaleAge = 3
    DeadAge = 4
    RekeyAge = 2
    MaxMoves = 3
    MaxLate = 1
    MaxCross = 1
    MaxSeq = 2
    MaxConnects = 2
    MaxReads = 1
    MaxToggles = 1
    MaxJoins = 1
    MaxMembers = 3
    MaxCopies = 2
    MaxEdits = 2
    MaxConcurrent = 1
    MaxBatches = 2
INVARIANTS NodeTypeOK HostSound PhoneSound
CHECK_DEADLOCK FALSE
