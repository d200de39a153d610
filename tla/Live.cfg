SPECIFICATION LiveSpec
CONSTANTS
    MaxKey = 2
    MaxSession = 2
    MaxQueue = 1
    MaxCrash = 1
    MaxOutage = 1
    MaxManual = 0
    MaxReconfig = 0
    MaxBadEdit = 1
    MaxWriteError = 1
    MaxFaults = 2
    Msgs = {m1, m2}
    Direct = {m1}
    Peers = {b, c}
    Buddy = b
    Pumps = {t1}
    Ipc = ipc
    Reconcile = reconcile
    Nobody = nobody
    MaxFail = 1
    MaxMiss = 1
    MaxRepeat = 1
    MaxCancel = 1
    MaxTrouble = 1
    Nodes = {1, 2, 3}
    Host = 1
    Editors = {2, 3}
    MaxRev = 4
    MaxEditRev = 2
    MaxName = 2
    MaxFlight = 1
    MaxLoss = 1
CHECK_DEADLOCK FALSE
PROPERTIES KeysMeet Delivered SameRevision
