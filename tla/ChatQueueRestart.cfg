SPECIFICATION Spec
CONSTANTS
    Msgs = {m1, m2}
    Direct = {m1}
    Peers = {b}
    Buddy = b
    Pumps = {t1}
    Ipc = ipc
    Reconcile = reconcile
    Nobody = nobody
    MaxFail = 0
    MaxMiss = 1
    MaxRepeat = 0
    MaxCancel = 0
    MaxCrash = 1
    MaxTrouble = 2
CHECK_DEADLOCK FALSE
INVARIANT KeptForRetry
