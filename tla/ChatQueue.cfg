SPECIFICATION Spec
CONSTANTS
    Msgs = {m1, m2}
    Direct = {m1}
    Peers = {b, c}
    Buddy = b
    Pumps = {t1, t2}
    Ipc = ipc
    Reconcile = reconcile
    Nobody = nobody
    MaxFail = 1
    MaxMiss = 0
    MaxRepeat = 1
    MaxCancel = 1
    MaxCrash = 1
    MaxTrouble = 2
CHECK_DEADLOCK FALSE
SYMMETRY Symmetry
INVARIANTS TypeOK DeliveredTrue OneAtATime ShownOnce NoSilentLoss
