SPECIFICATION Spec
CONSTANTS
    Procs = {daemon, ui}
    Daemon = daemon
    Kinds = {"append", "remove", "rotate", "deny", "policy"}
    Addrs = {a1, a2}
    Labels = {l1, l2}
    Devices = {d1, d2}
    Free = free
    NoLabel = nolabel
    NoDevice = nodevice
    MaxKey = 2
    MaxEdit = 5
    MaxCrash = 0
CHECK_DEADLOCK FALSE
PROPERTY NoLostUpdate
