SPECIFICATION HostSpec
CONSTANTS
    Procs = {daemon, ui}
    Daemon = daemon
    Kinds <- AllKinds
    Addrs = {a1, a2}
    Labels = {l1, l2}
    Devices = {d1, d2}
    Free = free
    NoLabel = nolabel
    NoDevice = nodevice
    MaxKey = 3
    MaxEdit = 4
    MaxCrash = 1
    Askers = {a, b, c}
    First = {a, b}
    Groups = {g}
    Asked = {"dns_name", "remove", "can_invite", "invite", "approve", "set_approval", "record_add", "group_delete", "group_create", "rename", "record_remove", "display_name", "set_dns", "set_invites", "subnets"}
    EditedOps = {"set_dns", "grant", "revoke", "set_invites", "record_remove", "remove"}
    MaxOps = 3
    MaxConns = 2
    MaxRev = 2
    MaxWire = 1
    Nets = {1, 2, 3}
    Fixed = {3}
    FixedName = 2
    IfNames = {1, 2}
    MaxTunnels = 2
    MaxFaults = 1
    MaxEnds = 1
    Ends = {e1, e2}
    Subnets = {n1}
    MaxFail = 2
    MaxLedger = 2
INVARIANTS HostTypeOK RevokedGone ControlSound TunnelsSound PathsSound
PROPERTIES PeersKept DeviceBound
CHECK_DEADLOCK FALSE
