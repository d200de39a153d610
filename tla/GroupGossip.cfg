SPECIFICATION Spec
CONSTANTS
    Nodes = {1, 2, 3}
    Host = 1
    Kinds = {"rename", "add", "kick", "leave", "prune"}
    Editors = {2, 3}
    MaxRev = 2
    MaxEditRev = 2
    MaxName = 1
    MaxFlight = 1
    MaxLoss = 0
    MaxCrash = 1
    MaxWipe = 1
    MaxUpset = 1
CHECK_DEADLOCK FALSE
INVARIANTS TypeOK AckSound SameVersionSameGroup
PROPERTY OnlyForward
