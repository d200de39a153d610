SPECIFICATION FairSpec
CONSTANTS
    Nodes = {1, 2, 3}
    Host = 1
    Kinds = {"rename"}
    Editors = {2, 3}
    MaxRev = 2
    MaxEditRev = 2
    MaxName = 3
    MaxFlight = 2
    MaxLoss = 1
    MaxCrash = 0
    MaxWipe = 0
    MaxUpset = 1
CHECK_DEADLOCK FALSE
PROPERTY Agreement
