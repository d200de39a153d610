SPECIFICATION SharedSpec
CONSTANTS
    Members = {m1}
    Host = host
    Admins = {}
    NoOne = noone
    NewLevels = {"none"}
    MaxRev = 3
    MaxVersions = 1
    MaxTotal = 3
    MaxUpsets = 1
    MaxSnaps = 1
    MaxChange = 2
    MaxConnect = 2
    FeedTasks = {t1, t2}
    Editors = {e1, e2}
    PlainEditors = {e2}
    Cols = 3
    MaxCells = 2
    MaxValue = 2
    MaxEdit = 2
    MaxLate = 2
    Openers = {o1, o2}
    MaxOpens = 4
    MaxDeaths = 1
    Memos = {x1, x2}
    Folders = {f1}
    Names = {n1}
    FileTitles = {l1}
    MaxSize = 2
    Capacity = 3
    MaxShelf = 4
    MaxSheets = 2
    SyncLimit = 1
    Lookers = {me, you}
    Me = me
    MaxLook = 1
    MaxJoin = 2
    Requests = {p, q}
    MaxTime = 2
    Most = 1
    MaxOps = 3
    Lines = {a, b}
    MaxLines = 4
    MaxProduct = 9
    Targets = {x1}
    MaxSets = 3
    MaxClears = 1
    MaxCuts = 2
    GroupNodes = {1, 2, 3}
    MaxDesktop = 1
    MaxFaults = 1
INVARIANTS SharedTypeOK SharedSound TextsSound
PROPERTY LeaseHeld
CHECK_DEADLOCK FALSE
