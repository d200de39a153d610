SPECIFICATION FairSpec
CONSTANTS
    Addrs = {a1}
    Edits = {"append", "reuse", "remove", "rotate", "change", "expire"}
    NoPeer = nopeer
    MaxKey = 3
    MaxVer = 2
    MaxFail = 1
    MaxRestart = 1
    MaxTrouble = 1
INVARIANTS TypeOK NothingForgotten GoneInTwoTicks NoFalseNotice OnePeerPerAddress
PROPERTIES NoticedFirst DeviceFollowsFile
