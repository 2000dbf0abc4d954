CONSTANTS
    Session = {s1}
    User = {u1}
    Node = {}
    NoNode = NoNode
    Token = {t1, t2}
    Absent = Absent
    MaxSessions = 1
    MaxPerUser = 1
    MaxPerNode = 1
    Conn = {c1, c2}
    Actor = u1
    ChannelCap = 1
    Inputs = {"other", "terminate", "detach", "reattach", "http", "output", "error", "idle", "old"}
SPECIFICATION LocalSpec
CHECK_DEADLOCK FALSE
PROPERTY DetachKeepsShell
