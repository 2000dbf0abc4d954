CONSTANTS
    Session = {s1, s2}
    User = {u1}
    Node = {}
    NoNode = NoNode
    Token = {t1, t2}
    Absent = Absent
    MaxSessions = 1
    MaxPerUser = 1
    MaxPerNode = 1
    Conn = {c1, c2}
    Actor = u1
    ChannelCap = 1
    Inputs = {"terminate", "detach", "reattach", "http", "error", "old"}
SPECIFICATION LocalSpec
INVARIANTS LocalTypeOK NoOrphanShell AttachedHasHandler EndAudited
SYMMETRY Symmetric
CHECK_DEADLOCK FALSE
