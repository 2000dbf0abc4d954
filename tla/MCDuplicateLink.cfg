CONSTANTS
    Session = {s1}
    User = {u1}
    Node = {n1}
    NoNode = NoNode
    Token = {t1, t2}
    Absent = Absent
    MaxSessions = 1
    MaxPerUser = 1
    MaxPerNode = 1
    Link = {l1, l2}
    Nobody = Nobody
    Actor = u1
    CommandCap = 1
    EventCap = 1
    Inputs = {"die"}
SPECIFICATION RemoteSpec
PROPERTY LeavesOwnOnly
CHECK_DEADLOCK FALSE
