CONSTANTS
    Session = {s1, s2}
    User = {u1}
    Node = {n1}
    NoNode = NoNode
    Token = {t1, t2}
    Absent = Absent
    MaxSessions = 2
    MaxPerUser = 2
    MaxPerNode = 2
    Link = {l1}
    Nobody = Nobody
    Actor = u1
    CommandCap = 1
    EventCap = 1
    Inputs = {"terminate", "detach", "http", "die", "old"}
SPECIFICATION FairRemoteSpec
PROPERTIES LostLinkEndsHandlers RemoteSessionEnds TerminalCloses
CHECK_DEADLOCK FALSE
