CONSTANTS
    Session = {s1, s2}
    User = {u1}
    Node = {n1}
    NoNode = NoNode
    Token = {t1, t2}
    Absent = Absent
    MaxSessions = 1
    MaxPerUser = 1
    MaxPerNode = 1
    Link = {l1}
    Nobody = Nobody
    Actor = u1
    CommandCap = 1
    EventCap = 1
    Inputs = {"input", "revoke", "leave", "output", "exit", "fail", "die", "offline", "idle"}
SPECIFICATION RemoteSpec
INVARIANTS RemoteTypeOK NoForgottenTerminal
SYMMETRY Symmetric
CHECK_DEADLOCK FALSE
