CONSTANTS
    Session = {s1, s2, s3}
    User = {u1, u2}
    Node = {n1}
    NoNode = NoNode
    Token = {t1, t2, t3, t4}
    Absent = Absent
    MaxSessions = 2
    MaxPerUser = 1
    MaxPerNode = 1
SPECIFICATION Spec
INVARIANTS TypeOK LimitsHold TokensSound
PROPERTY ImplementsAccess
SYMMETRY Symmetric
CHECK_DEADLOCK FALSE
