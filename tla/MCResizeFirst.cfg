CONSTANTS
    Session = {s1, s2}
    NoSession = NoSession
    MaxSockets = 2
    MaxCalls = 2
    MaxQueued = 2
    MaxClicks = 3
SPECIFICATION BridgeSpec
INVARIANT ConnectionsBegin
SYMMETRY Symmetric
CHECK_DEADLOCK FALSE
