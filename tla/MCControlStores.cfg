CONSTANTS
    Caller = {c1, c2}
    Absent = Absent
    MaxTime = 2
    Window = 2
    MaxAttempts = 1
    Email = {m1}
    Password = {w1, w2}
    Token = {v1, v2}
    SessionTtl = 2
    RecentMfaTtl = 1
    RequireStepUp = TRUE
    Person = {h1, h2}
    Code = {v1, v2}
    BatchSize = 1
    Challenge = {w1, w2}
    SkewSteps = 1
    MaxFactors = 1
    MaxPeriod = 3
    Counter = {1}
    Host = {h1, h2}
    EnrollToken = {v1, v2}
    Secret = {w1, w2}
    TokenTtl = 1
    CredentialTtl = 1
    OfflineAfter = 1
    MaxRestarts = 1
    MaxInFlight = 2
    Asker = {c1}
    Member = {m1}
    Workspace = {v1, v2}
    WorkspaceRole = {w1, w2}
    Machine = {n1}
    Permission = {"NODE_REVOKE", "TERMINAL_REATTACH"}
    MaxGiven = 3
    Colon = Colon
    Actors <- SomeActors
    Messages <- SomeMessages
    MaxEvents = 2
    Viewer = {h1, h2}
    ReplayCap = 2
    ChannelCap = 1
    MaxOutputs = 3
    Session = {v1, v2}
    NoSession = Absent
    MaxSockets = 2
    MaxCalls = 2
    MaxQueued = 2
    MaxClicks = 2
    Terminal = {n1}
    Batch = 2
    QueueCap = 1
    Carried <- SomeCarried
    MaxLinks = 1
    MaxId = 4
    MaxFrames = 1
    Opener = {c1, c2}
    Peer = {n1, m1}
    Target = {n1}
    UnhealthyAfter = 2
    NoPeer = Absent
    MaxStored = 6
SPECIFICATION Spec
INVARIANTS
    StoresTypeOK AttemptsSpread EndedStaysEnded RedeemedOnce OneCredentialPerChallenge
    TotpCodesExpire OneNodePerToken NodesKeepTheirHost OnlineEndsWithCredential
    AllowedInItsWorkspace LogIsChained VerifiedCopyIsPrefix ReplayJoinsLive OneOpenSocket
     IdsOrderCommands MigrationsApply
PROPERTIES GrantsAreFresh ReplacedCodesDead IdentityKept DeniedForAReason UnhealthyIsFinal OnlyRecordsOutlive
SYMMETRY Symmetric
CHECK_DEADLOCK FALSE
