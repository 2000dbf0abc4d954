CONSTANTS
    Caller = {c1}
    Absent = Absent
    Terminal = {t1, t2}
    Batch = 2
    QueueCap = 2
    Carried <- OnlyPolls
    MaxLinks = 1
    MaxId = 3
    MaxFrames = 1
SPECIFICATION FairPollSpec
PROPERTIES MaxDurationHolds
CHECK_DEADLOCK FALSE
