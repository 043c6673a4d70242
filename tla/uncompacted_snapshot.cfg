SPECIFICATION Spec
CONSTANTS
    s2 = s2
    s3 = s3
    Server = {s1, s2, s3}
    a = a
    b = b
    c = c
    d = d
    Command = {a, b, c, d}
    Nil = Nil
    Noop = Noop
    SnapshotThreshold = 2
    Self = s1
    Leader <- MCLeader
    LeaderLog <- MCLeaderLog
    LeaderCommit <- MCLeaderCommit
    MaxTerm = 2
    MaxCrashes = 2
INVARIANTS
    AppliesTheLog
CHECK_DEADLOCK FALSE
