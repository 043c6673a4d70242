SPECIFICATION StartedSpec
CONSTANTS
    Server = {s1, s2, s3}
    Command = {}
    Nil = Nil
    Noop = Noop
    SnapshotThreshold = 0
    Electable = {s2, s3}
    MaxTerm = 2
    MaxReads = 1
    MaxRestarts = 1
    MaxOrphans = 0
    First = s1
    Voter = s2
    Third = s3
INVARIANTS
    ElectionSafety
CHECK_DEADLOCK FALSE
