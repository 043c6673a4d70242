SPECIFICATION StartedSpec
CONSTANTS
    Server = {s1, s2, s3}
    Command = {c1}
    Nil = Nil
    Noop = Noop
    SnapshotThreshold = 0
    Electable = {s1, s2}
    MaxTerm = 2
    MaxReads = 1
    MaxRestarts = 0
    MaxOrphans = 0
    First = s1
    Voter = s2
    Third = s3
INVARIANTS
    ReadsSeeAckedWrites
CHECK_DEADLOCK FALSE
