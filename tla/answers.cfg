SPECIFICATION LiveSpec
CONSTANTS
    Server = {s1, s2, s3}
    Command = {c1, c2}
    Nil = Nil
    Noop = Noop
    SnapshotThreshold = 1
    Electable = {}
    MaxTerm = 2
    MaxReads = 1
    MaxRestarts = 0
    MaxOrphans = 0
    First = s1
    Voter = s2
    Third = s3
INVARIANTS
    AckedIsDurable
PROPERTIES
    LoopsReturn
CHECK_DEADLOCK FALSE
