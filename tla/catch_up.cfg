SPECIFICATION LiveSpec
CONSTANTS
    Server = {s1, s2, s3}
    Command = {}
    Nil = Nil
    Noop = Noop
    SnapshotThreshold = 0
    Electable = {s2}
    MaxTerm = 2
    MaxReads = 0
    MaxRestarts = 0
    MaxOrphans = 0
    First = s1
    Voter = s2
    Third = s3
PROPERTIES
    EveryoneCatchesUp
CHECK_DEADLOCK FALSE
