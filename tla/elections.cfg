SPECIFICATION PersistedSpec
ACTION_CONSTRAINT SnapshotLogsGrow
CONSTRAINT ShortRun
CONSTANTS
    Server = {s1, s2, s3}
    Command = {}
    Nil = Nil
    Noop = Noop
    SnapshotThreshold = 1
    Electable = {s1, s2}
    MaxTerm = 2
    MaxReads = 0
    MaxRestarts = 1
    MaxOrphans = 0
    First = s1
    Voter = s2
    Third = s3
VIEW WithoutLed
SYMMETRY Symmetry
INVARIANTS
    VoteInv
    LogContiguous
    NoPanic
    ElectionSafety
PROPERTIES
    NothingTakenBack
    ImplementsBallots
CHECK_DEADLOCK FALSE
