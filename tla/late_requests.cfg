SPECIFICATION DivergedSpec
CONSTANTS
    Server = {s1, s2, s3}
    Command = {}
    Nil = Nil
    Noop = Noop
    SnapshotThreshold = 0
    Electable = {s1}
    MaxTerm = 3
    MaxReads = 0
    MaxRestarts = 0
    MaxOrphans = 1
    First = s1
    Voter = s2
    Third = s3
INVARIANTS
    VoteOnce
    LogMatching
    CommittedEntriesAgree
PROPERTIES
    LeaderAppendOnly
CHECK_DEADLOCK FALSE
