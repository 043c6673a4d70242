SPECIFICATION GuardedSpec
CONSTANTS
    n1 = n1
    n2 = n2
    n3 = n3
    c1 = c1
    c2 = c2
    None = None
    Node = {n1, n2, n3}
    Client = {c1, c2}
    Targets <- MCTargets
    Workload <- MCWorkload
    Key <- MCKey
    MaxRetries = 2
    ChannelSize = 1
    MaxFaults = 2
    Faulty = {n1}
    MaxTerm = 2
CONSTRAINT TestRuns
INVARIANTS
    HistoryIsLinearizable
    CheckerIsExact
    SetsItsKey
