SPECIFICATION Spec
CONSTANTS
    Runs = {r1, r2}
    Cancellers = {c1}
    Closers = {s1}
    Requests <- Plain
    NoKey = NoKey
    None = None
    MaxConcurrency = 1
    MaxQueued = 1
    MaxLive = 1
    MaxLivePerDay = 1
    MaxDay = 1
    MaxTraces = 1
    MaxFaults = 1
    MaxGen = 2
    alice = alice
    bob = bob
    k1 = k1
    fpA = fpA
    fpB = fpB
SYMMETRY Symmetry
INVARIANTS
    WithheldResult
    HistoryMatchesRow
    CancelNotLost
    CleanShutdown
PROPERTY
    WorkerOutcomeIsFinal
CHECK_DEADLOCK FALSE
