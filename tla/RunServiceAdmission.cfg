SPECIFICATION Spec
CONSTANTS
    Runs = {r1, r2, r3}
    Cancellers = {}
    Closers = {}
    Requests <- SharedKeyAndLive
    NoKey = NoKey
    None = None
    MaxConcurrency = 1
    MaxQueued = 1
    MaxLive = 1
    MaxLivePerDay = 1
    MaxDay = 2
    MaxTraces = 0
    MaxFaults = 0
    MaxGen = 2
    alice = alice
    bob = bob
    k1 = k1
    fpA = fpA
    fpB = fpB
SYMMETRY Symmetry
INVARIANTS
    AdmissionLimits
    IdempotentStart
CHECK_DEADLOCK FALSE
