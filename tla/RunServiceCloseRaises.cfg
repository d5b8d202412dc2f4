SPECIFICATION Spec
CONSTANTS
    Runs = {r1}
    Cancellers = {}
    Closers = {s1}
    Requests <- Plain
    NoKey = NoKey
    None = None
    MaxConcurrency = 1
    MaxQueued = 1
    MaxLive = 1
    MaxLivePerDay = 1
    MaxDay = 1
    MaxTraces = 0
    MaxFaults = 0
    MaxGen = 1
    alice = alice
    bob = bob
    k1 = k1
    fpA = fpA
    fpB = fpB
INVARIANT
    CompletedServiceReopens
CHECK_DEADLOCK FALSE
