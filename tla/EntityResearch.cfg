SPECIFICATION LiveSpec
CONSTANTS
    Items = {1, 2}
    Runners = {k1, k2}
    Workers = {w1, w2}
    Nobody = Nobody
    MaxAttempts = 2
    MaxCalls = 2
    MaxCost = 2
    Costs = {1}
    MaxFaults = 1
INVARIANTS
    QuotaHolds
    ExclusiveExecution
PROPERTIES
    CloseEnds
    CompletedIsFinal
    GrantsOnlyToExecutor
CHECK_DEADLOCK FALSE
