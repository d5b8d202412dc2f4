SPECIFICATION LiveSpec
CONSTANTS
    MaxQueries = 3
    MaxUrls = 3
    MaxConcurrency = 2
    Capacity <- MCCapacity
    Limited = TRUE
    Cache = TRUE
    Fallback = TRUE
    Budget <- MCBudget
INVARIANTS
    BudgetHolds
    BudgetGoesToBest
    ReasonHolds
PROPERTIES
    RunEnds
CHECK_DEADLOCK FALSE
