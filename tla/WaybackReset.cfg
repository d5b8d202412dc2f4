SPECIFICATION WaybackSpec
CONSTANTS
    Recoveries = {a1}
    MinInterval = 1
    MaxRetries = 1
    BaseBackoff = 1
    MaxBackoff = 30
    BreakerThreshold = 3
    MaxTime = 4
PROPERTIES
    OnlySuccessResets
CHECK_DEADLOCK FALSE
