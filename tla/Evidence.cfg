SPECIFICATION MCSpec
CONSTANTS
    MaxRows = 3
    MaxNotes = 1
    MaxHeads = 3
    MaxFaults = 1
    MaxLeaves = 8
    Site = Site
    Mirror = Mirror
    Elsewhere = Elsewhere
    PageCount = 2
    MaxTries = 2
    CallLimit = 3
    MaxWriteErrors = 2
    MaxSides = 3
    OwnConfidences = {50, 100}
    CitedSources <- MCSources
    MaxReliability = 99
    YagerThreshold = 80
    Tau = 500
    MaxMasses = 3
INVARIANTS
    RecordedSurvives
    PublishedIsSound
    ProofsConvince
    ClaimsBacked
    BeliefsAreExact
PROPERTIES
    PublishedHeadStands
CHECK_DEADLOCK FALSE
