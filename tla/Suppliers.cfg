\* Every order in which up to three of eight pages are read, then up to one more
\* in the broadened gather and in the replan.
SPECIFICATION SuppliersSpec
CONSTANTS
    acme = acme
    bolt = bolt
    cast = cast
    certified = certified
    rented = rented
    Rows = {acme, bolt, cast}
    PagesOfRun = {1, 2, 3, 4, 5, 6, 7, 8}
    Requirements = {certified, rented}
    RequirementKind <- MCRequirementKind
    Says <- MCSays
    Memory = Memory
    Nothing = Nothing
    OnRequest = {50}
    Phones = {2}
    RecalledTier <- MCRecalledTier
    Enough = 8
    Corroborating = 2
    EmissionScore = 2
    Requests <- MCRequests
    MaxExtract = 3
    MaxPages = 1
    MinValidated = 1
    MaxValidated = 1
    GradeFloor = 3
    Ids = {s1, s2, s3}
    Refs = {e1, e2}
    Processes = {p1, p2}
    None = None
    Creators = {c1, c2}
    Reviewers = {v1, v2}
SYMMETRY Symmetry
INVARIANTS
    OutputIsRight
    ReleasesAreVetted
    ApprovalsStand
    ReviewsKept
PROPERTIES
    PartitionSpec
CHECK_DEADLOCK FALSE
