SPECIFICATION Spec
CONSTANTS
    Templates = {t1, t2}
    EntityQueries = {e1}
    u1 = u1
    u2 = u2
    u3 = u3
    Urls = {u1, u2, u3}
    UrlScore <- Scores
    MaxScore = 4
    Floor = 2
    SearchHold = 2
    FetchHold = 3
    MaxRounds = 4
    Caps <- SmallCaps
    KeptSearches = 1
    p1 = p1
    p2 = p2
    p3 = p3
    r1 = r1
    r2 = r2
    d1 = d1
    RecipeRuns = {r1, r2}
    PageUrls = {p1, p2, p3}
    PageKind <- Kinds3
    Plan <- SearchAndFetch
    RecipeCaps <- RecipeBudget
    Left <- LeftOver
    MinPages = 1
    Judges = {j1, j2}
    MinSuccesses = 1
    MinJudges = 2
    MaxJudgements = 2
    Definitions = {d1, d2}
    Unset = Unset
    s1 = s1
    s2 = s2
    Strategies <- TwoStrategies
    Suppliers = {s1, s2}
    Dimensions = {"quote", "geo"}
    Fit <- Fits
    Weight <- Weights
    GapBelow <- Thresholds
    MaxTrajectories = 2
    MaxRefinements = 2
    SearchCap = 2
    FetchCap = 1
    FullCoverage = 3
    h1 = h1
    h2 = h2
    Fetchers = {f1, f2}
    Requested <- BestFirst
    FetchLeft = 2
    MaxFallback = 3
    Ttl = 0
    LastDay = 1
    Recoveries = {a1, a2}
    MinInterval = 1
    MaxRetries = 1
    BaseBackoff = 1
    MaxBackoff = 30
    BreakerThreshold = 3
    MaxTime = 4
INVARIANTS
    NothingTwice
    SpentOrDone
    ShadowIsFair
    NoFictitiousSupplier
    PagesAreVetted
PROPERTIES
    ArchiveSpared
CHECK_DEADLOCK FALSE
SYMMETRY Symmetry
