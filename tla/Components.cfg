SPECIFICATION ComponentsSpec
CONSTANTS
    Keys <- MCKeys
    Window <- MCWindow
    Limit = 2
    SharedKeys = {"a"}
    Instances = {1, 2}
    ClockSkew <- MCSkew
    FailOpen = FALSE
    MAX_BUCKETS = 2
    Headroom = 1
    SWEEP_EVERY_NEW_KEYS = 2
    MaxClock = 5
    MaxOutages = 1
    Slots = 3
    fresh_days = 1
    recent_days = 2
    aging_days = 4
    stale_days = 6
    BusyDays <- MCBusyDays
    Locations = {1, 2, 3}
    Rows <- MCRows
    KnownCodes = {"cctv", "indoor"}
    RADIUS_OPTIONS_M = {1, 2, 4}
    DEFAULT_RADIUS_M = 2
    PageSize = 1
    MarkerCap = 2
    MaxLon = 4
    MaxLat = 2
    MAX_BROWSE_SPAN_DEG = 4
    InputSorts = {"distance", "security", "rating", "recently_verified", "bogus"}
    InputFilters <- MCFilters
    InputRadii = {2}
    InputBoxes <- MCBoxes
    MaxWrites = 1
    Moments = {3}
    Queries = {"a", "b", "u"}
    Unknowns = {"u"}
    Viewers = {v1, v2}
    CacheTTL = 1
    CacheCapacity = 1
    MaxHour = 2
    Kinds <- MCKinds
    POLICY_LOCALES <- MCLocales
    FallbackLocale = "pt-BR"
    PolicyTokens <- MCTokens
    Releases <- MCReleases
    Seeders = {s1, s2}
    MaxSeedings = 3
    Environments <- MCEnvironments
    Subcommands = {"none", "serve", "seed-mock", "seed-admin", "seed-policies", "retention", "seed-full-fresh", "typo"}
    Users = {"ana", "bia"}
    PerUser = 1
    AnonTokens = {t1, t2, t3}
    NoToken = NoToken
    MaxLaunches = 2
    MaxRequests = 2
SYMMETRY MCSymmetry
INVARIANTS LimiterTruthful ReadersAgree  CacheIsSound NeverUnpublished StartsSafely FormsFollowThePage
 
CHECK_DEADLOCK FALSE
