SPECIFICATION ServingSpec
CONSTANTS
    \* Connections
    Users = {p1, p2}
    CacheKeys = {k1, k2}
    Scopes = {sProject, sAdmin}
    CacheMax = 1
    PoolMax = 1
    MaxUses = 3
    Free = Free
    \* ServingCaches
    Requests = {p1, p2}
    Ttl = 2
    MaxFetch = 1
    MaxNow = 3
    MaxWrites = 1
    NoValue = NoValue
    \* Migrations
    Runners = {p1, p2}
    Latest = 3
    Bundles = {2, 3}
    Roles = {"auto", "apply", "rollback"}
    MaxFaults = 2
    MaxRestarts = 2
    \* SpanCircuit
    Exporters = {e1, e2, e3}
    MaxFailures = 2
    OpenFor = 2
    MaxClock = 6
    Closed = Closed
    \* Flywheel
    Processors = {p1, p2}
    Daemon = p1
    LastEvent = 3
    Project <- MCProject
    FlushEvery = 2
    Threshold = 2
    MaxStops = 2
    MaxConf = 1
    \* DocValidation
    Entries <- MCEntries
    Claims <- MCClaims
    MaxTags = 5
    MaxDocTags = 3
    MaxRefTags = 2
    MaxLookups = 2
    Interval = 2
    Floor = 1
    Ceiling = 2
    Unread = Unread
    MaxDay = 2
INVARIANTS
    ScopeExact
    ServedRecently
    PrefixRecorded
    TrippedIsOpen
    NothingSkipped
PROPERTIES
    EveryRunnerEnds
    AdjustedOncePerInterval
