SPECIFICATION SharedSpec
CONSTANTS
    \* Sharing
    Workers = {w1, w2}
    Keys = {k1}
    Groups = {g1}
    Tiers = {"context", "pattern"}
    PrivateTiers = {"context"}
    AutoTiers = {"pattern"}
    PublishTiers = {"pattern"}
    Expert = TRUE
    None = None
    MaxCalls = 3
    MaxWaited = 1
    \* Maintenance
    Tenants = {n1, n2}
    TicksPerMonth = 2
    MonthsAhead = 2
    Window = 1
    Retention = 1
    MaxTick = 6
    \* Federation
    Publishers = {p1, p2}
    FedKeys = {k1, k2}
    MaxSyncs = 3
    \* RetentionScan
    Projects = {p1, p2, p3}
    Listed = {p1, p2}
    NoTenant = NoTenant
    MaxFlips = 3
    \* Idempotency
    Requests = {r1, r2, r3}
    Replicas = {s1}
    Routes = {remember, reinforce}
    CheckFails = 1
    SaveFails = 1
    Ages = 1
    CanOversize = TRUE
INVARIANTS
    ReadableUnlessArchived
    HorizonHonest
    CountInSync
    ScanHonest
    AtMostOncePerWindow
PROPERTIES
    WakesUp
    EveryRequestAnswered
