SPECIFICATION TenantsSpec
CONSTANTS
    \* TenancyMigration
    Keys = {"k"}
    Projects = {"default", "nlt-ideas-scout"}
    Agents = {"unknown", "ingest", "legacy-unattributed"}
    Approvals = {{"nlt-ideas-scout"}, {"nlt-ideas-scout", "default"}}
    Times = {1}
    MaxRows = 2
    MaxWrites = 1
    MaxPlans = 2
    \* ResearchCache
    Callers = {c1, c2}
    LookupKinds = {"docs", "search"}
    Ttls = {1}
    MaxHold = 1
    NoCopy = NoCopy
    MaxLookupTime = 2
    \* QualityCircuit
    Checkers = {t1, t2}
    Remedies = {gc}
    Cooldown = 2
    Jitter = 1
    ProbesRequired = 2
    MaxTime = 3
    MaxRuns = 4
INVARIANTS
    NothingLost
    FreshUnlessWarned
PROPERTIES
    NewestSurvives
    RecoveryTakesProbes
