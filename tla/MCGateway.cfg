SPECIFICATION EdgeSpec
CONSTANTS
    \* Gateway
    Projects = {p, lit}
    Literals = {lit}
    NoProject = NoProject
    Requests = {q1, q2}
    Replicas = {s1, s2}
    Deployments <- MCDeployments
    MaxAdmin = 1
    Nobody = Nobody
    \* StoreCache
    Keys = {k1, k2, k3}
    Threads = {t1}
    Cap = 2
    TombstoneLimit = 2
    Ops = {"save", "saveUnchecked", "get", "update", "reinforce", "delete", "list", "pass", "crash"}
    Embedding = TRUE
    MaxOps = 3
    MaxFail = 1
    \* RateLimiter
    Savers = {t1, t2}
    Limit = 2
    LifetimeWarn = 3
    Window = 2
    Enforce = TRUE
    MaxLimiterTime = 4
    MaxChecks = 6
    \* Sessions
    SessionIds = {s1, s2}
    ChunkTexts = {"p", "pq", "blank"}
    WordsOf <- MCWordsOf
    Words = {"p", "q"}
    ChunksPerCall = 2
    MaxInMemory = 3
    TtlDays = 1
    MaxSessionDay = 3
    MaxCalls = 4
INVARIANTS
    CredentialWasValid DuplicatesExecuteOnce
    NeverForgets
    IndexesAgree
PROPERTIES
    AtomicOperations
SYMMETRY MCSymmetry
