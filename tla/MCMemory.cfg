SPECIFICATION MemorySpec
CONSTANTS
    \* Lifecycle
    Sources = {a, b}
    Threads = {t1, t2}
    None = None
    Conflict = Conflict
    LOps = {"save", "undoConflict", "promote", "demote", "supersede", "gc", "refresh", "decay", "merge", "scan", "undoMerge", "forget"}
    MaxOps = 2
    MaxFail = 1
    \* AsyncFacade
    AKeys = {k1, k2}
    Writers = {w1, w2}
    WriteSlots = 2
    NoEntry = NoEntry
    Cancels = TRUE
    MaxStamp = 3
    \* Transfer
    Bases = {"ab", "a__b"}
    SlugOf <- MCSlugOf
    InnerBase = "steps"
    MaxSteps = 3
    MaxJobs = 3
    \* Relay
    ItemKeys = {k1}
    RelayValues = {v1, v2}
    Absent = Absent
    Malformed = Malformed
    DocLength = 2
    MaxRuns = 2
    \* Documents
    DocIds = {d1, d2, d3}
    Putters = {p1, p2}
    Texts <- MCTexts
    ChunkChars = 5
    MaxChunks = 2
    MaxDocs = 1
    Forever = Forever
    NoDoc = NoDoc
    MaxClock = 2
INVARIANTS
    OpenMeansOpen SuccessorExists
    InStep
    RoundTripStable
    RerunCompletes
    IndexedMeansChunked
SYMMETRY MCSymmetry
