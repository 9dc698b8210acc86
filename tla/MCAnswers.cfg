SPECIFICATION AnswersSpec
CONSTANTS
    \* StoreCache
    Keys = {k1, k2, k3}
    Threads = {t1, t2}
    Cap = 2
    TombstoneLimit = 2
    Ops = {"saveUnchecked", "get", "update", "reinforce", "save", "list", "crash"}
    Embedding = FALSE
    MaxOps = 3
    MaxFail = 0
    \* Recall
    Memories = {1, 2}
    Limit = 2
    LocalBudget = 1
    TotalBudget = 1
    DedupeWindows = {{}, {1}}
    MaxChanges = 1
    \* Integrity
    Entries = {k1}
    Contents = {"a", "b", "c"}
    Pipe <- MCPipe
    Nothing = Nothing
    ShortFile = ShortFile
    MaxKeys = 3
    MaxSaves = 1
    MaxPasses = 2
    MaxFaults = 1
    MaxBoots = 1
    \* TierDynamics
    Layers <- MCLayers
    Ceiling = 17
    Boosts = {0, 3}
    FloorRetention = 2
    NoDate = NoDate
    StartConfidences = {4, 10, 18}
    MaxDay = 7
    MaxCount = 2
INVARIANTS
    NoLostKey NoPhantom
    RecallAdmissible RecallComplete
    VouchedIsGenuine
    CollectedWasAtFloor
