SPECIFICATION Spec
CONSTANTS
    Keys = {k1, k2}
    Threads = {t1, t2}
    Cap = 1
    TombstoneLimit = 4
    Ops = {"get", "pass"}
    Embedding = FALSE
    MaxOps = 3
    MaxFail = 0
INVARIANTS NoLostKey
