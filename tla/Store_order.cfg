SPECIFICATION Spec
CONSTANTS
    Keys = {k1, k2}
    Threads = {t1, t2}
    Cap = 2
    TombstoneLimit = 4
    Ops = {"saveUnchecked"}
    Embedding = FALSE
    MaxOps = 3
    MaxFail = 0
INVARIANTS WriteThrough
