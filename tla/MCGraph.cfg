SPECIFICATION GraphSpec
CONSTANTS
    \* KnowledgeGraph
    x = x  y = y  z = z  likes = likes  m1 = m1  m2 = m2
    Names <- MCNames
    Triples <- MCTriples
    EventLists <- MCEventLists
    Actors = {a, b}
    NoOne = NoOne
    Strict = FALSE
    MaxEntries = 1
    Fanout = 1
    KOps = {"entity", "edge", "supersede", "stale", "contradict", "reinforce", "helpful", "misleading", "predicate", "record", "batch", "perEvent", "resolve"}
    MaxWindows = 1
    MaxCalls = 4
    \* ClientCalls
    Tasks = {t1, t2}
    MaxAttempts = 2
    WritingTasks = {t1}
    NoSession = NoSession
    MaxServerRestarts = 1
INVARIANTS
    ActiveTripleUnique OncePerWindow ExplainIsShortest
    NoneAfterRecord
PROPERTIES
    ClosedEdgesStayClosed
SYMMETRY MCSymmetry
