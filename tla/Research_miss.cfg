SPECIFICATION RsSpec
CONSTANTS
  Callers = {c1, c2}
  LookupKinds = {"docs", "search"}
  Ttls = {2}
  MaxHold = 1
  NoCopy = NoCopy
  MaxLookupTime = 3
INVARIANTS ResearchFetchedOnMiss
CHECK_DEADLOCK FALSE
