SPECIFICATION MCSpec
CONSTANTS
    s1 = s1  s2 = s2  p1 = p1  d = d  u = u  g1 = g1  g2 = g2  f1 = f1  f2 = f2
    Source = {s1, s2}
    Provider = {p1}
    ProviderOf <- OneLane
    Canceller = {d, u}
    Deleter = d
    Generator = {g1}
    MaxFiles = 1
    File = {f1}
    TimeOuts = TRUE
    BadBatches = TRUE
    DiskErrors = TRUE
    DbErrors = TRUE
    None = None
    MaxCalls = 3
    MaxHolds = 1
    MaxSlips = 4
INVARIANTS
    LedgerMatches
CHECK_DEADLOCK FALSE
