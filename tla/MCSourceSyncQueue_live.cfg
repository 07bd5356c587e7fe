SPECIFICATION FairSpec
CONSTANTS
    k1 = k1  k2 = k2  k3 = k3
    s1 = s1  s2 = s2
    p1 = p1  p2 = p2
    a1 = a1  a2 = a2
    w1 = w1  w2 = w2  w3 = w3
    c1 = c1  c2 = c2
    Key = {k1, k3}
    Source = {s1, s2}
    Provider = {p1}
    Account = {a1}
    Client = {c1}
    Worker = {w1, w2}
    SourceOf <- TwoKeySourceOf
    ProviderOf <- OneLaneProviderOf
    AccountOf <- OneAccountOf
    HoldAccount = {a1}
    Mode = {"normal"}
    DiskErrors = FALSE
    None = None
    MaxCalls = 3
    MaxRestarts = 1
    MaxWorld = 1
    Cancels = FALSE
INVARIANTS
    PersistedUnlessEarly
PROPERTIES
    WaitingJobsLeave
    RestoredJobsRun
CHECK_DEADLOCK FALSE
